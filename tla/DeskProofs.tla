----------------------------- MODULE DeskProofs -----------------------------
(***************************************************************************)
(* What surrounds a ticket - its desk, and the hub that shows it live -    *)
(* for any queues, tables, tickets, accounts, requests, streams and        *)
(* publishers, with crashes anywhere.                                      *)
(*                                                                         *)
(* The desk's handlers hold no transaction, so its inductive invariant     *)
(* speaks of each request in progress: what it was asked for is written,   *)
(* lost to a named cause or still on its list, and what it read before is  *)
(* still there unless it was marked as overtaken.  The hub's rests on its  *)
(* mutex.                                                                  *)
(***************************************************************************)
EXTENDS SseHub, Desk, SequenceTheorems, TLAPS


(* What a request in progress holds of the ticket, queue and rows it is   *)
(* about.                                                                 *)
HeldOK(q) ==
  /\ q.pc \in {"create", "edit", "touch"} => q.ticket \in Tickets
  /\ q.pc = "create" => q.priority \in Priorities
  /\ q.pc = "sla" => q.queue \in Queues
  /\ IF q.pc \in {"create", "look", "insert"} THEN q.todo # <<>> ELSE q.todo = <<>>

(* Every row asked for is written, removed, known to be missing or still  *)
(* to be written.                                                         *)
AccountOK(q, there) ==
  q.asked \subseteq there \cup q.removed \cup q.missed \cup RowsOf(q.todo)

(* A row the request found free is taken only by a rival.                 *)
RaceOK(q, there) ==
  /\ q.pc = "insert" /\ Head(q.todo).row \in there => q.raced
  /\ q.missed # {} => q.raced /\ q.missed \cap (there \cup q.removed) # {}

(* The tag of a label still to be attached is there or comes before it.   *)
TagFirst(items, there) ==
  \A t \in Tickets, l \in Labels, i \in 1 .. Len(items) :
    items[i].row = TicketTag(t, l) =>
      \/ Tag(l) \in there
      \/ \E j \in 1 .. i - 1 : items[j].row = Tag(l)

(* An SLA edit read a queue that was there.                               *)
EditOK(q, queues) == q.pc = "sla" => queues[q.queue].there # "gone" \/ q.raced

SlotOK(q, there, queues) ==
  /\ q \in Request
  /\ HeldOK(q)
  /\ AccountOK(q, there)
  /\ RaceOK(q, there)
  /\ TagFirst(q.todo, there)
  /\ EditOK(q, queues)

(* The note whose touch is still to come is the ticket's last one.        *)
NoteOK(t) ==
  Exists(t) =>
    \/ ticket[t].noted <= ticket[t].updated
    \/ t \in unsorted
    \/ \E s \in Slots : /\ proc[s].pc = "touch" /\ proc[s].ticket = t
                        /\ ticket[t].noted <= proc[s].at

IInv ==
  /\ TypeOK
  /\ \A s \in Slots : SlotOK(proc[s], rows, queue)
  /\ \A t \in Tickets : NoteOK(t)
  /\ AlwaysOnTheClock
  /\ LabelsHaveTags
-----------------------------------------------------------------------------
(* Lists of rows to write.                                                *)

LEMMA RestOfList ==
  ASSUME NEW S, NEW items \in Seq(S), items # <<>>
  PROVE  /\ Head(items) = items[1] /\ Head(items) \in S
         /\ Tail(items) \in Seq(S)
         /\ 1 \in 1 .. Len(items)
         /\ Len(Tail(items)) = Len(items) - 1
         /\ \A i \in 1 .. Len(Tail(items)) : Tail(items)[i] = items[i + 1]
         /\ Len(items) \in Nat
  BY HeadTailProperties, LenProperties

LEMMA RowsOfRest ==
  ASSUME NEW items \in Seq(Items), items # <<>>
  PROVE  /\ RowsOf(items) = {Head(items).row} \cup RowsOf(Tail(items))
         /\ Head(items).row \in Rows /\ Head(items).fatal \in BOOLEAN
         /\ RowsOf(items) \subseteq Rows
<1>1. /\ Head(items) = items[1] /\ Head(items) \in Items
      /\ Tail(items) \in Seq(Items) /\ 1 \in 1 .. Len(items)
      /\ Len(Tail(items)) = Len(items) - 1 /\ Len(items) \in Nat
      /\ \A i \in 1 .. Len(Tail(items)) : Tail(items)[i] = items[i + 1]
  BY RestOfList
<1>2. DOMAIN items = 1 .. Len(items) /\ DOMAIN Tail(items) = 1 .. Len(Tail(items))
  BY <1>1, LenProperties
<1>3. RowsOf(items) \subseteq {Head(items).row} \cup RowsOf(Tail(items))
  <2>1. SUFFICES ASSUME NEW i \in 1 .. Len(items)
                 PROVE  items[i].row \in {Head(items).row} \cup RowsOf(Tail(items))
    BY <1>2 DEF RowsOf
  <2>2. CASE i = 1
    BY <1>1, <2>2
  <2>3. CASE i # 1
    <3>1. i - 1 \in 1 .. Len(Tail(items)) /\ Tail(items)[i - 1] = items[i]
      BY <1>1, <2>3
    <3>2. QED
      BY <1>2, <3>1 DEF RowsOf
  <2>4. QED
    BY <2>2, <2>3
<1>4. {Head(items).row} \cup RowsOf(Tail(items)) \subseteq RowsOf(items)
  <2>1. \A i \in DOMAIN Tail(items) : i + 1 \in DOMAIN items
    BY <1>1, <1>2
  <2>2. QED
    BY <1>1, <1>2, <2>1 DEF RowsOf
<1>5. \A i \in 1 .. Len(items) : items[i] \in Items
  BY ElementOfSeq
<1>6. RowsOf(items) \subseteq Rows /\ Head(items).row \in Rows
        /\ Head(items).fatal \in BOOLEAN
  BY <1>1, <1>2, <1>5 DEF RowsOf, Items
<1>7. QED
  BY <1>3, <1>4, <1>6

LEMMA NoRows == RowsOf(<<>>) = {} /\ <<>> \in Seq(Items) /\ Len(<<>>) = 0
<1>1. DOMAIN <<>> = 1 .. 0
  BY EmptySeq, LenProperties
<1>2. QED
  BY <1>1, EmptySeq DEF RowsOf

(* A rest of a list keeps its tags before its labels.                     *)
LEMMA TagFirstRest ==
  ASSUME NEW items \in Seq(Items), items # <<>>,
         NEW there, TagFirst(items, there), Head(items).row \in there
  PROVE  TagFirst(Tail(items), there)
<1>1. /\ Head(items) = items[1]
      /\ Len(Tail(items)) = Len(items) - 1 /\ Len(items) \in Nat
      /\ \A i \in 1 .. Len(Tail(items)) : Tail(items)[i] = items[i + 1]
  BY RestOfList
<1>2. SUFFICES ASSUME NEW t \in Tickets, NEW l \in Labels,
                      NEW i \in 1 .. Len(Tail(items)),
                      Tail(items)[i].row = TicketTag(t, l), Tag(l) \notin there
               PROVE  \E j \in 1 .. i - 1 : Tail(items)[j].row = Tag(l)
  BY DEF TagFirst
<1>3. i + 1 \in 1 .. Len(items) /\ items[i + 1].row = TicketTag(t, l)
  BY <1>1, <1>2
<1>4. PICK j \in 1 .. (i + 1) - 1 : items[j].row = Tag(l)
  BY <1>2, <1>3 DEF TagFirst
<1>5. j # 1
  BY <1>1, <1>2, <1>4
<1>6. j - 1 \in 1 .. i - 1 /\ Tail(items)[j - 1] = items[j]
  BY <1>1, <1>3, <1>5
<1>7. QED
  BY <1>4, <1>6

(* The rows that are no labels need no tag.                               *)
Plain(items) == \A i \in 1 .. Len(items) : items[i].row[1] # "label"

LEMMA PlainList ==
  ASSUME NEW items \in Seq(Items), Plain(items), NEW there
  PROVE  TagFirst(items, there)
  BY DEF Plain, TagFirst, TicketTag

LEMMA InvitationList ==
  ASSUME NEW t \in Tickets, NEW users \in Lists
  PROVE  /\ Invitations(t, users) \in Seq(Items)
         /\ Plain(Invitations(t, users))
         /\ users # <<>> => Invitations(t, users) # <<>>
<1> DEFINE inv == Invitations(t, users)
<1>1. users \in Seq(Users)
  <2>1. CASE users = <<>>
    BY <2>1, EmptySeq
  <2>2. ASSUME NEW u \in Users, users = <<u>> PROVE users \in Seq(Users)
    BY <2>2
  <2>3. CASE users \in Users \X Users
    <3>1. PICK u \in Users, v \in Users : users = <<u, v>>
      BY <2>3
    <3>2. QED
      BY <3>1
  <2>4. QED
    BY <2>1, <2>2, <2>3 DEF Lists
<1>2. /\ Len(users) \in Nat /\ DOMAIN users = 1 .. Len(users)
      /\ \A i \in 1 .. Len(users) : users[i] \in Users
  BY <1>1, LenProperties, ElementOfSeq
<1>3. inv = [i \in 1 .. Len(users) |-> Must(Watcher(t, users[i]))]
  BY <1>2 DEF Invitations
<1>4. \A i \in 1 .. Len(users) :
        Must(Watcher(t, users[i])) \in Items
          /\ Must(Watcher(t, users[i])).row[1] = "watcher"
  BY <1>2 DEF Must, Watcher, Items, Rows
<1>5. inv \in Seq(Items)
  BY <1>2, <1>3, <1>4
<1>6. Len(inv) = Len(users)
  BY <1>2, <1>3, <1>5, LenProperties
<1>7. Plain(inv)
  BY <1>3, <1>4, <1>6 DEF Plain
<1>8. users # <<>> => inv # <<>>
  BY <1>1, <1>5, <1>6, EmptySeq
<1>9. QED
  BY <1>5, <1>7, <1>8

LEMMA SingleItem ==
  ASSUME NEW item \in Items
  PROVE  /\ <<item>> \in Seq(Items) /\ <<item>> # <<>>
         /\ Len(<<item>>) = 1 /\ <<item>>[1] = item
  OBVIOUS

(* A creation's list: the auto-watch and the invitations.                 *)
LEMMA CreationList ==
  ASSUME NEW t \in Tickets, NEW u \in Users, NEW users \in Lists
  PROVE  LET items == <<[row |-> Watcher(t, u), fatal |-> FALSE]>>
                        \o Invitations(t, users)
         IN  items \in Seq(Items) /\ items # <<>> /\ TagFirst(items, rows)
<1> DEFINE auto == [row |-> Watcher(t, u), fatal |-> FALSE]
           inv == Invitations(t, users)
           items == <<auto>> \o inv
<1>1. auto \in Items /\ auto.row[1] = "watcher"
  BY DEF Watcher, Items, Rows
<1>2. inv \in Seq(Items) /\ Plain(inv)
  BY InvitationList
<1>3. /\ <<auto>> \in Seq(Items) /\ Len(<<auto>>) = 1 /\ <<auto>>[1] = auto
  BY <1>1, SingleItem
<1>4. /\ items \in Seq(Items) /\ Len(items) = 1 + Len(inv) /\ Len(inv) \in Nat
      /\ \A i \in 1 .. 1 + Len(inv) :
           items[i] = IF i <= 1 THEN <<auto>>[i] ELSE inv[i - 1]
  BY <1>2, <1>3, ConcatProperties, LenProperties
<1>5. Plain(items)
  <2>1. SUFFICES ASSUME NEW i \in 1 .. 1 + Len(inv) PROVE items[i].row[1] # "label"
    BY <1>4 DEF Plain
  <2>2. CASE i = 1
    BY <1>1, <1>3, <1>4, <2>2
  <2>3. CASE i # 1
    <3>1. i - 1 \in 1 .. Len(inv) /\ items[i] = inv[i - 1]
      BY <1>4, <2>3
    <3>2. QED
      BY <1>2, <3>1 DEF Plain
  <2>4. QED
    BY <2>2, <2>3
<1>6. items # <<>>
  BY <1>4, EmptySeq
<1>7. QED
  BY <1>4, <1>5, <1>6, PlainList

(* A label's list: its tag, then its attachment.                          *)
LEMMA LabelList ==
  ASSUME NEW t \in Tickets, NEW l \in Labels
  PROVE  /\ LabelItems(t, l) \in Seq(Items) /\ LabelItems(t, l) # <<>>
         /\ Len(LabelItems(t, l)) = 2
         /\ LabelItems(t, l)[1].row = Tag(l)
         /\ LabelItems(t, l)[2].row = TicketTag(t, l)
         /\ TagFirst(LabelItems(t, l), rows)
<1> DEFINE items == LabelItems(t, l)
<1>1. Must(Tag(l)) \in Items /\ Must(TicketTag(t, l)) \in Items
  BY DEF Must, Tag, TicketTag, Items, Rows
<1>2. /\ items \in Seq(Items) /\ items # <<>> /\ Len(items) = 2
      /\ items[1].row = Tag(l) /\ items[2].row = TicketTag(t, l)
  BY <1>1 DEF LabelItems, Must
<1>3. TagFirst(items, rows)
  <2>1. SUFFICES ASSUME NEW u \in Tickets, NEW k \in Labels, NEW i \in 1 .. 2,
                        items[i].row = TicketTag(u, k)
                 PROVE  \E j \in 1 .. i - 1 : items[j].row = Tag(k)
    BY <1>2 DEF TagFirst
  <2>2. Tag(l) # TicketTag(u, k)
    BY DEF Tag, TicketTag
  <2>3. i = 2
    BY <1>2, <2>1, <2>2
  <2>4. k = l
    BY <1>2, <2>1, <2>3 DEF TicketTag
  <2>5. 1 \in 1 .. i - 1
    BY <2>3
  <2>6. QED
    BY <1>2, <2>4, <2>5
<1>4. QED
  BY <1>2, <1>3

(* A link's list: the link, and a label when there is one.                *)
LEMMA LinkList ==
  ASSUME NEW p \in Problems, NEW t \in Tickets, NEW l \in Labels \cup {None}
  PROVE  LET items == <<Must(ProblemTicket(p, t))>>
                        \o (IF l = None THEN <<>> ELSE LabelItems(t, l))
         IN  items \in Seq(Items) /\ items # <<>> /\ TagFirst(items, rows)
<1> DEFINE link == Must(ProblemTicket(p, t))
           rest == IF l = None THEN <<>> ELSE LabelItems(t, l)
           items == <<link>> \o rest
<1>1. link \in Items /\ link.row[1] = "problem"
  BY DEF Must, ProblemTicket, Items, Rows
<1>2. /\ <<link>> \in Seq(Items) /\ Len(<<link>>) = 1 /\ <<link>>[1] = link
  BY <1>1, SingleItem
<1>3. rest \in Seq(Items) /\ TagFirst(rest, rows)
  <2>1. CASE l = None
    BY <2>1, NoRows DEF TagFirst
  <2>2. CASE l # None
    BY <2>2, LabelList
  <2>3. QED
    BY <2>1, <2>2
<1>4. /\ items \in Seq(Items) /\ Len(items) = 1 + Len(rest) /\ Len(rest) \in Nat
      /\ \A i \in 1 .. 1 + Len(rest) :
           items[i] = IF i <= 1 THEN <<link>>[i] ELSE rest[i - 1]
  BY <1>2, <1>3, ConcatProperties, LenProperties
<1>5. TagFirst(items, rows)
  <2>1. SUFFICES ASSUME NEW u \in Tickets, NEW k \in Labels,
                        NEW i \in 1 .. 1 + Len(rest),
                        items[i].row = TicketTag(u, k), Tag(k) \notin rows
                 PROVE  \E j \in 1 .. i - 1 : items[j].row = Tag(k)
    BY <1>4 DEF TagFirst
  <2>2. i # 1
    BY <1>1, <1>2, <1>4, <2>1 DEF TicketTag
  <2>3. i - 1 \in 1 .. Len(rest) /\ items[i] = rest[i - 1]
    BY <1>4, <2>2
  <2>4. PICK j \in 1 .. (i - 1) - 1 : rest[j].row = Tag(k)
    BY <1>3, <2>1, <2>3 DEF TagFirst
  <2>5. j + 1 \in 1 .. i - 1 /\ items[j + 1] = rest[j]
    BY <1>4, <2>3
  <2>6. QED
    BY <2>4, <2>5
<1>6. items # <<>>
  BY <1>4, EmptySeq
<1>7. QED
  BY <1>4, <1>5, <1>6

-----------------------------------------------------------------------------
(* Frames: what a step leaves alone.                                      *)

(* One request moves on, and the rows and queues are as they were.        *)
LEMMA OneSlot ==
  ASSUME IInv, NEW s \in Slots, NEW held, SlotOK(held, rows, queue),
         proc' = [proc EXCEPT ![s] = held], rows' = rows, queue' = queue
  PROVE  /\ proc' \in [Slots -> Request]
         /\ \A x \in Slots : SlotOK(proc'[x], rows', queue')
<1>1. proc \in [Slots -> Request] /\ held \in Request
  BY DEF IInv, TypeOK, SlotOK
<1>2. \A x \in Slots : SlotOK(proc'[x], rows', queue')
  BY <1>1 DEF IInv
<1>3. QED
  BY <1>1, <1>2

(* A touch still to come keeps its note from being lost.                  *)
LEMMA NotesSame ==
  ASSUME IInv, ticket' = ticket, unsorted \subseteq unsorted',
         \A x \in Slots : proc[x].pc = "touch" =>
           \/ /\ proc'[x].pc = "touch"
              /\ proc'[x].ticket = proc[x].ticket /\ proc'[x].at = proc[x].at
           \/ proc[x].ticket \in unsorted'
  PROVE  \A t \in Tickets : NoteOK(t)'
<1> SUFFICES ASSUME NEW t \in Tickets, Exists(t) PROVE NoteOK(t)'
  BY DEF NoteOK, Exists
<1>1. NoteOK(t)
  BY DEF IInv
<1>2. QED
  BY <1>1 DEF NoteOK, Exists

LEMMA InitIInv == Init => IInv
<1> SUFFICES ASSUME Init PROVE IInv
  OBVIOUS
<1>1. Idle \in Request
  BY NoRows DEF Idle, Request
<1>2. SlotOK(Idle, rows, queue)
  BY <1>1, NoRows
  DEF SlotOK, HeldOK, AccountOK, RaceOK, TagFirst, EditOK, Idle
<1>3. \A s \in Slots : proc[s] = Idle
  BY DEF Init
<1>4. queue \in [Queues -> QueueRows]
  BY DEF Init, QueueRows
<1>5. ticket \in [Tickets -> TicketRows]
  BY DEF Init, TicketRows
<1>6. TypeOK
  BY <1>1, <1>4, <1>5 DEF Init, TypeOK
<1>7. AlwaysOnTheClock /\ \A t \in Tickets : NoteOK(t)
  <2>1. None # 0
    BY DeskAssumption
  <2>2. \A t \in Tickets :
          ticket[t].noted = 0 /\ ticket[t].updated = 0 /\ (Exists(t) => ticket[t].due = 0)
    BY DEF Init, Exists
  <2>3. QED
    BY <2>1, <2>2 DEF AlwaysOnTheClock, NoteOK
<1>8. LabelsHaveTags
  BY DEF Init, LabelsHaveTags
<1>9. QED
  BY <1>2, <1>3, <1>6, <1>7, <1>8 DEF IInv

(* A request that only starts.                                            *)
LEMMA BeginIInv ==
  ASSUME IInv, NEW s \in Slots, NEW held, Begin(s, held), SlotOK(held, rows, queue),
         UNCHANGED <<queue, ticket, rows, unsorted, clock>>
  PROVE  IInv'
<1>1. /\ proc' = [proc EXCEPT ![s] = held] /\ proc[s].pc = "idle"
      /\ ops' = ops + 1 /\ proc \in [Slots -> Request]
  BY DEF Begin, IInv, TypeOK
<1>2. proc' \in [Slots -> Request] /\ \A x \in Slots : SlotOK(proc'[x], rows', queue')
  BY <1>1, OneSlot
<1>3. TypeOK'
  BY <1>1, <1>2 DEF IInv, TypeOK
<1>4. \A t \in Tickets : NoteOK(t)'
  BY <1>1, NotesSame
<1>5. QED
  BY <1>2, <1>3, <1>4 DEF IInv, AlwaysOnTheClock, LabelsHaveTags, Exists

LEMMA AsksIInv ==
  ASSUME IInv, NEW s \in Slots, NEW items \in Seq(Items), items # <<>>,
         TagFirst(items, rows), Asks(s, items)
  PROVE  IInv'
<1> DEFINE held == Write(items)
<1>1. /\ held.pc = "look" /\ held.todo = items /\ held.asked = RowsOf(items)
      /\ held.missed = {} /\ held.removed = {} /\ held.raced = FALSE
  BY DEF Write, Idle
<1>2. held \in Request
  BY RowsOfRest, NoRows DEF Write, Idle, Request
<1>3. SlotOK(held, rows, queue)
  BY <1>1, <1>2 DEF SlotOK, HeldOK, AccountOK, RaceOK, EditOK
<1>4. QED
  BY <1>3, BeginIInv DEF Asks

LEMMA NewRequestIInv ==
  ASSUME IInv, NEW s \in Slots, NewRequest(s)
  PROVE  IInv'
<1>1. ASSUME NEW t \in Tickets, NEW u \in Users, Watch(s, t, u) PROVE IInv'
  <2>1. Must(Watcher(t, u)) \in Items /\ Must(Watcher(t, u)).row[1] = "watcher"
    BY DEF Must, Watcher, Items, Rows
  <2>2. Plain(<<Must(Watcher(t, u))>>)
    BY <2>1, SingleItem DEF Plain
  <2>3. QED
    BY <1>1, <2>1, <2>2, SingleItem, PlainList, AsksIInv DEF Watch
<1>2. ASSUME NEW q \in Queues, NEW u \in Users, MemberAdd(s, q, u) PROVE IInv'
  <2>1. Must(Member(q, u)) \in Items /\ Must(Member(q, u)).row[1] = "member"
    BY DEF Must, Member, Items, Rows
  <2>2. Plain(<<Must(Member(q, u))>>)
    BY <2>1, SingleItem DEF Plain
  <2>3. QED
    BY <1>2, <2>1, <2>2, SingleItem, PlainList, AsksIInv DEF MemberAdd
<1>3. ASSUME NEW t \in Tickets, NEW users \in Lists, WatchByEmails(s, t, users)
      PROVE  IInv'
  BY <1>3, InvitationList, PlainList, AsksIInv DEF WatchByEmails
<1>4. ASSUME NEW t \in Tickets, NEW l \in Labels, AddLabel(s, t, l) PROVE IInv'
  BY <1>4, LabelList, AsksIInv DEF AddLabel
<1>5. ASSUME NEW p \in Problems, NEW t \in Tickets, NEW l \in Labels \cup {None},
             LinkTicket(s, p, t, l)
      PROVE  IInv'
  BY <1>5, LinkList, AsksIInv DEF LinkTicket
<1>6. ASSUME NEW q \in Queues, NEW table \in Tables, SLALoad(s, q, table)
      PROVE  IInv'
  <2> DEFINE held == [Idle EXCEPT !.pc = "sla", !.queue = q, !.sla = table]
  <2>1. held \in Request
    BY NoRows DEF Idle, Request
  <2>2. SlotOK(held, rows, queue)
    BY <1>6, <2>1, NoRows
    DEF SLALoad, SlotOK, HeldOK, AccountOK, RaceOK, TagFirst, EditOK, Idle
  <2>3. QED
    BY <1>6, <2>2, BeginIInv DEF SLALoad
<1>7. ASSUME NEW t \in Tickets, NEW q \in Queues, NEW p \in Priorities,
             NEW u \in Users, NEW users \in Lists, CreateLoad(s, t, q, p, u, users)
      PROVE  IInv'
  <2> DEFINE items == <<[row |-> Watcher(t, u), fatal |-> FALSE]>>
                        \o Invitations(t, users)
             held == [Idle EXCEPT !.pc = "create", !.ticket = t, !.queue = q,
                        !.sla = queue[q].sla, !.priority = p, !.at = clock,
                        !.todo = items, !.asked = RowsOf(items)]
  <2>1. items \in Seq(Items) /\ items # <<>> /\ TagFirst(items, rows)
    BY CreationList
  <2>2. queue[q].sla \in Tables \cup {NoTable} /\ clock \in Nat
    BY DEF IInv, TypeOK, QueueRows
  <2>3. held \in Request
    BY <2>1, <2>2, RowsOfRest, NoRows DEF Idle, Request
  <2>4. /\ held.pc = "create" /\ held.todo = items /\ held.asked = RowsOf(items)
        /\ held.missed = {} /\ held.ticket = t /\ held.priority = p
    BY DEF Idle
  <2>5. SlotOK(held, rows, queue)
    BY <2>1, <2>3, <2>4 DEF SlotOK, HeldOK, AccountOK, RaceOK, EditOK
  <2>6. QED
    BY <1>7, <2>5, BeginIInv DEF CreateLoad
<1>8. ASSUME NEW t \in Tickets, AddNote(s, t) PROVE IInv'
  <2> DEFINE held == [Idle EXCEPT !.pc = "touch", !.ticket = t, !.at = clock]
  <2>1. /\ proc' = [proc EXCEPT ![s] = held] /\ proc[s].pc = "idle"
        /\ ops' = ops + 1 /\ ticket' = [ticket EXCEPT ![t].noted = clock]
        /\ UNCHANGED <<queue, rows, unsorted, clock>>
    BY <1>8 DEF AddNote, Begin
  <2>2. /\ proc \in [Slots -> Request] /\ ticket \in [Tickets -> TicketRows]
        /\ clock \in Nat
    BY DEF IInv, TypeOK
  <2>3. held \in Request
    BY <2>2, NoRows DEF Idle, Request
  <2>4. SlotOK(held, rows, queue)
    BY <2>3, NoRows DEF SlotOK, HeldOK, AccountOK, RaceOK, TagFirst, EditOK, Idle
  <2>5. proc' \in [Slots -> Request] /\ \A x \in Slots : SlotOK(proc'[x], rows', queue')
    BY <2>1, <2>4, OneSlot
  <2>6. ticket' \in [Tickets -> TicketRows]
    BY <2>1, <2>2 DEF TicketRows
  <2>7. TypeOK'
    BY <2>1, <2>5, <2>6 DEF IInv, TypeOK
  <2>8. ASSUME NEW x \in Tickets PROVE NoteOK(x)'
    <3>1. CASE x = t
      <4>1. ticket'[x].noted = clock /\ proc'[s] = held
        BY <2>1, <2>2, <3>1 DEF TicketRows
      <4>2. proc'[s].pc = "touch" /\ proc'[s].ticket = x /\ proc'[s].at = clock
        BY <3>1, <4>1 DEF Idle
      <4>3. ticket'[x].noted <= proc'[s].at
        BY <2>2, <4>1, <4>2
      <4>4. QED
        BY <4>2, <4>3 DEF NoteOK
    <3>2. CASE x # t
      <4>1. ticket'[x] = ticket[x] /\ NoteOK(x)
        BY <2>1, <2>2, <3>2 DEF IInv
      <4>2. \A y \in Slots : proc[y].pc = "touch" => proc'[y] = proc[y]
        BY <2>1, <2>2
      <4>3. QED
        BY <2>1, <4>1, <4>2 DEF NoteOK, Exists
    <3>3. QED
      BY <3>1, <3>2
  <2>9. AlwaysOnTheClock'
    BY <2>1, <2>2 DEF IInv, AlwaysOnTheClock, Exists, TicketRows
  <2>10. QED
    BY <2>1, <2>5, <2>7, <2>8, <2>9 DEF IInv, LabelsHaveTags
<1>9. ASSUME NEW t \in Tickets, EditLoad(s, t) PROVE IInv'
  <2> DEFINE held == [Idle EXCEPT !.pc = "edit", !.ticket = t, !.at = clock]
  <2>1. held \in Request
    BY NoRows DEF Idle, Request, IInv, TypeOK
  <2>2. SlotOK(held, rows, queue)
    BY <2>1, NoRows DEF SlotOK, HeldOK, AccountOK, RaceOK, TagFirst, EditOK, Idle
  <2>3. QED
    BY <1>9, <2>2, BeginIInv DEF EditLoad
<1>10. QED
  BY <1>1, <1>2, <1>3, <1>4, <1>5, <1>6, <1>7, <1>8, <1>9 DEF NewRequest

-----------------------------------------------------------------------------
(* The steps of a request.                                                *)

(* A step that writes one slot and nothing the notes or tickets rest on.  *)
LEMMA QuietIInv ==
  ASSUME IInv, NEW s \in Slots, NEW held, SlotOK(held, rows, queue),
         proc[s].pc # "touch",
         proc' = [proc EXCEPT ![s] = held],
         UNCHANGED <<queue, ticket, rows, unsorted, clock, ops>>
  PROVE  IInv'
<1>1. proc' \in [Slots -> Request] /\ \A x \in Slots : SlotOK(proc'[x], rows', queue')
  BY OneSlot
<1>2. proc \in [Slots -> Request]
  BY DEF IInv, TypeOK
<1>3. \A t \in Tickets : NoteOK(t)'
  BY <1>2, NotesSame
<1>4. QED
  BY <1>1, <1>3 DEF IInv, TypeOK, AlwaysOnTheClock, LabelsHaveTags, Exists

(* The next row of the list, when the first is there.                     *)
LEMMA AdvanceOK ==
  ASSUME NEW q, SlotOK(q, rows, queue), q.pc \in {"look", "insert"},
         Head(q.todo).row \in rows,
         NEW missed \in SUBSET {Head(q.todo).row}, missed # {} => q.raced
  PROVE  SlotOK([q EXCEPT !.todo = Tail(q.todo), !.missed = @ \cup missed,
                          !.pc = IF Tail(q.todo) = <<>> THEN "done" ELSE "look"], rows, queue)
<1> DEFINE rest == Tail(q.todo)
           pc == IF rest = <<>> THEN "done" ELSE "look"
           new == [q EXCEPT !.todo = rest, !.missed = @ \cup missed, !.pc = pc]
<1>1. q \in Request /\ q.todo \in Seq(Items) /\ q.todo # <<>>
  BY DEF SlotOK, HeldOK, Request
<1>2. /\ RowsOf(q.todo) = {Head(q.todo).row} \cup RowsOf(rest)
      /\ Head(q.todo).row \in Rows /\ rest \in Seq(Items)
  BY <1>1, RowsOfRest, RestOfList
<1>3. q.missed \cup missed \subseteq Rows
  BY <1>1, <1>2 DEF Request
<1>4. new \in Request
  BY <1>1, <1>2, <1>3 DEF Request
<1>5. /\ new.pc = pc /\ new.todo = rest /\ new.missed = q.missed \cup missed
      /\ new.asked = q.asked /\ new.removed = q.removed /\ new.raced = q.raced
      /\ new.ticket = q.ticket /\ new.queue = q.queue /\ new.priority = q.priority
  BY <1>1 DEF Request
<1>6. HeldOK(new)
  BY <1>5 DEF HeldOK
<1>7. AccountOK(new, rows)
  BY <1>2, <1>5 DEF SlotOK, AccountOK
<1>8. RaceOK(new, rows)
  BY <1>5 DEF SlotOK, RaceOK
<1>9. TagFirst(new.todo, rows)
  BY <1>1, <1>5, TagFirstRest DEF SlotOK
<1>10. QED
  BY <1>4, <1>5, <1>6, <1>7, <1>8, <1>9 DEF SlotOK, EditOK

LEMMA LookIInv ==
  ASSUME IInv, NEW s \in Slots, Look(s)
  PROVE  IInv'
<1> DEFINE q == proc[s]
<1>1. /\ SlotOK(q, rows, queue) /\ q \in Request /\ q.pc = "look"
      /\ proc \in [Slots -> Request]
      /\ UNCHANGED <<queue, ticket, rows, unsorted, clock, ops>>
  BY DEF IInv, TypeOK, Look
<1>2. CASE Head(q.todo).row \in rows
  <2> DEFINE held == [q EXCEPT !.todo = Tail(q.todo), !.missed = @ \cup {},
                        !.pc = IF Tail(q.todo) = <<>> THEN "done" ELSE "look"]
  <2>1. SlotOK(held, rows, queue)
    BY <1>1, <1>2, AdvanceOK
  <2>2. proc' = [proc EXCEPT ![s] = held]
    BY <1>1, <1>2 DEF Look, Advance
  <2>3. QED
    BY <1>1, <2>1, <2>2, QuietIInv
<1>3. CASE Head(q.todo).row \notin rows
  <2> DEFINE held == [q EXCEPT !.pc = "insert"]
  <2>1. held \in Request
    BY <1>1 DEF Request
  <2>2. /\ held.pc = "insert" /\ held.todo = q.todo /\ held.missed = q.missed
        /\ held.asked = q.asked /\ held.removed = q.removed /\ held.raced = q.raced
    BY <1>1 DEF Request
  <2>3. SlotOK(held, rows, queue)
    BY <1>1, <1>3, <2>1, <2>2 DEF SlotOK, HeldOK, AccountOK, RaceOK, EditOK
  <2>4. proc' = [proc EXCEPT ![s] = held]
    BY <1>3 DEF Look
  <2>5. QED
    BY <1>1, <2>3, <2>4, QuietIInv
<1>4. QED
  BY <1>2, <1>3

LEMMA DuplicateIInv ==
  ASSUME IInv, NEW s \in Slots, Duplicate(s)
  PROVE  IInv'
<1> DEFINE q == proc[s]
<1>1. /\ SlotOK(q, rows, queue) /\ q \in Request
      /\ q.pc = "insert" /\ Head(q.todo).row \in rows
      /\ proc \in [Slots -> Request]
      /\ UNCHANGED <<queue, ticket, rows, unsorted, clock, ops>>
  BY DEF IInv, TypeOK, Duplicate
<1>2. q.raced /\ q.todo \in Seq(Items) /\ q.todo # <<>>
  BY <1>1 DEF SlotOK, RaceOK, HeldOK, Request
<1>3. CASE Head(q.todo).fatal
  <2> DEFINE held == [q EXCEPT !.todo = <<>>, !.missed = @ \cup RowsOf(q.todo),
                               !.pc = "done"]
  <2>1. RowsOf(q.todo) \subseteq Rows /\ Head(q.todo).row \in RowsOf(q.todo)
    BY <1>2, RowsOfRest
  <2>2. q.missed \cup RowsOf(q.todo) \subseteq Rows
    BY <1>1, <2>1 DEF Request
  <2>3. held \in Request
    BY <1>1, <2>2, NoRows DEF Request
  <2>4. /\ held.pc = "done" /\ held.todo = <<>>
        /\ held.missed = q.missed \cup RowsOf(q.todo)
        /\ held.asked = q.asked /\ held.removed = q.removed /\ held.raced = q.raced
    BY <1>1 DEF Request
  <2>5. HeldOK(held) /\ TagFirst(held.todo, rows) /\ EditOK(held, queue)
    BY <2>4, NoRows DEF HeldOK, TagFirst, EditOK
  <2>6. AccountOK(held, rows)
    BY <1>1, <2>4 DEF SlotOK, AccountOK
  <2>7. RaceOK(held, rows)
    BY <1>1, <1>2, <2>1, <2>4 DEF RaceOK
  <2>8. proc' = [proc EXCEPT ![s] = held]
    BY <1>3 DEF Duplicate, Advance
  <2>9. QED
    BY <1>1, <2>3, <2>5, <2>6, <2>7, <2>8, QuietIInv DEF SlotOK
<1>4. CASE ~Head(q.todo).fatal
  <2> DEFINE held == [q EXCEPT !.todo = Tail(q.todo),
                        !.missed = @ \cup {Head(q.todo).row},
                        !.pc = IF Tail(q.todo) = <<>> THEN "done" ELSE "look"]
  <2>1. SlotOK(held, rows, queue)
    BY <1>1, <1>2, AdvanceOK
  <2>2. proc' = [proc EXCEPT ![s] = held]
    BY <1>4 DEF Duplicate, Advance
  <2>3. QED
    BY <1>1, <2>1, <2>2, QuietIInv
<1>5. QED
  BY <1>3, <1>4

(* A request's view of a row that appears, or goes.                       *)
LEMMA RowAppears ==
  ASSUME NEW q, NEW there, NEW queues, SlotOK(q, there, queues), NEW row
  PROVE  LET n == [q EXCEPT !.raced = @ \/ (q.pc = "insert" /\ Head(q.todo).row = row)]
         IN  /\ SlotOK(n, there \cup {row}, queues)
             /\ n.pc = q.pc /\ n.ticket = q.ticket /\ n.at = q.at
<1> DEFINE n == [q EXCEPT !.raced = @ \/ (q.pc = "insert" /\ Head(q.todo).row = row)]
<1>0. q \in Request /\ q.raced \in BOOLEAN
  BY DEF SlotOK, Request
<1>1. n \in Request
  BY <1>0 DEF Request
<1>2. /\ n.pc = q.pc /\ n.todo = q.todo /\ n.missed = q.missed
      /\ n.asked = q.asked /\ n.removed = q.removed
      /\ n.ticket = q.ticket /\ n.queue = q.queue
      /\ n.priority = q.priority /\ n.at = q.at
      /\ n.raced = (q.raced \/ (q.pc = "insert" /\ Head(q.todo).row = row))
  BY <1>0 DEF Request
<1>3. HeldOK(n)
  BY <1>2 DEF SlotOK, HeldOK
<1>4. AccountOK(n, there \cup {row})
  BY <1>2 DEF SlotOK, AccountOK
<1>5. RaceOK(n, there \cup {row})
  BY <1>2 DEF SlotOK, RaceOK
<1>6. TagFirst(n.todo, there \cup {row})
  BY <1>2 DEF SlotOK, TagFirst
<1>7. EditOK(n, queues)
  BY <1>2 DEF SlotOK, EditOK
<1>8. QED
  BY <1>1, <1>2, <1>3, <1>4, <1>5, <1>6, <1>7 DEF SlotOK

LEMMA RowVanishes ==
  ASSUME NEW q, NEW there, NEW queues, SlotOK(q, there, queues),
         NEW row \in Rows, \A l \in Labels : Tag(l) # row
  PROVE  LET n == [q EXCEPT !.removed = @ \cup {row}]
         IN  /\ SlotOK(n, there \ {row}, queues)
             /\ n.pc = q.pc /\ n.ticket = q.ticket /\ n.at = q.at
<1> DEFINE n == [q EXCEPT !.removed = @ \cup {row}]
<1>0. q \in Request
  BY DEF SlotOK
<1>1. n \in Request
  BY <1>0 DEF Request
<1>2. /\ n.pc = q.pc /\ n.todo = q.todo /\ n.missed = q.missed
      /\ n.asked = q.asked /\ n.removed = q.removed \cup {row} /\ n.raced = q.raced
      /\ n.ticket = q.ticket /\ n.queue = q.queue
      /\ n.priority = q.priority /\ n.at = q.at
  BY <1>0 DEF Request
<1>3. HeldOK(n) /\ EditOK(n, queues)
  BY <1>2 DEF SlotOK, HeldOK, EditOK
<1>4. AccountOK(n, there \ {row})
  BY <1>2 DEF SlotOK, AccountOK
<1>5. RaceOK(n, there \ {row})
  BY <1>2 DEF SlotOK, RaceOK
<1>6. TagFirst(n.todo, there \ {row})
  BY <1>2 DEF SlotOK, TagFirst
<1>7. QED
  BY <1>1, <1>2, <1>3, <1>4, <1>5, <1>6 DEF SlotOK

LEMMA InsertIInv ==
  ASSUME IInv, NEW s \in Slots, Insert(s)
  PROVE  IInv'
<1> DEFINE q == proc[s]
           new == Head(q.todo).row
           rest == Tail(q.todo)
           hers(x) == [proc[x] EXCEPT !.raced =
                         @ \/ (proc[x].pc = "insert" /\ Head(proc[x].todo).row = new)]
           mine == [q EXCEPT !.todo = rest,
                             !.pc = IF rest = <<>> THEN "done" ELSE "look"]
<1>1. /\ SlotOK(q, rows, queue) /\ q \in Request /\ q.pc = "insert"
      /\ proc \in [Slots -> Request] /\ rows \subseteq Rows
      /\ new \notin rows /\ rows' = rows \cup {new}
      /\ proc' = [x \in Slots |-> IF x = s THEN mine ELSE hers(x)]
      /\ UNCHANGED <<queue, ticket, unsorted, clock, ops>>
  BY DEF IInv, TypeOK, Insert
<1>2. q.todo \in Seq(Items) /\ q.todo # <<>>
  BY <1>1 DEF SlotOK, HeldOK, Request
<1>3. /\ new \in Rows /\ rest \in Seq(Items)
      /\ RowsOf(q.todo) = {new} \cup RowsOf(rest)
  BY <1>2, RowsOfRest, RestOfList
<1>4. SlotOK(proc'[s], rows', queue')
  <2>1. proc'[s] = mine
    BY <1>1
  <2>2. mine \in Request
    BY <1>1, <1>3 DEF Request
  <2>3. /\ mine.pc = (IF rest = <<>> THEN "done" ELSE "look") /\ mine.todo = rest
        /\ mine.missed = q.missed /\ mine.asked = q.asked
        /\ mine.removed = q.removed /\ mine.raced = q.raced
        /\ mine.ticket = q.ticket /\ mine.queue = q.queue /\ mine.priority = q.priority
    BY <1>1 DEF Request
  <2>4. HeldOK(mine) /\ EditOK(mine, queue')
    BY <2>3 DEF HeldOK, EditOK
  <2>5. AccountOK(mine, rows')
    BY <1>1, <1>3, <2>3 DEF SlotOK, AccountOK
  <2>6. RaceOK(mine, rows')
    <3>1. q.missed # {} => q.raced /\ q.missed \cap (rows \cup q.removed) # {}
      BY <1>1 DEF SlotOK, RaceOK
    <3>2. rows \subseteq rows'
      BY <1>1
    <3>3. mine.pc \in {"done", "look"}
      BY <2>3
    <3>4. QED
      BY <2>3, <3>1, <3>2, <3>3 DEF RaceOK
  <2>7. TagFirst(mine.todo, rows')
    <3>1. TagFirst(q.todo, rows')
      BY <1>1 DEF SlotOK, TagFirst
    <3>2. QED
      BY <1>1, <1>2, <2>3, <3>1, TagFirstRest
  <2>8. QED
    BY <2>1, <2>2, <2>4, <2>5, <2>6, <2>7 DEF SlotOK
<1>5. ASSUME NEW x \in Slots, x # s
      PROVE  /\ SlotOK(proc'[x], rows', queue')
             /\ proc'[x].pc = proc[x].pc /\ proc'[x].ticket = proc[x].ticket
             /\ proc'[x].at = proc[x].at
  <2>1. proc'[x] = hers(x) /\ SlotOK(proc[x], rows, queue) /\ proc[x] \in Request
    BY <1>1, <1>5 DEF IInv
  <2>2. /\ SlotOK(hers(x), rows \cup {new}, queue)
        /\ hers(x).pc = proc[x].pc /\ hers(x).ticket = proc[x].ticket
        /\ hers(x).at = proc[x].at
    BY <2>1, RowAppears
  <2>3. QED
    BY <1>1, <2>1, <2>2
<1>6. TypeOK'
  <2>1. proc' \in [Slots -> Request]
    BY <1>1, <1>4, <1>5 DEF SlotOK
  <2>2. QED
    BY <1>1, <1>3, <2>1 DEF IInv, TypeOK
<1>7. \A t \in Tickets : NoteOK(t)'
  BY <1>1, <1>5, NotesSame
<1>8. LabelsHaveTags'
  <2>1. SUFFICES ASSUME NEW t \in Tickets, NEW l \in Labels, TicketTag(t, l) \in rows'
                 PROVE  Tag(l) \in rows'
    BY DEF LabelsHaveTags
  <2>2. CASE TicketTag(t, l) \in rows
    BY <1>1, <2>2 DEF IInv, LabelsHaveTags
  <2>3. CASE TicketTag(t, l) = new
    <3>1. q.todo[1].row = TicketTag(t, l) /\ 1 \in 1 .. Len(q.todo)
      BY <1>2, <2>3, RestOfList
    <3>2. TagFirst(q.todo, rows)
      BY <1>1 DEF SlotOK
    <3>3. Tag(l) \in rows \/ \E j \in 1 .. 1 - 1 : q.todo[j].row = Tag(l)
      BY <3>1, <3>2 DEF TagFirst
    <3>4. Tag(l) \in rows
      BY <3>3
    <3>5. QED
      BY <1>1, <3>4
  <2>4. QED
    BY <1>1, <2>1, <2>2, <2>3
<1>9. QED
  BY <1>1, <1>4, <1>5, <1>6, <1>7, <1>8 DEF IInv, AlwaysOnTheClock, Exists

(* A row goes, and every request in progress is told.                     *)
LEMMA RemoveIInv ==
  ASSUME IInv, NEW row \in rows, Remove(row)
  PROVE  IInv'
<1> DEFINE next(x) == [proc[x] EXCEPT !.removed = @ \cup {row}]
<1>1. /\ row[1] \in {"watcher", "member", "label"}
      /\ rows' = rows \ {row} /\ ops' = ops + 1
      /\ proc' = [x \in Slots |-> next(x)]
      /\ proc \in [Slots -> Request] /\ rows \subseteq Rows
      /\ UNCHANGED <<queue, ticket, unsorted, clock>>
  BY DEF IInv, TypeOK, Remove
<1>2. \A l \in Labels : Tag(l) # row
  BY <1>1 DEF Tag
<1>3. ASSUME NEW x \in Slots
      PROVE  /\ SlotOK(proc'[x], rows', queue')
             /\ proc'[x].pc = proc[x].pc /\ proc'[x].ticket = proc[x].ticket
             /\ proc'[x].at = proc[x].at
  <2>1. proc'[x] = next(x) /\ SlotOK(proc[x], rows, queue) /\ row \in Rows
    BY <1>1 DEF IInv
  <2>2. /\ SlotOK(next(x), rows \ {row}, queue)
        /\ next(x).pc = proc[x].pc /\ next(x).ticket = proc[x].ticket
        /\ next(x).at = proc[x].at
    BY <1>2, <2>1, RowVanishes
  <2>3. QED
    BY <1>1, <2>1, <2>2
<1>4. TypeOK'
  <2>1. proc' \in [Slots -> Request]
    BY <1>1, <1>3 DEF SlotOK
  <2>2. QED
    BY <1>1, <2>1 DEF IInv, TypeOK
<1>5. \A t \in Tickets : NoteOK(t)'
  BY <1>1, <1>3, NotesSame
<1>6. LabelsHaveTags'
  BY <1>1, <1>2 DEF IInv, LabelsHaveTags
<1>7. QED
  BY <1>1, <1>3, <1>4, <1>5, <1>6 DEF IInv, AlwaysOnTheClock, Exists

(* Queues: one appears, one goes, one is saved.                           *)
LEMMA QueueCreateIInv ==
  ASSUME IInv, NEW q \in Queues, QueueCreate(q)
  PROVE  IInv'
<1>1. /\ queue' = [queue EXCEPT ![q].there = "there"] /\ ops' = ops + 1
      /\ UNCHANGED <<ticket, rows, proc, unsorted, clock>>
      /\ queue \in [Queues -> QueueRows]
  BY DEF QueueCreate, IInv, TypeOK
<1>2. queue' \in [Queues -> QueueRows]
  BY <1>1 DEF QueueRows
<1>3. \A x \in Queues : queue[x].there # "gone" => queue'[x].there # "gone"
  BY <1>1 DEF QueueRows
<1>4. ASSUME NEW x \in Slots PROVE SlotOK(proc'[x], rows', queue')
  <2>1. SlotOK(proc[x], rows, queue)
    BY DEF IInv
  <2>2. EditOK(proc[x], queue')
    BY <1>3, <2>1 DEF SlotOK, HeldOK, EditOK
  <2>3. QED
    BY <1>1, <2>1, <2>2 DEF SlotOK
<1>5. TypeOK'
  BY <1>1, <1>2 DEF IInv, TypeOK
<1>6. QED
  BY <1>1, <1>4, <1>5 DEF IInv, NoteOK, AlwaysOnTheClock, LabelsHaveTags, Exists

LEMMA QueueDeleteIInv ==
  ASSUME IInv, NEW q \in Queues, QueueDelete(q)
  PROVE  IInv'
<1> DEFINE next(x) == [proc[x] EXCEPT !.raced =
                         @ \/ (proc[x].pc = "sla" /\ proc[x].queue = q)]
<1>1. /\ queue' = [queue EXCEPT ![q].there = "gone"] /\ ops' = ops + 1
      /\ proc' = [x \in Slots |-> next(x)]
      /\ UNCHANGED <<ticket, rows, unsorted, clock>>
      /\ queue \in [Queues -> QueueRows] /\ proc \in [Slots -> Request]
  BY DEF QueueDelete, IInv, TypeOK
<1>2. queue' \in [Queues -> QueueRows]
  BY <1>1 DEF QueueRows
<1>3. \A y \in Queues : y # q => queue'[y] = queue[y]
  BY <1>1
<1>4. ASSUME NEW x \in Slots
      PROVE  /\ SlotOK(proc'[x], rows', queue')
             /\ proc'[x].pc = proc[x].pc /\ proc'[x].ticket = proc[x].ticket
             /\ proc'[x].at = proc[x].at
  <2> DEFINE p == proc[x]
             n == next(x)
  <2>1. proc'[x] = n /\ SlotOK(p, rows, queue) /\ p \in Request /\ p.raced \in BOOLEAN
    BY <1>1 DEF IInv, Request
  <2>2. n \in Request
    BY <2>1 DEF Request
  <2>3. /\ n.pc = p.pc /\ n.todo = p.todo /\ n.missed = p.missed
        /\ n.asked = p.asked /\ n.removed = p.removed
        /\ n.ticket = p.ticket /\ n.queue = p.queue
        /\ n.priority = p.priority /\ n.at = p.at
        /\ n.raced = (p.raced \/ (p.pc = "sla" /\ p.queue = q))
    BY <2>1 DEF Request
  <2>4. HeldOK(n)
    BY <2>1, <2>3 DEF SlotOK, HeldOK
  <2>5. AccountOK(n, rows) /\ TagFirst(n.todo, rows)
    BY <2>1, <2>3 DEF SlotOK, AccountOK
  <2>6. RaceOK(n, rows)
    BY <2>1, <2>3 DEF SlotOK, RaceOK
  <2>7. EditOK(n, queue')
    BY <1>3, <2>1, <2>3 DEF SlotOK, HeldOK, EditOK
  <2>8. QED
    BY <1>1, <2>1, <2>2, <2>3, <2>4, <2>5, <2>6, <2>7 DEF SlotOK
<1>5. proc' \in [Slots -> Request]
  BY <1>1, <1>4 DEF SlotOK
<1>6. TypeOK'
  BY <1>1, <1>2, <1>5 DEF IInv, TypeOK
<1>7. \A t \in Tickets : NoteOK(t)'
  BY <1>1, <1>4, NotesSame
<1>8. QED
  BY <1>1, <1>4, <1>6, <1>7 DEF IInv, AlwaysOnTheClock, LabelsHaveTags, Exists

(* A request that has nothing more to write is done.                      *)
LEMMA DoneOK ==
  ASSUME NEW q, NEW there, NEW queues, SlotOK(q, there, queues), q.todo = <<>>
  PROVE  SlotOK([q EXCEPT !.pc = "done"], there, queues)
<1> DEFINE n == [q EXCEPT !.pc = "done"]
<1>1. q \in Request
  BY DEF SlotOK
<1>2. n \in Request
  BY <1>1 DEF Request
<1>3. /\ n.pc = "done" /\ n.todo = <<>> /\ n.missed = q.missed
      /\ n.asked = q.asked /\ n.removed = q.removed /\ n.raced = q.raced
  BY <1>1 DEF Request
<1>4. QED
  BY <1>2, <1>3 DEF SlotOK, HeldOK, AccountOK, RaceOK, TagFirst, EditOK

LEMMA SLASaveIInv ==
  ASSUME IInv, NEW s \in Slots, SLASave(s)
  PROVE  IInv'
<1> DEFINE q == proc[s]
           n == [q EXCEPT !.pc = "done"]
<1>1. /\ q.pc = "sla" /\ SlotOK(q, rows, queue) /\ q \in Request
      /\ queue' = [queue EXCEPT ![q.queue] = [there |-> "there", sla |-> q.sla]]
      /\ proc' = [proc EXCEPT ![s] = n]
      /\ UNCHANGED <<ticket, rows, unsorted, clock, ops>>
      /\ queue \in [Queues -> QueueRows] /\ proc \in [Slots -> Request]
  BY DEF SLASave, IInv, TypeOK
<1>2. q.queue \in Queues /\ q.sla \in Tables \cup {NoTable} /\ q.todo = <<>>
  BY <1>1 DEF SlotOK, HeldOK, Request
<1>3. queue' \in [Queues -> QueueRows]
  BY <1>1, <1>2 DEF QueueRows
<1>4. \A x \in Queues : queue[x].there # "gone" => queue'[x].there # "gone"
  BY <1>1
<1>5. ASSUME NEW x \in Slots PROVE SlotOK(proc'[x], rows', queue')
  <2>1. SlotOK(proc'[x], rows, queue)
    <3>1. CASE x = s
      BY <1>1, <1>2, <3>1, DoneOK
    <3>2. CASE x # s
      BY <1>1, <3>2 DEF IInv
    <3>3. QED
      BY <3>1, <3>2
  <2>2. EditOK(proc'[x], queue')
    BY <1>4, <2>1 DEF SlotOK, HeldOK, EditOK
  <2>3. QED
    BY <1>1, <2>1, <2>2 DEF SlotOK
<1>6. proc' \in [Slots -> Request]
  BY <1>1, <1>5 DEF SlotOK
<1>7. TypeOK'
  BY <1>1, <1>3, <1>6 DEF IInv, TypeOK
<1>8. \A t \in Tickets : NoteOK(t)'
  BY <1>1, NotesSame
<1>9. QED
  BY <1>1, <1>5, <1>7, <1>8 DEF IInv, AlwaysOnTheClock, LabelsHaveTags, Exists

(* Every priority has a target, in any table and in none.                 *)
LEMMA DueIsTime ==
  ASSUME NEW table \in Tables \cup {NoTable}, NEW p \in Priorities, NEW from \in Nat,
         NEW due \in DueAt(table, p, from)
  PROVE  due \in Nat
<1>1. \A m \in Evaluate(table, p) : m \in Nat
  BY DeskAssumption DEF Evaluate, NoTable
<1>2. Evaluate(table, p) # {}
  BY DeskAssumption DEF Evaluate
<1>3. QED
  BY <1>1, <1>2 DEF DueAt

LEMMA CreateInsertIInv ==
  ASSUME IInv, NEW s \in Slots, CreateInsert(s)
  PROVE  IInv'
<1> DEFINE q == proc[s]
           n == [q EXCEPT !.pc = "look"]
<1>1. /\ q.pc = "create" /\ SlotOK(q, rows, queue) /\ q \in Request
      /\ proc' = [proc EXCEPT ![s] = n]
      /\ UNCHANGED <<queue, rows, unsorted, clock, ops>>
      /\ ticket \in [Tickets -> TicketRows] /\ proc \in [Slots -> Request]
      /\ clock \in Nat
  BY DEF CreateInsert, IInv, TypeOK
<1>2. /\ q.ticket \in Tickets /\ q.priority \in Priorities /\ q.todo # <<>>
      /\ q.sla \in Tables \cup {NoTable} /\ q.at \in Nat
  BY <1>1 DEF SlotOK, HeldOK, Request
<1>3. PICK now \in q.at .. clock : \E due \in DueAt(q.sla, q.priority, now) :
        ticket' = [ticket EXCEPT ![q.ticket] =
          [there |-> TRUE, due |-> due, updated |-> clock, noted |-> 0]]
  BY DEF CreateInsert
<1>4. PICK due \in DueAt(q.sla, q.priority, now) :
        ticket' = [ticket EXCEPT ![q.ticket] =
          [there |-> TRUE, due |-> due, updated |-> clock, noted |-> 0]]
  BY <1>3
<1>5. now \in Nat /\ due \in Nat /\ due # None
  <2>1. now \in Nat
    BY <1>1, <1>2, <1>3
  <2>2. due \in Nat
    BY <1>2, <1>4, <2>1, DueIsTime
  <2>3. None \notin Nat
    BY DeskAssumption
  <2>4. QED
    BY <2>1, <2>2, <2>3
<1>6. ticket' \in [Tickets -> TicketRows]
  BY <1>1, <1>2, <1>4, <1>5 DEF TicketRows
<1>7. n \in Request
  BY <1>1 DEF Request
<1>8. /\ n.pc = "look" /\ n.todo = q.todo /\ n.missed = q.missed
      /\ n.asked = q.asked /\ n.removed = q.removed /\ n.raced = q.raced
  BY <1>1 DEF Request
<1>9. SlotOK(n, rows, queue)
  BY <1>1, <1>2, <1>7, <1>8 DEF SlotOK, HeldOK, AccountOK, RaceOK, EditOK
<1>10. proc' \in [Slots -> Request] /\ \A x \in Slots : SlotOK(proc'[x], rows', queue')
  BY <1>1, <1>9, OneSlot
<1>11. TypeOK'
  BY <1>1, <1>6, <1>10 DEF IInv, TypeOK
<1>12. ASSUME NEW t \in Tickets
       PROVE  NoteOK(t)' /\ (Exists(t)' => ticket'[t].due # None)
  <2>1. CASE t = q.ticket
    <3>1. /\ ticket'[t].due = due /\ ticket'[t].noted = 0 /\ ticket'[t].updated = clock
      BY <1>1, <1>2, <1>4, <2>1
    <3>2. ticket'[t].noted <= ticket'[t].updated
      BY <1>1, <3>1
    <3>3. QED
      BY <1>5, <3>1, <3>2 DEF NoteOK
  <2>2. CASE t # q.ticket
    <3>1. ticket'[t] = ticket[t] /\ NoteOK(t) /\ (Exists(t) => ticket[t].due # None)
      BY <1>1, <1>4, <2>2 DEF IInv, AlwaysOnTheClock
    <3>2. \A x \in Slots : proc[x].pc = "touch" => proc'[x] = proc[x]
      BY <1>1
    <3>3. QED
      BY <1>1, <3>1, <3>2 DEF NoteOK, Exists
  <2>3. QED
    BY <2>1, <2>2
<1>13. QED
  BY <1>1, <1>10, <1>11, <1>12 DEF IInv, AlwaysOnTheClock, LabelsHaveTags

(* A stamp is written, by the touch that follows a note or by an edit.    *)
LEMMA StampIInv ==
  ASSUME IInv, NEW s \in Slots, proc[s].pc \in {"touch", "edit"},
         NEW stamp \in proc[s].at .. clock, Stamped(proc[s].ticket, stamp),
         proc' = [proc EXCEPT ![s].pc = "done"], UNCHANGED <<queue, rows, clock, ops>>
  PROVE  IInv'
<1> DEFINE q == proc[s]
           n == [q EXCEPT !.pc = "done"]
           mine == q.ticket
<1>1. /\ SlotOK(q, rows, queue) /\ q \in Request /\ proc' = [proc EXCEPT ![s] = n]
      /\ proc \in [Slots -> Request] /\ ticket \in [Tickets -> TicketRows]
      /\ clock \in Nat /\ unsorted \subseteq Tickets
  BY DEF IInv, TypeOK
<1>2. mine \in Tickets /\ q.at \in Nat /\ q.todo = <<>>
  BY <1>1 DEF SlotOK, HeldOK, Request
<1>3. stamp \in Nat /\ q.at <= stamp
  BY <1>1, <1>2
<1>4. /\ ticket' = [ticket EXCEPT ![mine].updated = stamp]
      /\ unsorted' = IF stamp < ticket[mine].updated THEN unsorted \cup {mine}
                     ELSE IF stamp >= ticket[mine].noted THEN unsorted \ {mine}
                     ELSE unsorted
  BY DEF Stamped
<1>5. ticket' \in [Tickets -> TicketRows] /\ unsorted' \subseteq Tickets
  BY <1>1, <1>2, <1>3, <1>4 DEF TicketRows
<1>6. proc' \in [Slots -> Request] /\ \A x \in Slots : SlotOK(proc'[x], rows', queue')
  <2>1. SlotOK(n, rows, queue)
    BY <1>1, <1>2, DoneOK
  <2>2. QED
    BY <1>1, <2>1, OneSlot
<1>7. TypeOK'
  BY <1>1, <1>5, <1>6 DEF IInv, TypeOK
<1>8. ASSUME NEW t \in Tickets
      PROVE  /\ ticket'[t].there = ticket[t].there
             /\ ticket'[t].due = ticket[t].due /\ ticket'[t].noted = ticket[t].noted
             /\ ticket'[t].updated = IF t = mine THEN stamp ELSE ticket[t].updated
  BY <1>1, <1>2, <1>4 DEF TicketRows
<1>9. ASSUME NEW t \in Tickets, Exists(t) PROVE NoteOK(t)'
  <2>1. NoteOK(t) /\ ticket[t].noted \in Nat /\ ticket[t].updated \in Nat
    BY <1>1 DEF IInv, TicketRows
  <2>2. CASE t = mine
    <3>1. CASE stamp < ticket[t].updated \/ stamp >= ticket[t].noted
      <4>1. t \in unsorted' \/ ticket'[t].noted <= ticket'[t].updated
        BY <1>2, <1>3, <1>4, <1>8, <2>1, <2>2, <3>1
      <4>2. QED
        BY <4>1 DEF NoteOK
    <3>2. CASE ~(stamp < ticket[t].updated) /\ ~(stamp >= ticket[t].noted)
      <4>1. ~(ticket[t].noted <= ticket[t].updated) /\ unsorted' = unsorted
        BY <1>3, <1>4, <2>1, <2>2, <3>2
      <4>2. CASE t \in unsorted
        BY <4>1, <4>2 DEF NoteOK
      <4>3. CASE t \notin unsorted
        <5>1. PICK x \in Slots : /\ proc[x].pc = "touch" /\ proc[x].ticket = t
                                 /\ ticket[t].noted <= proc[x].at
          BY <1>9, <2>1, <4>1, <4>3 DEF NoteOK
        <5>2. ~(ticket[t].noted <= q.at)
          BY <1>2, <1>3, <2>1, <3>2
        <5>3. x # s
          BY <5>1, <5>2
        <5>4. proc'[x] = proc[x]
          BY <1>1, <5>3
        <5>5. QED
          BY <1>8, <5>1, <5>4 DEF NoteOK
      <4>4. QED
        BY <4>2, <4>3
    <3>3. QED
      BY <3>1, <3>2
  <2>3. CASE t # mine
    <3>1. t \in unsorted => t \in unsorted'
      BY <1>4, <2>3
    <3>2. \A x \in Slots : proc[x].pc = "touch" /\ proc[x].ticket = t => proc'[x] = proc[x]
      BY <1>1, <2>3
    <3>3. QED
      BY <1>8, <1>9, <2>1, <2>3, <3>1, <3>2 DEF NoteOK
  <2>4. QED
    BY <2>2, <2>3
<1>10. \A t \in Tickets : NoteOK(t)'
  BY <1>8, <1>9 DEF NoteOK, Exists
<1>11. AlwaysOnTheClock' /\ LabelsHaveTags'
  BY <1>8 DEF IInv, AlwaysOnTheClock, LabelsHaveTags, Exists
<1>12. QED
  BY <1>6, <1>7, <1>10, <1>11 DEF IInv

(* The touch fails; the handler answers; the server dies.                 *)
LEMMA TouchErrorIInv ==
  ASSUME IInv, NEW s \in Slots, TouchError(s)
  PROVE  IInv'
<1> DEFINE n == [proc[s] EXCEPT !.pc = "done"]
<1>1. /\ SlotOK(proc[s], rows, queue) /\ proc[s] \in Request /\ proc[s].pc = "touch"
      /\ proc' = [proc EXCEPT ![s] = n] /\ proc \in [Slots -> Request]
      /\ unsorted' = unsorted \cup {proc[s].ticket} /\ unsorted \subseteq Tickets
      /\ UNCHANGED <<queue, ticket, rows, clock, ops>>
  BY DEF IInv, TypeOK, TouchError
<1>2. proc[s].ticket \in Tickets /\ proc[s].todo = <<>>
  BY <1>1 DEF SlotOK, HeldOK
<1>3. proc' \in [Slots -> Request] /\ \A x \in Slots : SlotOK(proc'[x], rows', queue')
  <2>1. SlotOK(n, rows, queue)
    BY <1>1, <1>2, DoneOK
  <2>2. QED
    BY <1>1, <2>1, OneSlot
<1>4. \A t \in Tickets : NoteOK(t)'
  BY <1>1, NotesSame
<1>5. TypeOK'
  BY <1>1, <1>2, <1>3 DEF IInv, TypeOK
<1>6. QED
  BY <1>1, <1>3, <1>4, <1>5 DEF IInv, AlwaysOnTheClock, LabelsHaveTags, Exists

LEMMA IdleOK == ASSUME NEW there, NEW queues PROVE SlotOK(Idle, there, queues)
<1>1. Idle \in Request
  BY NoRows DEF Idle, Request
<1>2. QED
  BY <1>1, NoRows DEF SlotOK, HeldOK, AccountOK, RaceOK, TagFirst, EditOK, Idle

LEMMA AnswerIInv ==
  ASSUME IInv, NEW s \in Slots, Answer(s)
  PROVE  IInv'
<1>1. /\ proc[s].pc = "done" /\ proc' = [proc EXCEPT ![s] = Idle]
      /\ UNCHANGED <<queue, ticket, rows, unsorted, clock, ops>>
  BY DEF Answer
<1>2. SlotOK(Idle, rows, queue)
  BY IdleOK
<1>3. QED
  BY <1>1, <1>2, QuietIInv

LEMMA CrashIInv ==
  ASSUME IInv, Crash
  PROVE  IInv'
<1>1. /\ proc' = [s \in Slots |-> Idle] /\ ops' = ops + 1
      /\ unsorted' = unsorted \cup
           {proc[s].ticket : s \in {x \in Slots : proc[x].pc = "touch"}}
      /\ UNCHANGED <<queue, ticket, rows, clock>>
  BY DEF Crash
<1>2. \A x \in Slots : proc[x].pc = "touch" => proc[x].ticket \in Tickets
  BY DEF IInv, SlotOK, HeldOK
<1>3. \A x \in Slots : SlotOK(proc'[x], rows', queue')
  BY <1>1, IdleOK
<1>4. \A x \in Slots : proc[x].pc = "touch" => proc[x].ticket \in unsorted'
  BY <1>1
<1>5. \A t \in Tickets : NoteOK(t)'
  BY <1>1, <1>4, NotesSame
<1>6. proc' \in [Slots -> Request]
  BY <1>1, <1>3 DEF SlotOK
<1>7. TypeOK'
  BY <1>1, <1>2, <1>6 DEF IInv, TypeOK
<1>8. QED
  BY <1>1, <1>3, <1>5, <1>7 DEF IInv, AlwaysOnTheClock, LabelsHaveTags, Exists

LEMMA TickIInv ==
  ASSUME IInv, Tick
  PROVE  IInv'
<1>1. clock' = clock + 1 /\ UNCHANGED <<queue, ticket, rows, proc, unsorted, ops>>
  BY DEF Tick
<1>2. TypeOK'
  BY <1>1 DEF IInv, TypeOK
<1>3. QED
  BY <1>1, <1>2 DEF IInv, NoteOK, AlwaysOnTheClock, LabelsHaveTags, Exists

LEMMA StepIInv ==
  ASSUME IInv, NEW s \in Slots, Step(s)
  PROVE  IInv'
<1>1. CASE TouchUpdatedAt(s)
  <2>1. PICK stamp \in proc[s].at .. clock : Stamped(proc[s].ticket, stamp)
    BY <1>1 DEF TouchUpdatedAt
  <2>2. QED
    BY <1>1, <2>1, StampIInv DEF TouchUpdatedAt
<1>2. CASE EditSave(s)
  <2>1. PICK stamp \in proc[s].at .. clock : Stamped(proc[s].ticket, stamp)
    BY <1>2 DEF EditSave
  <2>2. QED
    BY <1>2, <2>1, StampIInv DEF EditSave
<1>3. QED
  BY <1>1, <1>2, LookIInv, InsertIInv, DuplicateIInv, SLASaveIInv, CreateInsertIInv,
     TouchErrorIInv, AnswerIInv
  DEF Step

LEMMA NextIInv == IInv /\ [Next]_vars => IInv'
<1> SUFFICES ASSUME IInv, [Next]_vars PROVE IInv'
  OBVIOUS
<1>1. CASE UNCHANGED vars
  BY <1>1 DEF vars, IInv, TypeOK, NoteOK, AlwaysOnTheClock, LabelsHaveTags, Exists
<1>2. CASE \E s \in Slots : NewRequest(s) \/ Step(s)
  BY <1>2, NewRequestIInv, StepIInv
<1>3. CASE \E row \in rows : Remove(row)
  BY <1>3, RemoveIInv
<1>4. CASE \E q \in Queues : QueueCreate(q) \/ QueueDelete(q)
  BY <1>4, QueueCreateIInv, QueueDeleteIInv
<1>5. CASE Crash
  BY <1>5, CrashIInv
<1>6. CASE Tick
  BY <1>6, TickIInv
<1>7. QED
  BY <1>1, <1>2, <1>3, <1>4, <1>5, <1>6 DEF Next

-----------------------------------------------------------------------------
(* Theorems.                                                              *)

(* In every reachable state each request in progress accounts for what it  *)
(* was asked, what it read before is still so unless it was marked as      *)
(* overtaken, and each note is shown or about to be.                       *)
THEOREM DeskConsistent == Spec => []IInv
  BY InitIInv, NextIInv, PTL DEF Spec

(* A watch, a membership, a label with its tag, a link: none vanishes      *)
(* silently, and none is refused but to the loser of a race for it,        *)
(* however many requests, removals and crashes interleave.                 *)
THEOREM RowsAlwaysAccounted == Spec => []RowsAccounted
<1>1. IInv => RowsAccounted
  <2> SUFFICES ASSUME IInv PROVE RowsAccounted
    OBVIOUS
  <2>1. ASSUME NEW s \in Slots, proc[s].pc = "done"
        PROVE  proc[s].asked \subseteq rows \cup proc[s].removed \cup proc[s].missed
    <3>1. SlotOK(proc[s], rows, queue)
      BY DEF IInv
    <3>2. RowsOf(proc[s].todo) = {}
      BY <2>1, <3>1, NoRows DEF SlotOK, HeldOK
    <3>3. QED
      BY <3>1, <3>2 DEF SlotOK, AccountOK
  <2>2. FailsOnlyRaced
    BY DEF IInv, SlotOK, RaceOK, FailsOnlyRaced
  <2>3. QED
    BY <2>1, <2>2 DEF IInv, RowsAccounted, AskedIsThere
<1>2. QED
  BY <1>1, DeskConsistent, PTL

(* A note's ticket is never behind the note, but while the touch that      *)
(* follows it is to come, or after it failed or was overtaken.             *)
THEOREM NotesAlwaysSurface == Spec => []NotesSurface
<1>1. IInv => NotesSurface
  BY DEF IInv, NoteOK, NotesSurface
<1>2. QED
  BY <1>1, DeskConsistent, PTL

(* Whatever table a queue has and whatever becomes of the queue, a ticket  *)
(* created in it has a due time.                                           *)
THEOREM EveryTicketOnTheClock == Spec => []AlwaysOnTheClock
<1>1. IInv => AlwaysOnTheClock
  BY DEF IInv
<1>2. QED
  BY <1>1, DeskConsistent, PTL

(* What a step does to a queue that is gone.                              *)
LEMMA GoneSteps ==
  ASSUME IInv, [Next]_vars, NEW q \in Queues,
         queue[q].there = "gone", queue'[q].there # "gone"
  PROVE  \E s \in Slots : proc[s].pc = "sla" /\ proc[s].queue = q /\ proc[s].raced
<1>1. queue # queue' /\ queue \in [Queues -> QueueRows]
  BY DEF IInv, TypeOK
<1>2. \A x \in Queues : ~QueueCreate(x)
  BY <1>1 DEF QueueCreate, QueueRows
<1>3. \A x \in Queues : ~QueueDelete(x)
  BY <1>1 DEF QueueDelete, QueueRows
<1>4. \A s \in Slots : ~NewRequest(s)
  BY <1>1 DEF NewRequest, Watch, MemberAdd, WatchByEmails, AddLabel, LinkTicket, Asks,
              SLALoad, CreateLoad, AddNote, EditLoad
<1>5. PICK s \in Slots : SLASave(s)
  BY <1>1, <1>2, <1>3, <1>4
  DEF Next, vars, Step, Look, Insert, Duplicate, CreateInsert, TouchUpdatedAt, TouchError,
      EditSave, Answer, Remove, Crash, Tick
<1>6. proc[s].pc = "sla" /\ proc[s].queue = q
  BY <1>1, <1>5 DEF SLASave
<1>7. EditOK(proc[s], queue)
  BY DEF IInv, SlotOK
<1>8. QED
  BY <1>6, <1>7 DEF EditOK

(* Only an SLA edit that read a queue before it was deleted brings the     *)
(* queue back.                                                             *)
THEOREM GoneAlwaysStaysGone == Spec => GoneStaysGone
<1>1. IInv /\ [Next]_vars =>
        [\A q \in Queues : queue[q].there = "gone" /\ queue'[q].there # "gone" =>
           \E s \in Slots : proc[s].pc = "sla" /\ proc[s].queue = q /\ proc[s].raced]_vars
  BY GoneSteps
<1>2. QED
  BY <1>1, DeskConsistent, PTL DEF Spec, GoneStaysGone


-----------------------------------------------------------------------------
(* The hub, for any streams, publishers, capacity and number of messages.  *)
(*                                                                         *)
(* A publisher sends to channels that were in the map when it took the     *)
(* mutex.  Only a holder of the mutex takes a channel out, and a channel   *)
(* is closed after that, so while the publisher holds it none is closed.   *)
(* The same mutex makes its message newer than any in the channels.        *)

(* A stream in the map has not been cancelled; a closed one has.          *)
MapOK ==
  /\ \A s \in subscribers : stage[s] \in {"open", "writing", "left"}
  /\ \A s \in closed : stage[s] = "done"

(* A publisher with channels to send to holds the mutex, and they are      *)
(* still in the map.                                                       *)
SenderOK(p) ==
  /\ pub[p].pc = "sending" => mutex = p /\ pub[p].todo \subseteq subscribers
  /\ pub[p].pc # "sending" => pub[p].todo = {}

(* No message is newer than the last one published, and those in a channel *)
(* that is still to get it are older.                                      *)
Due(s) == \E p \in Publishers : s \in pub[p].todo

NewestOK(s) ==
  /\ last[s] <= published
  /\ \A i \in 1 .. Len(buffer[s]) : buffer[s][i] <= published
  /\ Due(s) => /\ last[s] < published
               /\ \A i \in 1 .. Len(buffer[s]) : buffer[s][i] < published

Ordered(s) ==
  /\ \A i \in 1 .. Len(buffer[s]) : last[s] < buffer[s][i]
  /\ \A i, j \in 1 .. Len(buffer[s]) : i < j => buffer[s][i] < buffer[s][j]

HubInv ==
  /\ HubTypeOK
  /\ MapOK
  /\ \A p \in Publishers : SenderOK(p)
  /\ \A s \in Streams : NewestOK(s) /\ Ordered(s)

LEMMA InitHubInv == HubInit => HubInv
<1> SUFFICES ASSUME HubInit PROVE HubInv
  OBVIOUS
<1>1. \A s \in Streams : buffer[s] = <<>> /\ last[s] = 0
  BY DEF HubInit
<1>2. buffer \in [Streams -> Seq(Message)] /\ \A s \in Streams : Len(buffer[s]) <= Capacity
  BY HubAssumption DEF HubInit
<1>3. HubTypeOK /\ MapOK
  BY <1>2 DEF HubInit, HubTypeOK, MapOK, IdlePublisher, Publisher, Stages
<1>4. \A p \in Publishers : SenderOK(p)
  BY DEF HubInit, SenderOK, IdlePublisher
<1>5. \A s \in Streams : NewestOK(s) /\ Ordered(s)
  BY <1>1 DEF HubInit, NewestOK, Ordered, Due, IdlePublisher
<1>6. QED
  BY <1>3, <1>4, <1>5 DEF HubInv

(* A step that leaves the channels' contents alone and gives no channel to *)
(* a publisher keeps the order.                                            *)
LEMMA SameChannels ==
  ASSUME HubInv, UNCHANGED <<buffer, last, published>>,
         \A p \in Publishers : pub'[p].todo \subseteq pub[p].todo
  PROVE  \A s \in Streams : (NewestOK(s) /\ Ordered(s))'
  BY DEF HubInv, NewestOK, Ordered, Due

(* The steps of a stream that no publisher can notice.                    *)
LEMMA StreamHubInv ==
  ASSUME HubInv, NEW s \in Streams,
         Subscribe(s) \/ KeepAlive(s) \/ Leave(s) \/ Written(s) \/ CloseChannel(s)
           \/ ClientMoves(s)
  PROVE  HubInv'
<1>1. UNCHANGED <<buffer, last, pub, mutex, published>> /\ subscribers \subseteq subscribers'
  BY DEF Subscribe, KeepAlive, Leave, Written, CloseChannel, ClientMoves, stream
<1>2. HubTypeOK'
  BY DEF HubInv, HubTypeOK, Stages, Subscribe, KeepAlive, Leave, Written, CloseChannel,
         ClientMoves, stream
<1>3. MapOK'
  BY DEF HubInv, HubTypeOK, MapOK, Subscribe, KeepAlive, Leave, Written, CloseChannel,
         ClientMoves, stream
<1>4. \A p \in Publishers : SenderOK(p)'
  BY <1>1 DEF HubInv, SenderOK
<1>5. \A t \in Streams : (NewestOK(t) /\ Ordered(t))'
  BY <1>1, SameChannels
<1>6. QED
  BY <1>2, <1>3, <1>4, <1>5 DEF HubInv

(* The mutex is free: nobody is sending.                                  *)
LEMMA UnsubscribeHubInv ==
  ASSUME HubInv, NEW s \in Streams, Unsubscribe(s)
  PROVE  HubInv'
<1>1. \A p \in Publishers : pub[p].pc # "sending"
  BY HubAssumption DEF Unsubscribe, HubInv, SenderOK
<1>2. HubTypeOK' /\ MapOK'
  BY DEF Unsubscribe, HubInv, HubTypeOK, MapOK, Stages
<1>3. \A p \in Publishers : SenderOK(p)'
  BY <1>1 DEF Unsubscribe, HubInv, SenderOK
<1>4. \A t \in Streams : (NewestOK(t) /\ Ordered(t))'
  BY SameChannels DEF Unsubscribe
<1>5. QED
  BY <1>2, <1>3, <1>4 DEF HubInv

LEMMA ReceiveHubInv ==
  ASSUME HubInv, NEW s \in Streams, Receive(s)
  PROVE  HubInv'
<1> DEFINE b == buffer[s]
<1>1. b \in Seq(Message) /\ b # <<>> /\ Len(b) <= Capacity /\ stage[s] = "open"
  BY DEF Receive, HubInv, HubTypeOK
<1>2. /\ Head(b) = b[1] /\ Head(b) \in Message
      /\ Tail(b) \in Seq(Message) /\ Len(Tail(b)) = Len(b) - 1
      /\ \A i \in 1 .. Len(Tail(b)) : Tail(b)[i] = b[i + 1] /\ i + 1 \in 1 .. Len(b)
      /\ 1 \in 1 .. Len(b)
  BY <1>1
<1>3. /\ buffer' = [buffer EXCEPT ![s] = Tail(b)] /\ last' = [last EXCEPT ![s] = Head(b)]
      /\ stage' = [stage EXCEPT ![s] = "writing"]
      /\ UNCHANGED <<subscribers, closed, client, pub, mutex, published, closing>>
  BY DEF Receive
<1>4. HubTypeOK'
  <2>1. Len(Tail(b)) <= Capacity
    BY <1>1, <1>2, HubAssumption
  <2>2. QED
    BY <1>2, <1>3, <2>1 DEF HubInv, HubTypeOK, Stages, Message
<1>5. MapOK' /\ \A p \in Publishers : SenderOK(p)'
  BY <1>1, <1>3 DEF HubInv, HubTypeOK, MapOK, SenderOK
<1>6. ASSUME NEW t \in Streams PROVE (NewestOK(t) /\ Ordered(t))'
  <2>1. CASE t # s
    BY <1>3, <2>1 DEF HubInv, HubTypeOK, NewestOK, Ordered, Due
  <2>2. CASE t = s
    <3>1. buffer'[s] = Tail(b) /\ last'[s] = b[1] /\ published' = published /\ pub' = pub
      BY <1>2, <1>3 DEF HubInv, HubTypeOK
    <3>2. NewestOK(s) /\ Ordered(s)
      BY DEF HubInv
    <3>3. NewestOK(s)'
      BY <1>2, <3>1, <3>2 DEF NewestOK, Due
    <3>4. Ordered(s)'
      <4>1. \A i \in 1 .. Len(Tail(b)) : b[1] < Tail(b)[i]
        BY <1>2, <3>2 DEF Ordered
      <4>2. \A i, j \in 1 .. Len(Tail(b)) : i < j => Tail(b)[i] < Tail(b)[j]
        BY <1>2, <3>2 DEF Ordered
      <4>3. QED
        BY <3>1, <4>1, <4>2 DEF Ordered
    <3>5. QED
      BY <2>2, <3>3, <3>4
  <2>3. QED
    BY <2>1, <2>2
<1>7. QED
  BY <1>4, <1>5, <1>6 DEF HubInv

-----------------------------------------------------------------------------
LEMMA RecipientsHubInv ==
  ASSUME HubInv, NEW p \in Publishers, Recipients(p) \/ Unlock(p)
  PROVE  HubInv'
<1>1. /\ UNCHANGED <<stream, subscribers, closed, client, published, closing>>
      /\ \A q \in Publishers \ {p} : pub'[q] = pub[q]
      /\ pub' \in [Publishers -> Publisher]
      /\ pub'[p].pc # "sending" /\ pub'[p].todo = {}
      /\ mutex' \in Publishers \union {Nobody}
  <2>1. CASE Recipients(p)
    <3>1. PICK us \in SUBSET Viewers :
            pub' = [pub EXCEPT ![p] = [pc |-> "asked", to |-> us, todo |-> {}]]
      BY <2>1 DEF Recipients
    <3>2. QED
      BY <2>1, <3>1 DEF Recipients, HubInv, HubTypeOK, Publisher
  <2>2. CASE Unlock(p)
    BY <2>2 DEF Unlock, HubInv, HubTypeOK, Publisher, IdlePublisher
  <2>3. QED
    BY <2>1, <2>2
<1>2. HubTypeOK' /\ MapOK'
  BY <1>1 DEF HubInv, HubTypeOK, MapOK, stream
<1>3. \A q \in Publishers \ {p} : SenderOK(q)'
  <2>1. CASE Recipients(p)
    BY <1>1, <2>1 DEF Recipients, HubInv, SenderOK
  <2>2. CASE Unlock(p)
    <3>1. \A q \in Publishers \ {p} : pub[q].pc # "sending"
      BY <2>2 DEF Unlock, HubInv, SenderOK
    <3>2. QED
      BY <1>1, <3>1 DEF HubInv, SenderOK
  <2>3. QED
    BY <2>1, <2>2
<1>4. SenderOK(p)'
  BY <1>1 DEF SenderOK
<1>5. \A t \in Streams : (NewestOK(t) /\ Ordered(t))'
  <2>1. \A q \in Publishers : pub'[q].todo \subseteq pub[q].todo
    BY <1>1
  <2>2. QED
    BY <1>1, <2>1, SameChannels DEF stream
<1>6. QED
  BY <1>2, <1>3, <1>4, <1>5 DEF HubInv

LEMMA LockHubInv ==
  ASSUME HubInv, NEW p \in Publishers, Lock(p)
  PROVE  HubInv'
<1>1. /\ mutex' = p /\ published' = published + 1 /\ published \in Nat
      /\ UNCHANGED <<stage, buffer, last, subscribers, closed, client, closing>>
      /\ \A q \in Publishers \ {p} : pub'[q] = pub[q] /\ pub[q].pc # "sending"
      /\ pub' \in [Publishers -> Publisher]
      /\ pub'[p].pc = "sending" /\ pub'[p].todo \subseteq subscribers
  BY HubAssumption DEF Lock, HubInv, HubTypeOK, SenderOK, Publisher, stream
<1>2. HubTypeOK' /\ MapOK'
  BY <1>1 DEF HubInv, HubTypeOK, MapOK
<1>3. \A q \in Publishers : SenderOK(q)'
  BY <1>1 DEF HubInv, SenderOK
<1>4. ASSUME NEW t \in Streams PROVE (NewestOK(t) /\ Ordered(t))'
  <2>1. NewestOK(t) /\ Ordered(t) /\ last[t] \in Nat /\ buffer[t] \in Seq(Message)
    BY DEF HubInv, HubTypeOK
  <2>2. \A i \in 1 .. Len(buffer[t]) : buffer[t][i] \in Nat
    BY <2>1 DEF Message
  <2>3. NewestOK(t)'
    BY <1>1, <2>1, <2>2 DEF NewestOK
  <2>4. QED
    BY <1>1, <2>1, <2>3 DEF Ordered
<1>5. QED
  BY <1>2, <1>3, <1>4 DEF HubInv

LEMMA SendHubInv ==
  ASSUME HubInv, NEW p \in Publishers, Send(p)
  PROVE  HubInv'
<1>1. PICK s \in pub[p].todo :
        buffer' = Deliver(s) /\ pub' = [pub EXCEPT ![p].todo = @ \ {s}]
  BY DEF Send
<1>2. /\ pub[p].pc = "sending" /\ mutex = p
      /\ UNCHANGED <<stage, last, subscribers, closed, client, mutex, published, closing>>
      /\ pub[p] \in Publisher /\ s \in Streams /\ s \in subscribers
  BY DEF Send, HubInv, HubTypeOK, SenderOK, Publisher
<1>3. /\ \A q \in Publishers \ {p} : pub'[q] = pub[q] /\ pub[q].todo = {}
      /\ pub' \in [Publishers -> Publisher]
      /\ pub'[p].pc = "sending" /\ pub'[p].todo = pub[p].todo \ {s}
  BY <1>1, <1>2 DEF HubInv, HubTypeOK, SenderOK, Publisher
<1>4. /\ \A t \in Streams \ {s} : buffer'[t] = buffer[t]
      /\ buffer'[s] \in {buffer[s], Append(buffer[s], published)}
      /\ DOMAIN buffer' = Streams /\ buffer' = [t \in Streams |-> buffer'[t]]
      /\ buffer'[s] # buffer[s] => Len(buffer[s]) < Capacity
  BY <1>1, <1>2 DEF Deliver, HubInv, HubTypeOK
<1>5. /\ buffer[s] \in Seq(Message) /\ last[s] < published /\ published \in Message
      /\ last[s] \in Nat /\ Len(buffer[s]) <= Capacity
      /\ \A i \in 1 .. Len(buffer[s]) : buffer[s][i] < published
      /\ Ordered(s)
  <2>1. Due(s) /\ NewestOK(s) /\ Ordered(s)
    BY <1>1, <1>2 DEF Due, HubInv
  <2>2. QED
    BY <1>2, <2>1 DEF NewestOK, HubInv, HubTypeOK, Message
<1>6. buffer'[s] \in Seq(Message) /\ Len(buffer'[s]) <= Capacity /\ Ordered(s)'
      /\ last[s] <= published /\ \A i \in 1 .. Len(buffer'[s]) : buffer'[s][i] <= published
  <2>1. CASE buffer'[s] = buffer[s]
    BY <1>2, <1>5, <2>1 DEF Ordered, Message
  <2>2. CASE buffer'[s] # buffer[s]
    <3> DEFINE b == buffer[s]
               c == Append(b, published)
    <3>1. /\ c \in Seq(Message) /\ Len(c) = Len(b) + 1 /\ Len(b) \in Nat
          /\ c[Len(b) + 1] = published
          /\ \A i \in 1 .. Len(b) : c[i] = b[i] /\ b[i] \in Nat
      BY <1>5 DEF Message
    <3>2. buffer'[s] = c /\ Len(b) < Capacity
      BY <1>4, <2>2
    <3>3. Len(c) <= Capacity
      BY <3>1, <3>2, HubAssumption
    <3>4. \A i \in 1 .. Len(c) : (i \in 1 .. Len(b) \/ i = Len(b) + 1)
      BY <3>1
    <3>5. \A i \in 1 .. Len(c) : last[s] < c[i] /\ c[i] <= published
      BY <1>5, <3>1, <3>4 DEF Ordered, Message
    <3>6. \A i, j \in 1 .. Len(c) : i < j => c[i] < c[j]
      <4>1. SUFFICES ASSUME NEW i \in 1 .. Len(c), NEW j \in 1 .. Len(c), i < j
                     PROVE  c[i] < c[j]
        OBVIOUS
      <4>2. i \in 1 .. Len(b)
        BY <3>1, <4>1
      <4>3. CASE j \in 1 .. Len(b)
        BY <1>5, <3>1, <4>1, <4>2, <4>3 DEF Ordered
      <4>4. CASE j = Len(b) + 1
        BY <1>5, <3>1, <4>2, <4>4
      <4>5. QED
        BY <3>4, <4>3, <4>4
    <3> HIDE DEF c
    <3>7. Ordered(s)'
      BY <1>2, <3>2, <3>5, <3>6 DEF Ordered
    <3>8. QED
      BY <1>5, <3>1, <3>2, <3>3, <3>5, <3>7 DEF Message
  <2>3. QED
    BY <2>1, <2>2
<1>7. HubTypeOK' /\ MapOK'
  <2>1. \A t \in Streams : buffer'[t] \in Seq(Message) /\ Len(buffer'[t]) <= Capacity
    BY <1>4, <1>6 DEF HubInv, HubTypeOK
  <2>2. buffer' \in [Streams -> Seq(Message)]
    BY <1>4, <2>1
  <2>3. QED
    BY <1>2, <1>3, <2>1, <2>2 DEF HubInv, HubTypeOK, MapOK
<1>8. \A q \in Publishers : SenderOK(q)'
  BY <1>2, <1>3 DEF HubInv, SenderOK
<1>9. ASSUME NEW t \in Streams PROVE (NewestOK(t) /\ Ordered(t))'
  <2>1. CASE t # s
    BY <1>2, <1>3, <1>4, <2>1 DEF HubInv, NewestOK, Ordered, Due
  <2>2. CASE t = s
    <3>1. ~Due(s)'
      BY <1>3 DEF Due
    <3>2. QED
      BY <1>2, <1>6, <2>2, <3>1 DEF NewestOK
  <2>3. QED
    BY <2>1, <2>2
<1>10. QED
  BY <1>7, <1>8, <1>9 DEF HubInv

LEMMA NextHubInv == HubInv /\ [HubNext]_hubVars => HubInv'
<1> SUFFICES ASSUME HubInv, [HubNext]_hubVars PROVE HubInv'
  OBVIOUS
<1>1. CASE Close \/ UNCHANGED hubVars
  <2>1. UNCHANGED <<stage, buffer, last, subscribers, closed, client, pub, mutex, published>>
        /\ closing' \in BOOLEAN
    BY <1>1 DEF Close, hubVars, stream, HubInv, HubTypeOK
  <2>2. QED
    BY <2>1, SameChannels DEF HubInv, HubTypeOK, MapOK, SenderOK
<1>2. QED
  BY <1>1, StreamHubInv, UnsubscribeHubInv, ReceiveHubInv, RecipientsHubInv, LockHubInv, SendHubInv
  DEF HubNext, Serve, Publish

(* In every reachable state the map, the channels and the holder of the    *)
(* mutex agree.                                                            *)
THEOREM HubConsistent == HubSpec => []HubInv
<1>1. HubInit => HubInv
  BY InitHubInv
<1>2. HubInv /\ [HubNext]_hubVars => HubInv'
  BY NextHubInv
<1>3. QED
  BY <1>1, <1>2, PTL DEF HubSpec

(* The hub's state is well typed, and no buffer outgrows its channel.      *)
THEOREM HubTypeCorrect == HubSpec => []HubTypeOK
<1>1. HubInv => HubTypeOK
  BY DEF HubInv
<1>2. QED
  BY <1>1, HubConsistent, PTL

(* No interleaving of publishers, cancellations and shutdown sends on a    *)
(* closed channel.                                                         *)
THEOREM NeverSendsOnClosed == HubSpec => []NoSendOnClosed
<1>1. HubInv => NoSendOnClosed
  BY DEF HubInv, NoSendOnClosed, MapOK, SenderOK
<1>2. QED
  BY <1>1, HubConsistent, PTL

(* Every stream sees a subsequence of what was published, in its order.    *)
THEOREM StreamsInOrder == HubSpec => []InOrder
<1>1. HubInv => InOrder
  BY DEF HubInv, InOrder, Ordered
<1>2. QED
  BY <1>1, HubConsistent, PTL
=============================================================================
