---------------------------- MODULE WorkflowProofs ----------------------------
(***************************************************************************)
(* What holds of the workflow engine for every configuration, pool of      *)
(* workers, number of requests, crashes and failed saves.                  *)
(*                                                                         *)
(* That nothing runs past an approval nobody gave needs no exclusion at    *)
(* all: whoever holds a copy of a task holds one whose passed approvals    *)
(* were granted, and grants are never taken back.  That a task has one     *)
(* executor does: it needs resume and decide requests one at a time.       *)
(***************************************************************************)
EXTENDS WorkflowEngine, SequenceTheorems, TLAPS

Keys  == {"resumed", "out", "pending", "decision", "answer"} \X Nat
Vals  == BOOLEAN \cup Nat
Ctx   == UNION {[K -> Vals] : K \in SUBSET Keys}

TaskRec   == [ status : Statuses, step : Nat \ {0}, tries : Nat, ctx : Ctx, ready : BOOLEAN ]
WorkerRec == [ pc : {"idle", "selected", "running", "unreadable", "error", "pausing"},
               id : Nat, step : Nat \ {0}, tries : Nat, ctx : Ctx, mem : Ctx ]
SlotRec   == [ pc : {"idle", "decided", "found", "loaded"}, id : Nat,
               key : Keys \cup {<<>>}, value : BOOLEAN, copy : TaskRec ]
Approval  == [ task : Tasks, step : Nat, status : {"pending", "approved", "rejected"},
               granted : BOOLEAN ]

Shapes ==
  /\ task \in [Tasks -> TaskRec]
  /\ approvals \in Seq(Approval)
  /\ worker \in [Workers -> WorkerRec]
  /\ slot \in [Slots -> SlotRec]
  /\ calls \in 0 .. MaxCalls /\ lost \in 0 .. MaxLosses

Busy(w) == worker[w].pc # "idle"

(* Steps and tries of a copy; a task that can still run has a try left.    *)
InRange(t, step, tries) == step <= Len(Config[t]) + 1 /\ tries < MaxTries

RowRange(t, r) ==
  /\ r.step <= Len(Config[t]) + 1
  /\ r.tries <= MaxTries
  /\ r.status # "failed" => r.tries < MaxTries

(* A request that found its task; the copy it loaded was waiting.          *)
SlotRange(x) ==
  /\ x.pc \in {"found", "loaded"} => x.id \in Tasks
  /\ x.pc = "loaded" => RowRange(x.id, x.copy) /\ x.copy.status = "waiting_user"

Ranges ==
  /\ \A t \in Tasks : RowRange(t, task[t])
  /\ \A w \in Workers : Busy(w) =>
       worker[w].id \in Tasks /\ InRange(worker[w].id, worker[w].step, worker[w].tries)
  /\ \A s \in Slots : SlotRange(slot[s])

TInv == Shapes /\ Ranges

-----------------------------------------------------------------------------
(* Contexts.                                                              *)

LEMMA EmptyCtx == Empty \in Ctx /\ \A k \in Keys : ~Has(Empty, k)
<1>1. Empty \in [{} -> Vals] /\ DOMAIN Empty = {}
  BY DEF Empty
<1>2. {} \in SUBSET Keys
  OBVIOUS
<1>3. QED
  BY <1>1, <1>2 DEF Ctx, Has

LEMMA PutCtx ==
  ASSUME NEW c \in Ctx, NEW k \in Keys, NEW v \in Vals
  PROVE  /\ Put(c, k, v) \in Ctx
         /\ \A x \in Keys : Has(Put(c, k, v), x) <=> (x = k \/ Has(c, x))
         /\ Put(c, k, v)[k] = v
         /\ \A x \in Keys : x # k /\ Has(c, x) => Put(c, k, v)[x] = c[x]
<1>1. PICK K \in SUBSET Keys : c \in [K -> Vals]
  BY DEF Ctx
<1>2. Put(c, k, v) = [x \in {k} \cup K |-> IF x = k THEN v ELSE c[x]]
  BY <1>1 DEF Put
<1>3. {k} \cup K \in SUBSET Keys
  BY <1>1
<1>4. Put(c, k, v) \in [{k} \cup K -> Vals]
  BY <1>1, <1>2
<1>5. Put(c, k, v) \in Ctx
  BY <1>3, <1>4 DEF Ctx
<1>6. QED
  BY <1>1, <1>2, <1>5 DEF Has

LEMMA CtxVals ==
  ASSUME NEW c \in Ctx, NEW k \in Keys, Has(c, k)
  PROVE  c[k] \in Vals
  BY DEF Ctx, Has

-----------------------------------------------------------------------------
(* Types.  What the actions write has the shape it should.                *)

(* A worker's new state: idle, or a copy of a task within its bounds.      *)
FitsWorker(new) ==
  /\ new \in WorkerRec
  /\ new.pc # "idle" => new.id \in Tasks /\ InRange(new.id, new.step, new.tries)

FitsRow(t, new) == new \in TaskRec /\ RowRange(t, new)

LEMMA SeqLen ==
  ASSUME NEW S, NEW q \in Seq(S)
  PROVE  Len(q) \in Nat /\ DOMAIN q = 1 .. Len(q)
  OBVIOUS

LEMMA ConfigLen == \A t \in Tasks : Len(Config[t]) \in Nat
<1>1. \A t \in Tasks : Config[t] \in Seq(STRING)
  BY EngineAssumption
<1>2. QED
  BY <1>1, SeqLen

LEMMA IdleFits ==
  /\ FitsWorker(IdleWorker)
  /\ IdleSlot \in SlotRec /\ IdleSlot.pc = "idle"
  /\ \A t \in Tasks : FitsRow(t, NoTask)
<1>1. NoTask \in TaskRec
  BY EmptyCtx DEF NoTask, TaskRec, Statuses
<1>2. IdleWorker \in WorkerRec /\ IdleWorker.pc = "idle"
  BY EmptyCtx DEF IdleWorker, WorkerRec
<1>3. IdleSlot \in SlotRec /\ IdleSlot.pc = "idle"
  BY <1>1 DEF IdleSlot, SlotRec
<1>4. \A t \in Tasks : Len(Config[t]) \in Nat
  BY ConfigLen
<1>5. QED
  BY <1>1, <1>2, <1>3, <1>4, EngineAssumption DEF FitsRow, RowRange, FitsWorker, NoTask

(* Only a worker's state, and perhaps the approvals, change.              *)
LEMMA WorkerTInv ==
  ASSUME TInv, NEW w \in Workers, NEW new, FitsWorker(new),
         worker' = [worker EXCEPT ![w] = new],
         task' = task, slot' = slot, calls' = calls,
         approvals' \in Seq(Approval), lost' \in 0 .. MaxLosses
  PROVE  TInv'
<1>1. Shapes'
  BY DEF TInv, Shapes, FitsWorker
<1>2. ASSUME NEW x \in Workers, worker'[x].pc # "idle"
      PROVE  /\ worker'[x].id \in Tasks
             /\ InRange(worker'[x].id, worker'[x].step, worker'[x].tries)
  <2>1. CASE x = w
    BY <2>1, <1>2 DEF TInv, Shapes, FitsWorker
  <2>2. CASE x # w
    BY <2>2, <1>2 DEF TInv, Shapes, Ranges, Busy
  <2>3. QED
    BY <2>1, <2>2
<1>3. Ranges'
  BY <1>2 DEF TInv, Ranges, Busy
<1>4. QED
  BY <1>1, <1>3 DEF TInv

(* A task's row changes; the worker or the slot that wrote it goes idle.  *)
LEMMA RowTInv ==
  ASSUME TInv, NEW t \in Tasks, NEW new, FitsRow(t, new),
         task' = [task EXCEPT ![t] = new],
         worker' \in [Workers -> WorkerRec], slot' \in [Slots -> SlotRec],
         \A w \in Workers : worker'[w] = worker[w] \/ FitsWorker(worker'[w]),
         \A s \in Slots : slot'[s] = slot[s] \/ slot'[s].pc = "idle",
         approvals' = approvals, calls' = calls, lost' \in 0 .. MaxLosses
  PROVE  TInv'
<1>1. Shapes'
  BY DEF TInv, Shapes, FitsRow
<1>2. \A x \in Tasks : RowRange(x, task'[x])
  BY DEF TInv, Shapes, Ranges, FitsRow
<1>3. Ranges'
  BY <1>2 DEF TInv, Ranges, Busy, FitsWorker, SlotRange
<1>4. QED
  BY <1>1, <1>3 DEF TInv

(* Only a slot, and perhaps the approvals, change.                        *)
LEMMA SlotTInv ==
  ASSUME TInv, NEW s \in Slots, NEW new \in SlotRec, SlotRange(new),
         slot' = [slot EXCEPT ![s] = new],
         task' = task, worker' = worker, lost' = lost,
         approvals' \in Seq(Approval), calls' \in 0 .. MaxCalls
  PROVE  TInv'
<1>1. Shapes'
  BY DEF TInv, Shapes
<1>2. \A x \in Slots : SlotRange(slot'[x])
  BY DEF TInv, Shapes, Ranges
<1>3. Ranges'
  BY <1>2 DEF TInv, Ranges, Busy
<1>4. QED
  BY <1>1, <1>3 DEF TInv

-----------------------------------------------------------------------------
(* What the worker's steps make of its state.                             *)

LEMMA WorkerFacts ==
  ASSUME TInv, NEW w \in Workers, Busy(w)
  PROVE  /\ worker[w] \in WorkerRec /\ worker[w].id \in Tasks
         /\ worker[w].step \in Nat \ {0} /\ worker[w].tries \in Nat
         /\ worker[w].ctx \in Ctx /\ worker[w].mem \in Ctx
         /\ InRange(worker[w].id, worker[w].step, worker[w].tries)
         /\ Steps(w) = Config[worker[w].id] /\ Len(Steps(w)) \in Nat
         /\ task[worker[w].id] \in TaskRec
<1>1. worker[w] \in WorkerRec /\ worker[w].id \in Tasks
  BY DEF TInv, Shapes, Ranges, Busy
<1>2. Len(Steps(w)) \in Nat
  BY <1>1, ConfigLen DEF Steps
<1>3. QED
  BY <1>1, <1>2 DEF TInv, Shapes, Ranges, Busy, WorkerRec, Steps

(* The possible outcomes of a step, as records.                           *)
LEMMA ContinueFits ==
  ASSUME TInv, NEW w \in Workers, Busy(w), ~AtEnd(w), NEW mem \in Ctx
  PROVE  FitsWorker([worker[w] EXCEPT !.step = @ + 1, !.tries = 0, !.mem = mem])
<1> DEFINE new == [worker[w] EXCEPT !.step = @ + 1, !.tries = 0, !.mem = mem]
<1>1. worker[w] \in WorkerRec /\ worker[w].id \in Tasks /\ worker[w].step \in Nat \ {0}
      /\ Len(Steps(w)) \in Nat /\ Steps(w) = Config[worker[w].id]
  BY WorkerFacts
<1>2. worker[w].step + 1 \in Nat \ {0} /\ worker[w].step + 1 <= Len(Steps(w)) + 1
  BY <1>1 DEF AtEnd
<1>3. new \in WorkerRec
  BY <1>1, <1>2 DEF WorkerRec
<1>4. new.id = worker[w].id /\ new.step = worker[w].step + 1 /\ new.tries = 0
  BY <1>1 DEF WorkerRec
<1>5. QED
  BY <1>1, <1>2, <1>3, <1>4, EngineAssumption DEF FitsWorker, InRange

LEMMA SkipFits ==
  ASSUME TInv, NEW w \in Workers, Busy(w)
  PROVE  FitsWorker([worker[w] EXCEPT !.step = Len(Steps(w)) + 1, !.tries = 0])
<1> DEFINE new == [worker[w] EXCEPT !.step = Len(Steps(w)) + 1, !.tries = 0]
<1>1. worker[w] \in WorkerRec /\ worker[w].id \in Tasks
      /\ Len(Steps(w)) \in Nat /\ Steps(w) = Config[worker[w].id]
  BY WorkerFacts
<1>2. new \in WorkerRec
  <2>1. Len(Steps(w)) + 1 \in Nat \ {0}
    BY <1>1
  <2>2. QED
    BY <1>1, <2>1 DEF WorkerRec
<1>3. new.id = worker[w].id /\ new.step = Len(Steps(w)) + 1 /\ new.tries = 0
  BY <1>1 DEF WorkerRec
<1>4. QED
  BY <1>1, <1>2, <1>3, EngineAssumption DEF FitsWorker, InRange

LEMMA PcFits ==
  ASSUME TInv, NEW w \in Workers, Busy(w), NEW mem \in Ctx,
         NEW pc \in {"running", "unreadable", "error", "pausing"}
  PROVE  FitsWorker([worker[w] EXCEPT !.pc = pc, !.mem = mem])
<1> DEFINE new == [worker[w] EXCEPT !.pc = pc, !.mem = mem]
<1>1. worker[w] \in WorkerRec /\ worker[w].id \in Tasks
      /\ InRange(worker[w].id, worker[w].step, worker[w].tries)
  BY WorkerFacts
<1>2. new \in WorkerRec
  BY <1>1 DEF WorkerRec
<1>3. new.id = worker[w].id /\ new.step = worker[w].step /\ new.tries = worker[w].tries
  BY <1>1 DEF WorkerRec
<1>4. QED
  BY <1>1, <1>2, <1>3 DEF FitsWorker

LEMMA ErrorIsPc ==
  ASSUME TInv, NEW w \in Workers, Busy(w)
  PROVE  /\ [worker[w] EXCEPT !.pc = "error"]
              = [worker[w] EXCEPT !.pc = "error", !.mem = worker[w].mem]
         /\ FitsWorker([worker[w] EXCEPT !.pc = "error"])
<1>1. worker[w] \in WorkerRec /\ worker[w].mem \in Ctx
  BY WorkerFacts
<1>2. [worker[w] EXCEPT !.pc = "error"]
        = [worker[w] EXCEPT !.pc = "error", !.mem = worker[w].mem]
  BY <1>1 DEF WorkerRec
<1>3. QED
  BY <1>1, <1>2, PcFits

-----------------------------------------------------------------------------
(* Approvals.  The list is an argument: it differs before and after.  *)

Granted(list, t, i) ==
  \E a \in DOMAIN list : list[a].task = t /\ list[a].step = i /\ list[a].granted

(* A context names the approvals its task asked for, and holds a positive  *)
(* decision only on a step somebody approved.                             *)
CtxOK(list, t, c) ==
  \A i \in Nat :
    /\ Has(c, <<"pending", i>>) =>
         LET a == c[<<"pending", i>>] IN
         a \in DOMAIN list /\ list[a].task = t /\ list[a].step = i
    /\ Has(c, <<"decision", i>>) =>
         /\ c[<<"decision", i>>] \in BOOLEAN
         /\ c[<<"decision", i>>] = TRUE => Granted(list, t, i)

(* A copy of a task that is at step n.                                    *)
Passed(list, t, n) ==
  n <= Len(Config[t]) =>
    \A i \in 1 .. (n - 1) : Config[t][i] = "approval" => Granted(list, t, i)

GoodRow(list, t, r) == CtxOK(list, t, r.ctx) /\ Passed(list, t, r.step)

GoodWorker(list, x) ==
  x.pc # "idle" =>
    CtxOK(list, x.id, x.ctx) /\ CtxOK(list, x.id, x.mem) /\ Passed(list, x.id, x.step)

GoodSlot(list, x) ==
  /\ x.pc = "decided" /\ x.value => x.id \in DOMAIN list /\ list[x.id].granted
  /\ x.pc \in {"found", "loaded"} =>
       \/ \E i \in Nat : x.key = <<"answer", i>>
       \/ \E i \in Nat : x.key = <<"decision", i>> /\ (x.value => Granted(list, x.id, i))
  /\ x.pc \in {"found", "loaded"} => x.id \in Tasks
  /\ x.pc = "loaded" => GoodRow(list, x.id, x.copy)

AInv ==
  /\ \A t \in Tasks : GoodRow(approvals, t, task[t])
  /\ \A w \in Workers : GoodWorker(approvals, worker[w])
  /\ \A s \in Slots : GoodSlot(approvals, slot[s])

(* Approvals are added and decided, never withdrawn.                      *)
Grows(list, bs) ==
  \A a \in DOMAIN list :
    /\ a \in DOMAIN bs /\ bs[a].task = list[a].task /\ bs[a].step = list[a].step
    /\ list[a].granted => bs[a].granted

LEMMA GrowsSelf == \A list : Grows(list, list)
  BY DEF Grows

LEMMA GrantedGrows ==
  ASSUME NEW list, NEW bs, Grows(list, bs), NEW t, NEW i, Granted(list, t, i)
  PROVE  Granted(bs, t, i)
  BY DEF Grows, Granted

LEMMA CtxGrows ==
  ASSUME NEW list, NEW bs, Grows(list, bs), NEW t, NEW c, CtxOK(list, t, c)
  PROVE  CtxOK(bs, t, c)
  BY GrantedGrows DEF Grows, CtxOK

LEMMA PassedGrows ==
  ASSUME NEW list, NEW bs, Grows(list, bs), NEW t, NEW n, Passed(list, t, n)
  PROVE  Passed(bs, t, n)
  BY GrantedGrows DEF Passed

LEMMA RowGrows ==
  ASSUME NEW list, NEW bs, Grows(list, bs), NEW t, NEW r, GoodRow(list, t, r)
  PROVE  GoodRow(bs, t, r)
  BY CtxGrows, PassedGrows DEF GoodRow

LEMMA WorkerGrows ==
  ASSUME NEW list, NEW bs, Grows(list, bs), NEW x, GoodWorker(list, x)
  PROVE  GoodWorker(bs, x)
  BY CtxGrows, PassedGrows DEF GoodWorker

LEMMA SlotGrows ==
  ASSUME NEW list, NEW bs, Grows(list, bs), NEW x, GoodSlot(list, x)
  PROVE  GoodSlot(bs, x)
<1>1. x.pc = "decided" /\ x.value => x.id \in DOMAIN bs /\ bs[x.id].granted
  BY DEF GoodSlot, Grows
<1>2. x.pc \in {"found", "loaded"} =>
        \/ \E i \in Nat : x.key = <<"answer", i>>
        \/ \E i \in Nat : x.key = <<"decision", i>> /\ (x.value => Granted(bs, x.id, i))
  BY GrantedGrows DEF GoodSlot
<1>3. x.pc = "loaded" => GoodRow(bs, x.id, x.copy)
  BY RowGrows DEF GoodSlot
<1>4. QED
  BY <1>1, <1>2, <1>3 DEF GoodSlot

(* What a step or an answer adds to a context keeps it good.              *)
LEMMA PutOther ==
  ASSUME NEW list, NEW t, NEW c \in Ctx, CtxOK(list, t, c), NEW v \in Vals,
         NEW k \in Keys, \A i \in Nat : k # <<"pending", i>> /\ k # <<"decision", i>>
  PROVE  CtxOK(list, t, Put(c, k, v))
<1>1. \A i \in Nat : <<"pending", i>> \in Keys /\ <<"decision", i>> \in Keys
  BY DEF Keys
<1> DEFINE d == Put(c, k, v)
<1>2. /\ \A x \in Keys : Has(d, x) <=> (x = k \/ Has(c, x))
      /\ \A x \in Keys : x # k /\ Has(c, x) => d[x] = c[x]
  BY PutCtx
<1>3. ASSUME NEW j \in Nat, Has(d, <<"pending", j>>)
      PROVE  d[<<"pending", j>>] \in DOMAIN list
             /\ list[d[<<"pending", j>>]].task = t /\ list[d[<<"pending", j>>]].step = j
  <2>1. Has(c, <<"pending", j>>) /\ d[<<"pending", j>>] = c[<<"pending", j>>]
    BY <1>1, <1>2, <1>3
  <2>2. QED
    BY <2>1 DEF CtxOK
<1>4. ASSUME NEW j \in Nat, Has(d, <<"decision", j>>)
      PROVE  d[<<"decision", j>>] \in BOOLEAN
             /\ (d[<<"decision", j>>] = TRUE => Granted(list, t, j))
  <2>1. Has(c, <<"decision", j>>) /\ d[<<"decision", j>>] = c[<<"decision", j>>]
    BY <1>1, <1>2, <1>4
  <2>2. QED
    BY <2>1 DEF CtxOK
<1>5. QED
  BY <1>3, <1>4 DEF CtxOK

LEMMA PutPending ==
  ASSUME NEW list, NEW t, NEW c \in Ctx, CtxOK(list, t, c), NEW i \in Nat,
         NEW a \in Nat, a \in DOMAIN list, list[a].task = t, list[a].step = i
  PROVE  CtxOK(list, t, Put(c, <<"pending", i>>, a))
<1> DEFINE k == <<"pending", i>>
           d == Put(c, k, a)
<1>1. k \in Keys /\ a \in Vals
  BY DEF Keys, Vals
<1>2. /\ \A x \in Keys : Has(d, x) <=> (x = k \/ Has(c, x))
      /\ d[k] = a
      /\ \A x \in Keys : x # k /\ Has(c, x) => d[x] = c[x]
  BY <1>1, PutCtx
<1>3. ASSUME NEW j \in Nat, Has(d, <<"pending", j>>)
      PROVE  d[<<"pending", j>>] \in DOMAIN list
             /\ list[d[<<"pending", j>>]].task = t /\ list[d[<<"pending", j>>]].step = j
  <2>1. <<"pending", j>> \in Keys
    BY DEF Keys
  <2>2. CASE j = i
    BY <1>2, <2>2
  <2>3. CASE j # i
    <3>1. <<"pending", j>> # k
      BY <2>3
    <3>2. Has(c, <<"pending", j>>) /\ d[<<"pending", j>>] = c[<<"pending", j>>]
      BY <1>2, <1>3, <2>1, <3>1
    <3>3. QED
      BY <3>2 DEF CtxOK
  <2>4. QED
    BY <2>2, <2>3
<1>4. ASSUME NEW j \in Nat, Has(d, <<"decision", j>>)
      PROVE  d[<<"decision", j>>] \in BOOLEAN
             /\ (d[<<"decision", j>>] = TRUE => Granted(list, t, j))
  <2>1. <<"decision", j>> \in Keys /\ <<"decision", j>> # k
    BY DEF Keys
  <2>2. Has(c, <<"decision", j>>) /\ d[<<"decision", j>>] = c[<<"decision", j>>]
    BY <1>2, <1>4, <2>1
  <2>3. QED
    BY <2>2 DEF CtxOK
<1>5. QED
  BY <1>3, <1>4 DEF CtxOK

LEMMA PutDecision ==
  ASSUME NEW list, NEW t, NEW c \in Ctx, CtxOK(list, t, c), NEW i \in Nat,
         NEW v \in BOOLEAN, v => Granted(list, t, i)
  PROVE  CtxOK(list, t, Put(c, <<"decision", i>>, v))
<1> DEFINE k == <<"decision", i>>
           d == Put(c, k, v)
<1>1. k \in Keys /\ v \in Vals
  BY DEF Keys, Vals
<1>2. /\ \A x \in Keys : Has(d, x) <=> (x = k \/ Has(c, x))
      /\ d[k] = v
      /\ \A x \in Keys : x # k /\ Has(c, x) => d[x] = c[x]
  BY <1>1, PutCtx
<1>3. ASSUME NEW j \in Nat, Has(d, <<"pending", j>>)
      PROVE  d[<<"pending", j>>] \in DOMAIN list
             /\ list[d[<<"pending", j>>]].task = t /\ list[d[<<"pending", j>>]].step = j
  <2>1. <<"pending", j>> \in Keys /\ <<"pending", j>> # k
    BY DEF Keys
  <2>2. Has(c, <<"pending", j>>) /\ d[<<"pending", j>>] = c[<<"pending", j>>]
    BY <1>2, <1>3, <2>1
  <2>3. QED
    BY <2>2 DEF CtxOK
<1>4. ASSUME NEW j \in Nat, Has(d, <<"decision", j>>)
      PROVE  d[<<"decision", j>>] \in BOOLEAN
             /\ (d[<<"decision", j>>] = TRUE => Granted(list, t, j))
  <2>1. <<"decision", j>> \in Keys
    BY DEF Keys
  <2>2. CASE j = i
    BY <1>2, <2>2
  <2>3. CASE j # i
    <3>1. <<"decision", j>> # k
      BY <2>3
    <3>2. Has(c, <<"decision", j>>) /\ d[<<"decision", j>>] = c[<<"decision", j>>]
      BY <1>2, <1>4, <2>1, <3>1
    <3>3. QED
      BY <3>2 DEF CtxOK
  <2>4. QED
    BY <2>2, <2>3
<1>5. QED
  BY <1>3, <1>4 DEF CtxOK

LEMMA EmptyOK == \A list, t : CtxOK(list, t, Empty)
<1>1. \A i \in Nat : <<"pending", i>> \in Keys /\ <<"decision", i>> \in Keys
  BY DEF Keys
<1>2. QED
  BY <1>1, EmptyCtx DEF CtxOK

-----------------------------------------------------------------------------
(* What a step must establish, whoever takes it.                          *)

IInv == TInv /\ AInv

LEMMA WorkerStep ==
  ASSUME IInv, NEW w \in Workers, NEW new, FitsWorker(new),
         Grows(approvals, approvals'), GoodWorker(approvals', new),
         worker' = [worker EXCEPT ![w] = new],
         task' = task, slot' = slot, calls' = calls,
         approvals' \in Seq(Approval), lost' \in 0 .. MaxLosses
  PROVE  IInv'
<1>1. TInv'
  BY WorkerTInv DEF IInv
<1>2. \A x \in Tasks : GoodRow(approvals', x, task[x])
  BY RowGrows DEF IInv, AInv
<1>3. \A x \in Workers : GoodWorker(approvals', worker'[x])
  <2>1. TAKE x \in Workers
  <2>2. CASE x = w
    BY <2>2 DEF IInv, TInv, Shapes
  <2>3. CASE x # w
    BY <2>3, WorkerGrows DEF IInv, AInv, TInv, Shapes
  <2>4. QED
    BY <2>2, <2>3
<1>4. \A x \in Slots : GoodSlot(approvals', slot[x])
  BY SlotGrows DEF IInv, AInv
<1>5. QED
  BY <1>1, <1>2, <1>3, <1>4 DEF IInv, AInv

LEMMA RowStep ==
  ASSUME IInv, NEW t \in Tasks, NEW new, FitsRow(t, new), GoodRow(approvals, t, new),
         task' = [task EXCEPT ![t] = new],
         worker' \in [Workers -> WorkerRec], slot' \in [Slots -> SlotRec],
         \A w \in Workers : worker'[w] = worker[w] \/ worker'[w] = IdleWorker,
         \A s \in Slots : slot'[s] = slot[s] \/ slot'[s] = IdleSlot,
         approvals' = approvals, calls' = calls, lost' = lost
  PROVE  IInv'
<1>1. TInv'
  <2>1. \A w \in Workers : worker'[w] = worker[w] \/ FitsWorker(worker'[w])
    BY IdleFits
  <2>2. \A s \in Slots : slot'[s] = slot[s] \/ slot'[s].pc = "idle"
    BY IdleFits
  <2>3. lost' \in 0 .. MaxLosses /\ TInv
    BY DEF IInv, TInv, Shapes
  <2>4. QED
    BY <2>1, <2>2, <2>3, RowTInv
<1>2. \A x \in Tasks : GoodRow(approvals, x, task'[x])
  BY DEF IInv, AInv, TInv, Shapes
<1>3. \A x \in Workers : GoodWorker(approvals, worker'[x])
  BY DEF IInv, AInv, GoodWorker, IdleWorker
<1>4. \A x \in Slots : GoodSlot(approvals, slot'[x])
  BY DEF IInv, AInv, GoodSlot, IdleSlot
<1>5. QED
  BY <1>1, <1>2, <1>3, <1>4 DEF IInv, AInv

LEMMA SlotStep ==
  ASSUME IInv, NEW s \in Slots, NEW new \in SlotRec, SlotRange(new),
         Grows(approvals, approvals'), GoodSlot(approvals', new),
         slot' = [slot EXCEPT ![s] = new],
         task' = task, worker' = worker, lost' = lost,
         approvals' \in Seq(Approval), calls' \in 0 .. MaxCalls
  PROVE  IInv'
<1>1. TInv'
  BY SlotTInv DEF IInv
<1>2. \A x \in Tasks : GoodRow(approvals', x, task[x])
  BY RowGrows DEF IInv, AInv
<1>3. \A x \in Workers : GoodWorker(approvals', worker[x])
  BY WorkerGrows DEF IInv, AInv
<1>4. \A x \in Slots : GoodSlot(approvals', slot'[x])
  <2>1. TAKE x \in Slots
  <2>2. CASE x = s
    BY <2>2 DEF IInv, TInv, Shapes
  <2>3. CASE x # s
    BY <2>3, SlotGrows DEF IInv, AInv, TInv, Shapes
  <2>4. QED
    BY <2>2, <2>3
<1>5. QED
  BY <1>1, <1>2, <1>3, <1>4 DEF IInv, AInv

-----------------------------------------------------------------------------
(* Queueing and claiming.                                                 *)

LEMMA InitInv == Init => IInv
<1>1. SUFFICES ASSUME Init PROVE IInv
  OBVIOUS
<1>2. Shapes
  BY <1>1, IdleFits, EngineAssumption DEF Init, Shapes, FitsRow, FitsWorker
<1>3. Ranges
  BY <1>1, IdleFits DEF Init, Ranges, FitsRow, FitsWorker, Busy, SlotRange
<1>4. \A t \in Tasks : GoodRow(approvals, t, task[t])
  <2>1. \A list, t : Passed(list, t, 1)
    BY DEF Passed
  <2>2. NoTask.step = 1 /\ NoTask.ctx = Empty
    BY DEF NoTask
  <2>3. QED
    BY <1>1, <2>1, <2>2, EmptyOK DEF Init, GoodRow
<1>5. (\A w \in Workers : GoodWorker(approvals, worker[w]))
      /\ \A s \in Slots : GoodSlot(approvals, slot[s])
  BY <1>1 DEF Init, GoodWorker, GoodSlot, IdleWorker, IdleSlot
<1>6. QED
  BY <1>2, <1>3, <1>4, <1>5 DEF IInv, TInv, AInv

LEMMA RowFacts ==
  ASSUME IInv, NEW t \in Tasks
  PROVE  /\ task[t] \in TaskRec /\ task \in [Tasks -> TaskRec]
         /\ RowRange(t, task[t])
         /\ CtxOK(approvals, t, task[t].ctx) /\ Passed(approvals, t, task[t].step)
  BY DEF IInv, TInv, Shapes, Ranges, AInv, GoodRow

(* A row whose status or due time alone changes.                          *)
LEMMA TouchedRow ==
  ASSUME IInv, NEW t \in Tasks, NEW status \in Statuses, NEW ready \in BOOLEAN,
         task[t].status # "failed" \/ status = "failed"
  PROVE  LET new == [task[t] EXCEPT !.status = status, !.ready = ready] IN
         FitsRow(t, new) /\ GoodRow(approvals, t, new)
<1> DEFINE new == [task[t] EXCEPT !.status = status, !.ready = ready]
<1>1. task[t] \in TaskRec /\ RowRange(t, task[t])
      /\ CtxOK(approvals, t, task[t].ctx) /\ Passed(approvals, t, task[t].step)
  BY RowFacts
<1>2. new \in TaskRec /\ new.step = task[t].step /\ new.tries = task[t].tries
      /\ new.ctx = task[t].ctx /\ new.status = status
  BY <1>1 DEF TaskRec
<1>3. QED
  BY <1>1, <1>2 DEF FitsRow, RowRange, GoodRow

LEMMA QueueStep ==
  ASSUME IInv, NEW t \in Tasks, Enqueue(t) \/ BecomeDue(t)
  PROVE  IInv'
<1>1. PICK status \in Statuses, ready \in BOOLEAN :
        /\ task' = [task EXCEPT ![t] = [task[t] EXCEPT !.status = status, !.ready = ready]]
        /\ task[t].status # "failed"
  <2>1. task[t] \in TaskRec /\ task \in [Tasks -> TaskRec]
    BY RowFacts
  <2>2. CASE Enqueue(t)
    <3>1. [task EXCEPT ![t].status = "pending"]
            = [task EXCEPT ![t] = [task[t] EXCEPT !.status = "pending", !.ready = task[t].ready]]
      BY <2>1 DEF TaskRec
    <3>2. "pending" \in Statuses /\ task[t].ready \in BOOLEAN
      BY <2>1 DEF TaskRec, Statuses
    <3>3. QED
      BY <2>2, <3>1, <3>2 DEF Enqueue
  <2>3. CASE BecomeDue(t)
    <3>1. [task EXCEPT ![t].ready = TRUE]
            = [task EXCEPT ![t] = [task[t] EXCEPT !.status = "pending", !.ready = TRUE]]
      BY <2>1, <2>3 DEF TaskRec, BecomeDue
    <3>2. "pending" \in Statuses
      BY DEF Statuses
    <3>3. QED
      BY <2>3, <3>1, <3>2 DEF BecomeDue
  <2>4. QED
    BY <2>2, <2>3
<1> DEFINE new == [task[t] EXCEPT !.status = status, !.ready = ready]
<1>2. FitsRow(t, new) /\ GoodRow(approvals, t, new)
  BY <1>1, TouchedRow
<1>3. worker' = worker /\ slot' = slot /\ UNCHANGED <<approvals, calls, lost>>
  BY DEF Enqueue, BecomeDue
<1>4. worker \in [Workers -> WorkerRec] /\ slot \in [Slots -> SlotRec]
  BY DEF IInv, TInv, Shapes
<1>5. QED
  BY <1>1, <1>2, <1>3, <1>4, RowStep

LEMMA SelectStep ==
  ASSUME IInv, NEW w \in Workers, NEW t \in Tasks, Select(w, t)
  PROVE  IInv'
<1> DEFINE new == [ pc |-> "selected", id |-> t, step |-> task[t].step,
                    tries |-> task[t].tries, ctx |-> task[t].ctx, mem |-> Empty ]
<1>1. /\ task[t] \in TaskRec /\ RowRange(t, task[t])
      /\ CtxOK(approvals, t, task[t].ctx) /\ Passed(approvals, t, task[t].step)
  BY RowFacts
<1>2. FitsWorker(new)
  <2>1. t \in Nat
    BY EngineAssumption
  <2>2. new \in WorkerRec
    BY <1>1, <2>1, EmptyCtx DEF TaskRec, WorkerRec
  <2>3. InRange(t, task[t].step, task[t].tries)
    BY <1>1 DEF RowRange, InRange, Select, Selectable
  <2>4. QED
    BY <2>2, <2>3 DEF FitsWorker
<1>3. GoodWorker(approvals, new)
  BY <1>1, EmptyOK DEF GoodWorker
<1>4. /\ approvals' = approvals /\ approvals' \in Seq(Approval)
      /\ lost' = lost /\ lost' \in 0 .. MaxLosses
      /\ Grows(approvals, approvals')
      /\ task' = task /\ slot' = slot /\ calls' = calls
      /\ worker' = [worker EXCEPT ![w] = new]
  BY GrowsSelf DEF Select, IInv, TInv, Shapes
<1>5. QED
  BY <1>2, <1>3, <1>4, WorkerStep

LEMMA WorkerOK ==
  ASSUME IInv, NEW w \in Workers, Busy(w)
  PROVE  /\ CtxOK(approvals, worker[w].id, worker[w].ctx)
         /\ CtxOK(approvals, worker[w].id, worker[w].mem)
         /\ Passed(approvals, worker[w].id, worker[w].step)
  BY DEF IInv, AInv, GoodWorker, Busy

LEMMA ClaimStep ==
  ASSUME IInv, NEW w \in Workers, Claim(w)
  PROVE  IInv'
<1> DEFINE t == worker[w].id
           row == [task[t] EXCEPT !.status = "processing", !.ready = task[t].ready]
<1>1. Busy(w) /\ TInv
  BY DEF Claim, Busy, IInv
<1>2. t \in Tasks /\ worker[w].ctx \in Ctx
  BY <1>1, WorkerFacts
<1>3. PICK pc \in {"running", "unreadable"} :
        worker' = [worker EXCEPT ![w].pc = pc, ![w].mem = worker[w].ctx]
  BY DEF Claim
<1> DEFINE new == [worker[w] EXCEPT !.pc = pc, !.mem = worker[w].ctx]
<1>4. worker \in [Workers -> WorkerRec] /\ slot \in [Slots -> SlotRec]
      /\ approvals \in Seq(Approval) /\ lost \in 0 .. MaxLosses
  BY DEF IInv, TInv, Shapes
<1>5. worker' = [worker EXCEPT ![w] = new]
  BY <1>3, <1>4 DEF WorkerRec
<1>6. FitsWorker(new)
  BY <1>1, <1>2, PcFits
<1>7. new.id = t /\ new.ctx = worker[w].ctx /\ new.mem = worker[w].ctx
      /\ new.step = worker[w].step
  BY <1>4 DEF WorkerRec
<1>8. GoodWorker(approvals, new)
  BY <1>1, <1>7, WorkerOK DEF GoodWorker
<1>9. task[t] \in TaskRec /\ task \in [Tasks -> TaskRec] /\ task[t].ready \in BOOLEAN
  BY <1>2, RowFacts DEF TaskRec
<1>10. task' = [task EXCEPT ![t] = row]
  <2>1. task' = [task EXCEPT ![t].status = "processing"]
    BY DEF Claim
  <2>2. QED
    BY <1>9, <2>1 DEF TaskRec
<1>11. FitsRow(t, row) /\ GoodRow(approvals, t, row)
  <2>1. "processing" \in Statuses /\ task[t].status # "failed"
    BY DEF Claim, Statuses
  <2>2. QED
    BY <1>2, <1>9, <2>1, TouchedRow
<1>12. slot' = slot /\ approvals' = approvals /\ calls' = calls /\ lost' = lost
  BY DEF Claim
<1>13. TInv'
  <2>1. \A x \in Workers : worker'[x] = worker[x] \/ FitsWorker(worker'[x])
    BY <1>4, <1>5, <1>6
  <2>2. worker' \in [Workers -> WorkerRec]
    BY <1>4, <1>5, <1>6 DEF FitsWorker
  <2>3. \A x \in Slots : slot'[x] = slot[x] \/ slot'[x].pc = "idle"
    BY <1>12
  <2>4. QED
    BY <1>1, <1>2, <1>4, <1>10, <1>11, <1>12, <2>1, <2>2, <2>3, RowTInv
<1>14. \A x \in Tasks : GoodRow(approvals, x, task'[x])
  BY <1>9, <1>10, <1>11 DEF IInv, AInv
<1>15. \A x \in Workers : GoodWorker(approvals, worker'[x])
  BY <1>4, <1>5, <1>8 DEF IInv, AInv
<1>16. QED
  BY <1>12, <1>13, <1>14, <1>15 DEF IInv, AInv

(* A worker that stays at its task, or forgets it.                        *)
LEMMA StayStep ==
  ASSUME IInv, NEW w \in Workers, NEW new, FitsWorker(new), GoodWorker(approvals, new),
         worker' = [worker EXCEPT ![w] = new],
         task' = task, slot' = slot, calls' = calls, approvals' = approvals,
         lost' \in 0 .. MaxLosses
  PROVE  IInv'
<1>1. approvals' \in Seq(Approval) /\ Grows(approvals, approvals')
  BY GrowsSelf DEF IInv, TInv, Shapes
<1>2. QED
  BY <1>1, WorkerStep

LEMMA DropStep ==
  ASSUME IInv, NEW w \in Workers, ClaimMissed(w) \/ SaveLost(w)
  PROVE  IInv'
<1>1. FitsWorker(IdleWorker) /\ GoodWorker(approvals, IdleWorker)
  BY IdleFits DEF GoodWorker, IdleWorker
<1>2. lost' \in 0 .. MaxLosses
  BY EngineAssumption DEF IInv, TInv, Shapes, ClaimMissed, SaveLost
<1>3. QED
  BY <1>1, <1>2, StayStep DEF ClaimMissed, SaveLost

-----------------------------------------------------------------------------
(* Interpreting.                                                          *)

LEMMA Continues ==
  ASSUME IInv, NEW w \in Workers, Busy(w), ~AtEnd(w), NEW mem \in Ctx,
         CtxOK(approvals, worker[w].id, mem),
         Steps(w)[worker[w].step] = "approval" =>
           Granted(approvals, worker[w].id, worker[w].step),
         Continue(w, mem), UNCHANGED approvals
  PROVE  IInv'
<1> DEFINE new == [worker[w] EXCEPT !.step = @ + 1, !.tries = 0, !.mem = mem]
           n   == worker[w].step
<1>1. TInv /\ FitsWorker(new)
  BY ContinueFits DEF IInv
<1>2. worker[w] \in WorkerRec /\ n \in Nat \ {0}
      /\ Len(Steps(w)) \in Nat /\ Steps(w) = Config[worker[w].id]
  BY <1>1, WorkerFacts
<1>3. /\ new.id = worker[w].id /\ new.step = n + 1
      /\ new.ctx = worker[w].ctx /\ new.mem = mem
  BY <1>2 DEF WorkerRec
<1>4. /\ CtxOK(approvals, worker[w].id, worker[w].ctx)
      /\ Passed(approvals, worker[w].id, n)
  BY WorkerOK
<1>5. Passed(approvals, worker[w].id, n + 1)
  <2>1. ASSUME NEW i \in 1 .. n, Config[worker[w].id][i] = "approval"
        PROVE  Granted(approvals, worker[w].id, i)
    <3>1. CASE i = n
      BY <1>2, <2>1, <3>1
    <3>2. CASE i # n
      <4>1. i \in 1 .. (n - 1) /\ n <= Len(Config[worker[w].id])
        BY <1>2, <3>2 DEF AtEnd
      <4>2. QED
        BY <1>4, <2>1, <4>1 DEF Passed
    <3>3. QED
      BY <3>1, <3>2
  <2>2. (n + 1) - 1 = n
    BY <1>2
  <2>3. QED
    BY <2>1, <2>2 DEF Passed
<1>6. GoodWorker(approvals, new)
  BY <1>3, <1>4, <1>5 DEF GoodWorker
<1>7. lost' \in 0 .. MaxLosses /\ worker' = [worker EXCEPT ![w] = new]
  BY DEF IInv, TInv, Shapes, Continue, Become
<1>8. QED
  BY <1>1, <1>6, <1>7, StayStep DEF Continue, Become

(* Pausing and failing leave the step where it is.                        *)
LEMMA Halts ==
  ASSUME IInv, NEW w \in Workers, Busy(w), NEW mem \in Ctx,
         NEW pc \in {"error", "pausing"},
         approvals' \in Seq(Approval), Grows(approvals, approvals'),
         CtxOK(approvals', worker[w].id, mem),
         Become(w, [worker[w] EXCEPT !.pc = pc, !.mem = mem])
  PROVE  IInv'
<1> DEFINE new == [worker[w] EXCEPT !.pc = pc, !.mem = mem]
<1>1. TInv /\ FitsWorker(new)
  BY PcFits DEF IInv
<1>2. worker[w] \in WorkerRec
  BY <1>1, WorkerFacts
<1>3. /\ new.id = worker[w].id /\ new.step = worker[w].step
      /\ new.ctx = worker[w].ctx /\ new.mem = mem
  BY <1>2 DEF WorkerRec
<1>4. /\ CtxOK(approvals', worker[w].id, worker[w].ctx)
      /\ Passed(approvals', worker[w].id, worker[w].step)
  BY WorkerOK, CtxGrows, PassedGrows
<1>5. GoodWorker(approvals', new)
  BY <1>3, <1>4 DEF GoodWorker
<1>6. lost' \in 0 .. MaxLosses
  BY DEF IInv, TInv, Shapes, Become
<1>7. QED
  BY <1>1, <1>5, <1>6, WorkerStep DEF Become

LEMMA Fails ==
  ASSUME IInv, NEW w \in Workers, Busy(w), StepError(w), UNCHANGED approvals
  PROVE  IInv'
<1>1. worker[w].mem \in Ctx /\ CtxOK(approvals, worker[w].id, worker[w].mem)
  BY WorkerFacts, WorkerOK DEF IInv
<1>2. Become(w, [worker[w] EXCEPT !.pc = "error", !.mem = worker[w].mem])
  BY ErrorIsPc DEF StepError, Become, IInv
<1>3. approvals' \in Seq(Approval) /\ Grows(approvals, approvals')
  BY GrowsSelf DEF IInv, TInv, Shapes
<1>4. CtxOK(approvals', worker[w].id, worker[w].mem)
  BY <1>1
<1>5. QED
  BY <1>1, <1>2, <1>3, <1>4, Halts

(* What a step puts under its own key.                                    *)
LEMMA PutMark ==
  ASSUME IInv, NEW w \in Workers, Busy(w), NEW kind \in {"resumed", "out"}
  PROVE  /\ Put(worker[w].mem, Key(w, kind), TRUE) \in Ctx
         /\ CtxOK(approvals, worker[w].id, Put(worker[w].mem, Key(w, kind), TRUE))
<1>1. worker[w].mem \in Ctx /\ worker[w].step \in Nat
      /\ CtxOK(approvals, worker[w].id, worker[w].mem)
  BY WorkerFacts, WorkerOK DEF IInv
<1>2. Key(w, kind) \in Keys /\ TRUE \in Vals
  BY <1>1 DEF Key, Keys, Vals
<1>3. \A i \in Nat : Key(w, kind) # <<"pending", i>> /\ Key(w, kind) # <<"decision", i>>
  BY DEF Key
<1>4. \A v \in Vals : /\ Put(worker[w].mem, Key(w, kind), v) \in Ctx
                      /\ CtxOK(approvals, worker[w].id, Put(worker[w].mem, Key(w, kind), v))
  <2>1. TAKE v \in Vals
  <2>2. Put(worker[w].mem, Key(w, kind), v) \in Ctx
    BY <1>1, <1>2, PutCtx
  <2>3. QED
    BY <1>1, <1>2, <1>3, <2>2, PutOther
<1>5. QED
  BY <1>2, <1>4, Zenon

LEMMA PlainStep ==
  ASSUME IInv, NEW w \in Workers,
         RunCondition(w) \/ RunUserInput(w) \/ RunOutput(w) \/ RunEffect(w) \/ RunUnknown(w)
  PROVE  IInv'
<1>1. Busy(w) /\ ~AtEnd(w) /\ UNCHANGED approvals /\ TInv
  BY DEF RunCondition, RunUserInput, RunOutput, RunEffect, RunUnknown, At, Busy, IInv
<1>2. /\ worker[w].mem \in Ctx /\ CtxOK(approvals, worker[w].id, worker[w].mem)
      /\ worker[w] \in WorkerRec
      /\ Len(Steps(w)) \in Nat /\ Steps(w) = Config[worker[w].id]
  BY <1>1, WorkerFacts, WorkerOK
<1>3. ASSUME Continue(w, worker[w].mem), Steps(w)[worker[w].step] # "approval"
      PROVE  IInv'
  BY <1>1, <1>2, <1>3, Continues
<1>4. CASE RunCondition(w)
  <2>1. Steps(w)[worker[w].step] = "condition"
    BY <1>4 DEF RunCondition, At
  <2> DEFINE new == [worker[w] EXCEPT !.step = Len(Steps(w)) + 1, !.tries = 0]
  <2>2. CASE Become(w, new)
    <3>1. FitsWorker(new)
      BY <1>1, SkipFits
    <3>2. new.id = worker[w].id /\ new.step = Len(Steps(w)) + 1
          /\ new.ctx = worker[w].ctx /\ new.mem = worker[w].mem
      BY <1>2 DEF WorkerRec
    <3>3. Passed(approvals, worker[w].id, Len(Steps(w)) + 1)
      BY <1>2 DEF Passed
    <3>4. GoodWorker(approvals, new)
      BY <1>1, <3>2, <3>3, WorkerOK DEF GoodWorker
    <3>5. lost' \in 0 .. MaxLosses
      BY <2>2 DEF IInv, TInv, Shapes, Become
    <3>6. QED
      BY <1>1, <2>2, <3>1, <3>4, <3>5, StayStep DEF Become
  <2>3. QED
    BY <1>3, <1>4, <2>1, <2>2 DEF RunCondition
<1>5. CASE RunUserInput(w)
  <2>1. Steps(w)[worker[w].step] = "user_input"
    BY <1>5 DEF RunUserInput, At
  <2> DEFINE mem == Put(worker[w].mem, Key(w, "resumed"), TRUE)
  <2>2. CASE Pause(w, mem)
    <3>1. mem \in Ctx /\ CtxOK(approvals', worker[w].id, mem)
      BY <1>1, PutMark
    <3>2. approvals' \in Seq(Approval) /\ Grows(approvals, approvals')
      BY <1>1, GrowsSelf DEF TInv, Shapes
    <3>3. QED
      BY <1>1, <2>2, <3>1, <3>2, Halts DEF Pause
  <2>3. QED
    BY <1>3, <1>5, <2>1, <2>2 DEF RunUserInput
<1>6. CASE RunOutput(w)
  <2>1. Steps(w)[worker[w].step] # "approval"
    BY <1>6 DEF RunOutput, At
  <2> DEFINE mem == Put(worker[w].mem, Key(w, "out"), TRUE)
  <2>2. mem \in Ctx /\ CtxOK(approvals, worker[w].id, mem)
    BY <1>1, PutMark
  <2>3. CASE Continue(w, mem)
    BY <1>1, <2>1, <2>2, <2>3, Continues
  <2>4. CASE StepError(w)
    BY <1>1, <2>4, Fails
  <2>5. QED
    BY <1>6, <2>3, <2>4 DEF RunOutput
<1>7. CASE RunEffect(w)
  <2>1. Steps(w)[worker[w].step] # "approval"
    BY <1>7 DEF RunEffect, At, Effects
  <2>2. CASE StepError(w)
    BY <1>1, <2>2, Fails
  <2>3. QED
    BY <1>3, <1>7, <2>1, <2>2 DEF RunEffect
<1>8. CASE RunUnknown(w)
  BY <1>1, <1>8, Fails DEF RunUnknown
<1>9. QED
  BY <1>4, <1>5, <1>6, <1>7, <1>8

LEMMA AppendFacts ==
  ASSUME NEW S, NEW list \in Seq(S), NEW a \in S
  PROVE  /\ Append(list, a) \in Seq(S) /\ Len(list) + 1 \in Nat
         /\ Len(list) + 1 \in DOMAIN Append(list, a)
         /\ Append(list, a)[Len(list) + 1] = a
         /\ \A i \in DOMAIN list : i \in DOMAIN Append(list, a) /\ Append(list, a)[i] = list[i]
<1>1. Append(list, a) \in Seq(S)
  BY AppendProperties
<1>2. Len(Append(list, a)) = Len(list) + 1 /\ Append(list, a)[Len(list) + 1] = a
  OBVIOUS
<1>3. Len(list) \in Nat /\ DOMAIN list = 1 .. Len(list)
  BY SeqLen
<1>4. ASSUME NEW i \in 1 .. Len(list)
      PROVE  Append(list, a)[i] = list[i]
  OBVIOUS
<1>5. DOMAIN Append(list, a) = 1 .. (Len(list) + 1)
  BY <1>1, <1>2, SeqLen
<1>6. QED
  BY <1>1, <1>2, <1>3, <1>4, <1>5

LEMMA ApprovalStep ==
  ASSUME IInv, NEW w \in Workers, RunApproval(w)
  PROVE  IInv'
<1> DEFINE t == worker[w].id
           n == worker[w].step
<1>1. Busy(w) /\ ~AtEnd(w) /\ TInv
  BY DEF RunApproval, At, Busy, IInv
<1>2. /\ worker[w].mem \in Ctx /\ t \in Tasks /\ n \in Nat
      /\ CtxOK(approvals, t, worker[w].mem)
  BY <1>1, WorkerFacts, WorkerOK
<1>3. CASE Has(worker[w].mem, Key(w, "decision"))
  <2>1. worker[w].mem[Key(w, "decision")] \in BOOLEAN
        /\ (worker[w].mem[Key(w, "decision")] = TRUE => Granted(approvals, t, n))
    BY <1>2, <1>3 DEF CtxOK, Key
  <2>2. CASE worker[w].mem[Key(w, "decision")]
    <3>1. Continue(w, worker[w].mem) /\ UNCHANGED approvals
      BY <1>3, <2>2 DEF RunApproval
    <3>2. Granted(approvals, t, n)
      BY <2>1, <2>2, Zenon
    <3>3. QED
      BY <1>1, <1>2, <3>1, <3>2, Continues
  <2>3. CASE ~worker[w].mem[Key(w, "decision")]
    <3>1. StepError(w) /\ UNCHANGED approvals
      BY <1>3, <2>3 DEF RunApproval
    <3>2. QED
      BY <1>1, <3>1, Fails
  <2>4. QED
    BY <2>2, <2>3
<1>4. CASE ~Has(worker[w].mem, Key(w, "decision"))
  <2> DEFINE new == [task |-> t, step |-> n, status |-> "pending", granted |-> FALSE]
             mem == Put(worker[w].mem, Key(w, "pending"), Len(approvals) + 1)
  <2>1. CASE approvals' = Append(approvals, new) /\ Pause(w, mem)
    <3>1. approvals \in Seq(Approval) /\ new \in Approval
      BY <1>1, <1>2 DEF TInv, Shapes, Approval
    <3>2. /\ approvals' \in Seq(Approval) /\ Len(approvals) + 1 \in Nat
          /\ Len(approvals) + 1 \in DOMAIN approvals'
          /\ approvals'[Len(approvals) + 1] = new
          /\ \A i \in DOMAIN approvals : i \in DOMAIN approvals' /\ approvals'[i] = approvals[i]
      BY <2>1, <3>1, AppendFacts
    <3>3. Grows(approvals, approvals')
      BY <3>2 DEF Grows
    <3>4. CtxOK(approvals', t, worker[w].mem)
      BY <1>2, <3>3, CtxGrows
    <3>5. Key(w, "pending") = <<"pending", n>> /\ Key(w, "pending") \in Keys
          /\ Len(approvals) + 1 \in Vals
      BY <1>2, <3>2 DEF Key, Keys, Vals
    <3>6. mem \in Ctx
      BY <1>2, <3>5, PutCtx
    <3>7. CtxOK(approvals', t, mem)
      <4>1. approvals'[Len(approvals) + 1].task = t /\ approvals'[Len(approvals) + 1].step = n
        BY <3>2
      <4>2. QED
        BY <1>2, <3>2, <3>4, <3>5, <4>1, PutPending
    <3>8. QED
      BY <1>1, <2>1, <3>2, <3>3, <3>6, <3>7, Halts DEF Pause
  <2>2. CASE UNCHANGED approvals /\ StepError(w)
    BY <1>1, <2>2, Fails
  <2>3. QED
    BY <1>4, <2>1, <2>2 DEF RunApproval
<1>5. QED
  BY <1>3, <1>4

-----------------------------------------------------------------------------
(* Saving.                                                                *)

LEMMA Saves ==
  ASSUME IInv, NEW w \in Workers, Busy(w),
         NEW status \in Statuses, NEW tries \in Nat, NEW ctx \in Ctx, NEW ready \in BOOLEAN,
         tries <= MaxTries, status # "failed" => tries < MaxTries,
         CtxOK(approvals, worker[w].id, ctx),
         SaveRow(w, status, tries, ctx, ready)
  PROVE  IInv'
<1> DEFINE t   == worker[w].id
           new == [ status |-> status, step |-> worker[w].step, tries |-> tries,
                    ctx |-> ctx, ready |-> ready ]
<1>1. /\ t \in Tasks /\ worker[w].step \in Nat \ {0}
      /\ worker[w].step <= Len(Config[t]) + 1
      /\ Passed(approvals, t, worker[w].step)
  BY WorkerFacts, WorkerOK DEF IInv, InRange
<1>2. FitsRow(t, new)
  BY <1>1 DEF FitsRow, RowRange, TaskRec
<1>3. GoodRow(approvals, t, new)
  BY <1>1 DEF GoodRow
<1>4. /\ worker' = [worker EXCEPT ![w] = IdleWorker] /\ slot' = slot
      /\ worker \in [Workers -> WorkerRec] /\ slot \in [Slots -> SlotRec]
      /\ task' = [task EXCEPT ![t] = new]
      /\ approvals' = approvals /\ calls' = calls /\ lost' = lost
  BY DEF SaveRow, IInv, TInv, Shapes
<1>5. worker' \in [Workers -> WorkerRec]
      /\ \A x \in Workers : worker'[x] = worker[x] \/ worker'[x] = IdleWorker
  BY <1>4, IdleFits DEF FitsWorker
<1>6. QED
  BY <1>1, <1>2, <1>3, <1>4, <1>5, RowStep

LEMMA SaveStep ==
  ASSUME IInv, NEW w \in Workers,
         SaveError(w) \/ SavePause(w) \/ SaveDone(w) \/ SaveUnreadable(w)
  PROVE  IInv'
<1>1. Busy(w)
  BY DEF SaveError, SavePause, SaveDone, SaveUnreadable, Busy
<1>2. /\ worker[w].ctx \in Ctx /\ CtxOK(approvals, worker[w].id, worker[w].ctx)
      /\ worker[w].mem \in Ctx /\ CtxOK(approvals, worker[w].id, worker[w].mem)
      /\ worker[w].tries \in Nat /\ worker[w].tries < MaxTries
  BY <1>1, WorkerFacts, WorkerOK DEF IInv, InRange
<1>3. {"failed", "pending", "waiting_user", "done"} \subseteq Statuses
  BY DEF Statuses
<1>4. worker[w].tries + 1 \in Nat /\ worker[w].tries + 1 <= MaxTries
      /\ worker[w].tries <= MaxTries
  BY <1>2, EngineAssumption
<1>5. CASE SaveError(w)
  <2> DEFINE tries == worker[w].tries + 1
  <2>1. CASE tries >= MaxTries
    <3>1. SaveRow(w, "failed", tries, worker[w].ctx, TRUE)
      BY <1>5, <2>1 DEF SaveError
    <3>2. QED
      BY <1>1, <1>2, <1>3, <1>4, <3>1, Saves
  <2>2. CASE ~(tries >= MaxTries)
    <3>1. SaveRow(w, "pending", tries, worker[w].ctx, FALSE)
      BY <1>5, <2>2 DEF SaveError
    <3>2. tries < MaxTries
      BY <1>4, <2>2, EngineAssumption
    <3>3. QED
      BY <1>1, <1>2, <1>3, <1>4, <3>1, <3>2, Saves
  <2>3. QED
    BY <2>1, <2>2
<1>6. CASE SavePause(w)
  BY <1>1, <1>2, <1>3, <1>4, <1>6, Saves DEF SavePause
<1>7. CASE SaveDone(w)
  BY <1>1, <1>2, <1>3, <1>4, <1>7, Saves DEF SaveDone
<1>8. CASE SaveUnreadable(w)
  BY <1>1, <1>2, <1>3, <1>4, <1>8, Saves DEF SaveUnreadable
<1>9. QED
  BY <1>5, <1>6, <1>7, <1>8

-----------------------------------------------------------------------------
(* Requests.                                                              *)

LEMMA SlotFacts ==
  ASSUME IInv, NEW s \in Slots
  PROVE  /\ slot[s] \in SlotRec /\ slot \in [Slots -> SlotRec]
         /\ SlotRange(slot[s]) /\ GoodSlot(approvals, slot[s])
  BY DEF IInv, TInv, Shapes, Ranges, AInv

(* A request goes on, or is done; nothing else changes.                   *)
LEMMA Requests ==
  ASSUME IInv, NEW s \in Slots, NEW new \in SlotRec,
         SlotRange(new), GoodSlot(approvals, new),
         Request(s, new), approvals' = approvals, calls' \in 0 .. MaxCalls
  PROVE  IInv'
<1>1. approvals' \in Seq(Approval) /\ Grows(approvals, approvals')
  BY GrowsSelf DEF IInv, TInv, Shapes
<1>2. QED
  BY <1>1, SlotStep DEF Request

LEMMA IdleSlotOK == SlotRange(IdleSlot) /\ \A list : GoodSlot(list, IdleSlot)
  BY DEF SlotRange, GoodSlot, IdleSlot

LEMMA Counted ==
  ASSUME TInv, NEW s, NEW new, Call(s, new)
  PROVE  calls' \in 0 .. MaxCalls
  BY EngineAssumption DEF TInv, Shapes, Call

LEMMA ResumeLoadStep ==
  ASSUME IInv, NEW s \in Slots, NEW t \in Tasks, ResumeLoad(s, t)
  PROVE  IInv'
<1> DEFINE new == [ pc |-> "loaded", id |-> t, key |-> <<"answer", task[t].step>>,
                    value |-> TRUE, copy |-> task[t] ]
<1>1. /\ task[t] \in TaskRec /\ RowRange(t, task[t]) /\ t \in Nat
      /\ GoodRow(approvals, t, task[t]) /\ task[t].status = "waiting_user"
  BY RowFacts, EngineAssumption DEF GoodRow, ResumeLoad
<1>2. <<"answer", task[t].step>> \in Keys /\ task[t].step \in Nat
  BY <1>1 DEF Keys, TaskRec
<1>3. new \in SlotRec
  BY <1>1, <1>2 DEF SlotRec
<1>4. SlotRange(new)
  BY <1>1 DEF SlotRange
<1>5. GoodSlot(approvals, new)
  BY <1>1, <1>2 DEF GoodSlot
<1>6. calls' \in 0 .. MaxCalls /\ Request(s, new) /\ approvals' = approvals
  BY Counted DEF ResumeLoad, Call, IInv
<1>7. QED
  BY <1>3, <1>4, <1>5, <1>6, Requests

LEMMA DecideStep ==
  ASSUME IInv, NEW s \in Slots, NEW a \in DOMAIN approvals, NEW verdict \in BOOLEAN,
         Decide(s, a, verdict)
  PROVE  IInv'
<1> DEFINE new    == [IdleSlot EXCEPT !.pc = "decided", !.id = a, !.value = verdict]
           status == IF verdict THEN "approved" ELSE "rejected"
           row    == [approvals[a] EXCEPT !.status = status, !.granted = @ \/ verdict]
<1>1. approvals \in Seq(Approval) /\ TInv
  BY DEF IInv, TInv, Shapes
<1>2. a \in Nat /\ approvals[a] \in Approval
  BY <1>1, SeqLen
<1>3. row \in Approval
  BY <1>2 DEF Approval
<1>4. approvals' = [approvals EXCEPT ![a] = row]
  <2>1. approvals' = [approvals EXCEPT ![a].status = status, ![a].granted = @ \/ verdict]
    BY DEF Decide
  <2>2. QED
    BY <1>1, <1>2, <2>1 DEF Approval
<1>5. approvals' \in Seq(Approval) /\ DOMAIN approvals' = DOMAIN approvals
  BY <1>1, <1>3, <1>4
<1>6. /\ row.task = approvals[a].task /\ row.step = approvals[a].step
      /\ (approvals[a].granted \/ verdict) => row.granted
  BY <1>2 DEF Approval
<1>7. Grows(approvals, approvals')
  BY <1>1, <1>4, <1>5, <1>6 DEF Grows
<1>8. new \in SlotRec /\ new.pc = "decided" /\ new.id = a /\ new.value = verdict
  BY <1>2, IdleFits DEF SlotRec
<1>9. SlotRange(new)
  BY <1>8 DEF SlotRange
<1>10. GoodSlot(approvals', new)
  BY <1>1, <1>4, <1>5, <1>6, <1>8 DEF GoodSlot
<1>11. /\ calls' \in 0 .. MaxCalls /\ slot' = [slot EXCEPT ![s] = new]
       /\ task' = task /\ worker' = worker /\ lost' = lost
  <2>1. Call(s, new)
    BY DEF Decide
  <2>2. QED
    BY <1>1, <2>1, Counted DEF Call, Request
<1>12. QED
  BY <1>5, <1>7, <1>8, <1>9, <1>10, <1>11, SlotStep

LEMMA FindTaskStep ==
  ASSUME IInv, NEW s \in Slots, FindTask(s)
  PROVE  IInv'
<1>1. approvals' = approvals /\ calls' \in 0 .. MaxCalls /\ slot[s].pc = "decided"
  BY DEF FindTask, IInv, TInv, Shapes
<1>2. /\ slot[s] \in SlotRec /\ GoodSlot(approvals, slot[s])
      /\ slot[s].value \in BOOLEAN
  BY SlotFacts DEF SlotRec
<1>3. ASSUME NEW t \in Tasks, NEW i \in DOMAIN Config[t], WaitsFor(t, i, slot[s].id),
             Request(s, [slot[s] EXCEPT !.pc = "found", !.id = t, !.key = <<"decision", i>>])
      PROVE  IInv'
  <2> DEFINE new == [slot[s] EXCEPT !.pc = "found", !.id = t, !.key = <<"decision", i>>]
  <2>1. t \in Nat /\ i \in Nat /\ <<"decision", i>> \in Keys
    <3>1. Config[t] \in Seq(STRING) /\ t \in Nat
      BY EngineAssumption
    <3>2. i \in Nat
      BY <3>1, SeqLen
    <3>3. QED
      BY <3>1, <3>2 DEF Keys
  <2>2. new \in SlotRec
    BY <1>2, <2>1 DEF SlotRec
  <2>3. /\ new.pc = "found" /\ new.id = t /\ new.key = <<"decision", i>>
        /\ new.value = slot[s].value
    BY <1>2 DEF SlotRec
  <2>4. slot[s].value => Granted(approvals, t, i)
    <3>1. ASSUME slot[s].value
          PROVE  slot[s].id \in DOMAIN approvals /\ approvals[slot[s].id].granted
      BY <1>1, <1>2, <3>1 DEF GoodSlot
    <3>2. /\ approvals[slot[s].id].task = t /\ approvals[slot[s].id].step = i
      <4>1. CtxOK(approvals, t, task[t].ctx)
        BY RowFacts
      <4>2. Has(task[t].ctx, <<"pending", i>>) /\ task[t].ctx[<<"pending", i>>] = slot[s].id
        BY <1>3 DEF WaitsFor
      <4>3. QED
        BY <2>1, <4>1, <4>2 DEF CtxOK
    <3>3. QED
      BY <3>1, <3>2 DEF Granted
  <2>5. SlotRange(new)
    BY <2>3 DEF SlotRange
  <2>6. GoodSlot(approvals, new)
    BY <2>1, <2>3, <2>4 DEF GoodSlot
  <2>7. QED
    BY <1>1, <1>3, <2>2, <2>5, <2>6, Requests
<1>4. ASSUME Request(s, IdleSlot)
      PROVE  IInv'
  BY <1>1, <1>4, IdleFits, IdleSlotOK, Requests
<1>5. QED
  BY <1>3, <1>4 DEF FindTask

LEMMA FoundLoadStep ==
  ASSUME IInv, NEW s \in Slots, FoundLoad(s)
  PROVE  IInv'
<1> DEFINE t   == slot[s].id
           new == [slot[s] EXCEPT !.pc = "loaded", !.copy = task[t]]
<1>1. /\ slot[s] \in SlotRec /\ SlotRange(slot[s]) /\ GoodSlot(approvals, slot[s])
      /\ slot[s].pc = "found" /\ approvals' = approvals /\ calls' \in 0 .. MaxCalls
  BY SlotFacts DEF FoundLoad, IInv, TInv, Shapes
<1>2. t \in Tasks
  BY <1>1 DEF SlotRange
<1>3. /\ task[t] \in TaskRec /\ RowRange(t, task[t]) /\ GoodRow(approvals, t, task[t])
  BY <1>2, RowFacts DEF GoodRow
<1>4. CASE task[t].status = "waiting_user"
  <2>1. new \in SlotRec
    BY <1>1, <1>3 DEF SlotRec
  <2>2. /\ new.pc = "loaded" /\ new.id = t /\ new.key = slot[s].key
        /\ new.value = slot[s].value /\ new.copy = task[t]
    BY <1>1 DEF SlotRec
  <2>3. SlotRange(new)
    BY <1>2, <1>3, <1>4, <2>2 DEF SlotRange
  <2>4. GoodSlot(approvals, new)
    BY <1>1, <1>2, <1>3, <2>2 DEF GoodSlot
  <2>5. Request(s, new)
    BY <1>4 DEF FoundLoad
  <2>6. QED
    BY <1>1, <2>1, <2>3, <2>4, <2>5, Requests
<1>5. CASE task[t].status # "waiting_user"
  <2>1. Request(s, IdleSlot)
    BY <1>5 DEF FoundLoad
  <2>2. QED
    BY <1>1, <2>1, IdleFits, IdleSlotOK, Requests
<1>6. QED
  BY <1>4, <1>5

LEMMA ResumeSaveStep ==
  ASSUME IInv, NEW s \in Slots, ResumeSave(s)
  PROVE  IInv'
<1> DEFINE t    == slot[s].id
           copy == slot[s].copy
           ctx  == Put(copy.ctx, slot[s].key, slot[s].value)
           new  == [copy EXCEPT !.status = "pending", !.ready = TRUE, !.ctx = ctx]
<1>1. /\ slot[s] \in SlotRec /\ SlotRange(slot[s]) /\ GoodSlot(approvals, slot[s])
      /\ slot[s].pc = "loaded" /\ slot \in [Slots -> SlotRec]
  BY SlotFacts DEF ResumeSave
<1>2. /\ t \in Tasks /\ copy \in TaskRec /\ RowRange(t, copy) /\ copy.status = "waiting_user"
      /\ GoodRow(approvals, t, copy) /\ slot[s].value \in BOOLEAN
  BY <1>1 DEF SlotRange, SlotRec, GoodSlot
<1>3. copy.ctx \in Ctx /\ CtxOK(approvals, t, copy.ctx) /\ Passed(approvals, t, copy.step)
  BY <1>2 DEF TaskRec, GoodRow
<1>4. slot[s].value \in Vals
  BY <1>2 DEF Vals
<1>5. ctx \in Ctx /\ CtxOK(approvals, t, ctx)
  <2>1. CASE \E i \in Nat : slot[s].key = <<"answer", i>>
    <3>1. slot[s].key \in Keys
      BY <2>1 DEF Keys
    <3>2. \A j \in Nat : slot[s].key # <<"pending", j>> /\ slot[s].key # <<"decision", j>>
      BY <2>1
    <3>3. QED
      BY <1>3, <1>4, <3>1, <3>2, PutCtx, PutOther
  <2>2. CASE \E i \in Nat : slot[s].key = <<"decision", i>>
                        /\ (slot[s].value => Granted(approvals, t, i))
    <3>1. PICK i \in Nat : slot[s].key = <<"decision", i>>
                        /\ (slot[s].value => Granted(approvals, t, i))
      BY <2>2
    <3>2. slot[s].key \in Keys
      BY <3>1 DEF Keys
    <3>3. QED
      BY <1>2, <1>3, <1>4, <3>1, <3>2, PutCtx, PutDecision
  <2>3. QED
    BY <1>1, <2>1, <2>2 DEF GoodSlot
<1> HIDE DEF ctx
<1>6. new \in TaskRec /\ new.step = copy.step /\ new.tries = copy.tries /\ new.ctx = ctx
  BY <1>2, <1>5 DEF TaskRec, Statuses
<1>7. FitsRow(t, new) /\ GoodRow(approvals, t, new)
  BY <1>2, <1>3, <1>5, <1>6 DEF FitsRow, RowRange, GoodRow
<1>8. /\ task' = [task EXCEPT ![t] = new] /\ slot' = [slot EXCEPT ![s] = IdleSlot]
      /\ approvals' = approvals /\ worker' = worker /\ calls' = calls /\ lost' = lost
  BY DEF ResumeSave, ctx
<1>9. /\ worker' \in [Workers -> WorkerRec] /\ slot' \in [Slots -> SlotRec]
      /\ \A x \in Slots : slot'[x] = slot[x] \/ slot'[x] = IdleSlot
  BY <1>1, <1>8, IdleFits DEF IInv, TInv, Shapes
<1>10. QED
  BY <1>2, <1>7, <1>8, <1>9, RowStep

LEMMA CrashStep ==
  ASSUME IInv, Crash
  PROVE  IInv'
<1>1. /\ worker' = [w \in Workers |-> IdleWorker] /\ slot' = [s \in Slots |-> IdleSlot]
      /\ task' = task /\ approvals' = approvals /\ calls' = calls
      /\ lost' \in 0 .. MaxLosses
  BY EngineAssumption DEF Crash, IInv, TInv, Shapes
<1>2. Shapes'
  BY <1>1, IdleFits DEF IInv, TInv, Shapes, FitsWorker
<1>3. Ranges'
  BY <1>1, IdleFits, IdleSlotOK DEF IInv, TInv, Ranges, Busy, IdleWorker
<1>4. AInv'
  BY <1>1, IdleSlotOK DEF IInv, AInv, GoodWorker, IdleWorker
<1>5. QED
  BY <1>2, <1>3, <1>4 DEF IInv, TInv

-----------------------------------------------------------------------------
(* The invariant, and what it says at once.                               *)

LEMMA WorkInv ==
  ASSUME IInv, NEW w \in Workers, Work(w) \/ SaveLost(w)
  PROVE  IInv'
<1>1. CASE \E t \in Tasks : Select(w, t)
  BY <1>1, SelectStep
<1>2. CASE Claim(w)
  BY <1>2, ClaimStep
<1>3. CASE ClaimMissed(w) \/ SaveLost(w)
  BY <1>3, DropStep
<1>4. CASE RunStep(w)
  BY <1>4, PlainStep, ApprovalStep DEF RunStep
<1>5. CASE SaveError(w) \/ SavePause(w) \/ SaveDone(w) \/ SaveUnreadable(w)
  BY <1>5, SaveStep
<1>6. QED
  BY <1>1, <1>2, <1>3, <1>4, <1>5 DEF Work

LEMMA NextInv ==
  ASSUME IInv, [Next]_vars
  PROVE  IInv'
<1>1. ASSUME NEW t \in Tasks, Enqueue(t) \/ BecomeDue(t)
      PROVE  IInv'
  BY <1>1, QueueStep
<1>2. ASSUME NEW w \in Workers, Work(w) \/ SaveLost(w)
      PROVE  IInv'
  BY <1>2, WorkInv
<1>3. ASSUME NEW s \in Slots, NEW t \in Tasks, ResumeLoad(s, t)
      PROVE  IInv'
  BY <1>3, ResumeLoadStep
<1>4. ASSUME NEW s \in Slots, NEW a \in DOMAIN approvals, NEW verdict \in BOOLEAN,
             Decide(s, a, verdict)
      PROVE  IInv'
  BY <1>4, DecideStep
<1>5. ASSUME NEW s \in Slots, Serve(s)
      PROVE  IInv'
  BY <1>5, FindTaskStep, FoundLoadStep, ResumeSaveStep DEF Serve
<1>6. CASE Crash
  BY <1>6, CrashStep
<1>7. CASE UNCHANGED vars
  BY <1>7 DEF vars, IInv, TInv, Shapes, Ranges, Busy, AInv
<1>8. QED
  BY <1>1, <1>2, <1>3, <1>4, <1>5, <1>6, <1>7 DEF Next

LEMMA InvTypes == IInv => TypeOK
<1>1. SUFFICES ASSUME IInv PROVE TypeOK
  OBVIOUS
<1>2. \A t \in Tasks :
        /\ task[t].status \in Statuses /\ task[t].ready \in BOOLEAN
        /\ task[t].step \in 1 .. (Len(Config[t]) + 1)
        /\ task[t].tries \in 0 .. MaxTries
  <2>1. TAKE t \in Tasks
  <2>2. task[t] \in TaskRec /\ RowRange(t, task[t]) /\ Len(Config[t]) \in Nat
    BY <1>1, RowFacts, ConfigLen
  <2>3. /\ task[t].status \in Statuses /\ task[t].ready \in BOOLEAN
        /\ task[t].step \in Nat \ {0} /\ task[t].tries \in Nat
    BY <2>2 DEF TaskRec
  <2>4. QED
    BY <2>2, <2>3, EngineAssumption DEF RowRange
<1>3. \A a \in DOMAIN approvals :
        /\ approvals[a].task \in Tasks
        /\ approvals[a].status \in {"pending", "approved", "rejected"}
  <2>1. TAKE a \in DOMAIN approvals
  <2>2. approvals \in Seq(Approval)
    BY <1>1 DEF IInv, TInv, Shapes
  <2>3. approvals[a] \in Approval
    BY <2>2
  <2>4. QED
    BY <2>3 DEF Approval
<1>4. \A w \in Workers : Executing(w) =>
        worker[w].step \in 1 .. (Len(Steps(w)) + 1) /\ worker[w].tries < MaxTries
  BY <1>1, WorkerFacts DEF IInv, Executing, Busy, InRange
<1>5. QED
  BY <1>1, <1>2, <1>3, <1>4 DEF TypeOK, IInv, TInv, Shapes

LEMMA InvApproved == IInv => ApprovedFirst
<1>1. SUFFICES ASSUME IInv, NEW w \in Workers, worker[w].pc = "running", ~AtEnd(w),
                      NEW i \in 1 .. (worker[w].step - 1), Steps(w)[i] = "approval"
               PROVE  Granted(approvals, worker[w].id, i)
  BY DEF ApprovedFirst, Granted
<1>2. Busy(w) /\ TInv
  BY <1>1 DEF Busy, IInv
<1>3. /\ worker[w].step \in Nat /\ Len(Steps(w)) \in Nat /\ Steps(w) = Config[worker[w].id]
      /\ Passed(approvals, worker[w].id, worker[w].step)
  BY <1>1, <1>2, WorkerFacts, WorkerOK
<1>4. worker[w].step <= Len(Config[worker[w].id])
  BY <1>1, <1>3 DEF AtEnd
<1>5. QED
  BY <1>1, <1>3, <1>4 DEF Passed

(* Every variable keeps its type, the step index stays within the steps of *)
(* the workflow, and tries within maxStepAttempts (engine.go, execute).    *)
THEOREM Typed == Spec => []TypeOK
<1>1. IInv /\ [Next]_vars => IInv'
  BY NextInv
<1>2. QED
  BY <1>1, InitInv, InvTypes, PTL DEF Spec

(* Whatever is resumed, decided, crashes or overtakes what: a step after   *)
(* an approval step only runs once somebody approved that step.            *)
THEOREM Approved == Spec => []ApprovedFirst
<1>1. IInv /\ [Next]_vars => IInv'
  BY NextInv
<1>2. QED
  BY <1>1, InitInv, InvApproved, PTL DEF Spec

-----------------------------------------------------------------------------
(* One executor.  With one request at a time a task that a request has     *)
(* loaded is still waiting when it is saved, so what is pending was not    *)
(* handed out, and the guarded claim does the rest.                        *)

OneAtATime == \A s, r \in Slots : s = r

EInv ==
  /\ OneExecutor
  /\ \A s \in Slots : slot[s].pc = "loaded" => task[slot[s].id].status = "waiting_user"

(* No row is written, nobody starts to execute.                           *)
LEMMA SameRows ==
  ASSUME EInv, task' = task,
         \A x \in Workers : Executing(x)' => Executing(x) /\ worker'[x].id = worker[x].id,
         \A s \in Slots : slot'[s].pc = "loaded" =>
           slot'[s] = slot[s] \/ task[slot'[s].id].status = "waiting_user"
  PROVE  EInv'
  BY DEF EInv, OneExecutor

(* Row t is written, and nobody but its writer had anything to do with it. *)
LEMMA OneRow ==
  ASSUME EInv, NEW t \in Tasks, NEW new, task' = [task EXCEPT ![t] = new],
         \A x \in Workers : Executing(x)' =>
           Executing(x) /\ worker'[x].id = worker[x].id /\ worker[x].id # t,
         \A s \in Slots : slot'[s].pc = "loaded" => slot'[s] = slot[s] /\ slot[s].id # t,
         IInv
  PROVE  EInv'
<1>1. /\ \A x \in Tasks : x # t => task'[x] = task[x]
      /\ \A x \in Workers : Executing(x) => worker[x].id \in Tasks
      /\ \A s \in Slots : slot[s].pc = "loaded" => slot[s].id \in Tasks
  BY DEF IInv, TInv, Shapes, Ranges, SlotRange, Executing, Busy
<1>2. QED
  BY <1>1 DEF EInv, OneExecutor

(* What the saves have in common: the saver was the one executor of t.    *)
LEMMA SaveExec ==
  ASSUME IInv, EInv, NEW w \in Workers, Executing(w),
         NEW status, NEW tries, NEW ctx, NEW ready, SaveRow(w, status, tries, ctx, ready)
  PROVE  EInv'
<1> DEFINE t   == worker[w].id
           new == [ status |-> status, step |-> worker[w].step, tries |-> tries,
                    ctx |-> ctx, ready |-> ready ]
<1>1. t \in Tasks /\ task[t].status = "processing"
  BY DEF IInv, TInv, Ranges, Executing, Busy, EInv, OneExecutor
<1>2. /\ task' = [task EXCEPT ![t] = new] /\ slot' = slot
      /\ worker' = [worker EXCEPT ![w] = IdleWorker] /\ worker \in [Workers -> WorkerRec]
  BY DEF SaveRow, IInv, TInv, Shapes
<1>3. ASSUME NEW x \in Workers, Executing(x)'
      PROVE  Executing(x) /\ worker'[x].id = worker[x].id /\ worker[x].id # t
  <2>1. x # w
    BY <1>2, <1>3 DEF Executing, IdleWorker
  <2>2. worker'[x] = worker[x]
    BY <1>2, <2>1
  <2>3. QED
    BY <1>3, <2>1, <2>2 DEF Executing, EInv, OneExecutor
<1>4. \A s \in Slots : slot'[s].pc = "loaded" => slot'[s] = slot[s] /\ slot[s].id # t
  BY <1>1, <1>2 DEF EInv
<1>5. QED
  BY <1>1, <1>2, <1>3, <1>4, OneRow

(* A worker alone moves, and does not begin to execute.                   *)
LEMMA OwnMove ==
  ASSUME IInv, EInv, NEW w \in Workers, NEW new,
         worker' = [worker EXCEPT ![w] = new], task' = task, slot' = slot,
         new.pc \in {"idle", "selected"} \/ (Executing(w) /\ new.id = worker[w].id)
  PROVE  EInv'
<1>1. \A x \in Workers : Executing(x)' => Executing(x) /\ worker'[x].id = worker[x].id
  BY DEF IInv, TInv, Shapes, Executing
<1>2. QED
  BY <1>1, SameRows

LEMMA RunExec ==
  ASSUME IInv, EInv, NEW w \in Workers, RunStep(w)
  PROVE  EInv'
<1>1. Executing(w) /\ worker[w] \in WorkerRec
  BY DEF RunStep, RunCondition, RunUserInput, RunOutput, RunEffect, RunUnknown, RunApproval,
         At, Executing, IInv, TInv, Shapes
<1>2. ASSUME NEW mem, Continue(w, mem)
      PROVE  EInv'
  <2> DEFINE new == [worker[w] EXCEPT !.step = @ + 1, !.tries = 0, !.mem = mem]
  <2>1. new.id = worker[w].id
    BY <1>1 DEF WorkerRec
  <2>2. QED
    BY <1>1, <1>2, <2>1, OwnMove DEF Continue, Become
<1>3. ASSUME NEW mem, Pause(w, mem)
      PROVE  EInv'
  <2> DEFINE new == [worker[w] EXCEPT !.pc = "pausing", !.mem = mem]
  <2>1. new.id = worker[w].id
    BY <1>1 DEF WorkerRec
  <2>2. QED
    BY <1>1, <1>3, <2>1, OwnMove DEF Pause, Become
<1>4. CASE StepError(w)
  <2> DEFINE new == [worker[w] EXCEPT !.pc = "error"]
  <2>1. new.id = worker[w].id
    BY <1>1 DEF WorkerRec
  <2>2. QED
    BY <1>1, <1>4, <2>1, OwnMove DEF StepError, Become
<1>5. CASE Become(w, [worker[w] EXCEPT !.step = Len(Steps(w)) + 1, !.tries = 0])
  <2> DEFINE new == [worker[w] EXCEPT !.step = Len(Steps(w)) + 1, !.tries = 0]
  <2>1. new.id = worker[w].id
    BY <1>1 DEF WorkerRec
  <2>2. QED
    BY <1>1, <1>5, <2>1, OwnMove DEF Become
<1>6. QED
  BY <1>2, <1>3, <1>4, <1>5 DEF RunStep, RunCondition, RunUserInput, RunOutput, RunEffect,
     RunUnknown, RunApproval

LEMMA ClaimExec ==
  ASSUME IInv, EInv, NEW w \in Workers, Claim(w)
  PROVE  EInv'
<1> DEFINE t == worker[w].id
<1>1. /\ t \in Tasks /\ task[t].status = "pending" /\ slot' = slot
      /\ task' = [task EXCEPT ![t].status = "processing"]
      /\ task \in [Tasks -> TaskRec] /\ worker \in [Workers -> WorkerRec]
      /\ slot \in [Slots -> SlotRec]
  BY DEF Claim, IInv, TInv, Shapes, Ranges, Busy
<1>2. PICK pc \in {"running", "unreadable"} :
        worker' = [worker EXCEPT ![w].pc = pc, ![w].mem = worker[w].ctx]
  BY DEF Claim
<1>3. /\ \A x \in Workers : x # w => worker'[x] = worker[x]
      /\ worker'[w].id = t
  BY <1>1, <1>2 DEF WorkerRec
<1>4. /\ \A x \in Tasks : x # t => task'[x] = task[x]
      /\ task'[t].status = "processing"
  BY <1>1 DEF TaskRec
<1>5. /\ \A x \in Workers : Executing(x) => worker[x].id \in Tasks /\ worker[x].id # t
      /\ \A s \in Slots : slot[s].pc = "loaded" => slot[s].id \in Tasks /\ slot[s].id # t
  BY <1>1 DEF IInv, TInv, Ranges, SlotRange, Executing, Busy, EInv, OneExecutor
<1>6. OneExecutor'
  BY <1>3, <1>4, <1>5 DEF EInv, OneExecutor, Executing
<1>7. QED
  BY <1>1, <1>4, <1>5, <1>6 DEF EInv

LEMMA WorkExec ==
  ASSUME IInv, EInv, NEW w \in Workers, Work(w) \/ SaveLost(w)
  PROVE  EInv'
<1>1. CASE \E t \in Tasks : Select(w, t)
  <2>1. PICK t \in Tasks : Select(w, t)
    BY <1>1
  <2>2. QED
    BY <2>1, OwnMove DEF Select
<1>2. CASE Claim(w)
  BY <1>2, ClaimExec
<1>3. CASE ClaimMissed(w) \/ SaveLost(w)
  <2>1. IdleWorker.pc = "idle"
    BY DEF IdleWorker
  <2>2. QED
    BY <1>3, <2>1, OwnMove DEF ClaimMissed, SaveLost
<1>4. CASE RunStep(w)
  BY <1>4, RunExec
<1>5. CASE SaveError(w) \/ SavePause(w) \/ SaveDone(w) \/ SaveUnreadable(w)
  <2>1. Executing(w)
    BY <1>5 DEF SaveError, SavePause, SaveDone, SaveUnreadable, Executing
  <2>2. PICK status, tries, ctx, ready : SaveRow(w, status, tries, ctx, ready)
    BY <1>5 DEF SaveError, SavePause, SaveDone, SaveUnreadable
  <2>3. QED
    BY <2>1, <2>2, SaveExec
<1>6. QED
  BY <1>1, <1>2, <1>3, <1>4, <1>5 DEF Work

LEMMA RequestExec ==
  ASSUME IInv, EInv, NEW s \in Slots, NEW new, Request(s, new),
         new.pc = "loaded" => task[new.id].status = "waiting_user"
  PROVE  EInv'
<1>1. \A x \in Slots : slot'[x].pc = "loaded" =>
        slot'[x] = slot[x] \/ task[slot'[x].id].status = "waiting_user"
  BY DEF IInv, TInv, Shapes, Request
<1>2. QED
  BY <1>1, SameRows DEF Request, Executing

LEMMA ServeExec ==
  ASSUME IInv, EInv, OneAtATime, NEW s \in Slots, Serve(s)
  PROVE  EInv'
<1>1. slot[s] \in SlotRec /\ slot \in [Slots -> SlotRec] /\ IdleSlot.pc = "idle"
  BY SlotFacts, IdleFits
<1>2. CASE FindTask(s)
  <2>1. PICK new : Request(s, new) /\ new.pc # "loaded"
    <3>1. ASSUME NEW t, NEW i
          PROVE  [slot[s] EXCEPT !.pc = "found", !.id = t, !.key = <<"decision", i>>].pc = "found"
      BY <1>1 DEF SlotRec
    <3>2. QED
      BY <1>1, <1>2, <3>1 DEF FindTask
  <2>2. QED
    BY <2>1, RequestExec
<1>3. CASE FoundLoad(s)
  <2> DEFINE new == [slot[s] EXCEPT !.pc = "loaded", !.copy = task[slot[s].id]]
  <2>1. new.id = slot[s].id
    BY <1>1 DEF SlotRec
  <2>2. CASE task[slot[s].id].status = "waiting_user"
    BY <1>3, <2>1, <2>2, RequestExec DEF FoundLoad
  <2>3. CASE task[slot[s].id].status # "waiting_user"
    BY <1>1, <1>3, <2>3, RequestExec DEF FoundLoad
  <2>4. QED
    BY <2>2, <2>3
<1>4. CASE ResumeSave(s)
  <2> DEFINE t == slot[s].id
  <2>1. t \in Tasks /\ slot[s].pc = "loaded" /\ task[t].status = "waiting_user"
    BY <1>4 DEF ResumeSave, IInv, TInv, Ranges, SlotRange, EInv
  <2>2. PICK new : task' = [task EXCEPT ![t] = new]
    BY <1>4 DEF ResumeSave
  <2>3. \A x \in Workers : Executing(x)' =>
          Executing(x) /\ worker'[x].id = worker[x].id /\ worker[x].id # t
    BY <1>4, <2>1 DEF ResumeSave, Executing, EInv, OneExecutor
  <2>4. \A x \in Slots : slot'[x].pc # "loaded"
    BY <1>1, <1>4 DEF ResumeSave, OneAtATime
  <2>5. QED
    BY <2>1, <2>2, <2>3, <2>4, OneRow
<1>5. QED
  BY <1>2, <1>3, <1>4 DEF Serve

LEMMA QueueExec ==
  ASSUME IInv, EInv, NEW t \in Tasks, Enqueue(t) \/ BecomeDue(t)
  PROVE  EInv'
<1>1. task[t].status \in {"absent", "pending"} /\ worker' = worker /\ slot' = slot
  BY DEF Enqueue, BecomeDue
<1>2. PICK new : task' = [task EXCEPT ![t] = new]
  BY DEF Enqueue, BecomeDue
<1>3. QED
  BY <1>1, <1>2, OneRow DEF EInv, OneExecutor, Executing

LEMMA NextExec ==
  ASSUME IInv, EInv, OneAtATime, [Next]_vars
  PROVE  EInv'
<1>1. ASSUME NEW t \in Tasks, Enqueue(t) \/ BecomeDue(t)
      PROVE  EInv'
  BY <1>1, QueueExec
<1>2. ASSUME NEW w \in Workers, Work(w) \/ SaveLost(w)
      PROVE  EInv'
  BY <1>2, WorkExec
<1>3. ASSUME NEW s \in Slots, NEW t \in Tasks, ResumeLoad(s, t)
      PROVE  EInv'
  BY <1>3, RequestExec DEF ResumeLoad, Call
<1>4. ASSUME NEW s \in Slots, NEW a \in DOMAIN approvals, NEW verdict \in BOOLEAN,
             Decide(s, a, verdict)
      PROVE  EInv'
  <2>1. [IdleSlot EXCEPT !.pc = "decided", !.id = a, !.value = verdict].pc = "decided"
    BY DEF IdleSlot
  <2>2. QED
    BY <1>4, <2>1, RequestExec DEF Decide, Call
<1>5. ASSUME NEW s \in Slots, Serve(s)
      PROVE  EInv'
  BY <1>5, ServeExec
<1>6. CASE Crash
  <2>1. /\ task' = task /\ worker' = [w \in Workers |-> IdleWorker]
        /\ slot' = [s \in Slots |-> IdleSlot]
    BY <1>6 DEF Crash
  <2>2. QED
    BY <2>1, SameRows DEF Executing, IdleWorker, IdleSlot
<1>7. CASE UNCHANGED vars
  BY <1>7 DEF vars, EInv, OneExecutor, Executing
<1>8. QED
  BY <1>1, <1>2, <1>3, <1>4, <1>5, <1>6, <1>7 DEF Next

(* A row that is finished is nobody's to write.                           *)
LEMMA NextFinal ==
  ASSUME IInv, EInv, [Next]_vars, NEW t \in Tasks, task[t].status \in {"done", "failed"}
  PROVE  task'[t] = task[t]
<1> USE DEF EInv, OneExecutor
<1>1. task \in [Tasks -> TaskRec]
  BY DEF IInv, TInv, Shapes
<1>2. ASSUME NEW u \in Tasks, Enqueue(u) \/ BecomeDue(u)
      PROVE  task'[t] = task[t]
  BY <1>1, <1>2 DEF Enqueue, BecomeDue
<1>3. ASSUME NEW w \in Workers, Work(w) \/ SaveLost(w)
      PROVE  task'[t] = task[t]
  <2>1. CASE Claim(w)
    BY <1>1, <2>1 DEF Claim
  <2>2. CASE SaveError(w) \/ SavePause(w) \/ SaveDone(w) \/ SaveUnreadable(w)
    <3>1. Executing(w)
      BY <2>2 DEF SaveError, SavePause, SaveDone, SaveUnreadable, Executing
    <3>2. worker[w].id # t
      BY <3>1
    <3>3. QED
      BY <1>1, <2>2, <3>2 DEF SaveError, SavePause, SaveDone, SaveUnreadable, SaveRow
  <2>3. CASE RunStep(w)
    BY <2>3 DEF RunStep, RunCondition, RunUserInput, RunOutput, RunEffect, RunUnknown,
       RunApproval, Continue, Pause, StepError, Become
  <2>4. CASE (\E u \in Tasks : Select(w, u)) \/ ClaimMissed(w) \/ SaveLost(w)
    BY <2>4 DEF Select, ClaimMissed, SaveLost
  <2>5. QED
    BY <1>3, <2>1, <2>2, <2>3, <2>4 DEF Work
<1>4. ASSUME NEW s \in Slots, Serve(s)
      PROVE  task'[t] = task[t]
  <2>1. CASE ResumeSave(s)
    <3>1. slot[s].id # t
      BY <2>1 DEF ResumeSave
    <3>2. QED
      BY <1>1, <2>1, <3>1 DEF ResumeSave
  <2>2. CASE FindTask(s) \/ FoundLoad(s)
    BY <2>2 DEF FindTask, FoundLoad, Request
  <2>3. QED
    BY <1>4, <2>1, <2>2 DEF Serve
<1>5. ASSUME NEW s \in Slots,
             \/ \E u \in Tasks : ResumeLoad(s, u)
             \/ \E a \in DOMAIN approvals, verdict \in BOOLEAN : Decide(s, a, verdict)
      PROVE  task'[t] = task[t]
  BY <1>5 DEF ResumeLoad, Decide, Call, Request
<1>6. CASE Crash \/ UNCHANGED vars
  BY <1>6 DEF Crash, vars
<1>7. QED
  BY <1>2, <1>3, <1>4, <1>5, <1>6 DEF Next

LEMMA InitExec == Init => EInv
  BY DEF Init, EInv, OneExecutor, Executing, IdleWorker, IdleSlot

(* With resume and decide requests one at a time, a task has one executor, *)
(* for any number of workers (ClaimNext, repo/workflow.go).                *)
THEOREM OneExec ==
  ASSUME OneAtATime
  PROVE  Spec => []OneExecutor
<1>1. IInv /\ [Next]_vars => IInv'
  BY NextInv
<1>2. IInv /\ EInv /\ [Next]_vars => EInv'
  BY NextExec
<1>3. EInv => OneExecutor
  BY DEF EInv
<1>4. QED
  BY <1>1, <1>2, <1>3, InitInv, InitExec, PTL DEF Spec

(* And what is done or failed stays so: neither a late save of a worker    *)
(* nor a late save of a request brings it back.                            *)
THEOREM FinishedForGood ==
  ASSUME OneAtATime
  PROVE  Spec => FinishedFinal
<1>1. IInv /\ [Next]_vars => IInv'
  BY NextInv
<1>2. IInv /\ EInv /\ [Next]_vars => EInv'
  BY NextExec
<1>3. IInv /\ EInv /\ [Next]_vars =>
        [\A t \in Tasks : task[t].status \in {"done", "failed"} => task'[t] = task[t]]_vars
  BY NextFinal
<1>4. QED
  BY <1>1, <1>2, <1>3, InitInv, InitExec, PTL DEF Spec, FinishedFinal
=============================================================================
