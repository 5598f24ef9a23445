---------------------------- MODULE OutboxProofs ----------------------------
(***************************************************************************)
(* The webhook outbox for any number of hooks, rows and workers, any lease *)
(* longer than a delivery attempt, and any pattern of crashes and failed   *)
(* writes.                                                                 *)
(*                                                                         *)
(* The argument is about time: a row in flight is due again no sooner than *)
(* its lease, counted from its claimer's clock, so its claimer's age is    *)
(* still below the lease and nobody's guarded UPDATE can match it.  The    *)
(* retry budget and the acceptances follow by counting.                    *)
(***************************************************************************)
EXTENDS WebhookOutbox, TLAPS

Holds(w, d) == InFlight(w) /\ worker[w].id = d

(* A worker holds the row it claimed: nobody has written it since.        *)
HolderOK(w) ==
  InFlight(w) =>
    LET d == worker[w].id IN
    /\ d \in Rows
    /\ status[d] = "pending"
    /\ due[d] = Lease - worker[w].age
    /\ worker[w].tries = attempts[d]
    /\ worker[w].pc = "missing" => hook[d] \notin hooks \/ lost > 0

(* A row still eligible is as its SELECT showed it.                       *)
SelectorOK(w) ==
  worker[w].pc = "selected" =>
    LET d == worker[w].id IN
    /\ d \in Rows /\ status[d] # "absent"
    /\ Eligible(d, worker[w].age) => worker[w].tries = attempts[d]

(* How many posts and acceptances a row can have behind it.               *)
CountsOK(d) ==
  /\ accepts[d] <= 1 + lost
  /\ attempts[d] <= MaxAttempts + lost
  /\ status[d] = "absent" => attempts[d] = 0 /\ accepts[d] = 0
  /\ status[d] = "pending" =>
       /\ (\A w \in Workers : ~Holds(w, d)) => attempts[d] < MaxAttempts + lost
       /\ (\A w \in Workers : ~(Holds(w, d) /\ worker[w].pc = "ok")) =>
            accepts[d] <= lost
  /\ status[d] = "failed" =>
       attempts[d] >= MaxAttempts \/ hook[d] \notin hooks \/ lost > 0

IInv ==
  /\ TypeOK
  /\ \A w \in Workers : HolderOK(w) /\ SelectorOK(w)
  /\ OneSender
  /\ \A d \in Rows : CountsOK(d)

-----------------------------------------------------------------------------
LEMMA InitIInv == Init => IInv
  BY OutboxAssumption
  DEF Init, IInv, TypeOK, HolderOK, SelectorOK, OneSender, CountsOK, Holds,
      InFlight, Outcomes, Idle, Worker, Stages, Statuses

(* What may be assumed of a worker and of the row it holds.               *)
LEMMA WorkerFacts ==
  ASSUME IInv, NEW w \in Workers
  PROVE  /\ worker[w] \in Worker
         /\ worker[w].pc \in Stages /\ worker[w].tries \in Nat
         /\ worker[w].age \in 0 .. Timeout
         /\ HolderOK(w) /\ SelectorOK(w)
  BY DEF IInv, TypeOK, Worker

(* Dispatch, Enqueue and their errors, DeleteHook: no worker moves.       *)
LEMMA EnqueueIInv ==
  ASSUME IInv, NEW h \in Hooks, NEW d \in Rows, Enqueue(h, d)
  PROVE  IInv'
<1>1. TypeOK'
  BY OutboxAssumption DEF Enqueue, IInv, TypeOK, Statuses
<1>2. ASSUME NEW w \in Workers PROVE (HolderOK(w) /\ SelectorOK(w))'
  BY WorkerFacts DEF Enqueue, IInv, TypeOK, HolderOK, SelectorOK, InFlight, Eligible
<1>3. OneSender'
  BY DEF Enqueue, IInv, OneSender, InFlight
<1>4. ASSUME NEW e \in Rows PROVE CountsOK(e)'
  BY OutboxAssumption DEF Enqueue, IInv, TypeOK, CountsOK, Holds, InFlight
<1>5. QED
  BY <1>1, <1>2, <1>3, <1>4 DEF IInv

LEMMA RequestIInv ==
  ASSUME IInv,
         \/ Dispatch
         \/ \E h \in Hooks : EnqueueError(h) \/ DeleteHook(h)
         \/ UNCHANGED vars
  PROVE  IInv'
<1>1. /\ status' = status /\ attempts' = attempts /\ due' = due /\ hook' = hook
      /\ worker' = worker /\ accepts' = accepts
      /\ lost \in Nat /\ lost' \in 0 .. MaxLosses /\ lost <= lost'
      /\ hooks' \subseteq hooks /\ fan' \subseteq Hooks
  BY OutboxAssumption
  DEF IInv, TypeOK, Dispatch, EnqueueError, DeleteHook, columns, vars
<1>2. TypeOK'
  BY <1>1 DEF IInv, TypeOK
<1>3. ASSUME NEW w \in Workers PROVE (HolderOK(w) /\ SelectorOK(w))'
  BY <1>1, WorkerFacts, OutboxAssumption DEF HolderOK, SelectorOK, InFlight, Eligible
<1>4. OneSender'
  BY <1>1 DEF IInv, OneSender, InFlight
<1>5. ASSUME NEW e \in Rows PROVE CountsOK(e)'
  BY <1>1, OutboxAssumption DEF IInv, TypeOK, CountsOK, Holds, InFlight
<1>6. QED
  BY <1>2, <1>3, <1>4, <1>5 DEF IInv

(* SELECT: the worker's copy is the row.                                  *)
LEMMA SelectIInv ==
  ASSUME IInv, NEW w \in Workers, NEW d \in Rows, Select(w, d)
  PROVE  IInv'
<1>1. /\ worker[w].pc = "idle"
      /\ worker' = [worker EXCEPT ![w] =
           [pc |-> "selected", id |-> d, tries |-> attempts[d], age |-> 0]]
      /\ UNCHANGED <<hooks, fan, status, attempts, due, hook, accepts, lost>>
      /\ status[d] = "pending"
  BY DEF Select, Eligible, columns
<1>2. TypeOK'
  BY <1>1, OutboxAssumption DEF IInv, TypeOK, Worker, Stages
<1>3. \A v \in Workers : v # w => worker'[v] = worker[v]
  BY <1>1 DEF IInv, TypeOK
<1>4. ~InFlight(w) /\ ~InFlight(w)' /\ worker'[w].id = d /\ worker'[w].tries = attempts[d]
  BY <1>1 DEF IInv, TypeOK, InFlight, Outcomes
<1>5. ASSUME NEW v \in Workers PROVE (HolderOK(v) /\ SelectorOK(v))'
  BY <1>1, <1>3, <1>4, WorkerFacts DEF HolderOK, SelectorOK, InFlight, Eligible
<1>6. OneSender'
  BY <1>3, <1>4 DEF IInv, OneSender, InFlight
<1>7. ASSUME NEW e \in Rows PROVE CountsOK(e)'
  BY <1>1, <1>3, <1>4 DEF IInv, CountsOK, Holds, InFlight
<1>8. QED
  BY <1>2, <1>5, <1>6, <1>7 DEF IInv

(* The guarded UPDATE: nobody can hold a row that is due.                 *)
LEMMA NobodyHoldsDueRow ==
  ASSUME IInv, NEW w \in Workers, worker[w].pc = "selected",
         Eligible(worker[w].id, worker[w].age)
  PROVE  \A v \in Workers : ~Holds(v, worker[w].id)
<1>1. SUFFICES ASSUME NEW v \in Workers, Holds(v, worker[w].id) PROVE FALSE
  OBVIOUS
<1>2. due[worker[w].id] = Lease - worker[v].age /\ due[worker[w].id] <= -worker[w].age
  BY <1>1, WorkerFacts DEF Holds, HolderOK, Eligible
<1>3. QED
  BY <1>2, WorkerFacts, OutboxAssumption, LeaseAssumption

LEMMA ClaimIInv ==
  ASSUME IInv, NEW w \in Workers, Claim(w)
  PROVE  IInv'
<1> DEFINE d == worker[w].id
<1>1. /\ worker[w].pc = "selected" /\ Eligible(d, worker[w].age)
      /\ attempts' = [attempts EXCEPT ![d] = @ + 1]
      /\ due' = [due EXCEPT ![d] = Lease - worker[w].age]
      /\ worker' = [worker EXCEPT ![w].pc = "claimed", ![w].tries = @ + 1]
      /\ UNCHANGED <<hooks, fan, status, hook, accepts, lost>>
  BY DEF Claim
<1>2. \A v \in Workers : ~Holds(v, d)
  BY <1>1, NobodyHoldsDueRow
<1>3. /\ d \in Rows /\ status[d] = "pending" /\ worker[w].tries = attempts[d]
      /\ worker[w].age \in 0 .. Timeout
  BY <1>1, WorkerFacts DEF SelectorOK, Eligible
<1>4. \A v \in Workers : v # w => worker'[v] = worker[v]
  BY <1>1 DEF IInv, TypeOK
<1>5. /\ worker'[w] \in Worker
      /\ worker'[w].pc = "claimed" /\ worker'[w].id = d
      /\ worker'[w].age = worker[w].age /\ worker'[w].tries = worker[w].tries + 1
  BY <1>1, WorkerFacts DEF IInv, TypeOK, Worker, Stages
<1>6. /\ due'[d] = Lease - worker[w].age /\ due'[d] > 0
      /\ attempts'[d] = attempts[d] + 1 /\ attempts[d] \in Nat
      /\ \A e \in Rows : e # d => due'[e] = due[e] /\ attempts'[e] = attempts[e]
  BY <1>1, <1>3, OutboxAssumption, LeaseAssumption DEF IInv, TypeOK
<1>7. TypeOK'
  <2>1. worker' \in [Workers -> Worker]
    BY <1>1, <1>4, <1>5 DEF IInv, TypeOK
  <2>2. attempts' \in [Rows -> Nat]
    BY <1>1, <1>3, <1>6 DEF IInv, TypeOK
  <2>3. due' \in [Rows -> Int] /\ \A e \in Rows : due'[e] >= -Timeout
    BY <1>1, <1>3, <1>6, OutboxAssumption DEF IInv, TypeOK
  <2>4. QED
    BY <1>1, <2>1, <2>2, <2>3 DEF IInv, TypeOK
<1>8. ASSUME NEW v \in Workers PROVE HolderOK(v)'
  <2>1. CASE v = w
    BY <2>1, <1>1, <1>3, <1>5, <1>6 DEF HolderOK
  <2>2. CASE v # w
    <3>1. HolderOK(v) /\ worker'[v] = worker[v] /\ (InFlight(v) => worker[v].id # d)
      BY <2>2, <1>2, <1>4, WorkerFacts DEF Holds
    <3>2. QED
      BY <3>1, <1>1, <1>6 DEF HolderOK, InFlight
  <2>3. QED
    BY <2>1, <2>2
<1>9. ASSUME NEW v \in Workers PROVE SelectorOK(v)'
  <2>1. CASE v = w
    BY <2>1, <1>5 DEF SelectorOK
  <2>2. CASE v # w
    <3>1. SelectorOK(v) /\ worker'[v] = worker[v] /\ worker[v].age \in 0 .. Timeout
      BY <2>2, <1>4, WorkerFacts
    <3>2. CASE worker[v].id = d
      BY <3>1, <3>2, <1>1, <1>3, <1>6, OutboxAssumption DEF SelectorOK, Eligible
    <3>3. CASE worker[v].id # d
      BY <3>1, <3>3, <1>1, <1>6 DEF SelectorOK, Eligible
    <3>4. QED
      BY <3>2, <3>3
  <2>3. QED
    BY <2>1, <2>2
<1>10. OneSender'
  BY <1>2, <1>4, <1>5 DEF IInv, OneSender, Holds, InFlight
<1>11. ASSUME NEW e \in Rows PROVE CountsOK(e)'
  <2>1. CASE e = d
    <3>1. CountsOK(d) /\ attempts[d] < MaxAttempts + lost /\ accepts[d] <= lost
      BY <1>2, <1>3 DEF IInv, CountsOK
    <3>2. Holds(w, d)'
      BY <1>5 DEF Holds, InFlight
    <3>3. QED
      BY <2>1, <3>1, <3>2, <1>1, <1>3, <1>6, OutboxAssumption DEF IInv, TypeOK, CountsOK
  <2>2. CASE e # d
    <3>1. \A v \in Workers : Holds(v, e)' <=> Holds(v, e)
      BY <2>2, <1>1, <1>4, <1>5 DEF Holds, InFlight, Outcomes
    <3>2. \A v \in Workers : Holds(v, e) => worker'[v] = worker[v]
      BY <2>2, <1>1, <1>4 DEF Holds, InFlight, Outcomes
    <3>3. QED
      BY <2>2, <3>1, <3>2, <1>1, <1>6 DEF IInv, CountsOK
  <2>3. QED
    BY <2>1, <2>2
<1>12. QED
  BY <1>7, <1>8, <1>9, <1>10, <1>11 DEF IInv

(* RowsAffected = 0, and the mark that is lost: the worker just lets go.  *)
LEMMA LetGoIInv ==
  ASSUME IInv, NEW w \in Workers, ClaimMissed(w) \/ MarkError(w)
  PROVE  IInv'
<1>1. /\ worker' = [worker EXCEPT ![w] = Idle]
      /\ UNCHANGED <<hooks, fan, status, attempts, due, hook, accepts>>
      /\ lost' \in 0 .. MaxLosses
      /\ \/ worker[w].pc = "selected" /\ lost' = lost
         \/ worker[w].pc \in Outcomes /\ lost' = lost + 1
  BY OutboxAssumption DEF ClaimMissed, MarkError, columns, IInv, TypeOK
<1>2. /\ worker'[w] = Idle
      /\ \A v \in Workers : v # w => worker'[v] = worker[v]
      /\ worker' \in [Workers -> Worker]
  BY <1>1, OutboxAssumption DEF IInv, TypeOK, Worker, Idle, Stages
<1>3. TypeOK'
  BY <1>1, <1>2 DEF IInv, TypeOK
<1>4. ASSUME NEW v \in Workers PROVE (HolderOK(v) /\ SelectorOK(v))'
  <2>1. CASE v = w
    BY <2>1, <1>2 DEF HolderOK, SelectorOK, InFlight, Idle, Outcomes
  <2>2. CASE v # w
    <3>1. HolderOK(v) /\ SelectorOK(v) /\ worker'[v] = worker[v]
      BY <2>2, <1>2, WorkerFacts
    <3>2. lost > 0 => lost' > 0
      BY <1>1, OutboxAssumption DEF IInv, TypeOK
    <3>3. QED
      BY <3>1, <3>2, <1>1 DEF HolderOK, SelectorOK, InFlight, Eligible
  <2>3. QED
    BY <2>1, <2>2
<1>5. OneSender'
  BY <1>2 DEF IInv, OneSender, InFlight, Idle, Outcomes
<1>6. ASSUME NEW e \in Rows PROVE CountsOK(e)'
  <2>1. CountsOK(e) /\ accepts[e] \in Nat /\ attempts[e] \in Nat /\ lost \in Nat
    BY OutboxAssumption DEF IInv, TypeOK
  <2>2. CASE lost' = lost + 1
    BY <1>1, <2>1, <2>2, OutboxAssumption DEF CountsOK
  <2>3. CASE worker[w].pc = "selected" /\ lost' = lost
    BY <1>1, <1>2, <2>1, <2>3 DEF CountsOK, Holds, InFlight, Outcomes, Idle
  <2>4. QED
    BY <1>1, <2>2, <2>3
<1>7. QED
  BY <1>3, <1>4, <1>5, <1>6 DEF IInv

(* Looking the hook up, or failing to, and posting: the worker keeps its   *)
(* row.                                                                   *)
LEMMA PostIInv ==
  ASSUME IInv, NEW w \in Workers, LookUp(w) \/ LookUpError(w) \/ Reply(w)
  PROVE  IInv'
<1> DEFINE d == worker[w].id
<1> DEFINE Goes(p) == /\ worker' = [worker EXCEPT ![w].pc = p]
                      /\ p = "missing" => hook[d] \notin hooks \/ lost' > 0
                      /\ IF p = "ok" THEN accepts' = [accepts EXCEPT ![d] = @ + 1]
                                     ELSE accepts' = accepts
<1>1. /\ UNCHANGED <<hooks, fan, status, attempts, due, hook>>
      /\ lost' \in 0 .. MaxLosses /\ lost <= lost'
      /\ worker[w].pc \in {"claimed", "sending"}
  BY OutboxAssumption DEF LookUp, LookUpError, Reply, columns, IInv, TypeOK
<1>2. PICK p \in {"sending"} \cup Outcomes : Goes(p)
  <2>1. CASE LookUp(w)
    <3>1. CASE hook[d] \in hooks
      <4>1. Goes("sending")
        BY <2>1, <3>1 DEF LookUp
      <4>2. QED
        BY <4>1
    <3>2. CASE hook[d] \notin hooks
      <4>1. Goes("missing")
        BY <2>1, <3>2 DEF LookUp
      <4>2. QED
        BY <4>1 DEF Outcomes
    <3>3. QED
      BY <3>1, <3>2
  <2>2. CASE LookUpError(w)
    <3>1. Goes("missing")
      BY <2>2, OutboxAssumption DEF LookUpError, IInv, TypeOK
    <3>2. QED
      BY <3>1 DEF Outcomes
  <2>3. CASE Reply(w)
    <3>1. Goes("ok") \/ Goes("error")
      BY <2>3 DEF Reply
    <3>2. QED
      BY <3>1 DEF Outcomes
  <2>4. QED
    BY <2>1, <2>2, <2>3
<1>3. /\ worker'[w] \in Worker
      /\ worker'[w].pc = p /\ worker'[w].id = d
      /\ worker'[w].age = worker[w].age /\ worker'[w].tries = worker[w].tries
      /\ \A v \in Workers : v # w => worker'[v] = worker[v]
  BY <1>2, WorkerFacts DEF IInv, TypeOK, Worker, Stages, Outcomes
<1>4. InFlight(w) /\ InFlight(w)' /\ HolderOK(w) /\ worker[w].pc # "ok"
  BY <1>1, <1>2, <1>3, WorkerFacts DEF InFlight, Outcomes
<1>5. d \in Rows /\ status[d] = "pending"
  BY <1>4 DEF HolderOK
<1>6. TypeOK'
  <2>1. worker' \in [Workers -> Worker]
    BY <1>2, <1>3 DEF IInv, TypeOK
  <2>2. accepts[d] \in Nat /\ accepts' \in [Rows -> Nat]
    BY <1>2, <1>5 DEF IInv, TypeOK
  <2>3. QED
    BY <1>1, <2>1, <2>2 DEF IInv, TypeOK
<1>7. ASSUME NEW v \in Workers PROVE (HolderOK(v) /\ SelectorOK(v))'
  <2>1. CASE v = w
    BY <2>1, <1>1, <1>2, <1>3, <1>4 DEF HolderOK, SelectorOK, Outcomes
  <2>2. CASE v # w
    <3>1. HolderOK(v) /\ SelectorOK(v) /\ worker'[v] = worker[v]
      BY <2>2, <1>3, WorkerFacts
    <3>2. lost > 0 => lost' > 0
      BY <1>1, OutboxAssumption DEF IInv, TypeOK
    <3>3. QED
      BY <3>1, <3>2, <1>1 DEF HolderOK, SelectorOK, InFlight, Eligible
  <2>3. QED
    BY <2>1, <2>2
<1>8. \A v \in Workers, e \in Rows : Holds(v, e)' <=> Holds(v, e)
  BY <1>3, <1>4 DEF Holds, InFlight
<1>9. OneSender'
  BY <1>3, <1>4 DEF IInv, OneSender, InFlight
<1> HIDE DEF Goes
<1>10. ASSUME NEW e \in Rows PROVE CountsOK(e)'
  <2>1. /\ CountsOK(e) /\ accepts[e] \in Nat /\ attempts[e] \in Nat
        /\ lost \in Nat /\ lost' \in Nat /\ lost <= lost'
    BY <1>1, OutboxAssumption DEF IInv, TypeOK
  <2>2. CASE e # d \/ p # "ok"
    <3>1. accepts'[e] = accepts[e]
      BY <2>2, <1>2, <1>5 DEF Goes, IInv, TypeOK
    <3>2. ASSUME NEW v \in Workers, Holds(v, e), worker[v].pc = "ok"
          PROVE  Holds(v, e)' /\ worker'[v].pc = "ok"
      BY <3>2, <1>3, <1>4, <1>8
    <3>3. QED
      BY <2>1, <3>1, <3>2, <1>1, <1>8, OutboxAssumption DEF CountsOK
  <2>3. CASE e = d /\ p = "ok"
    <3>1. \A v \in Workers : ~(Holds(v, d) /\ worker[v].pc = "ok")
      BY <1>4 DEF IInv, OneSender, Holds
    <3>2. accepts[d] <= lost
      BY <2>1, <2>3, <3>1, <1>5 DEF CountsOK
    <3>3. accepts'[d] = accepts[d] + 1
      BY <2>3, <1>2, <1>5 DEF Goes, IInv, TypeOK
    <3>4. Holds(w, e)' /\ worker'[w].pc = "ok"
      BY <2>3, <1>3, <1>4 DEF Holds
    <3>5. accepts'[e] <= 1 + lost'
      BY <2>1, <2>3, <3>2, <3>3
    <3>6. attempts[e] <= MaxAttempts + lost'
      BY <2>1, <2>3, OutboxAssumption DEF CountsOK
    <3>7. status'[e] = "pending" /\ attempts'[e] = attempts[e]
      BY <2>3, <1>1, <1>5
    <3>8. QED
      BY <2>3, <3>4, <3>5, <3>6, <3>7 DEF CountsOK
  <2>4. QED
    BY <2>2, <2>3
<1>11. QED
  BY <1>6, <1>7, <1>9, <1>10 DEF IInv

(* The three marks: only the row's holder writes, and lets go.            *)
LEMMA MarkIInv ==
  ASSUME IInv, NEW w \in Workers,
         MarkDelivered(w) \/ MarkFailed(w) \/ MarkMissing(w)
  PROVE  /\ IInv'
         /\ status[worker[w].id] = "pending"
         /\ \A e \in Rows : e # worker[w].id => status'[e] = status[e]
<1> DEFINE d == worker[w].id
<1>1. HolderOK(w) /\ InFlight(w)
  BY WorkerFacts DEF MarkDelivered, MarkFailed, MarkMissing, InFlight, Outcomes
<1>2. /\ d \in Rows /\ status[d] = "pending" /\ due[d] = Lease - worker[w].age
      /\ worker[w].tries = attempts[d]
      /\ worker[w].pc = "missing" => hook[d] \notin hooks \/ lost > 0
  BY <1>1 DEF HolderOK
<1>3. attempts[d] \in 0 .. (MaxAttempts + MaxLosses)
  <2>1. attempts[d] \in Nat /\ lost \in 0 .. MaxLosses /\ CountsOK(d)
    BY <1>2 DEF IInv, TypeOK
  <2>2. QED
    BY <2>1, OutboxAssumption DEF CountsOK
<1>4. PICK s \in Statuses, n \in Int :
        /\ status' = [status EXCEPT ![d] = s]
        /\ due' = [due EXCEPT ![d] = n]
        /\ n >= -Timeout
        /\ s = "pending" => n > 0 /\ attempts[d] < MaxAttempts /\ worker[w].pc # "ok"
        /\ s = "failed" => attempts[d] >= MaxAttempts \/ hook[d] \notin hooks \/ lost > 0
        /\ s # "absent"
  <2>1. CASE MarkDelivered(w)
    <3>1. due' = [due EXCEPT ![d] = due[d]] /\ due[d] \in Int /\ due[d] >= -Timeout
      BY <2>1, <1>2 DEF MarkDelivered, IInv, TypeOK
    <3>2. QED
      BY <2>1, <3>1 DEF MarkDelivered, Statuses
  <2>2. CASE MarkFailed(w)
    <3>1. Backoff(worker[w].tries) \in Int /\ Backoff(worker[w].tries) > 0
      BY <1>2, <1>3, BackoffAssumption
    <3>2. /\ due' = [due EXCEPT ![d] = Backoff(worker[w].tries)]
          /\ worker[w].pc = "error"
          /\ status' = [status EXCEPT ![d] =
                          IF GiveUp(worker[w].tries) THEN "failed" ELSE "pending"]
      BY <2>2 DEF MarkFailed
    <3>3. Backoff(worker[w].tries) >= -Timeout
      BY <3>1, OutboxAssumption
    <3>4. CASE GiveUp(worker[w].tries)
      <4>1. status' = [status EXCEPT ![d] = "failed"] /\ attempts[d] >= MaxAttempts
        BY <3>2, <3>4, <1>2 DEF GiveUp
      <4>2. QED
        BY <3>1, <3>2, <3>3, <4>1 DEF Statuses
    <3>5. CASE ~GiveUp(worker[w].tries)
      <4>1. status' = [status EXCEPT ![d] = "pending"]
        BY <3>2, <3>5
      <4>2. attempts[d] < MaxAttempts
        BY <3>5, <1>2, <1>3, OutboxAssumption DEF GiveUp
      <4>3. QED
        BY <3>1, <3>2, <3>3, <4>1, <4>2 DEF Statuses
    <3>6. QED
      BY <3>4, <3>5
  <2>3. CASE MarkMissing(w)
    <3>1. /\ status' = [status EXCEPT ![d] = "failed"]
          /\ due' = [due EXCEPT ![d] = 0]
          /\ hook[d] \notin hooks \/ lost > 0
      BY <2>3, <1>2 DEF MarkMissing
    <3>2. 0 \in Int /\ 0 >= -Timeout
      BY OutboxAssumption
    <3>3. QED
      BY <3>1, <3>2 DEF Statuses
  <2>4. QED
    BY <2>1, <2>2, <2>3
<1>5. /\ worker' = [worker EXCEPT ![w] = Idle]
      /\ UNCHANGED <<hooks, fan, attempts, hook, accepts, lost>>
  BY DEF MarkDelivered, MarkFailed, MarkMissing, Settle
<1>6. /\ worker'[w] = Idle
      /\ \A v \in Workers : v # w => worker'[v] = worker[v]
      /\ worker' \in [Workers -> Worker]
  BY <1>5, OutboxAssumption DEF IInv, TypeOK, Worker, Idle, Stages
<1>7. /\ status'[d] = s /\ due'[d] = n
      /\ \A e \in Rows : e # d => status'[e] = status[e] /\ due'[e] = due[e]
  BY <1>2, <1>4 DEF IInv, TypeOK
<1>8. TypeOK'
  <2>1. status' \in [Rows -> Statuses] /\ due' \in [Rows -> Int]
    BY <1>4 DEF IInv, TypeOK
  <2>2. \A e \in Rows : due'[e] >= -Timeout
    BY <1>4, <1>7 DEF IInv, TypeOK
  <2>3. QED
    BY <1>5, <1>6, <2>1, <2>2 DEF IInv, TypeOK
<1>9. \A v \in Workers : v # w => ~Holds(v, d)
  BY <1>1 DEF IInv, OneSender, Holds
<1>10. ASSUME NEW v \in Workers PROVE ~(InFlight(v)' /\ worker'[v].id = d)
  <2>1. CASE v = w
    BY <2>1, <1>6 DEF InFlight, Idle, Outcomes
  <2>2. CASE v # w
    <3>1. worker'[v] = worker[v] /\ ~Holds(v, d)
      BY <2>2, <1>6, <1>9
    <3>2. QED
      BY <3>1 DEF Holds, InFlight
  <2>3. QED
    BY <2>1, <2>2
<1>11. ASSUME NEW v \in Workers PROVE HolderOK(v)'
  <2>1. CASE v = w
    BY <2>1, <1>6 DEF HolderOK, InFlight, Idle, Outcomes
  <2>2. CASE v # w
    <3>1. HolderOK(v) /\ worker'[v] = worker[v] /\ (InFlight(v) => worker[v].id # d)
      BY <2>2, <1>6, <1>9, WorkerFacts DEF Holds
    <3>2. QED
      BY <3>1, <1>5, <1>7 DEF HolderOK, InFlight
  <2>3. QED
    BY <2>1, <2>2
<1>12. ASSUME NEW v \in Workers PROVE SelectorOK(v)'
  <2>1. CASE v = w
    BY <2>1, <1>6 DEF SelectorOK, Idle
  <2>2. CASE v # w
    <3>1. SelectorOK(v) /\ worker'[v] = worker[v] /\ worker[v].age \in 0 .. Timeout
      BY <2>2, <1>6, WorkerFacts
    <3>2. CASE worker[v].id = d
      BY <3>1, <3>2, <1>2, <1>4, <1>7, OutboxAssumption DEF SelectorOK, Eligible
    <3>3. CASE worker[v].id # d
      BY <3>1, <3>3, <1>5, <1>7 DEF SelectorOK, Eligible
    <3>4. QED
      BY <3>2, <3>3
  <2>3. QED
    BY <2>1, <2>2
<1>13. OneSender'
  BY <1>6 DEF IInv, OneSender, InFlight, Idle, Outcomes
<1>14. ASSUME NEW e \in Rows PROVE CountsOK(e)'
  <2>1. CountsOK(e) /\ lost \in Nat /\ attempts[e] \in Nat
    BY OutboxAssumption DEF IInv, TypeOK
  <2>2. CASE e = d
    <3>1. s = "pending" => accepts[d] <= lost
      <4>1. SUFFICES ASSUME worker[w].pc # "ok" PROVE accepts[d] <= lost
        BY <1>4
      <4>2. \A v \in Workers : ~(Holds(v, d) /\ worker[v].pc = "ok")
        BY <4>1, <1>9
      <4>3. QED
        BY <4>2, <2>1, <2>2, <1>2 DEF CountsOK
    <3>2. attempts[d] < MaxAttempts => attempts[d] < MaxAttempts + lost
      BY <2>1, <2>2, OutboxAssumption
    <3>3. QED
      BY <2>1, <2>2, <3>1, <3>2, <1>4, <1>5, <1>7, OutboxAssumption DEF CountsOK
  <2>3. CASE e # d
    <3>1. \A v \in Workers : Holds(v, e) => v # w
      BY <2>3 DEF Holds
    <3>2. \A v \in Workers : Holds(v, e) => Holds(v, e)' /\ worker'[v] = worker[v]
      BY <3>1, <1>6 DEF Holds, InFlight
    <3>3. status'[e] = status[e]
      BY <2>3, <1>7
    <3>4. QED
      BY <2>1, <3>2, <3>3, <1>5 DEF CountsOK
  <2>4. QED
    BY <2>2, <2>3
<1>15. QED
  BY <1>2, <1>7, <1>8, <1>11, <1>12, <1>13, <1>14 DEF IInv

(* A crash lets every row go; each loses at most one post.                *)
LEMMA CrashIInv == IInv /\ Crash => IInv'
<1> SUFFICES ASSUME IInv, Crash PROVE IInv'
  OBVIOUS
<1>1. /\ worker' = [w \in Workers |-> Idle]
      /\ lost' = lost + 1 /\ lost < MaxLosses /\ fan' = {}
      /\ UNCHANGED <<hooks, status, attempts, due, hook, accepts>>
  BY DEF Crash, columns
<1>2. TypeOK'
  BY <1>1, OutboxAssumption DEF IInv, TypeOK, Worker, Idle, Stages
<1>3. ASSUME NEW w \in Workers PROVE ~InFlight(w)' /\ (HolderOK(w) /\ SelectorOK(w))'
  BY <1>1 DEF HolderOK, SelectorOK, InFlight, Idle, Outcomes
<1>4. OneSender'
  BY <1>3 DEF OneSender
<1>5. ASSUME NEW e \in Rows PROVE CountsOK(e)'
  <2>1. CountsOK(e) /\ accepts[e] \in Nat /\ attempts[e] \in Nat /\ lost \in Nat
    BY OutboxAssumption DEF IInv, TypeOK
  <2>2. QED
    BY <1>1, <2>1, OutboxAssumption DEF CountsOK
<1>6. QED
  BY <1>2, <1>3, <1>4, <1>5 DEF IInv

(* A second off the lease is a second on the age of its holder.           *)
LEMMA TickIInv == IInv /\ Tick => IInv'
<1> SUFFICES ASSUME IInv, Tick PROVE IInv'
  OBVIOUS
<1>1. UNCHANGED <<hooks, fan, status, attempts, hook, accepts, lost>>
  BY DEF Tick
<1>2. ASSUME NEW w \in Workers
      PROVE  /\ worker'[w] \in Worker
             /\ worker'[w].pc = worker[w].pc /\ worker'[w].id = worker[w].id
             /\ worker'[w].tries = worker[w].tries
             /\ worker[w].pc # "idle" =>
                  worker[w].age < Timeout /\ worker'[w].age = worker[w].age + 1
  <2>1. worker[w] \in Worker /\ (worker[w].pc # "idle" => worker[w].age < Timeout)
    BY DEF IInv, TypeOK, Tick
  <2>2. CASE worker[w].pc = "idle"
    BY <2>1, <2>2 DEF Tick
  <2>3. CASE worker[w].pc # "idle"
    <3>1. worker'[w] = [worker[w] EXCEPT !.age = @ + 1]
      BY <2>3 DEF Tick
    <3>2. worker[w].age \in Nat /\ worker[w].age + 1 \in 0 .. Timeout
      BY <2>1, <2>3, OutboxAssumption DEF Worker
    <3>3. QED
      BY <2>1, <2>3, <3>1, <3>2 DEF Worker
  <2>4. QED
    BY <2>2, <2>3
<1>3. ASSUME NEW d \in Rows
      PROVE  /\ due[d] \in Int /\ due[d] >= -Timeout
             /\ due'[d] = IF due[d] > -Timeout THEN due[d] - 1 ELSE due[d]
             /\ due'[d] \in Int /\ due'[d] >= -Timeout
  BY OutboxAssumption DEF IInv, TypeOK, Tick
<1>4. TypeOK'
  <2>1. worker' \in [Workers -> Worker]
    BY <1>2 DEF Tick
  <2>2. due' \in [Rows -> Int]
    BY <1>3 DEF Tick
  <2>3. QED
    BY <1>1, <1>3, <2>1, <2>2 DEF IInv, TypeOK
<1>5. ASSUME NEW w \in Workers PROVE HolderOK(w)'
  <2>1. SUFFICES ASSUME InFlight(w) PROVE HolderOK(w)'
    BY <1>2 DEF HolderOK, InFlight
  <2> DEFINE d == worker[w].id
  <2>2. /\ d \in Rows /\ status[d] = "pending" /\ due[d] = Lease - worker[w].age
        /\ worker[w].tries = attempts[d] /\ worker[w].pc # "idle"
        /\ worker[w].age \in Nat
    BY <2>1, WorkerFacts DEF HolderOK, InFlight, Outcomes
  <2>3. due'[d] = Lease - worker'[w].age
    <3>1. worker[w].age < Timeout /\ worker'[w].age = worker[w].age + 1
      BY <2>2, <1>2
    <3>2. due'[d] = IF due[d] > -Timeout THEN due[d] - 1 ELSE due[d]
      BY <2>2, <1>3
    <3>3. QED
      BY <2>2, <3>1, <3>2, OutboxAssumption, LeaseAssumption
  <2>4. worker[w].pc = "missing" => hook[d] \notin hooks \/ lost > 0
    BY <2>1, WorkerFacts DEF HolderOK
  <2>5. QED
    BY <2>2, <2>3, <2>4, <1>1, <1>2 DEF HolderOK
<1>6. ASSUME NEW w \in Workers PROVE SelectorOK(w)'
  <2>1. SUFFICES ASSUME worker[w].pc = "selected" PROVE SelectorOK(w)'
    BY <1>2 DEF SelectorOK
  <2> DEFINE d == worker[w].id
  <2>2. /\ d \in Rows /\ status[d] # "absent" /\ worker[w].age \in Nat
        /\ Eligible(d, worker[w].age) => worker[w].tries = attempts[d]
        /\ worker[w].age < Timeout /\ worker'[w].age = worker[w].age + 1
    BY <2>1, <1>2, WorkerFacts DEF SelectorOK
  <2>3. /\ due[d] \in Int /\ worker[w].age \in Int /\ Timeout \in Int
        /\ due'[d] = IF due[d] > -Timeout THEN due[d] - 1 ELSE due[d]
        /\ due[d] >= -Timeout
    BY <2>2, <1>3, OutboxAssumption
  <2>4. due'[d] <= -worker'[w].age => due[d] <= -worker[w].age
    <3>1. CASE due[d] > -Timeout
      BY <3>1, <2>2, <2>3
    <3>2. CASE due[d] = -Timeout
      BY <3>2, <2>2, <2>3
    <3>3. QED
      BY <3>1, <3>2, <2>3
  <2>5. QED
    BY <2>2, <2>4, <1>1, <1>2 DEF SelectorOK, Eligible
<1>7. OneSender'
  BY <1>2 DEF IInv, OneSender, InFlight
<1>8. ASSUME NEW e \in Rows PROVE CountsOK(e)'
  <2>1. CountsOK(e)
    BY DEF IInv
  <2>2. \A w \in Workers : (Holds(w, e)' <=> Holds(w, e)) /\ worker'[w].pc = worker[w].pc
    BY <1>2 DEF Holds, InFlight
  <2>3. QED
    BY <2>1, <2>2, <1>1 DEF CountsOK
<1>9. QED
  BY <1>4, <1>5, <1>6, <1>7, <1>8 DEF IInv

LEMMA NextIInv == IInv /\ [Next]_vars => IInv'
<1> SUFFICES ASSUME IInv, [Next]_vars PROVE IInv'
  OBVIOUS
<1>1. CASE Dispatch \/ (\E h \in Hooks : EnqueueError(h) \/ DeleteHook(h)) \/ UNCHANGED vars
  BY <1>1, RequestIInv
<1>2. ASSUME NEW h \in Hooks, NEW d \in Rows, Enqueue(h, d) PROVE IInv'
  BY <1>2, EnqueueIInv
<1>3. ASSUME NEW w \in Workers, Step(w) \/ LookUpError(w) \/ MarkError(w) PROVE IInv'
  BY <1>3, SelectIInv, ClaimIInv, LetGoIInv, PostIInv, MarkIInv DEF Step
<1>4. CASE Crash
  BY <1>4, CrashIInv
<1>5. CASE Tick
  BY <1>5, TickIInv
<1>6. QED
  BY <1>1, <1>2, <1>3, <1>4, <1>5 DEF Next

-----------------------------------------------------------------------------
THEOREM OutboxConsistent == Spec => []IInv
  BY InitIInv, NextIInv, PTL DEF Spec

(* The claim is exclusive for as long as the attempt can last: what the   *)
(* regression tests of claim_test.go sample, for every interleaving.      *)
THEOREM ClaimsExclude == Spec => []OneSender
<1>1. IInv => OneSender
  BY DEF IInv
<1>2. QED
  BY <1>1, OutboxConsistent, PTL

(* No event is accepted twice by its subscriber unless a mark was lost.   *)
THEOREM AcceptedOnceUnlessLost == Spec => []AcceptedOnce
<1>1. IInv => AcceptedOnce
  BY DEF IInv, CountsOK, AcceptedOnce
<1>2. QED
  BY <1>1, OutboxConsistent, PTL

(* The retry budget is kept: drawn on by posts and lost marks only, and   *)
(* spent before a row is given up.                                        *)
THEOREM BudgetKept == Spec => []RetryBudget
<1>1. IInv => RetryBudget
  BY DEF IInv, CountsOK, RetryBudget
<1>2. QED
  BY <1>1, OutboxConsistent, PTL

(* A settled row is never resurrected, though the marks check nothing.    *)
THEOREM SettledRowsStay == Spec => SettledFinal
<1> DEFINE A == \A d \in Rows :
                  status[d] \in {"delivered", "failed"} => status'[d] = status[d]
<1>1. IInv /\ [Next]_vars => [A]_vars
  <2> SUFFICES ASSUME IInv, Next PROVE A
    BY DEF vars
  <2>1. ASSUME NEW h \in Hooks, NEW d \in Rows, Enqueue(h, d) PROVE A
    BY <2>1 DEF Enqueue, IInv, TypeOK
  <2>2. ASSUME NEW w \in Workers,
               MarkDelivered(w) \/ MarkFailed(w) \/ MarkMissing(w)
        PROVE  A
    BY <2>2, MarkIInv
  <2>3. CASE UNCHANGED status
    BY <2>3
  <2>4. QED
    BY <2>1, <2>2, <2>3
    DEF Next, Step, Dispatch, EnqueueError, DeleteHook, Select, Claim, ClaimMissed,
        LookUp, LookUpError, Reply, MarkError, Crash, Tick, columns
<1>2. QED
  BY <1>1, OutboxConsistent, PTL DEF Spec, SettledFinal
=============================================================================
