---------------------------- MODULE WebhookOutbox ----------------------------
(***************************************************************************)
(* The webhook outbox: Dispatcher.Dispatch puts one row per subscribed     *)
(* hook in webhook_deliveries, and a pool of workers claims, posts and     *)
(* marks them (internal/webhook/dispatcher.go, internal/repo/webhook.go).  *)
(*                                                                         *)
(* Workers and requests meet only in the database, one statement at a      *)
(* time: every statement is an action.  Time is relative: due[d] is        *)
(* next_run_at - now, age is how long ago a worker called ClaimNext.       *)
(***************************************************************************)
EXTENDS Integers

CONSTANTS
  Hooks,        \* webhooks an administrator registered
  Rows,         \* ids of the outbox rows
  Workers,      \* the pool
  MaxAttempts,  \* maxAttempts
  Lease,        \* claimLeaseSeconds
  Timeout,      \* bound on the time a worker takes from ClaimNext to its mark
  MaxLosses,    \* bound on crashes and failed inserts, look-ups and marks
  None          \* no hook yet

ASSUME OutboxAssumption ==
  /\ Rows \subseteq Nat \ {0}
  /\ MaxAttempts \in Nat \ {0}
  /\ Lease \in Nat /\ Timeout \in Nat /\ MaxLosses \in Nat
  /\ None \notin Hooks

(* A power of two, as far as anybody is retried.                          *)
Backoff(n) == 2 ^ n

ASSUME BackoffAssumption ==
  \A n \in 0 .. (MaxAttempts + MaxLosses) : Backoff(n) \in Nat \ {0}

(* The comment on claimLeaseSeconds: it must exceed the attempt it covers. *)
ASSUME LeaseAssumption == Timeout < Lease

VARIABLES
  hooks,                         \* the registered webhooks that still exist
  fan,                           \* hooks a Dispatch call still enqueues for
  status, attempts, due, hook,   \* the columns of webhook_deliveries, by id
  worker,                        \* [Workers -> what it is doing]
  accepts,                       \* 2xx replies received for a row
  lost                           \* losses so far

columns == <<status, attempts, due, hook>>
vars == <<hooks, fan, status, attempts, due, hook, worker, accepts, lost>>

Statuses == {"absent", "pending", "delivered", "failed"}
Outcomes == {"ok", "error", "missing"}
Stages   == {"idle", "selected", "claimed", "sending"} \cup Outcomes

(* tries is the Attempts of the worker's own copy of the row.             *)
Worker == [ pc : Stages, id : Rows \cup {0}, tries : Nat, age : 0 .. Timeout ]
Idle   == [ pc |-> "idle", id |-> 0, tries |-> 0, age |-> 0 ]

Init ==
  /\ hooks = Hooks
  /\ fan = {}
  /\ status = [d \in Rows |-> "absent"]
  /\ attempts = [d \in Rows |-> 0]
  /\ due = [d \in Rows |-> 0]
  /\ hook = [d \in Rows |-> None]
  /\ worker = [w \in Workers |-> Idle]
  /\ accepts = [d \in Rows |-> 0]
  /\ lost = 0

-----------------------------------------------------------------------------
(* A request or a workflow step raises an event.                          *)

(* ListActiveForEvent: the hooks subscribed to the event.                 *)
Dispatch ==
  /\ fan = {}
  /\ fan' \in SUBSET hooks \ {{}}
  /\ UNCHANGED <<hooks, columns, worker, accepts, lost>>

(* One insert per hook, due at once.                                      *)
Enqueue(h, d) ==
  /\ h \in fan
  /\ status[d] = "absent" /\ \A e \in Rows : e < d => status[e] # "absent"
  /\ fan' = fan \ {h}
  /\ status' = [status EXCEPT ![d] = "pending"]
  /\ hook' = [hook EXCEPT ![d] = h]
  /\ due' = [due EXCEPT ![d] = 0]
  /\ UNCHANGED <<hooks, attempts, worker, accepts, lost>>

(* A failed insert is logged and skipped.                                 *)
EnqueueError(h) ==
  /\ h \in fan /\ lost < MaxLosses
  /\ fan' = fan \ {h}
  /\ lost' = lost + 1
  /\ UNCHANGED <<hooks, columns, worker, accepts>>

(* handleWebhookDelete; the hook's rows stay.                             *)
DeleteHook(h) ==
  /\ h \in hooks
  /\ hooks' = hooks \ {h}
  /\ UNCHANGED <<fan, columns, worker, accepts, lost>>

-----------------------------------------------------------------------------
(* ClaimNext: a SELECT, then an UPDATE that checks the same condition on   *)
(* that row; both with the time at which ClaimNext was called.             *)

EligibleFaulty(d, age) == status[d] # "absent" /\ due[d] <= -age

EligibleSpentFaulty(d, age) ==
  status[d] = "pending" /\ due[d] <= -age /\ attempts[d] < MaxAttempts

Eligible(d, age) == status[d] = "pending" /\ due[d] <= -age

Select(w, d) ==
  /\ worker[w].pc = "idle"
  /\ Eligible(d, 0) /\ \A e \in Rows : e < d => ~Eligible(e, 0)
  /\ worker' = [worker EXCEPT ![w] =
       [pc |-> "selected", id |-> d, tries |-> attempts[d], age |-> 0]]
  /\ UNCHANGED <<hooks, fan, columns, accepts, lost>>

ClaimUnleasedFaulty(w) ==
  LET d == worker[w].id IN
  /\ worker[w].pc = "selected"
  /\ Eligible(d, worker[w].age)
  /\ attempts' = [attempts EXCEPT ![d] = @ + 1]
  /\ worker' = [worker EXCEPT ![w].pc = "claimed", ![w].tries = @ + 1]
  /\ UNCHANGED <<hooks, fan, status, due, hook, accepts, lost>>

ClaimBlindFaulty(w) ==
  LET d == worker[w].id IN
  /\ worker[w].pc = "selected"
  /\ attempts' = [attempts EXCEPT ![d] = @ + 1]
  /\ due' = [due EXCEPT ![d] = Lease - worker[w].age]
  /\ worker' = [worker EXCEPT ![w].pc = "claimed", ![w].tries = @ + 1]
  /\ UNCHANGED <<hooks, fan, status, hook, accepts, lost>>

(* The worker's copy counts the attempt like the row does.                *)
Claim(w) ==
  LET d == worker[w].id IN
  /\ worker[w].pc = "selected"
  /\ Eligible(d, worker[w].age)
  /\ attempts' = [attempts EXCEPT ![d] = @ + 1]
  /\ due' = [due EXCEPT ![d] = Lease - worker[w].age]
  /\ worker' = [worker EXCEPT ![w].pc = "claimed", ![w].tries = @ + 1]
  /\ UNCHANGED <<hooks, fan, status, hook, accepts, lost>>

(* RowsAffected = 0: another worker was faster.                           *)
ClaimMissed(w) ==
  /\ worker[w].pc = "selected"
  /\ ~Eligible(worker[w].id, worker[w].age)
  /\ worker' = [worker EXCEPT ![w] = Idle]
  /\ UNCHANGED <<hooks, fan, columns, accepts, lost>>

-----------------------------------------------------------------------------
(* ProcessOne, after the claim: look the hook up, post, mark the row.     *)

LookUp(w) ==
  /\ worker[w].pc = "claimed"
  /\ worker' = [worker EXCEPT ![w].pc =
       IF hook[worker[w].id] \in hooks THEN "sending" ELSE "missing"]
  /\ UNCHANGED <<hooks, fan, columns, accepts, lost>>

(* The look-up itself fails: taken for a webhook that is gone.            *)
LookUpError(w) ==
  /\ worker[w].pc = "claimed" /\ lost < MaxLosses
  /\ worker' = [worker EXCEPT ![w].pc = "missing"]
  /\ lost' = lost + 1
  /\ UNCHANGED <<hooks, fan, columns, accepts>>

(* A 2xx reply in time, or anything else (an error, another code, the     *)
(* client's timeout), as the worker sees it.                              *)
Reply(w) ==
  /\ worker[w].pc = "sending"
  /\ \/ /\ worker' = [worker EXCEPT ![w].pc = "ok"]
        /\ accepts' = [accepts EXCEPT ![worker[w].id] = @ + 1]
     \/ /\ worker' = [worker EXCEPT ![w].pc = "error"]
        /\ UNCHANGED accepts
  /\ UNCHANGED <<hooks, fan, columns, lost>>

GiveUpFaulty(n) == n > MaxAttempts

GiveUp(n) == n >= MaxAttempts

Settle(w) ==
  /\ worker' = [worker EXCEPT ![w] = Idle]
  /\ UNCHANGED <<hooks, fan, attempts, hook, accepts, lost>>

(* MarkDelivered and MarkFailed write the row by id, whatever its status. *)
MarkDelivered(w) ==
  /\ worker[w].pc = "ok"
  /\ status' = [status EXCEPT ![worker[w].id] = "delivered"]
  /\ UNCHANGED due
  /\ Settle(w)

MarkFailed(w) ==
  /\ worker[w].pc = "error"
  /\ status' = [status EXCEPT ![worker[w].id] =
                  IF GiveUp(worker[w].tries) THEN "failed" ELSE "pending"]
  /\ due' = [due EXCEPT ![worker[w].id] = Backoff(worker[w].tries)]
  /\ Settle(w)

MarkMissing(w) ==
  /\ worker[w].pc = "missing"
  /\ status' = [status EXCEPT ![worker[w].id] = "failed"]
  /\ due' = [due EXCEPT ![worker[w].id] = 0]
  /\ Settle(w)

(* A mark that fails is only logged: the lease will expire.               *)
MarkError(w) ==
  /\ worker[w].pc \in Outcomes /\ lost < MaxLosses
  /\ worker' = [worker EXCEPT ![w] = Idle]
  /\ lost' = lost + 1
  /\ UNCHANGED <<hooks, fan, columns, accepts>>

-----------------------------------------------------------------------------
(* The server dies: every worker and the Dispatch in progress with it.    *)
Crash ==
  /\ lost < MaxLosses
  /\ fan' = {}
  /\ worker' = [w \in Workers |-> Idle]
  /\ lost' = lost + 1
  /\ UNCHANGED <<hooks, columns, accepts>>

(* A second passes.  No guard looks at a row due for longer than Timeout. *)
Tick ==
  /\ \A w \in Workers : worker[w].pc # "idle" => worker[w].age < Timeout
  /\ due' = [d \in Rows |-> IF due[d] > -Timeout THEN due[d] - 1 ELSE due[d]]
  /\ worker' = [w \in Workers |->
       IF worker[w].pc = "idle" THEN worker[w]
                                ELSE [worker[w] EXCEPT !.age = @ + 1]]
  /\ UNCHANGED <<hooks, fan, status, attempts, hook, accepts, lost>>

Step(w) ==
  \/ \E d \in Rows : Select(w, d)
  \/ Claim(w)
  \/ ClaimMissed(w)
  \/ LookUp(w)
  \/ Reply(w)
  \/ MarkDelivered(w)
  \/ MarkFailed(w)
  \/ MarkMissing(w)

Next ==
  \/ Dispatch
  \/ \E h \in Hooks, d \in Rows : Enqueue(h, d)
  \/ \E h \in Hooks : EnqueueError(h) \/ DeleteHook(h)
  \/ \E w \in Workers : Step(w) \/ LookUpError(w) \/ MarkError(w)
  \/ Crash
  \/ Tick

Spec == Init /\ [][Next]_vars

(* Time passes and every worker polls and carries on (Dispatcher.Run).    *)
FairSpec == Spec /\ WF_vars(Tick) /\ \A w \in Workers : WF_vars(Step(w))

-----------------------------------------------------------------------------
(* Properties.                                                            *)

(* Every variable keeps its type.                                         *)
TypeOK ==
  /\ hooks \subseteq Hooks /\ fan \subseteq Hooks
  /\ status \in [Rows -> Statuses]
  /\ attempts \in [Rows -> Nat]
  /\ due \in [Rows -> Int] /\ \A d \in Rows : due[d] >= -Timeout
  /\ hook \in [Rows -> Hooks \cup {None}]
  /\ worker \in [Workers -> Worker]
  /\ accepts \in [Rows -> Nat]
  /\ lost \in 0 .. MaxLosses

InFlight(w) == worker[w].pc \in {"claimed", "sending"} \cup Outcomes

(* While the lease outlasts a delivery attempt, no two workers hold the   *)
(* same row, however their SELECTs and UPDATEs interleave (the comment on *)
(* claimLeaseSeconds).                                                    *)
OneSender ==
  \A v, w \in Workers :
    InFlight(v) /\ InFlight(w) /\ worker[v].id = worker[w].id => v = w

(* A subscriber accepts an event once; more often only when a mark was    *)
(* lost to a crash or a write error (at-least-once delivery).             *)
AcceptedOnce == \A d \in Rows : accepts[d] <= 1 + lost

(* The retry budget is neither overdrawn, but by lost marks, nor left     *)
(* unused: a row is given up after maxAttempts posts, or when its webhook *)
(* was deleted or, after a failed look-up, seems to be (ProcessOne).      *)
RetryBudget ==
  \A d \in Rows :
    /\ attempts[d] <= MaxAttempts + lost
    /\ status[d] = "failed" =>
         attempts[d] >= MaxAttempts \/ hook[d] \notin hooks \/ lost > 0

(* A row delivered or given up stays so: the unguarded marks never        *)
(* resurrect it (MarkDelivered, MarkFailed).                              *)
SettledFinal ==
  [][ \A d \in Rows :
        status[d] \in {"delivered", "failed"} => status'[d] = status[d] ]_vars

(* Every row is delivered or given up in the end, crashes included.       *)
Settles == \A d \in Rows : status[d] = "pending" ~> status[d] # "pending"
=============================================================================
