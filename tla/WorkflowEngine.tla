---------------------------- MODULE WorkflowEngine ----------------------------
(***************************************************************************)
(* Workflows and runbooks: a pool of engine workers interprets the steps   *)
(* of queued tasks (internal/workflow/engine.go), pausing at user_input    *)
(* and approval steps until a request feeds an answer or a decision back   *)
(* (internal/httpapi/workflow_handlers.go).                                *)
(*                                                                         *)
(* A worker carries a copy of the task from its SELECT to its whole-row    *)
(* Save; so does a request between its Get and its Save.  A context is a   *)
(* function from the keys present in it; a key is a kind and a step.       *)
(***************************************************************************)
EXTENDS Naturals, Sequences

CONSTANTS
  Tasks,      \* task ids, all of one ticket
  Config,     \* [Tasks -> sequence of step types]
  Workers,    \* the pool
  Slots,      \* concurrent resume and decide requests
  MaxTries,   \* maxStepAttempts
  MaxCalls,   \* bound on resume and decide requests
  MaxLosses   \* bound on crashes and failed saves

ASSUME EngineAssumption ==
  /\ Tasks \subseteq Nat \ {0}
  /\ \A t \in Tasks : Config[t] \in Seq(STRING)
  /\ MaxTries \in Nat \ {0} /\ MaxCalls \in Nat /\ MaxLosses \in Nat

VARIABLES
  task,       \* workflow_tasks
  approvals,  \* approvals, in order of id
  worker,     \* [Workers -> what it is doing]
  slot,       \* [Slots -> the request in it]
  calls,      \* requests so far
  lost        \* crashes and failed saves so far

vars == <<task, approvals, worker, slot, calls, lost>>

Statuses == {"absent", "pending", "processing", "waiting_user", "done", "failed"}

(* Steps that act on the outside and leave nothing in the context.        *)
Effects == {"add_note", "auto_assign", "webhook", "notify"}

Empty == <<>>                              \* the context {}
Put(ctx, key, value) ==
  [k \in DOMAIN ctx \cup {key} |-> IF k = key THEN value ELSE ctx[k]]
Has(ctx, key) == key \in DOMAIN ctx

NoTask     == [ status |-> "absent", step |-> 1, tries |-> 0, ctx |-> Empty, ready |-> TRUE ]
IdleWorker == [ pc |-> "idle", id |-> 0, step |-> 1, tries |-> 0, ctx |-> Empty, mem |-> Empty ]
IdleSlot   == [ pc |-> "idle", id |-> 0, key |-> <<>>, value |-> FALSE, copy |-> NoTask ]

Init ==
  /\ task = [t \in Tasks |-> NoTask]
  /\ approvals = <<>>
  /\ worker = [w \in Workers |-> IdleWorker]
  /\ slot = [s \in Slots |-> IdleSlot]
  /\ calls = 0
  /\ lost = 0

-----------------------------------------------------------------------------
(* Engine.Trigger and handleRunbookStart: one pending task per workflow.  *)
Enqueue(t) ==
  /\ task[t].status = "absent"
  /\ task' = [task EXCEPT ![t].status = "pending"]
  /\ UNCHANGED <<approvals, worker, slot, calls, lost>>

(* next_run_at, set by the backoff after an error, comes.                 *)
BecomeDue(t) ==
  /\ task[t].status = "pending" /\ ~task[t].ready
  /\ task' = [task EXCEPT ![t].ready = TRUE]
  /\ UNCHANGED <<approvals, worker, slot, calls, lost>>

(* ClaimNext: the SELECT of the oldest due task ...                       *)
Selectable(t) == task[t].status = "pending" /\ task[t].ready

Select(w, t) ==
  /\ worker[w].pc = "idle"
  /\ Selectable(t) /\ \A u \in Tasks : u < t => ~Selectable(u)
  /\ worker' = [worker EXCEPT ![w] =
       [ pc |-> "selected", id |-> t, step |-> task[t].step,
         tries |-> task[t].tries, ctx |-> task[t].ctx, mem |-> Empty ]]
  /\ UNCHANGED <<task, approvals, slot, calls, lost>>

ClaimFaulty(w) ==
  /\ worker[w].pc = "selected"
  /\ task' = [task EXCEPT ![worker[w].id].status = "processing"]
  /\ \E pc \in {"running", "unreadable"} :
       worker' = [worker EXCEPT ![w].pc = pc, ![w].mem = worker[w].ctx]
  /\ UNCHANGED <<approvals, slot, calls, lost>>

(* ... and the UPDATE, which checks the status of that row and nothing    *)
(* else of what the SELECT read.  execute then reads the definition, which *)
(* may fail, and parses the copy's context.                               *)
Claim(w) ==
  /\ worker[w].pc = "selected"
  /\ task[worker[w].id].status = "pending"
  /\ task' = [task EXCEPT ![worker[w].id].status = "processing"]
  /\ \E pc \in {"running", "unreadable"} :
       worker' = [worker EXCEPT ![w].pc = pc, ![w].mem = worker[w].ctx]
  /\ UNCHANGED <<approvals, slot, calls, lost>>

ClaimMissed(w) ==
  /\ worker[w].pc = "selected"
  /\ task[worker[w].id].status # "pending"
  /\ worker' = [worker EXCEPT ![w] = IdleWorker]
  /\ UNCHANGED <<task, approvals, slot, calls, lost>>

-----------------------------------------------------------------------------
(* execute and runStep, one step at a time.                               *)

Steps(w)  == Config[worker[w].id]
AtEnd(w)  == worker[w].step > Len(Steps(w))
At(w, types) ==
  /\ worker[w].pc = "running"
  /\ ~AtEnd(w) /\ Steps(w)[worker[w].step] \in types

Key(w, kind) == <<kind, worker[w].step>>

Become(w, new) ==
  /\ worker' = [worker EXCEPT ![w] = new]
  /\ UNCHANGED <<task, slot, calls, lost>>

Continue(w, mem) ==
  Become(w, [worker[w] EXCEPT !.step = @ + 1, !.tries = 0, !.mem = mem])

Pause(w, mem) == Become(w, [worker[w] EXCEPT !.pc = "pausing", !.mem = mem])

StepError(w) == Become(w, [worker[w] EXCEPT !.pc = "error"])

(* A condition that does not match skips the rest.                        *)
RunCondition(w) ==
  /\ At(w, {"condition"})
  /\ \/ Continue(w, worker[w].mem)
     \/ Become(w, [worker[w] EXCEPT !.step = Len(Steps(w)) + 1, !.tries = 0])
  /\ UNCHANGED approvals

(* The marker is set before anybody answers; an answer only ends the wait. *)
RunUserInput(w) ==
  /\ At(w, {"user_input"})
  /\ IF Has(worker[w].mem, Key(w, "resumed"))
     THEN Continue(w, worker[w].mem)
     ELSE Pause(w, Put(worker[w].mem, Key(w, "resumed"), TRUE))
  /\ UNCHANGED approvals

RunOutput(w) ==
  /\ At(w, {"http_request", "template_render"})
  /\ \/ Continue(w, Put(worker[w].mem, Key(w, "out"), TRUE))
     \/ StepError(w)
  /\ UNCHANGED approvals

(* Rendering, a note, a ticket update can fail; Dispatch reports nothing. *)
RunEffect(w) ==
  /\ At(w, Effects)
  /\ \/ Continue(w, worker[w].mem)
     \/ ~At(w, {"webhook"}) /\ StepError(w)
  /\ UNCHANGED approvals

RunUnknown(w) ==
  /\ worker[w].pc = "running" /\ ~AtEnd(w)
  /\ ~At(w, Effects \cup {"condition", "user_input", "http_request",
                          "template_render", "approval"})
  /\ StepError(w)
  /\ UNCHANGED approvals

(* Go on once approved, fail once rejected, ask otherwise: the approval   *)
(* is inserted now, the task that waits for it saved later.               *)
RunApproval(w) ==
  /\ At(w, {"approval"})
  /\ IF Has(worker[w].mem, Key(w, "decision"))
     THEN /\ UNCHANGED approvals
          /\ IF worker[w].mem[Key(w, "decision")]
             THEN Continue(w, worker[w].mem) ELSE StepError(w)
     ELSE \/ /\ approvals' = Append(approvals,
                  [task |-> worker[w].id, step |-> worker[w].step,
                   status |-> "pending", granted |-> FALSE])
             /\ Pause(w, Put(worker[w].mem, Key(w, "pending"), Len(approvals) + 1))
          \/ UNCHANGED approvals /\ StepError(w)

-----------------------------------------------------------------------------
(* saveTask: the whole row, from the worker's copy.                       *)

SaveRow(w, status, tries, ctx, ready) ==
  /\ task' = [task EXCEPT ![worker[w].id] =
       [ status |-> status, step |-> worker[w].step, tries |-> tries,
         ctx |-> ctx, ready |-> ready ]]
  /\ worker' = [worker EXCEPT ![w] = IdleWorker]
  /\ UNCHANGED <<approvals, slot, calls, lost>>

SaveErrorForeverFaulty(w) ==
  /\ worker[w].pc = "error"
  /\ SaveRow(w, "pending", worker[w].tries, worker[w].ctx, FALSE)

(* The context is saved as it was read, the step index as it is now.      *)
SaveError(w) ==
  LET tries == worker[w].tries + 1 IN
  /\ worker[w].pc = "error"
  /\ IF tries >= MaxTries THEN SaveRow(w, "failed", tries, worker[w].ctx, TRUE)
                          ELSE SaveRow(w, "pending", tries, worker[w].ctx, FALSE)

SavePause(w) ==
  /\ worker[w].pc = "pausing"
  /\ SaveRow(w, "waiting_user", worker[w].tries, worker[w].mem, TRUE)

SaveDone(w) ==
  /\ worker[w].pc = "running" /\ AtEnd(w)
  /\ SaveRow(w, "done", worker[w].tries, worker[w].mem, TRUE)

SaveUnreadable(w) ==
  /\ worker[w].pc = "unreadable"
  /\ SaveRow(w, "failed", worker[w].tries, worker[w].ctx, TRUE)

(* A save that fails is logged and no more.                               *)
SaveLost(w) ==
  /\ \/ worker[w].pc \in {"error", "pausing", "unreadable"}
     \/ worker[w].pc = "running" /\ AtEnd(w)
  /\ lost < MaxLosses
  /\ lost' = lost + 1
  /\ worker' = [worker EXCEPT ![w] = IdleWorker]
  /\ UNCHANGED <<task, approvals, slot, calls>>

-----------------------------------------------------------------------------
(* Requests: Engine.Resume, and handleApprovalDecide down to it.          *)

Request(s, new) ==
  /\ slot' = [slot EXCEPT ![s] = new]
  /\ UNCHANGED <<task, worker, lost>>

Call(s, new) ==
  /\ slot[s].pc = "idle" /\ calls < MaxCalls
  /\ calls' = calls + 1
  /\ Request(s, new)

ResumeLoadFaulty(s, t) ==
  /\ task[t].status # "absent"
  /\ Call(s, [ pc |-> "loaded", id |-> t, key |-> <<"answer", task[t].step>>,
               value |-> TRUE, copy |-> task[t] ])
  /\ UNCHANGED approvals

(* Resume's Get and check.  A form answers the step the task waits at.    *)
ResumeLoad(s, t) ==
  /\ task[t].status = "waiting_user"
  /\ Call(s, [ pc |-> "loaded", id |-> t, key |-> <<"answer", task[t].step>>,
               value |-> TRUE, copy |-> task[t] ])
  /\ UNCHANGED approvals

(* approvals.Decide: recorded whatever the approval's status.             *)
Decide(s, a, verdict) ==
  /\ a \in DOMAIN approvals
  /\ approvals' = [approvals EXCEPT
       ![a].status = IF verdict THEN "approved" ELSE "rejected",
       ![a].granted = @ \/ verdict]
  /\ Call(s, [IdleSlot EXCEPT !.pc = "decided", !.id = a, !.value = verdict])

(* DecideApproval: the task that waits with this approval in its context  *)
(* is resumed; with none, the decision has no further effect.             *)
WaitsFor(t, i, a) ==
  /\ task[t].status = "waiting_user"
  /\ Has(task[t].ctx, <<"pending", i>>) /\ task[t].ctx[<<"pending", i>>] = a

FindTask(s) ==
  /\ slot[s].pc = "decided"
  /\ \/ \E t \in Tasks : \E i \in DOMAIN Config[t] :
          /\ WaitsFor(t, i, slot[s].id)
          /\ Request(s, [slot[s] EXCEPT !.pc = "found", !.id = t,
                                        !.key = <<"decision", i>>])
     \/ /\ \A t \in Tasks : \A i \in DOMAIN Config[t] : ~WaitsFor(t, i, slot[s].id)
        /\ Request(s, IdleSlot)
  /\ UNCHANGED <<approvals, calls>>

(* Its call of Resume: Get and check again.                               *)
FoundLoad(s) ==
  /\ slot[s].pc = "found"
  /\ Request(s, IF task[slot[s].id].status = "waiting_user"
                THEN [slot[s] EXCEPT !.pc = "loaded", !.copy = task[slot[s].id]]
                ELSE IdleSlot)
  /\ UNCHANGED <<approvals, calls>>

ResumeSaveFaulty(s) ==
  LET t == slot[s].id IN
  /\ slot[s].pc = "loaded"
  /\ task' = [task EXCEPT ![t] =
       [ slot[s].copy EXCEPT !.status = "pending", !.ready = TRUE, !.step = @ + 1,
                             !.ctx = Put(@, slot[s].key, slot[s].value) ]]
  /\ slot' = [slot EXCEPT ![s] = IdleSlot]
  /\ UNCHANGED <<approvals, worker, calls, lost>>

(* The input is merged and the copy saved, pending and due, at its step.  *)
ResumeSave(s) ==
  LET t == slot[s].id IN
  /\ slot[s].pc = "loaded"
  /\ task' = [task EXCEPT ![t] =
       [ slot[s].copy EXCEPT !.status = "pending", !.ready = TRUE,
                             !.ctx = Put(@, slot[s].key, slot[s].value) ]]
  /\ slot' = [slot EXCEPT ![s] = IdleSlot]
  /\ UNCHANGED <<approvals, worker, calls, lost>>

(* The server dies with its workers and requests; nothing looks for tasks *)
(* left in processing when it is back.                                    *)
Crash ==
  /\ lost < MaxLosses
  /\ lost' = lost + 1
  /\ worker' = [w \in Workers |-> IdleWorker]
  /\ slot' = [s \in Slots |-> IdleSlot]
  /\ UNCHANGED <<task, approvals, calls>>

-----------------------------------------------------------------------------
RunStep(w) ==
  \/ RunCondition(w)
  \/ RunUserInput(w)
  \/ RunOutput(w)
  \/ RunEffect(w)
  \/ RunUnknown(w)
  \/ RunApproval(w)

Work(w) ==
  \/ \E t \in Tasks : Select(w, t)
  \/ Claim(w)
  \/ ClaimMissed(w)
  \/ RunStep(w)
  \/ SaveError(w)
  \/ SavePause(w)
  \/ SaveDone(w)
  \/ SaveUnreadable(w)

Serve(s) ==
  \/ FindTask(s)
  \/ FoundLoad(s)
  \/ ResumeSave(s)

Next ==
  \/ \E t \in Tasks : Enqueue(t) \/ BecomeDue(t)
  \/ \E w \in Workers : Work(w) \/ SaveLost(w)
  \/ \E s \in Slots :
       \/ \E t \in Tasks : ResumeLoad(s, t)
       \/ \E a \in DOMAIN approvals, verdict \in BOOLEAN : Decide(s, a, verdict)
       \/ Serve(s)
  \/ Crash

Spec == Init /\ [][Next]_vars

(* Workers poll (Engine.Run), backoffs expire, requests are carried out.  *)
FairSpec ==
  /\ Spec
  /\ \A t \in Tasks : WF_vars(BecomeDue(t))
  /\ \A w \in Workers : WF_vars(Work(w))
  /\ \A s \in Slots : WF_vars(Serve(s))

-----------------------------------------------------------------------------
(* Properties.                                                            *)

Executing(w) == worker[w].pc \in {"running", "pausing", "error", "unreadable"}

(* Every variable keeps its type; tries stays within maxStepAttempts.     *)
TypeOK ==
  /\ \A t \in Tasks :
       /\ task[t].status \in Statuses /\ task[t].ready \in BOOLEAN
       /\ task[t].step \in 1 .. (Len(Config[t]) + 1)
       /\ task[t].tries \in 0 .. MaxTries
  /\ \A a \in DOMAIN approvals :
       /\ approvals[a].task \in Tasks
       /\ approvals[a].status \in {"pending", "approved", "rejected"}
  /\ \A w \in Workers : Executing(w) =>
       worker[w].step \in 1 .. (Len(Steps(w)) + 1) /\ worker[w].tries < MaxTries
  /\ calls \in 0 .. MaxCalls /\ lost \in 0 .. MaxLosses

(* With requests one at a time, a task is executed by one worker, and is  *)
(* then in processing (the comment on ClaimNext, repo/workflow.go).       *)
OneExecutor ==
  /\ \A w \in Workers : Executing(w) => task[worker[w].id].status = "processing"
  /\ \A v, w \in Workers :
       Executing(v) /\ Executing(w) /\ worker[v].id = worker[w].id => v = w

(* No step after an approval step runs unless somebody approved it        *)
(* (TestApproval_RejectionStopsWorkflow, for every order of events).      *)
ApprovedFirst ==
  \A w \in Workers : worker[w].pc = "running" /\ ~AtEnd(w) =>
    \A i \in 1 .. (worker[w].step - 1) : Steps(w)[i] = "approval" =>
      \E a \in DOMAIN approvals :
        approvals[a].task = worker[w].id /\ approvals[a].step = i /\ approvals[a].granted

(* A finished task stays as it finished: no late save brings it back      *)
(* (the guarded claim, and Resume's check of waiting_user).               *)
FinishedFinal ==
  [][ \A t \in Tasks : task[t].status \in {"done", "failed"} => task'[t] = task[t] ]_vars

(* A queued task is worked off: it finishes or waits for somebody, unless *)
(* a crash or a failed save stranded it in processing.                    *)
Progress ==
  \A t \in Tasks :
    task[t].status = "pending" ~>
      (task[t].status \in {"waiting_user", "done", "failed"} \/ lost > 0)

(* A decision does not leave the task that asked for it waiting (the      *)
(* comment on DecideApproval).                                            *)
DecidedResumes ==
  \A t \in Tasks : \A i \in DOMAIN Config[t] :
    (\E a \in DOMAIN approvals : approvals[a].status # "pending" /\ WaitsFor(t, i, a))
      ~> task[t].status # "waiting_user"

(* A template is rendered against what the earlier steps put in the       *)
(* context (DESIGN/04, template_render).                                  *)
TemplateSeesContext ==
  \A w \in Workers : At(w, {"template_render"}) =>
    \A i \in 1 .. (worker[w].step - 1) :
      Steps(w)[i] = "http_request" => Has(worker[w].mem, <<"out", i>>)
=============================================================================
