-------------------------------- MODULE Ticket --------------------------------
(***************************************************************************)
(* One ticket row and everything that writes it: the handlers of           *)
(* internal/service/ticket.go, the workflow engine's auto_assign step and  *)
(* the SLA breach poller.                                                  *)
(*                                                                         *)
(* Every handler reads the whole row (TicketRepo.Get), changes its copy    *)
(* and writes the whole row back (TicketRepo.Update = gorm Save), with no  *)
(* transaction, version check or lock around the two.  A request is        *)
(* therefore two steps here: Load (Get and the guards evaluated on the     *)
(* copy) and Save.  The poller alone writes one column in one statement.   *)
(* What a handler does after the row is written is in module TicketTrail.  *)
(***************************************************************************)
EXTENDS Naturals, FiniteSets

CONSTANTS
  Requests,     \* concurrent slots: HTTP requests and engine steps in flight
  Users,        \* accounts
  Role,         \* [Users -> role]
  Creator,      \* the account that created the ticket
  Members,      \* accounts that belong to the ticket's queue
  FormActions,  \* actions posted to /tickets/{id}/transition
  Due,          \* SLADueAt, None when no SLA rule matches
  Overlap,      \* may two writers of the row be in progress at once?
  MaxTime,      \* bound on the clock
  MaxReopens,   \* bound on reopenings
  None          \* a NULL column

Statuses == {"New", "InProgress", "Resolved", "Closed"}
Actions  == {"assign", "pickup", "resolve", "confirm", "reopen", "reject"}
Roles    == {"Customer", "Engineer", "Agent", "Manager", "SystemAdmin"}

ASSUME ConstantsAssumption ==
  /\ Role \in [Users -> Roles]
  /\ Creator \in Users
  /\ Members \subseteq Users
  /\ FormActions \subseteq Actions
  /\ Due \in Nat \cup {None}
  /\ Overlap \in BOOLEAN
  /\ MaxTime \in Nat /\ MaxReopens \in Nat
  /\ None \notin Nat /\ None \notin Users

VARIABLES
  row,      \* the ticket's row, the columns the lifecycle is about
  req,      \* [Requests -> what that request holds]
  clock     \* wall clock

vars == <<row, req, clock>>

-----------------------------------------------------------------------------
(* statemachine.go: the table, and the forced cascade out of Rejected.    *)

(* Definitions named ...Faulty, below and in the other modules, are slips   *)
(* the code does not have: each is a mutant that some property catches.    *)

transitions ==
  { <<"New", "assign", "InProgress">>,
    <<"New", "pickup", "InProgress">>,
    <<"InProgress", "resolve", "Resolved">>,
    <<"InProgress", "reject", "Rejected">>,
    <<"Resolved", "confirm", "Closed">>,
    <<"Resolved", "reopen", "InProgress">>,
    <<"Closed", "reopen", "InProgress">> }

forcedNext(status) == IF status = "Rejected" THEN "Closed" ELSE status

(* The status an action leads to; no element when it is a TransitionError. *)
nextStatus(current, action) ==
  { forcedNext(tr[3]) : tr \in {x \in transitions : x[1] = current /\ x[2] = action} }

-----------------------------------------------------------------------------
Time == Nat \cup {None}

Rows ==
  [ status    : Statuses,
    assignee  : Users \cup {None},
    acked     : Time,    \* AckedAt
    mitigated : Time,    \* MitigatedAt
    resolved  : Time,    \* ResolvedAt
    notified  : Time,    \* SLABreachNotifiedAt
    reopens   : Nat ]    \* ReopenCount

Kinds == {"none", "transition", "own", "mitigate", "edit", "auto_assign"}

(* A request: the copy of the row it read and when, and its arguments.    *)
Held ==
  [ pc     : {"idle", "loaded"},
    kind   : Kinds,
    action : Actions \cup {None},
    to     : Users \cup {None},   \* the assignee asked for
    actor  : Users \cup {None},   \* who asks, when the handler looks at it
    copy   : Rows,
    at     : Nat ]

NewRow ==
  [ status |-> "New", assignee |-> None, acked |-> None, mitigated |-> None,
    resolved |-> None, notified |-> None, reopens |-> 0 ]

Idle ==
  [ pc |-> "idle", kind |-> "none", action |-> None, to |-> None,
    actor |-> None, copy |-> NewRow, at |-> 0 ]

(* TicketService.Create: the row as inserted, its creation announced.     *)
Init ==
  /\ row = NewRow
  /\ req = [r \in Requests |-> Idle]
  /\ clock = 0

Quiescent == \A r \in Requests : req[r].pc = "idle"

-----------------------------------------------------------------------------
(* First half of every handler: Get, then the guards on the copy.         *)

Load(r, kind, action, to, actor) ==
  /\ req[r].pc = "idle"
  /\ Overlap \/ Quiescent
  /\ req' = [req EXCEPT ![r] =
       [ pc |-> "loaded", kind |-> kind, action |-> action, to |-> to,
         actor |-> actor, copy |-> row, at |-> clock ]]
  /\ UNCHANGED <<row, clock>>

MayReopenClosed(u) == Role[u] = "SystemAdmin" \/ u = Creator

LoadTransitionFaulty(r, u, a) ==
  /\ a \in FormActions
  /\ nextStatus(row.status, a) # {}
  /\ Load(r, "transition", a, None, IF a = "reopen" THEN u ELSE None)

(* Transition: only a SystemAdmin or the creator reopens a Closed ticket. *)
(* The actor is kept only where the handler's choice depends on it.       *)
LoadTransition(r, u, a) ==
  /\ a \in FormActions
  /\ nextStatus(row.status, a) # {}
  /\ a = "reopen" => row.reopens < MaxReopens
  /\ row.status = "Closed" /\ a = "reopen" => MayReopenClosed(u)
  /\ Load(r, "transition", a, None, IF a = "reopen" THEN u ELSE None)

(* The assign helper: an Engineer only hands a ticket to queue members.   *)
MembershipOK(u, to) == Role[u] = "Engineer" => to \in Members

LoadPickup(r, u) ==
  /\ Role[u] # "Customer"
  /\ MembershipOK(u, u)
  /\ Load(r, "own", "pickup", u, None)

LoadAssign(r, u, to) ==
  /\ Role[u] \in {"Manager", "SystemAdmin"}
  /\ MembershipOK(u, to)
  /\ Load(r, "own", "assign", to, None)

LoadMitigate(r) ==
  /\ row.status = "InProgress"
  /\ Load(r, "mitigate", None, None, None)

LoadEdit(r) == Load(r, "edit", None, None, None)

(* workflow/engine.go, step type auto_assign.                             *)
LoadAutoAssign(r, to) == Load(r, "auto_assign", None, to, None)

-----------------------------------------------------------------------------
(* Second half: what is computed on the copy, and the whole-row write.    *)
(* time.Now() is taken somewhere between the Get and the Save.            *)

Loaded(r, kind) == req[r].pc = "loaded" /\ req[r].kind = kind

Stamp(r) == req[r].at .. clock

Write(r, new) ==
  /\ row' = new
  /\ req' = [req EXCEPT ![r] = Idle]
  /\ UNCHANGED clock

MovedFaulty(t, action, final, now) ==
  IF final = "Resolved" THEN [t EXCEPT !.status = final, !.resolved = now]
                        ELSE [t EXCEPT !.status = final]

(* Transition's row: a resolution is stamped, a reopening starts over.    *)
Moved(t, action, final, now) ==
  IF final = "Resolved"
  THEN [t EXCEPT !.status = final, !.resolved = now]
  ELSE IF action = "reopen"
  THEN [t EXCEPT !.status = final, !.resolved = None, !.notified = None,
                 !.reopens = @ + 1]
  ELSE [t EXCEPT !.status = final]

SaveTransition(r) ==
  /\ Loaded(r, "transition")
  /\ \E final \in nextStatus(req[r].copy.status, req[r].action), now \in Stamp(r) :
       Write(r, Moved(req[r].copy, req[r].action, final, now))

SaveOwnershipFaulty(r) ==
  /\ Loaded(r, "own")
  /\ \E now \in Stamp(r) :
       Write(r, [req[r].copy EXCEPT !.assignee = req[r].to, !.acked = now,
                   !.status = IF @ = "New" THEN "InProgress" ELSE @])

(* Only a New ticket changes status; AckedAt is stamped when still NULL.  *)
SaveOwnership(r) ==
  /\ Loaded(r, "own")
  /\ LET t == req[r].copy IN
     \E now \in Stamp(r),
        final \in IF t.status = "New" THEN nextStatus(t.status, req[r].action)
                                      ELSE {t.status} :
       Write(r, [t EXCEPT !.assignee = req[r].to, !.status = final,
                          !.acked = IF t.acked = None THEN now ELSE t.acked])

SaveMitigate(r) ==
  /\ Loaded(r, "mitigate")
  /\ \E now \in Stamp(r) : Write(r, [req[r].copy EXCEPT !.mitigated = now])

(* UpdateFields changes columns this module leaves out, and writes all.   *)
SaveEdit(r) ==
  /\ Loaded(r, "edit")
  /\ Write(r, req[r].copy)

SaveAutoAssignFaulty(r) ==
  /\ Loaded(r, "auto_assign")
  /\ Write(r, [req[r].copy EXCEPT !.assignee = req[r].to,
                 !.status = IF @ = "New" THEN "InProgress" ELSE @])

SaveAutoAssign(r) ==
  /\ Loaded(r, "auto_assign")
  /\ Write(r, [req[r].copy EXCEPT !.assignee = req[r].to])

(* Update returns an error, or the server dies first: nothing is written. *)
SaveError(r) ==
  /\ req[r].pc = "loaded"
  /\ req' = [req EXCEPT ![r] = Idle]
  /\ UNCHANGED <<row, clock>>

-----------------------------------------------------------------------------
(* TicketRepo.ClaimNextBreach: one UPDATE of one column, guarded by the   *)
(* row as it is; the alert follows (SLABreachChecker.ProcessOne).         *)
Breached == Due # None /\ Due < clock /\ row.status # "Closed"

ClaimBreachTwiceFaulty ==
  /\ Breached
  /\ row' = [row EXCEPT !.notified = clock]
  /\ UNCHANGED <<req, clock>>

ClaimBreachSkipsFaulty ==
  /\ Breached /\ row.notified = None /\ row.status # "Resolved"
  /\ row' = [row EXCEPT !.notified = clock]
  /\ UNCHANGED <<req, clock>>

ClaimBreach ==
  /\ Breached /\ row.notified = None
  /\ Overlap \/ Quiescent
  /\ row' = [row EXCEPT !.notified = clock]
  /\ UNCHANGED <<req, clock>>

Tick ==
  /\ clock < MaxTime
  /\ clock' = clock + 1
  /\ UNCHANGED <<row, req>>

Begin(r) ==
  \/ \E u \in Users, a \in Actions : LoadTransition(r, u, a)
  \/ \E u \in Users : LoadPickup(r, u)
  \/ \E u \in Users, to \in Users : LoadAssign(r, u, to)
  \/ LoadMitigate(r)
  \/ LoadEdit(r)
  \/ \E to \in Users : LoadAutoAssign(r, to)

Save(r) ==
  \/ SaveTransition(r)
  \/ SaveOwnership(r)
  \/ SaveMitigate(r)
  \/ SaveEdit(r)
  \/ SaveAutoAssign(r)
  \/ SaveError(r)

Next ==
  \/ \E r \in Requests : Begin(r) \/ Save(r)
  \/ ClaimBreach
  \/ Tick

Spec == Init /\ [][Next]_vars

(* The poller's ticker keeps firing (SLABreachChecker.Run).               *)
FairSpec == Spec /\ WF_vars(ClaimBreach)

-----------------------------------------------------------------------------
(* Properties.                                                            *)

(* Every variable keeps its type; a ticket never rests in Rejected        *)
(* (statemachine.go's forced cascade).                                    *)
TypeOK ==
  /\ row \in Rows
  /\ req \in [Requests -> Held]
  /\ clock \in Nat

(* ResolvedAt is set exactly where the stage bar's inference needs it:    *)
(* set while Resolved, NULL in every open status, nothing stamped on a    *)
(* New ticket (httpapi/stagebar.go infers "was rejected" from it).        *)
StampsFit(t) ==
  /\ t.status = "New" =>
       t.acked = None /\ t.mitigated = None /\ t.resolved = None /\ t.reopens = 0
  /\ t.status = "InProgress" => t.resolved = None
  /\ t.status = "Resolved" => t.resolved # None

StampsFitStatus == StampsFit(row)

(* A resolution never predates the mitigation it follows, so MTTR is never *)
(* negative (metrics and manager_handlers.go subtract the two columns).   *)
Ordered(t) ==
  t.mitigated # None /\ t.resolved # None => t.mitigated <= t.resolved

MitigatedBeforeResolved == Ordered(row)

(* When the transition endpoint only receives the actions the forms post, *)
(* a ticket that left New has an assignee and an acknowledgement no later *)
(* than its mitigation and its resolution (MTTA, MTTM never negative).    *)
Owned(t) ==
  t.status # "New" =>
    /\ t.assignee # None
    /\ t.acked # None
    /\ t.mitigated # None => t.acked <= t.mitigated
    /\ t.resolved # None => t.acked <= t.resolved

OwnedOnceStarted == Owned(row)

(* An overdue open ticket is alerted or closed in the end, whatever       *)
(* requests do to the row meanwhile (SLABreachChecker's polling loop).    *)
OverdueAlerted == Breached ~> (row.notified # None \/ row.status = "Closed")

(* A ticket leaves Closed only by the Reopen of somebody entitled to it,  *)
(* decided on the row as it was when the request read it.                 *)
ReopenAuthorised ==
  [][ row.status = "Closed" /\ row'.status # "Closed" =>
        \E r \in Requests :
          /\ Loaded(r, "transition") /\ req'[r].pc = "idle"
          /\ req[r].action = "reopen" /\ MayReopenClosed(req[r].actor) ]_vars

(* The row as readers see it: how a Closed ticket was closed is inferred  *)
(* from ResolvedAt (stagebar.go, stageProgress).                          *)
StageOf(t) ==
  IF t.status = "Closed"
  THEN IF t.resolved = None THEN "Rejected" ELSE "Confirmed"
  ELSE t.status

L == INSTANCE TicketLifecycle
       WITH stage <- StageOf(row), ackedAt <- row.acked, reopens <- row.reopens

(* The row implements the documented life cycle: only legal transitions,  *)
(* one acknowledgement, every reopening counted.                          *)
Lifecycle == L!Spec
=============================================================================
