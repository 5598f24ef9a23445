------------------------------ MODULE TicketTrail ------------------------------
(***************************************************************************)
(* What a ticket's handlers leave behind besides its row: the KB proposal  *)
(* and the event log entries written after the row (TicketService,         *)
(* KBService.Propose), the breach alert that follows a claim, and what     *)
(* replaying that log gives (internal/db/backfill.go).                     *)
(*                                                                         *)
(* Save and its aftermath are separate statements of one handler: another  *)
(* writer, or a crash, may come between them.                              *)
(***************************************************************************)
EXTENDS Ticket

CONSTANT MaxCrashes   \* bound on server crashes

ASSUME CrashAssumption == MaxCrashes \in Nat

VARIABLES
  owed,     \* [Requests -> the request whose row is written, log still due]
  trail,    \* what the log, the alerts and the proposals amount to
  crashes   \* how often the server died

tvars == <<row, req, clock, owed, trail, crashes>>

(* Derived from the log so far by backfillStageTimestamps, the status it  *)
(* leads to, and the alerts and KB drafts since the last reopening.       *)
(* Counters stop at a bound: 2 stands for two or more.                    *)
Trails ==
  [ status : Statuses, acked : BOOLEAN, resolved : BOOLEAN,
    reopens : 0 .. MaxReopens + 1, alerts : 0..2, drafts : 0..2 ]

OneMore(n, most) == IF n < most THEN n + 1 ELSE most

TInit ==
  /\ Init
  /\ owed = [r \in Requests |-> Idle]
  /\ trail = [ status |-> "New", acked |-> FALSE, resolved |-> FALSE,
               reopens |-> 0, alerts |-> 0, drafts |-> 0 ]
  /\ crashes = 0

NothingOwed == \A r \in Requests : owed[r] = Idle

TBegin(r) ==
  /\ owed[r] = Idle
  /\ Overlap \/ NothingOwed
  /\ Begin(r)
  /\ UNCHANGED <<owed, trail, crashes>>

(* A reopening that is written starts a new breach and a new resolution.  *)
TSave(r) ==
  /\ Save(r) /\ ~SaveError(r)
  /\ owed' = [owed EXCEPT ![r] = req[r]]
  /\ trail' = IF req[r].action = "reopen"
              THEN [trail EXCEPT !.alerts = 0, !.drafts = 0] ELSE trail
  /\ UNCHANGED crashes

TSaveError(r) == SaveError(r) /\ UNCHANGED <<owed, trail, crashes>>

-----------------------------------------------------------------------------
(* The rest of the handler: KB proposal, event log, fan-out.              *)

Finish(r, newTrail) ==
  /\ owed' = [owed EXCEPT ![r] = Idle]
  /\ trail' = newTrail
  /\ UNCHANGED <<vars, crashes>>

(* A draft is proposed when the call landed on Resolved; then one         *)
(* status_changed event per status on the path.                           *)
AnnounceTransition(r) ==
  /\ owed[r].kind = "transition"
  /\ \E final \in nextStatus(owed[r].copy.status, owed[r].action) :
       Finish(r, [trail EXCEPT
         !.status = final,
         !.resolved = IF final = "Resolved" THEN TRUE
                      ELSE IF owed[r].action = "reopen" THEN FALSE ELSE @,
         !.reopens = IF owed[r].action = "reopen"
                     THEN OneMore(@, MaxReopens + 1) ELSE @,
         !.drafts = IF final = "Resolved" THEN OneMore(@, 2) ELSE @])

(* Taking ownership logs "assigned", never "status_changed".              *)
AnnounceOwnershipFaulty(r) ==
  /\ owed[r].kind = "own"
  /\ Finish(r, trail)

AnnounceOwnership(r) ==
  /\ owed[r].kind = "own"
  /\ Finish(r, [trail EXCEPT !.acked = TRUE,
                  !.status = IF @ = "New" THEN "InProgress" ELSE @])

(* Mitigation and edits log events the replay ignores, auto_assign none.  *)
AnnounceOther(r) ==
  /\ owed[r].kind \in {"mitigate", "edit", "auto_assign"}
  /\ Finish(r, trail)

(* The claim, then the alert it entitles the poller to send.              *)
TClaimBreach ==
  /\ ClaimBreach
  /\ Overlap \/ NothingOwed
  /\ trail' = [trail EXCEPT !.alerts = OneMore(@, 2)]
  /\ UNCHANGED <<owed, crashes>>

TTick == Tick /\ UNCHANGED <<owed, trail, crashes>>

(* The server dies: requests in flight vanish where they stand.           *)
Crash ==
  /\ crashes < MaxCrashes
  /\ ~(Quiescent /\ NothingOwed)
  /\ crashes' = crashes + 1
  /\ req' = [r \in Requests |-> Idle]
  /\ owed' = [r \in Requests |-> Idle]
  /\ UNCHANGED <<row, clock, trail>>

TNext ==
  \/ \E r \in Requests :
       \/ TBegin(r)
       \/ TSave(r)
       \/ TSaveError(r)
       \/ AnnounceTransition(r)
       \/ AnnounceOwnership(r)
       \/ AnnounceOther(r)
  \/ TClaimBreach
  \/ TTick
  \/ Crash

TSpec == TInit /\ [][TNext]_tvars

-----------------------------------------------------------------------------
(* Properties.                                                            *)

(* One breach alert per breach, however often the poller runs             *)
(* (repo/ticket.go, ClaimNextBreach; models.go, SLABreachNotifiedAt).     *)
OneAlertPerBreach == trail.alerts < 2

(* One KB draft per resolution (service/ticket.go, Transition).           *)
OneDraftPerResolution == trail.drafts < 2

(* From one reopening to the next a ticket raises one breach alert and    *)
(* proposes one KB draft, crashes and polls in between notwithstanding.   *)
OncePerCycle == OneAlertPerBreach /\ OneDraftPerResolution

(* With no request in flight and no crash, replaying the event log the    *)
(* way db/backfill.go does yields the stage columns of the row: the log   *)
(* is a faithful account of the ticket.                                   *)
LogReplaysRow ==
  Quiescent /\ NothingOwed /\ crashes = 0 =>
    /\ trail.status = row.status
    /\ trail.acked = (row.acked # None)
    /\ trail.resolved = (row.resolved # None)
    /\ trail.reopens = row.reopens
=============================================================================
