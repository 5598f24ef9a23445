--------------------------- MODULE TicketLifecycle ---------------------------
(***************************************************************************)
(* What a ticket promises its readers: the state machine of               *)
(* internal/service/statemachine.go as people reason about it, with the   *)
(* two ways of being Closed kept apart.  The stored row has no such field: *)
(* the progress bar infers it (internal/httpapi/stagebar.go).             *)
(* Every operation is one atomic step here; module Ticket implements it.   *)
(***************************************************************************)
EXTENDS Naturals

CONSTANT None

VARIABLES
  stage,     \* where the ticket stands
  ackedAt,   \* when somebody first took ownership, None before that
  reopens    \* how many times it was reopened

lvars == <<stage, ackedAt, reopens>>

Stages == {"New", "InProgress", "Resolved", "Confirmed", "Rejected"}

Init ==
  /\ stage = "New"
  /\ ackedAt = None
  /\ reopens = 0

(* The first pickup or assignment: the only way out of New.               *)
TakeOwnership ==
  /\ stage = "New"
  /\ stage' = "InProgress"
  /\ ackedAt' \in Nat
  /\ UNCHANGED reopens

Move(from, to) ==
  /\ stage = from
  /\ stage' = to
  /\ UNCHANGED <<ackedAt, reopens>>

Resolve == Move("InProgress", "Resolved")
Reject  == Move("InProgress", "Rejected")
Confirm == Move("Resolved", "Confirmed")

(* Back in flight, keeping the original acknowledgement.                  *)
Reopen ==
  /\ stage \in {"Resolved", "Confirmed", "Rejected"}
  /\ stage' = "InProgress"
  /\ reopens' = reopens + 1
  /\ UNCHANGED ackedAt

Next == TakeOwnership \/ Resolve \/ Reject \/ Confirm \/ Reopen

Spec == Init /\ [][Next]_lvars
=============================================================================
