---------------------------- MODULE TicketProofs ----------------------------
(***************************************************************************)
(* What holds of every ticket for every set of users, requests and bounds. *)
(* First of its row, with any number of requests overlapping on it; then,  *)
(* one writer at a time, of what it leaves behind (TicketTrail) and of the *)
(* life cycle it implements (TicketLifecycle); last, of the dashboard.     *)
(*                                                                         *)
(* A whole-row write of a stale copy loses updates, but it writes a row    *)
(* that was once consistent with one consistent change applied: so the     *)
(* inductive invariant claims of every copy in flight what it claims of    *)
(* the row, at the time the copy was read.                                 *)
(***************************************************************************)
EXTENDS TicketTrail, StageMetrics, TLAPS

(* No stamp of t is later than now.                                       *)
Past(t, now) ==
  /\ t.acked # None => t.acked <= now
  /\ t.mitigated # None => t.mitigated <= now
  /\ t.resolved # None => t.resolved <= now

RowOK(t, now) == t \in Rows /\ StampsFit(t) /\ Ordered(t) /\ Past(t, now)

(* What a request in flight knows: its guard, evaluated on its copy.      *)
HeldOK(q) ==
  q.pc = "loaded" =>
    /\ q.at <= clock
    /\ RowOK(q.copy, q.at)
    /\ q.kind = "mitigate" => q.copy.status = "InProgress"
    /\ q.kind \in {"own", "auto_assign"} => q.to \in Users
    /\ q.kind = "own" => q.action \in {"assign", "pickup"}
    /\ q.kind = "transition" => q.action \in FormActions

IInv ==
  /\ TypeOK
  /\ RowOK(row, clock)
  /\ \A r \in Requests : HeldOK(req[r])

-----------------------------------------------------------------------------
(* The operators the actions are built from.                              *)

(* The state machine table, edge by edge (statemachine.go, transitions).  *)
LEMMA NextStatusCases ==
  ASSUME NEW s, NEW a, NEW f \in nextStatus(s, a)
  PROVE  \/ s = "New" /\ a \in {"assign", "pickup"} /\ f = "InProgress"
         \/ s = "InProgress" /\ a = "resolve" /\ f = "Resolved"
         \/ s = "InProgress" /\ a = "reject" /\ f = "Closed"
         \/ s = "Resolved" /\ a = "confirm" /\ f = "Closed"
         \/ s \in {"Resolved", "Closed"} /\ a = "reopen" /\ f = "InProgress"
  BY DEF nextStatus, transitions, forcedNext

(* Time passing does not spoil a row.                                     *)
LEMMA RowOKLater ==
  ASSUME NEW t, NEW n \in Nat, NEW m \in Nat, n <= m, RowOK(t, n)
  PROVE  RowOK(t, m)
  BY ConstantsAssumption DEF RowOK, Past, Rows, Time

(* Landing on Resolved stamps the resolution (Transition).                *)
LEMMA ResolvedRow ==
  ASSUME NEW t, NEW n \in Nat, NEW now \in Nat, n <= now, RowOK(t, n)
  PROVE  RowOK([t EXCEPT !.status = "Resolved", !.resolved = now], now)
<1> DEFINE new == [t EXCEPT !.status = "Resolved", !.resolved = now]
<1>1. t \in Rows /\ StampsFit(t) /\ Ordered(t) /\ Past(t, n)
  BY DEF RowOK
<1>2. new \in Rows
  BY <1>1, ConstantsAssumption DEF Rows, Time, Statuses
<1>3. /\ new.status = "Resolved" /\ new.resolved = now
      /\ new.acked = t.acked /\ new.mitigated = t.mitigated
  BY <1>1 DEF Rows
<1>4. StampsFit(new)
  BY <1>1, <1>3, ConstantsAssumption DEF StampsFit, Rows, Time
<1>5. Ordered(new)
  BY <1>1, <1>3, ConstantsAssumption DEF Ordered, Past, StampsFit, Rows, Time
<1>6. Past(new, now)
  BY <1>1, <1>3, ConstantsAssumption DEF Past, Rows, Time
<1>7. QED
  BY <1>2, <1>4, <1>5, <1>6 DEF RowOK

(* Reopening clears the resolution and the breach flag (Transition).      *)
LEMMA ReopenedRow ==
  ASSUME NEW t, NEW n \in Nat, RowOK(t, n)
  PROVE  RowOK([t EXCEPT !.status = "InProgress", !.resolved = None,
                         !.notified = None, !.reopens = @ + 1], n)
<1> DEFINE new == [t EXCEPT !.status = "InProgress", !.resolved = None,
                           !.notified = None, !.reopens = @ + 1]
<1>1. t \in Rows /\ StampsFit(t) /\ Ordered(t) /\ Past(t, n)
  BY DEF RowOK
<1>2. new \in Rows
  <2>1. t.reopens + 1 \in Nat /\ None \in Time /\ "InProgress" \in Statuses
    BY <1>1 DEF Rows, Time, Statuses
  <2>2. QED
    BY <1>1, <2>1 DEF Rows
<1>3. /\ new.status = "InProgress" /\ new.resolved = None
      /\ new.acked = t.acked /\ new.mitigated = t.mitigated
  BY <1>1 DEF Rows
<1>4. StampsFit(new)
  BY <1>1, <1>3, ConstantsAssumption DEF StampsFit, Rows, Time
<1>5. Ordered(new)
  BY <1>1, <1>3, ConstantsAssumption DEF Ordered, Past, StampsFit, Rows, Time
<1>6. Past(new, n)
  BY <1>1, <1>3, ConstantsAssumption DEF Past, Rows, Time
<1>7. QED
  BY <1>2, <1>4, <1>5, <1>6 DEF RowOK

(* The other transitions: out of New, or into Closed.                     *)
LEMMA MovedRow ==
  ASSUME NEW t, NEW n \in Nat, RowOK(t, n),
         NEW f, \/ f = "Closed"
                \/ f = "InProgress" /\ t.status = "New"
  PROVE  RowOK([t EXCEPT !.status = f], n)
  BY ConstantsAssumption
  DEF RowOK, Past, Rows, Time, Statuses, StampsFit, Ordered

(* Taking ownership (assign).                                             *)
LEMMA OwnedRow ==
  ASSUME NEW t, NEW n \in Nat, NEW now \in Nat, n <= now, RowOK(t, n),
         NEW u \in Users,
         NEW f, IF t.status = "New" THEN f = "InProgress" ELSE f = t.status
  PROVE  RowOK([t EXCEPT !.assignee = u, !.status = f,
                  !.acked = IF t.acked = None THEN now ELSE t.acked], now)
<1> DEFINE new == [t EXCEPT !.assignee = u, !.status = f,
                    !.acked = IF t.acked = None THEN now ELSE t.acked]
<1>1. t \in Rows /\ StampsFit(t) /\ Ordered(t) /\ Past(t, n)
  BY DEF RowOK
<1>2. new \in Rows
  BY <1>1, ConstantsAssumption DEF Rows, Time, Statuses
<1>3. /\ new.status = f /\ new.acked = (IF t.acked = None THEN now ELSE t.acked)
      /\ new.mitigated = t.mitigated /\ new.resolved = t.resolved
      /\ new.reopens = t.reopens
  BY <1>1 DEF Rows
<1>4. StampsFit(new)
  BY <1>1, <1>3, ConstantsAssumption DEF StampsFit, Rows, Time
<1>5. Ordered(new)
  BY <1>1, <1>3, ConstantsAssumption DEF Ordered, Past, StampsFit, Rows, Time
<1>6. Past(new, now)
  BY <1>1, <1>3, ConstantsAssumption DEF Past, Rows, Time
<1>7. QED
  BY <1>2, <1>4, <1>5, <1>6 DEF RowOK

(* Mitigating a ticket that is In Progress (MarkMitigated).               *)
LEMMA MitigatedRow ==
  ASSUME NEW t, NEW n \in Nat, NEW now \in Nat, n <= now, RowOK(t, n),
         t.status = "InProgress"
  PROVE  RowOK([t EXCEPT !.mitigated = now], now)
  BY ConstantsAssumption
  DEF RowOK, Past, Rows, Time, Statuses, StampsFit, Ordered

(* Writing a column no stamp depends on (auto_assign, ClaimNextBreach).   *)
LEMMA AssignedRow ==
  ASSUME NEW t, NEW n \in Nat, RowOK(t, n), NEW u \in Users
  PROVE  RowOK([t EXCEPT !.assignee = u], n)
  BY DEF RowOK, Past, Rows, StampsFit, Ordered

LEMMA NotifiedRow ==
  ASSUME NEW t, NEW n \in Nat, RowOK(t, n)
  PROVE  RowOK([t EXCEPT !.notified = n], n)
  BY DEF RowOK, Past, Rows, Time, StampsFit, Ordered

-----------------------------------------------------------------------------
(* Induction: one lemma for the first half of a handler, one for the      *)
(* write that ends it, then the actions one by one.                       *)

LEMMA InitIInv == Init => IInv
<1> SUFFICES ASSUME Init PROVE IInv
  OBVIOUS
<1>1. NewRow \in Rows /\ RowOK(NewRow, 0)
  BY ConstantsAssumption
  DEF NewRow, RowOK, Rows, Time, Statuses, StampsFit, Ordered, Past
<1>2. Idle \in Held
  BY <1>1 DEF Idle, Held, Kinds
<1>3. TypeOK
  BY <1>1, <1>2 DEF Init, TypeOK
<1>4. \A r \in Requests : HeldOK(req[r])
  BY DEF Init, HeldOK, Idle
<1>5. QED
  BY <1>1, <1>3, <1>4 DEF Init, IInv

(* Loading a request: its copy is the row, read now.                      *)
LEMMA LoadIInv ==
  ASSUME IInv, NEW r \in Requests,
         NEW kind \in Kinds, NEW action \in Actions \cup {None},
         NEW to \in Users \cup {None}, NEW actor \in Users \cup {None},
         Load(r, kind, action, to, actor),
         kind = "mitigate" => row.status = "InProgress",
         kind \in {"own", "auto_assign"} => to \in Users,
         kind = "own" => action \in {"assign", "pickup"},
         kind = "transition" => action \in FormActions
  PROVE  IInv'
<1> DEFINE q == [ pc |-> "loaded", kind |-> kind, action |-> action, to |-> to,
                  actor |-> actor, copy |-> row, at |-> clock ]
<1>1. row' = row /\ clock' = clock /\ req' = [req EXCEPT ![r] = q]
  BY DEF Load
<1>2. row \in Rows /\ clock \in Nat /\ req \in [Requests -> Held] /\ RowOK(row, clock)
  BY DEF IInv, TypeOK
<1>3. q \in Held
  BY <1>2 DEF Held
<1>4. TypeOK'
  BY <1>1, <1>2, <1>3 DEF TypeOK
<1>5. RowOK(row, clock)'
  BY <1>1, <1>2 DEF RowOK, StampsFit, Ordered, Past
<1>6. ASSUME NEW x \in Requests PROVE HeldOK(req[x])'
  <2>1. CASE x = r
    <3>1. req'[x] = q
      BY <1>1, <1>2, <2>1
    <3>2. QED
      BY <3>1, <1>1, <1>2 DEF HeldOK
  <2>2. CASE x # r
    <3>1. req'[x] = req[x] /\ HeldOK(req[x])
      BY <1>1, <1>2, <2>2 DEF IInv
    <3>2. QED
      BY <3>1, <1>1 DEF HeldOK
  <2>3. QED
    BY <2>1, <2>2
<1>7. QED
  BY <1>4, <1>5, <1>6 DEF IInv

(* Writing a consistent row ends the request and disturbs no other.       *)
LEMMA WriteIInv ==
  ASSUME IInv, NEW r \in Requests, NEW new, Write(r, new), RowOK(new, clock)
  PROVE  IInv'
<1>1. row' = new /\ clock' = clock /\ req' = [req EXCEPT ![r] = Idle]
  BY DEF Write
<1>2. new \in Rows /\ clock \in Nat /\ req \in [Requests -> Held]
  BY DEF IInv, TypeOK, RowOK
<1>3. Idle \in Held
  <2>1. NewRow \in Rows
    BY DEF NewRow, Rows, Time, Statuses
  <2>2. QED
    BY <2>1 DEF Idle, Held, Kinds
<1>4. TypeOK'
  BY <1>1, <1>2, <1>3 DEF TypeOK
<1>5. RowOK(row, clock)'
  BY <1>1 DEF RowOK, StampsFit, Ordered, Past
<1>6. ASSUME NEW x \in Requests PROVE HeldOK(req[x])'
  <2>1. CASE x = r
    <3>1. req'[x] = Idle
      BY <1>1, <1>2, <2>1
    <3>2. QED
      BY <3>1 DEF HeldOK, Idle
  <2>2. CASE x # r
    <3>1. req'[x] = req[x] /\ HeldOK(req[x])
      BY <1>1, <1>2, <2>2 DEF IInv
    <3>2. QED
      BY <3>1, <1>1 DEF HeldOK
  <2>3. QED
    BY <2>1, <2>2
<1>7. QED
  BY <1>4, <1>5, <1>6 DEF IInv

(* What a handler about to write can rely on.                             *)
LEMMA LoadedFacts ==
  ASSUME IInv, NEW r \in Requests, req[r].pc = "loaded"
  PROVE  /\ req[r].at \in Nat /\ clock \in Nat
         /\ req[r].at <= clock
         /\ RowOK(req[r].copy, req[r].at)
         /\ RowOK(req[r].copy, clock)
         /\ \A now \in Stamp(r) : now \in Nat /\ req[r].at <= now /\ now <= clock
         /\ HeldOK(req[r])
<1>1. req[r] \in Held /\ clock \in Nat /\ HeldOK(req[r])
  BY DEF IInv, TypeOK
<1>2. req[r].at \in Nat
  BY <1>1 DEF Held
<1>3. req[r].at <= clock /\ RowOK(req[r].copy, req[r].at)
  BY <1>1 DEF HeldOK
<1>4. QED
  BY <1>1, <1>2, <1>3, RowOKLater DEF Stamp

LEMMA BeginIInv ==
  ASSUME IInv, NEW r \in Requests, Begin(r)
  PROVE  IInv'
<1>1. ASSUME NEW u \in Users, NEW a \in Actions, LoadTransition(r, u, a)
      PROVE  IInv'
  <2> DEFINE who == IF a = "reopen" THEN u ELSE None
  <2>1. Load(r, "transition", a, None, who) /\ a \in FormActions
    BY <1>1 DEF LoadTransition
  <2>2. "transition" \in Kinds /\ who \in Users \cup {None}
    BY DEF Kinds
  <2>3. QED
    BY <2>1, <2>2, LoadIInv
<1>2. ASSUME NEW u \in Users, LoadPickup(r, u) PROVE IInv'
  <2>1. Load(r, "own", "pickup", u, None)
    BY <1>2 DEF LoadPickup
  <2>2. QED
    BY <2>1, LoadIInv DEF Kinds, Actions
<1>3. ASSUME NEW u \in Users, NEW to \in Users, LoadAssign(r, u, to) PROVE IInv'
  <2>1. Load(r, "own", "assign", to, None)
    BY <1>3 DEF LoadAssign
  <2>2. QED
    BY <2>1, LoadIInv DEF Kinds, Actions
<1>4. CASE LoadMitigate(r)
  BY <1>4, LoadIInv DEF LoadMitigate, Kinds
<1>5. CASE LoadEdit(r)
  BY <1>5, LoadIInv DEF LoadEdit, Kinds
<1>6. ASSUME NEW to \in Users, LoadAutoAssign(r, to) PROVE IInv'
  BY <1>6, LoadIInv DEF LoadAutoAssign, Kinds
<1>7. QED
  BY <1>1, <1>2, <1>3, <1>4, <1>5, <1>6 DEF Begin

LEMMA SaveTransitionIInv ==
  ASSUME IInv, NEW r \in Requests, SaveTransition(r)
  PROVE  IInv'
<1> DEFINE t == req[r].copy
<1>1. req[r].pc = "loaded"
  BY DEF SaveTransition, Loaded
<1>2. PICK final \in nextStatus(t.status, req[r].action), now \in Stamp(r) :
        Write(r, Moved(t, req[r].action, final, now))
  BY DEF SaveTransition
<1>3. /\ clock \in Nat /\ now \in Nat /\ req[r].at \in Nat
      /\ req[r].at <= now /\ now <= clock
      /\ RowOK(t, req[r].at) /\ RowOK(t, clock)
  BY <1>1, LoadedFacts
<1>4. CASE final = "Resolved"
  <2> DEFINE new == [t EXCEPT !.status = "Resolved", !.resolved = now]
  <2>1. Write(r, new)
    BY <1>2, <1>4 DEF Moved
  <2>2. RowOK(new, now)
    BY <1>3, ResolvedRow
  <2>3. RowOK(new, clock)
    BY <2>2, <1>3, RowOKLater
  <2>4. QED
    BY <2>1, <2>3, WriteIInv
<1>5. CASE final # "Resolved" /\ req[r].action = "reopen"
  <2> DEFINE new == [t EXCEPT !.status = "InProgress", !.resolved = None,
                              !.notified = None, !.reopens = @ + 1]
  <2>1. final = "InProgress"
    BY <1>5, NextStatusCases
  <2>2. Write(r, new)
    BY <1>2, <1>5, <2>1 DEF Moved
  <2>3. RowOK(new, clock)
    BY <1>3, ReopenedRow
  <2>4. QED
    BY <2>2, <2>3, WriteIInv
<1>6. CASE final # "Resolved" /\ req[r].action # "reopen"
  <2> DEFINE new == [t EXCEPT !.status = final]
  <2>1. final = "Closed" \/ (final = "InProgress" /\ t.status = "New")
    BY <1>6, NextStatusCases
  <2>2. Write(r, new)
    BY <1>2, <1>6 DEF Moved
  <2>3. RowOK(new, clock)
    BY <1>3, <2>1, MovedRow
  <2>4. QED
    BY <2>2, <2>3, WriteIInv
<1>7. QED
  BY <1>4, <1>5, <1>6

LEMMA SaveOwnershipIInv ==
  ASSUME IInv, NEW r \in Requests, SaveOwnership(r)
  PROVE  IInv'
<1> DEFINE t == req[r].copy
<1>1. req[r].pc = "loaded" /\ req[r].kind = "own"
  BY DEF SaveOwnership, Loaded
<1>2. PICK now \in Stamp(r),
           final \in IF t.status = "New" THEN nextStatus(t.status, req[r].action)
                                         ELSE {t.status} :
        Write(r, [t EXCEPT !.assignee = req[r].to, !.status = final,
                           !.acked = IF t.acked = None THEN now ELSE t.acked])
  BY DEF SaveOwnership
<1>3. /\ clock \in Nat /\ now \in Nat /\ req[r].at \in Nat
      /\ req[r].at <= now /\ now <= clock
      /\ RowOK(t, req[r].at) /\ HeldOK(req[r])
  BY <1>1, LoadedFacts
<1>4. req[r].to \in Users
  BY <1>1, <1>3 DEF HeldOK
<1>5. IF t.status = "New" THEN final = "InProgress" ELSE final = t.status
  BY <1>2, NextStatusCases
<1> DEFINE new == [t EXCEPT !.assignee = req[r].to, !.status = final,
                            !.acked = IF t.acked = None THEN now ELSE t.acked]
<1>6. RowOK(new, now)
  BY <1>3, <1>4, <1>5, OwnedRow
<1>7. RowOK(new, clock)
  BY <1>3, <1>6, RowOKLater
<1>8. QED
  BY <1>2, <1>7, WriteIInv

LEMMA SaveIInv ==
  ASSUME IInv, NEW r \in Requests, Save(r)
  PROVE  IInv'
<1>1. CASE SaveTransition(r)
  BY <1>1, SaveTransitionIInv
<1>2. CASE SaveOwnership(r)
  BY <1>2, SaveOwnershipIInv
<1>3. CASE SaveMitigate(r)
  <2>1. req[r].pc = "loaded" /\ req[r].kind = "mitigate"
    BY <1>3 DEF SaveMitigate, Loaded
  <2>2. PICK now \in Stamp(r) : Write(r, [req[r].copy EXCEPT !.mitigated = now])
    BY <1>3 DEF SaveMitigate
  <2>3. /\ clock \in Nat /\ now \in Nat /\ req[r].at \in Nat
        /\ req[r].at <= now /\ now <= clock
        /\ RowOK(req[r].copy, req[r].at) /\ HeldOK(req[r])
    BY <2>1, LoadedFacts
  <2>4. RowOK([req[r].copy EXCEPT !.mitigated = now], now)
    BY <2>1, <2>3, MitigatedRow DEF HeldOK
  <2>5. RowOK([req[r].copy EXCEPT !.mitigated = now], clock)
    BY <2>3, <2>4, RowOKLater
  <2>6. QED
    BY <2>2, <2>5, WriteIInv
<1>4. CASE SaveEdit(r)
  BY <1>4, LoadedFacts, WriteIInv DEF SaveEdit, Loaded
<1>5. CASE SaveAutoAssign(r)
  <2>1. req[r].pc = "loaded" /\ req[r].kind = "auto_assign"
    BY <1>5 DEF SaveAutoAssign, Loaded
  <2>2. RowOK(req[r].copy, clock) /\ clock \in Nat /\ req[r].to \in Users
    BY <2>1, LoadedFacts DEF HeldOK
  <2>3. RowOK([req[r].copy EXCEPT !.assignee = req[r].to], clock)
    BY <2>2, AssignedRow
  <2>4. QED
    BY <1>5, <2>3, WriteIInv DEF SaveAutoAssign
<1>6. CASE SaveError(r)
  <2>1. Write(r, row)
    BY <1>6 DEF SaveError, Write
  <2>2. QED
    BY <2>1, WriteIInv DEF IInv
<1>7. QED
  BY <1>1, <1>2, <1>3, <1>4, <1>5, <1>6 DEF Save

(* The poller's one-column write.                                         *)
LEMMA ClaimIInv == IInv /\ ClaimBreach => IInv'
<1> SUFFICES ASSUME IInv, ClaimBreach PROVE IInv'
  OBVIOUS
<1>1. row' = [row EXCEPT !.notified = clock] /\ req' = req /\ clock' = clock
  BY DEF ClaimBreach
<1>2. RowOK(row, clock) /\ clock \in Nat
  BY DEF IInv, TypeOK
<1>3. RowOK(row', clock')
  BY <1>1, <1>2, NotifiedRow
<1>4. TypeOK'
  BY <1>1, <1>3 DEF IInv, TypeOK, RowOK
<1>5. \A r \in Requests : HeldOK(req[r])'
  BY <1>1 DEF IInv, HeldOK
<1>6. QED
  BY <1>3, <1>4, <1>5 DEF IInv, RowOK, StampsFit, Ordered, Past

LEMMA TickIInv == IInv /\ Tick => IInv'
<1> SUFFICES ASSUME IInv, Tick PROVE IInv'
  OBVIOUS
<1>1. row' = row /\ req' = req /\ clock' = clock + 1 /\ clock \in Nat
  BY DEF Tick, IInv, TypeOK
<1>2. RowOK(row, clock')
  BY <1>1, RowOKLater DEF IInv
<1>3. RowOK(row, clock)'
  BY <1>1, <1>2 DEF RowOK, StampsFit, Ordered, Past
<1>4. TypeOK'
  BY <1>1 DEF IInv, TypeOK
<1>5. ASSUME NEW r \in Requests PROVE HeldOK(req[r])'
  <2>1. HeldOK(req[r]) /\ req[r] \in Held
    BY DEF IInv, TypeOK
  <2>2. req[r].at \in Nat
    BY <2>1 DEF Held
  <2>3. QED
    BY <1>1, <2>1, <2>2 DEF HeldOK
<1>6. QED
  BY <1>3, <1>4, <1>5 DEF IInv

LEMMA NextIInv == IInv /\ [Next]_vars => IInv'
<1> SUFFICES ASSUME IInv, [Next]_vars PROVE IInv'
  OBVIOUS
<1>1. ASSUME NEW r \in Requests, Begin(r) PROVE IInv'
  BY <1>1, BeginIInv
<1>2. ASSUME NEW r \in Requests, Save(r) PROVE IInv'
  BY <1>2, SaveIInv
<1>3. CASE ClaimBreach
  BY <1>3, ClaimIInv
<1>4. CASE Tick
  BY <1>4, TickIInv
<1>5. CASE UNCHANGED vars
  BY <1>5 DEF vars, IInv, TypeOK, RowOK, HeldOK, StampsFit, Ordered, Past
<1>6. QED
  BY <1>1, <1>2, <1>3, <1>4, <1>5 DEF Next

(* Whatever overlaps, the row and every copy in flight are consistent.    *)
THEOREM Consistent == Spec => []IInv
  BY InitIInv, NextIInv, PTL DEF Spec

(* Types hold of every reachable state; in particular no ticket rests in  *)
(* Rejected (statemachine.go, forcedNext).                                *)
THEOREM TypeCorrect == Spec => []TypeOK
<1>1. IInv => TypeOK
  BY DEF IInv
<1>2. QED
  BY <1>1, Consistent, PTL

(* The stage columns fit the status, as stagebar.go's inference of a      *)
(* rejected ticket requires, even when updates are lost.                  *)
THEOREM StampsAlwaysFit == Spec => []StampsFitStatus
<1>1. IInv => StampsFitStatus
  BY DEF IInv, RowOK, StampsFitStatus
<1>2. QED
  BY <1>1, Consistent, PTL

(* No ticket's MTTR is negative.                                          *)
THEOREM NeverResolvedBeforeMitigated == Spec => []MitigatedBeforeResolved
<1>1. IInv => MitigatedBeforeResolved
  BY DEF IInv, RowOK, MitigatedBeforeResolved
<1>2. QED
  BY <1>1, Consistent, PTL

-----------------------------------------------------------------------------
(* Who took the ticket, and when.  This needs the transition endpoint to   *)
(* receive only what its forms post: "assign" or "pickup" posted there     *)
(* would leave New without an assignee.                                    *)
FormsOnly == FormActions \cap {"assign", "pickup"} = {}

OInv ==
  /\ IInv
  /\ Owned(row)
  /\ \A r \in Requests : req[r].pc = "loaded" => Owned(req[r].copy)

(* The two first halves and the two writes of the lemmas above, again.     *)
LEMMA LoadOInv ==
  ASSUME OInv, IInv', NEW r \in Requests,
         NEW kind, NEW action, NEW to, NEW actor, Load(r, kind, action, to, actor)
  PROVE  OInv'
<1>1. req \in [Requests -> Held]
  BY DEF OInv, IInv, TypeOK
<1>2. ASSUME NEW x \in Requests, req'[x].pc = "loaded" PROVE Owned(req'[x].copy)
  <2>1. CASE x = r
    BY <1>1, <2>1 DEF Load, OInv
  <2>2. CASE x # r
    BY <1>1, <1>2, <2>2 DEF Load, OInv
  <2>3. QED
    BY <2>1, <2>2
<1>3. Owned(row')
  BY DEF Load, OInv
<1>4. QED
  BY <1>2, <1>3 DEF OInv, Owned

LEMMA WriteOInv ==
  ASSUME OInv, IInv', NEW r \in Requests, NEW new, Write(r, new), Owned(new)
  PROVE  OInv'
<1>1. req \in [Requests -> Held]
  BY DEF OInv, IInv, TypeOK
<1>2. ASSUME NEW x \in Requests, req'[x].pc = "loaded" PROVE Owned(req'[x].copy)
  <2>1. x # r
    BY <1>1, <1>2 DEF Write, Idle
  <2>2. QED
    BY <1>1, <1>2, <2>1 DEF Write, OInv
<1>3. Owned(row')
  BY DEF Write
<1>4. QED
  BY <1>2, <1>3 DEF OInv, Owned

LEMMA BeginOInv ==
  ASSUME OInv, IInv', NEW r \in Requests, Begin(r)
  PROVE  OInv'
<1>1. PICK kind, action, to, actor : Load(r, kind, action, to, actor)
  <2>1. CASE \E u \in Users, a \in Actions : LoadTransition(r, u, a)
    BY <2>1 DEF LoadTransition
  <2>2. CASE \E u \in Users : LoadPickup(r, u)
    BY <2>2 DEF LoadPickup
  <2>3. CASE \E u \in Users, to \in Users : LoadAssign(r, u, to)
    BY <2>3 DEF LoadAssign
  <2>4. CASE LoadMitigate(r)
    BY <2>4 DEF LoadMitigate
  <2>5. CASE LoadEdit(r)
    BY <2>5 DEF LoadEdit
  <2>6. CASE \E to \in Users : LoadAutoAssign(r, to)
    BY <2>6 DEF LoadAutoAssign
  <2>7. QED
    BY <2>1, <2>2, <2>3, <2>4, <2>5, <2>6 DEF Begin
<1>2. QED
  BY <1>1, LoadOInv

(* A transition starts from an owned ticket and stamps no earlier time.    *)
LEMMA SaveTransitionOInv ==
  ASSUME FormsOnly, OInv, IInv', NEW r \in Requests, SaveTransition(r)
  PROVE  OInv'
<1> DEFINE t == req[r].copy
           a == req[r].action
<1>1. req[r].pc = "loaded" /\ req[r].kind = "transition" /\ IInv
  BY DEF SaveTransition, Loaded, OInv
<1>2. PICK final \in nextStatus(t.status, a), now \in Stamp(r) :
        Write(r, Moved(t, a, final, now))
  BY DEF SaveTransition
<1>3. /\ now \in Nat /\ req[r].at \in Nat /\ req[r].at <= now
      /\ RowOK(t, req[r].at) /\ HeldOK(req[r]) /\ Owned(t)
  BY <1>1, LoadedFacts DEF OInv
<1>4. a \notin {"assign", "pickup"}
  BY <1>1, <1>3 DEF HeldOK, FormsOnly
<1>5. t.status # "New"
  BY <1>2, <1>4, NextStatusCases
<1>6. t \in Rows /\ Past(t, req[r].at)
  BY <1>3 DEF RowOK
<1>7. Owned(Moved(t, a, final, now))
  BY <1>3, <1>5, <1>6, ConstantsAssumption DEF Owned, Moved, Rows, Time, Past
<1>8. QED
  BY <1>2, <1>7, WriteOInv

LEMMA SaveOwnershipOInv ==
  ASSUME OInv, IInv', NEW r \in Requests, SaveOwnership(r)
  PROVE  OInv'
<1> DEFINE t == req[r].copy
<1>1. req[r].pc = "loaded" /\ req[r].kind = "own" /\ IInv
  BY DEF SaveOwnership, Loaded, OInv
<1>2. PICK now \in Stamp(r),
           final \in IF t.status = "New" THEN nextStatus(t.status, req[r].action)
                                         ELSE {t.status} :
        Write(r, [t EXCEPT !.assignee = req[r].to, !.status = final,
                           !.acked = IF t.acked = None THEN now ELSE t.acked])
  BY DEF SaveOwnership
<1>3. /\ now \in Nat /\ RowOK(t, req[r].at) /\ HeldOK(req[r]) /\ Owned(t)
  BY <1>1, LoadedFacts DEF OInv
<1>4. req[r].to \in Users /\ t \in Rows /\ StampsFit(t)
  BY <1>1, <1>3 DEF HeldOK, RowOK
<1> DEFINE new == [t EXCEPT !.assignee = req[r].to, !.status = final,
                            !.acked = IF t.acked = None THEN now ELSE t.acked]
<1>5. /\ new.assignee = req[r].to /\ new.status = final
      /\ new.acked = (IF t.acked = None THEN now ELSE t.acked)
      /\ new.mitigated = t.mitigated /\ new.resolved = t.resolved
  BY <1>4 DEF Rows
<1>6. CASE t.status = "New"
  <2>1. t.acked = None /\ t.mitigated = None /\ t.resolved = None
    BY <1>4, <1>6 DEF StampsFit
  <2>2. Owned(new)
    BY <1>3, <1>4, <1>5, <2>1, ConstantsAssumption DEF Owned
  <2>3. QED
    BY <1>2, <2>2, WriteOInv
<1>7. CASE t.status # "New"
  <2>1. t.acked # None
    BY <1>3, <1>7 DEF Owned
  <2>2. Owned(new)
    BY <1>3, <1>4, <1>5, <1>7, <2>1, ConstantsAssumption DEF Owned
  <2>3. QED
    BY <1>2, <2>2, WriteOInv
<1>8. QED
  BY <1>6, <1>7

LEMMA SaveOInv ==
  ASSUME FormsOnly, OInv, IInv', NEW r \in Requests, Save(r)
  PROVE  OInv'
<1> DEFINE t == req[r].copy
<1>0. IInv
  BY DEF OInv
<1>1. CASE SaveTransition(r)
  BY <1>1, SaveTransitionOInv
<1>2. CASE SaveOwnership(r)
  BY <1>2, SaveOwnershipOInv
<1>3. CASE SaveMitigate(r)
  <2>1. req[r].pc = "loaded" /\ req[r].kind = "mitigate"
    BY <1>3 DEF SaveMitigate, Loaded
  <2>2. PICK now \in Stamp(r) : Write(r, [t EXCEPT !.mitigated = now])
    BY <1>3 DEF SaveMitigate
  <2>3. /\ now \in Nat /\ req[r].at \in Nat /\ req[r].at <= now
        /\ RowOK(t, req[r].at) /\ HeldOK(req[r]) /\ Owned(t)
    BY <1>0, <2>1, LoadedFacts DEF OInv
  <2>4. /\ t.status = "InProgress" /\ t \in Rows /\ Past(t, req[r].at)
        /\ t.resolved = None
    BY <2>1, <2>3 DEF HeldOK, RowOK, StampsFit
  <2>5. Owned([t EXCEPT !.mitigated = now])
    BY <2>3, <2>4, ConstantsAssumption DEF Owned, Rows, Time, Past
  <2>6. QED
    BY <2>2, <2>5, WriteOInv
<1>4. CASE SaveEdit(r)
  BY <1>4, WriteOInv DEF SaveEdit, Loaded, OInv
<1>5. CASE SaveAutoAssign(r)
  <2>1. req[r].pc = "loaded" /\ req[r].kind = "auto_assign"
    BY <1>5 DEF SaveAutoAssign, Loaded
  <2>2. t \in Rows /\ req[r].to \in Users /\ Owned(t)
    BY <1>0, <2>1, LoadedFacts DEF HeldOK, RowOK, OInv
  <2>3. Owned([t EXCEPT !.assignee = req[r].to])
    BY <2>2, ConstantsAssumption DEF Owned, Rows
  <2>4. QED
    BY <1>5, <2>3, WriteOInv DEF SaveAutoAssign
<1>6. CASE SaveError(r)
  <2>1. Write(r, row) /\ Owned(row)
    BY <1>6 DEF SaveError, Write, OInv
  <2>2. QED
    BY <2>1, WriteOInv
<1>7. QED
  BY <1>1, <1>2, <1>3, <1>4, <1>5, <1>6 DEF Save

LEMMA NextOInv ==
  ASSUME FormsOnly, OInv, [Next]_vars
  PROVE  OInv'
<1>0. IInv /\ IInv'
  BY NextIInv DEF OInv
<1>1. ASSUME NEW r \in Requests, Begin(r) PROVE OInv'
  BY <1>0, <1>1, BeginOInv
<1>2. ASSUME NEW r \in Requests, Save(r) PROVE OInv'
  BY <1>0, <1>2, SaveOInv
<1>3. CASE ClaimBreach
  <2>1. row \in Rows
    BY <1>0 DEF IInv, TypeOK
  <2>2. Owned(row')
    BY <1>3, <2>1 DEF ClaimBreach, OInv, Owned, Rows
  <2>3. QED
    BY <1>0, <1>3, <2>2 DEF ClaimBreach, OInv, Owned
<1>4. CASE Tick
  BY <1>0, <1>4 DEF Tick, OInv, Owned
<1>5. CASE UNCHANGED vars
  BY <1>0, <1>5 DEF vars, OInv, Owned
<1>6. QED
  BY <1>1, <1>2, <1>3, <1>4, <1>5 DEF Next

LEMMA AlwaysOInv ==
  ASSUME FormsOnly
  PROVE  Spec => []OInv
<1>1. Init => OInv
  BY InitIInv DEF OInv, Init, Owned, NewRow, Idle
<1>2. OInv /\ [Next]_vars => OInv'
  BY NextOInv
<1>3. QED
  BY <1>1, <1>2, PTL DEF Spec

(* A ticket that left New has an assignee and an acknowledgement no later  *)
(* than what followed it, however many requests overlap on its row and     *)
(* whoever sends them (service/ticket.go, assign; MTTA and MTTM).          *)
THEOREM OwnedAlways ==
  ASSUME FormsOnly
  PROVE  Spec => []OwnedOnceStarted
<1>1. OInv => OwnedOnceStarted
  BY DEF OInv, OwnedOnceStarted
<1>2. QED
  BY <1>1, AlwaysOInv, PTL

LEMMA StagesOInv == OInv => StagesAddUp
<1>1. ASSUME OInv, row.resolved # None
      PROVE  StagesAddUp
  <2>1. row \in Rows /\ StampsFit(row) /\ Ordered(row) /\ Owned(row)
    BY <1>1 DEF OInv, IInv, RowOK
  <2>2. row.status # "New"
    BY <1>1, <2>1 DEF StampsFit
  <2>3. /\ row.acked \in Nat /\ row.resolved \in Nat /\ Lead \in Nat
        /\ row.acked # None /\ row.acked <= row.resolved
    BY <1>1, <2>1, <2>2, MetricsAssumption DEF Owned, Rows, Time
  <2> DEFINE s == ticketMTTx(row)
  <2>4. row.acked + Lead \in add(s.mtta)
    BY <2>3 DEF ticketMTTx, MTTR, Sample, add
  <2>5. CASE row.mitigated = None
    <3>1. s.mttm = {} /\ row.resolved - row.acked \in add(s.mttr)
      BY <1>1, <2>3, <2>5 DEF ticketMTTx, MTTR, Sample, add
    <3>2. row.acked + Lead + 0 + (row.resolved - row.acked) = row.resolved + Lead
      BY <2>3
    <3>3. QED
      BY <2>4, <3>1, <3>2 DEF StagesAddUp
  <2>6. CASE row.mitigated # None
    <3>1. /\ row.mitigated \in Nat
          /\ row.acked <= row.mitigated /\ row.mitigated <= row.resolved
      BY <1>1, <2>1, <2>2, <2>6 DEF Owned, Ordered, Rows, Time
    <3>2. /\ row.mitigated - row.acked \in add(s.mttm)
          /\ row.resolved - row.mitigated \in add(s.mttr)
      BY <1>1, <2>3, <2>6, <3>1 DEF ticketMTTx, MTTR, Sample, add
    <3>3. row.acked + Lead + (row.mitigated - row.acked)
            + (row.resolved - row.mitigated) = row.resolved + Lead
      BY <2>3, <3>1
    <3>4. QED
      BY <2>4, <3>2, <3>3 DEF StagesAddUp
  <2>7. QED
    BY <2>5, <2>6
<1>2. QED
  BY <1>1 DEF StagesAddUp

(* The dashboard drops no stage of a resolved ticket, and the stages it    *)
(* averages add up to the ticket's whole life (manager_handlers.go).       *)
THEOREM StagesAlwaysAddUp ==
  ASSUME FormsOnly
  PROVE  Spec => []StagesAddUp
  BY StagesOInv, AlwaysOInv, PTL

-----------------------------------------------------------------------------
(* What a call leaves behind (TicketTrail), one writer of the row at a     *)
(* time.  TSpec takes the steps of Spec, announcements that leave the row  *)
(* alone, and crashes that only empty the requests.                        *)

Busy(r) == req[r].pc = "loaded" \/ owed[r] # Idle

TTypeOK ==
  /\ owed \in [Requests -> Held]
  /\ trail \in Trails
  /\ crashes \in Nat

(* One request at a time is between its read and its last announcement,   *)
(* so a copy in flight is the row.                                        *)
OneWriter ==
  /\ \A r, s \in Requests : Busy(r) /\ Busy(s) => r = s
  /\ \A r \in Requests :
       req[r].pc = "loaded" => owed[r] = Idle /\ req[r].copy = row

(* The guards of a reopening, still true when it is written.              *)
EntitledInFlight ==
  \A r \in Requests :
    Loaded(r, "transition") /\ req[r].action = "reopen" =>
      /\ row.reopens < MaxReopens
      /\ row.status = "Closed" => MayReopenClosed(req[r].actor)

(* What the write of request q made of the copy it held.                  *)
Wrote(q, t) ==
  \/ /\ q.kind = "transition"
     /\ \E final \in nextStatus(q.copy.status, q.action), now \in Nat :
          t = Moved(q.copy, q.action, final, now)
  \/ /\ q.kind = "own"
     /\ t.acked \in Nat /\ (q.copy.acked # None => t.acked = q.copy.acked)
     /\ t.status = IF q.copy.status = "New" THEN "InProgress" ELSE q.copy.status
     /\ t.resolved = q.copy.resolved /\ t.notified = q.copy.notified
     /\ t.reopens = q.copy.reopens
  \/ /\ q.kind \in {"mitigate", "edit", "auto_assign"}
     /\ t.acked = q.copy.acked /\ t.status = q.copy.status
     /\ t.resolved = q.copy.resolved /\ t.notified = q.copy.notified
     /\ t.reopens = q.copy.reopens

(* A call that landed on Resolved has its KB draft still to propose.      *)
DraftDue(q) ==
  q.kind = "transition" /\ "Resolved" \in nextStatus(q.copy.status, q.action)

(* An alert was preceded by a claim that is still marked; a draft by a    *)
(* resolution that was not reopened.                                      *)
CycleInv ==
  /\ trail.alerts \in {0, 1} /\ trail.drafts \in {0, 1}
  /\ trail.alerts = 1 => row.notified # None
  /\ row.status \in {"New", "InProgress"} => trail.drafts = 0
  /\ \A r \in Requests :
       owed[r] # Idle /\ DraftDue(owed[r]) =>
         trail.drafts = 0 /\ row.status = "Resolved"

Replayed(tr, t) ==
  /\ tr.status = t.status
  /\ tr.acked = (t.acked # None)
  /\ tr.resolved = (t.resolved # None)
  /\ tr.reopens = t.reopens

(* The log explains the row, or the copy the call in progress started     *)
(* from when that call has yet to log what it did to it.                  *)
LogInv ==
  /\ row.reopens <= MaxReopens
  /\ crashes = 0 =>
       /\ NothingOwed => Replayed(trail, row)
       /\ \A r \in Requests :
            owed[r] # Idle => Replayed(trail, owed[r].copy) /\ Wrote(owed[r], row)

SerialInv ==
  /\ IInv
  /\ TTypeOK
  /\ OneWriter
  /\ EntitledInFlight
  /\ CycleInv
  /\ LogInv

(* A step of TSpec other than a crash is a step of Spec.                  *)
LEMMA TrailSteps == [TNext]_tvars => [Next]_vars \/ Crash
<1> SUFFICES ASSUME [TNext]_tvars PROVE [Next]_vars \/ Crash
  OBVIOUS
<1>1. ASSUME NEW r \in Requests, TBegin(r) \/ TSave(r) \/ TSaveError(r)
      PROVE  Next
  <2>1. Begin(r) \/ Save(r)
    BY <1>1 DEF TBegin, TSave, TSaveError, Save
  <2>2. QED
    BY <2>1 DEF Next
<1>2. ASSUME NEW r \in Requests,
             AnnounceTransition(r) \/ AnnounceOwnership(r) \/ AnnounceOther(r)
      PROVE  UNCHANGED vars
  BY <1>2 DEF AnnounceTransition, AnnounceOwnership, AnnounceOther, Finish
<1>3. CASE TClaimBreach \/ TTick
  BY <1>3 DEF TClaimBreach, TTick, Next
<1>4. CASE UNCHANGED tvars
  BY <1>4 DEF tvars, vars
<1>5. QED
  BY <1>1, <1>2, <1>3, <1>4 DEF TNext

LEMMA CrashIInv == IInv /\ Crash => IInv'
<1> SUFFICES ASSUME IInv, Crash PROVE IInv'
  OBVIOUS
<1>1. row' = row /\ clock' = clock /\ req' = [r \in Requests |-> Idle]
  BY DEF Crash
<1>2. Idle \in Held
  BY ConstantsAssumption DEF Idle, Held, Kinds, NewRow, Rows, Time, Statuses
<1>3. TypeOK'
  BY <1>1, <1>2 DEF IInv, TypeOK
<1>4. \A r \in Requests : HeldOK(req[r])'
  BY <1>1 DEF HeldOK, Idle
<1>5. RowOK(row, clock)'
  BY <1>1 DEF IInv, RowOK, StampsFit, Ordered, Past
<1>6. QED
  BY <1>3, <1>4, <1>5 DEF IInv

LEMMA TrailIInv == IInv /\ [TNext]_tvars => IInv'
  BY TrailSteps, NextIInv, CrashIInv

(* A crash spoils nothing that holds of the row and of every copy.        *)
LEMMA TrailOInv ==
  ASSUME FormsOnly, OInv, [TNext]_tvars
  PROVE  OInv'
<1>1. CASE Crash
  BY <1>1, CrashIInv DEF OInv, Crash, Idle, Owned
<1>2. QED
  BY <1>1, TrailSteps, NextOInv

(* A crash between any two statements leaves the row consistent too: what  *)
(* is shown of overlapping requests holds of requests cut short.           *)
THEOREM TrailConsistent == TSpec => []IInv
<1>1. TInit => IInv
  BY InitIInv DEF TInit
<1>2. QED
  BY <1>1, TrailIInv, PTL DEF TSpec

(* Stamps fit their status, durations are not negative and stages add up,  *)
(* in every order of requests, polls and crashes (service/ticket.go,       *)
(* stagebar.go, manager_handlers.go).                                      *)
THEOREM CrashesSpoilNothing ==
  ASSUME FormsOnly
  PROVE  TSpec => [](StampsFitStatus /\ MitigatedBeforeResolved
                     /\ OwnedOnceStarted /\ StagesAddUp)
<1>1. TInit => OInv
  BY InitIInv DEF TInit, OInv, Init, Owned, NewRow, Idle
<1>2. OInv /\ [TNext]_tvars => OInv'
  BY TrailOInv
<1>3. OInv => /\ StampsFitStatus /\ MitigatedBeforeResolved
              /\ OwnedOnceStarted /\ StagesAddUp
  BY StagesOInv
  DEF OInv, IInv, RowOK, StampsFitStatus, MitigatedBeforeResolved, OwnedOnceStarted
<1>4. QED
  BY <1>1, <1>2, <1>3, PTL DEF TSpec

(* The first half of a handler, with the guards of a reopening.           *)
LEMMA BeginLoads ==
  ASSUME NEW r \in Requests, Begin(r)
  PROVE  \E kind, action, to, actor :
           /\ Load(r, kind, action, to, actor)
           /\ kind = "transition" /\ action = "reopen" =>
                /\ row.reopens < MaxReopens
                /\ row.status = "Closed" => MayReopenClosed(actor)
<1>1. CASE \E u \in Users, a \in Actions : LoadTransition(r, u, a)
  BY <1>1 DEF LoadTransition
<1>2. CASE \E u \in Users : LoadPickup(r, u)
  BY <1>2 DEF LoadPickup
<1>3. CASE \E u \in Users, to \in Users : LoadAssign(r, u, to)
  BY <1>3 DEF LoadAssign
<1>4. CASE LoadMitigate(r)
  BY <1>4 DEF LoadMitigate
<1>5. CASE LoadEdit(r)
  BY <1>5 DEF LoadEdit
<1>6. CASE \E to \in Users : LoadAutoAssign(r, to)
  BY <1>6 DEF LoadAutoAssign
<1>7. QED
  BY <1>1, <1>2, <1>3, <1>4, <1>5, <1>6 DEF Begin

(* The second half: one row written, which follows from the copy.         *)
LEMMA SaveWrites ==
  ASSUME IInv, NEW r \in Requests, Save(r), ~SaveError(r)
  PROVE  /\ req[r].pc = "loaded"
         /\ Write(r, row')
         /\ Wrote(req[r], row')
<1> DEFINE t == req[r].copy
<1>0. req[r].pc = "loaded"
  BY DEF Save, SaveTransition, SaveOwnership, SaveMitigate, SaveEdit,
         SaveAutoAssign, SaveError, Loaded
<1>1. t \in Rows /\ \A now \in Stamp(r) : now \in Nat
  BY <1>0, LoadedFacts DEF RowOK
<1>2. CASE SaveTransition(r)
  <2>1. PICK final \in nextStatus(t.status, req[r].action), now \in Stamp(r) :
          Write(r, Moved(t, req[r].action, final, now))
    BY <1>2 DEF SaveTransition
  <2>2. row' = Moved(t, req[r].action, final, now) /\ now \in Nat
    BY <1>1, <2>1 DEF Write
  <2>3. QED
    BY <1>0, <1>2, <2>1, <2>2 DEF SaveTransition, Loaded, Wrote
<1>3. CASE SaveOwnership(r)
  <2>1. PICK now \in Stamp(r),
             final \in IF t.status = "New" THEN nextStatus(t.status, req[r].action)
                                           ELSE {t.status} :
          Write(r, [t EXCEPT !.assignee = req[r].to, !.status = final,
                             !.acked = IF t.acked = None THEN now ELSE t.acked])
    BY <1>3 DEF SaveOwnership
  <2>2. final = IF t.status = "New" THEN "InProgress" ELSE t.status
    <3>1. CASE t.status = "New"
      BY <2>1, <3>1, NextStatusCases
    <3>2. CASE t.status # "New"
      BY <2>1, <3>2
    <3>3. QED
      BY <3>1, <3>2
  <2>3. row' = [t EXCEPT !.assignee = req[r].to, !.status = final,
                         !.acked = IF t.acked = None THEN now ELSE t.acked]
    BY <2>1 DEF Write
  <2>4. /\ row'.status = final /\ row'.resolved = t.resolved
        /\ row'.acked = (IF t.acked = None THEN now ELSE t.acked)
        /\ row'.notified = t.notified /\ row'.reopens = t.reopens
    BY <1>1, <2>3 DEF Rows
  <2>5. row'.acked \in Nat /\ (t.acked # None => row'.acked = t.acked)
    BY <1>1, <2>4, ConstantsAssumption DEF Rows, Time
  <2>6. Write(r, row') /\ req[r].kind = "own"
    BY <1>3, <2>1, <2>3 DEF SaveOwnership, Loaded
  <2>7. QED
    BY <1>0, <2>2, <2>4, <2>5, <2>6 DEF Wrote
<1>4. CASE SaveMitigate(r)
  <2>1. PICK now \in Stamp(r) : Write(r, [t EXCEPT !.mitigated = now])
    BY <1>4 DEF SaveMitigate
  <2>2. QED
    BY <1>0, <1>1, <1>4, <2>1 DEF SaveMitigate, Loaded, Write, Wrote, Rows
<1>5. CASE SaveEdit(r)
  BY <1>0, <1>1, <1>5 DEF SaveEdit, Loaded, Write, Wrote
<1>6. CASE SaveAutoAssign(r)
  BY <1>0, <1>1, <1>6 DEF SaveAutoAssign, Loaded, Write, Wrote, Rows
<1>7. QED
  BY <1>2, <1>3, <1>4, <1>5, <1>6 DEF Save

LEMMA InitSerialInv == TInit => SerialInv
<1> SUFFICES ASSUME TInit PROVE SerialInv
  OBVIOUS
<1>1. IInv
  BY InitIInv DEF TInit
<1>2. Idle \in Held
  BY ConstantsAssumption DEF Idle, Held, Kinds, NewRow, Rows, Time, Statuses
<1>3. TTypeOK
  BY <1>2, ConstantsAssumption DEF TInit, TTypeOK, Trails, Statuses
<1>4. OneWriter /\ EntitledInFlight
  BY DEF TInit, Init, OneWriter, Busy, EntitledInFlight, Loaded, Idle
<1>5. CycleInv
  BY DEF TInit, CycleInv
<1>6. LogInv
  <2>1. row.reopens <= MaxReopens
    BY ConstantsAssumption DEF TInit, Init, NewRow
  <2>2. Replayed(trail, row)
    BY DEF TInit, Init, Replayed, NewRow
  <2>3. QED
    BY <2>1, <2>2 DEF TInit, LogInv
<1>7. QED
  BY <1>1, <1>3, <1>4, <1>5, <1>6 DEF SerialInv

LEMMA BeginSerialInv ==
  ASSUME ~Overlap, SerialInv, IInv', NEW r \in Requests, TBegin(r)
  PROVE  SerialInv'
<1>1. PICK kind, action, to, actor :
        /\ Load(r, kind, action, to, actor)
        /\ kind = "transition" /\ action = "reopen" =>
             /\ row.reopens < MaxReopens
             /\ row.status = "Closed" => MayReopenClosed(actor)
  BY BeginLoads DEF TBegin
<1> DEFINE q == [ pc |-> "loaded", kind |-> kind, action |-> action, to |-> to,
                  actor |-> actor, copy |-> row, at |-> clock ]
<1>2. /\ row' = row /\ req' = [req EXCEPT ![r] = q]
      /\ owed' = owed /\ trail' = trail /\ crashes' = crashes
      /\ req \in [Requests -> Held]
  BY <1>1 DEF Load, TBegin, SerialInv, IInv, TypeOK
<1>3. \A x \in Requests : owed[x] = Idle /\ req[x].pc = "idle"
  BY <1>1 DEF Load, TBegin, NothingOwed, Quiescent
<1>4. \A x \in Requests : x # r => req'[x] = req[x] /\ req[x].pc # "loaded"
  BY <1>2, <1>3
<1>5. req'[r] = q
  BY <1>2
<1>6. TTypeOK'
  BY <1>2 DEF SerialInv, TTypeOK
<1>7. OneWriter'
  BY <1>2, <1>3, <1>4, <1>5 DEF OneWriter, Busy
<1>8. EntitledInFlight'
  BY <1>1, <1>2, <1>4, <1>5 DEF EntitledInFlight, Loaded, MayReopenClosed
<1>9. CycleInv' /\ LogInv'
  BY <1>2, <1>3 DEF SerialInv, CycleInv, LogInv, NothingOwed, Replayed
<1>10. QED
  BY <1>6, <1>7, <1>8, <1>9 DEF SerialInv

(* The row a write leaves, column by column: what a transition may do.    *)
LEMMA MovedColumns ==
  ASSUME NEW q, NEW t, q.copy \in Rows, q.kind = "transition", Wrote(q, t)
  PROVE  /\ t.acked = q.copy.acked
         /\ \/ /\ q.copy.status = "New" /\ t.status = "InProgress"
               /\ q.action \in {"assign", "pickup"}
               /\ t.resolved = q.copy.resolved /\ t.reopens = q.copy.reopens
               /\ t.notified = q.copy.notified
               /\ nextStatus(q.copy.status, q.action) = {"InProgress"}
            \/ /\ q.copy.status = "InProgress" /\ t.status = "Resolved"
               /\ q.action = "resolve"
               /\ t.resolved \in Nat /\ t.reopens = q.copy.reopens
               /\ t.notified = q.copy.notified
               /\ nextStatus(q.copy.status, q.action) = {"Resolved"}
            \/ /\ q.copy.status = "InProgress" /\ t.status = "Closed"
               /\ q.action = "reject"
               /\ t.resolved = q.copy.resolved /\ t.reopens = q.copy.reopens
               /\ t.notified = q.copy.notified
               /\ nextStatus(q.copy.status, q.action) = {"Closed"}
            \/ /\ q.copy.status = "Resolved" /\ t.status = "Closed"
               /\ q.action = "confirm"
               /\ t.resolved = q.copy.resolved /\ t.reopens = q.copy.reopens
               /\ t.notified = q.copy.notified
               /\ nextStatus(q.copy.status, q.action) = {"Closed"}
            \/ /\ q.copy.status \in {"Resolved", "Closed"} /\ t.status = "InProgress"
               /\ q.action = "reopen"
               /\ t.resolved = None /\ t.reopens = q.copy.reopens + 1
               /\ t.notified = None
               /\ nextStatus(q.copy.status, q.action) = {"InProgress"}
<1> DEFINE s == q.copy.status
           a == q.action
<1>1. PICK final \in nextStatus(s, a), now \in Nat :
        t = Moved(q.copy, a, final, now)
  BY DEF Wrote
<1>2. \A f \in nextStatus(s, a) :
        \/ s = "New" /\ a \in {"assign", "pickup"} /\ f = "InProgress"
        \/ s = "InProgress" /\ a = "resolve" /\ f = "Resolved"
        \/ s = "InProgress" /\ a = "reject" /\ f = "Closed"
        \/ s = "Resolved" /\ a = "confirm" /\ f = "Closed"
        \/ s \in {"Resolved", "Closed"} /\ a = "reopen" /\ f = "InProgress"
  BY NextStatusCases
<1>3. nextStatus(s, a) = {final}
  BY <1>2
<1>4. /\ t.status = final /\ t.acked = q.copy.acked
      /\ final = "Resolved" => t.resolved = now /\ t.reopens = q.copy.reopens
                                 /\ t.notified = q.copy.notified
      /\ final # "Resolved" /\ a = "reopen" =>
           t.resolved = None /\ t.reopens = q.copy.reopens + 1 /\ t.notified = None
      /\ final # "Resolved" /\ a # "reopen" =>
           t.resolved = q.copy.resolved /\ t.reopens = q.copy.reopens
             /\ t.notified = q.copy.notified
  BY <1>1 DEF Moved, Rows
<1>5. QED
  BY <1>1, <1>2, <1>3, <1>4

(* The write: the copy was the row, so every column follows from the row. *)
LEMMA SaveSerialInv ==
  ASSUME SerialInv, IInv', NEW r \in Requests, TSave(r)
  PROVE  SerialInv'
<1> DEFINE q == req[r]
<1>0. IInv /\ TTypeOK /\ OneWriter /\ CycleInv /\ LogInv /\ EntitledInFlight
  BY DEF SerialInv
<1>1. q.pc = "loaded" /\ Write(r, row') /\ Wrote(q, row')
  BY <1>0, SaveWrites DEF TSave
<1>2. /\ req' = [req EXCEPT ![r] = Idle] /\ owed' = [owed EXCEPT ![r] = q]
      /\ crashes' = crashes
      /\ trail' = IF q.action = "reopen"
                  THEN [trail EXCEPT !.alerts = 0, !.drafts = 0] ELSE trail
  BY <1>1 DEF Write, TSave
<1>3. /\ req \in [Requests -> Held] /\ owed \in [Requests -> Held]
      /\ trail \in Trails /\ row \in Rows /\ q \in Held
  BY <1>0 DEF IInv, TypeOK, TTypeOK
<1>4. q.copy = row /\ owed[r] = Idle
  BY <1>0, <1>1 DEF OneWriter
<1>5. \A x \in Requests : x # r => req[x].pc # "loaded" /\ owed[x] = Idle
  BY <1>0, <1>1 DEF OneWriter, Busy
<1>6. req'[r] = Idle /\ owed'[r] = q /\ q # Idle
  BY <1>1, <1>2, <1>3 DEF Idle
<1>7. \A x \in Requests : x # r => req'[x] = req[x] /\ owed'[x] = owed[x]
  BY <1>2, <1>3
<1>8. Idle.pc = "idle"
  BY DEF Idle
<1>9. /\ trail'.status = trail.status /\ trail'.acked = trail.acked
      /\ trail'.resolved = trail.resolved /\ trail'.reopens = trail.reopens
      /\ q.action = "reopen" => trail'.alerts = 0 /\ trail'.drafts = 0
      /\ q.action # "reopen" => trail'.alerts = trail.alerts
                                  /\ trail'.drafts = trail.drafts
  BY <1>2, <1>3 DEF Trails
<1>10. TTypeOK'
  <2>1. trail' \in Trails
    <3>1. CASE q.action = "reopen"
      <4>1. trail' = [trail EXCEPT !.alerts = 0, !.drafts = 0] /\ 0 \in 0..2
        BY <1>2, <3>1
      <4>2. QED
        BY <1>3, <4>1 DEF Trails
    <3>2. CASE q.action # "reopen"
      BY <1>2, <1>3, <3>2
    <3>3. QED
      BY <3>1, <3>2
  <2>2. QED
    BY <1>0, <1>2, <1>3, <2>1 DEF TTypeOK
<1>11. OneWriter'
  BY <1>5, <1>6, <1>7, <1>8 DEF OneWriter, Busy
<1>12. EntitledInFlight'
  BY <1>5, <1>6, <1>7, <1>8 DEF EntitledInFlight, Loaded
<1>13. CycleInv' /\ row'.reopens <= MaxReopens
  <2>1. CASE q.kind = "transition"
    <3>1. q.action = "reopen" => row.reopens < MaxReopens
      BY <1>0, <1>1, <2>1 DEF EntitledInFlight, Loaded
    <3>2. row'.reopens <= MaxReopens
      BY <1>0, <1>1, <1>3, <1>4, <2>1, <3>1, MovedColumns, ConstantsAssumption
      DEF LogInv, Rows
    <3>3. trail'.alerts \in {0, 1} /\ trail'.drafts \in {0, 1}
      BY <1>0, <1>9 DEF CycleInv
    <3>4. trail'.alerts = 1 => row'.notified # None
      BY <1>0, <1>1, <1>3, <1>4, <1>9, <2>1, MovedColumns DEF CycleInv
    <3>5. row'.status \in {"New", "InProgress"} => trail'.drafts = 0
      BY <1>0, <1>1, <1>3, <1>4, <1>9, <2>1, MovedColumns DEF CycleInv
    <3>6. DraftDue(q) => trail'.drafts = 0 /\ row'.status = "Resolved"
      <4>1. DraftDue(q) => /\ row.status = "InProgress" /\ row'.status = "Resolved"
                           /\ q.action = "resolve"
        <5>1. DraftDue(q) => "Resolved" \in nextStatus(row.status, q.action)
          BY <1>4 DEF DraftDue
        <5>2. DraftDue(q) => row.status = "InProgress" /\ q.action = "resolve"
          BY <5>1, NextStatusCases
        <5>3. q.action = "resolve" => row'.status = "Resolved"
          BY <1>1, <1>3, <1>4, <2>1, MovedColumns
        <5>4. QED
          BY <5>2, <5>3
      <4>2. QED
        BY <1>0, <1>9, <4>1 DEF CycleInv
    <3>7. QED
      BY <1>5, <1>6, <1>7, <3>2, <3>3, <3>4, <3>5, <3>6 DEF CycleInv
  <2>2. CASE q.kind # "transition"
    <3>1. /\ row'.notified = row.notified /\ row'.reopens = row.reopens
          /\ row'.status = row.status
               \/ (row.status = "New" /\ row'.status = "InProgress")
      BY <1>1, <1>4, <2>2 DEF Wrote
    <3>2. trail'.alerts \in {0, 1} /\ trail'.drafts \in {0, 1}
      BY <1>0, <1>9 DEF CycleInv
    <3>3. /\ trail'.alerts = 1 => row'.notified # None
          /\ row'.status \in {"New", "InProgress"} => trail'.drafts = 0
      BY <1>0, <1>9, <3>1 DEF CycleInv
    <3>4. QED
      BY <1>0, <1>5, <1>6, <1>7, <2>2, <3>1, <3>2, <3>3
      DEF CycleInv, DraftDue, LogInv
  <2>3. QED
    BY <2>1, <2>2
<1>14. LogInv'
  <2>1. crashes' = 0 => Replayed(trail', q.copy)
    BY <1>0, <1>2, <1>4, <1>5, <1>9 DEF LogInv, NothingOwed, Replayed
  <2>2. Wrote(q, row') /\ ~NothingOwed'
    BY <1>1, <1>6 DEF NothingOwed
  <2>3. \A x \in Requests : owed'[x] # Idle => x = r
    BY <1>5, <1>7
  <2>4. QED
    BY <1>6, <1>13, <2>1, <2>2, <2>3 DEF LogInv, Wrote, Replayed
<1>15. QED
  BY <1>10, <1>11, <1>12, <1>13, <1>14 DEF SerialInv

(* The announcements: only the log, and one request less in progress.     *)
LEMMA FinishSerialInv ==
  ASSUME SerialInv, IInv', NEW r \in Requests, NEW new,
         owed[r] # Idle, Finish(r, new), new \in Trails,
         CycleInv', crashes = 0 => Replayed(new, row)
  PROVE  SerialInv'
<1>1. /\ row' = row /\ req' = req /\ crashes' = crashes /\ trail' = new
      /\ owed' = [owed EXCEPT ![r] = Idle]
      /\ owed \in [Requests -> Held]
  BY DEF Finish, vars, SerialInv, TTypeOK
<1>2. Idle \in Held
  BY ConstantsAssumption DEF Idle, Held, Kinds, NewRow, Rows, Time, Statuses
<1>3. TTypeOK'
  BY <1>1, <1>2 DEF SerialInv, TTypeOK
<1>4. \A x \in Requests : owed'[x] = Idle
  <2>1. \A x \in Requests : x # r => owed[x] = Idle
    BY DEF SerialInv, OneWriter, Busy
  <2>2. QED
    BY <1>1, <2>1
<1>5. OneWriter'
  BY <1>1, <1>4 DEF SerialInv, OneWriter, Busy
<1>6. EntitledInFlight'
  BY <1>1 DEF SerialInv, EntitledInFlight, Loaded, MayReopenClosed
<1>7. LogInv'
  <2>1. crashes' = 0 => Replayed(trail, row)'
    BY <1>1 DEF Replayed
  <2>2. QED
    BY <1>1, <1>4, <2>1 DEF SerialInv, LogInv
<1>8. QED
  BY <1>3, <1>5, <1>6, <1>7 DEF SerialInv

LEMMA AnnounceTransitionSerialInv ==
  ASSUME SerialInv, IInv', NEW r \in Requests, AnnounceTransition(r)
  PROVE  SerialInv'
<1> DEFINE q == owed[r]
           t == q.copy
<1>0. /\ q.kind = "transition" /\ q # Idle /\ t \in Rows /\ row \in Rows
      /\ trail \in Trails /\ CycleInv /\ LogInv /\ MaxReopens \in Nat
  BY ConstantsAssumption
  DEF AnnounceTransition, SerialInv, IInv, TypeOK, TTypeOK, Idle, Held
<1>1. PICK final \in nextStatus(t.status, q.action) :
        Finish(r, [trail EXCEPT
          !.status = final,
          !.resolved = IF final = "Resolved" THEN TRUE
                       ELSE IF q.action = "reopen" THEN FALSE ELSE @,
          !.reopens = IF q.action = "reopen"
                      THEN OneMore(@, MaxReopens + 1) ELSE @,
          !.drafts = IF final = "Resolved" THEN OneMore(@, 2) ELSE @])
  BY DEF AnnounceTransition
<1> DEFINE resolved == IF final = "Resolved" THEN TRUE
                       ELSE IF q.action = "reopen" THEN FALSE ELSE trail.resolved
           reopens == IF q.action = "reopen"
                      THEN OneMore(trail.reopens, MaxReopens + 1) ELSE trail.reopens
           drafts == IF final = "Resolved" THEN OneMore(trail.drafts, 2) ELSE trail.drafts
           new == [trail EXCEPT !.status = final, !.resolved = resolved,
                                !.reopens = reopens, !.drafts = drafts]
<1>2. Finish(r, new)
  BY <1>1
<1>3. \/ t.status = "New" /\ q.action \in {"assign", "pickup"} /\ final = "InProgress"
      \/ t.status = "InProgress" /\ q.action = "resolve" /\ final = "Resolved"
      \/ t.status = "InProgress" /\ q.action = "reject" /\ final = "Closed"
      \/ t.status = "Resolved" /\ q.action = "confirm" /\ final = "Closed"
      \/ t.status \in {"Resolved", "Closed"} /\ q.action = "reopen" /\ final = "InProgress"
  BY <1>1, NextStatusCases
<1>4. /\ final \in Statuses /\ resolved \in BOOLEAN
      /\ reopens \in 0 .. MaxReopens + 1 /\ drafts \in 0..2
  <2>1. /\ trail.resolved \in BOOLEAN /\ trail.reopens \in 0 .. MaxReopens + 1
        /\ trail.drafts \in 0..2
    BY <1>0 DEF Trails
  <2>2. final \in Statuses /\ reopens \in 0 .. MaxReopens + 1 /\ drafts \in 0..2
    BY <1>0, <1>3, <2>1 DEF Statuses, OneMore
  <2>3. resolved \in BOOLEAN
    BY <2>1, Zenon
  <2>4. QED
    BY <2>2, <2>3
<1>5. new \in Trails
  BY <1>0, <1>4 DEF Trails
<1>6. /\ new.status = final /\ new.acked = trail.acked /\ new.resolved = resolved
      /\ new.reopens = reopens /\ new.drafts = drafts /\ new.alerts = trail.alerts
  BY <1>0 DEF Trails
<1>7. CycleInv'
  <2>1. /\ row' = row /\ trail' = new /\ owed' = [owed EXCEPT ![r] = Idle]
        /\ \A x \in Requests : x # r => owed[x] = Idle
    BY <1>0, <1>2 DEF Finish, vars, SerialInv, OneWriter, Busy
  <2>2. \A x \in Requests : owed'[x] = Idle
    BY <2>1 DEF SerialInv, TTypeOK
  <2>3. CASE final = "Resolved"
    <3>1. trail.drafts = 0 /\ row.status = "Resolved"
      BY <1>0, <1>1, <2>3 DEF CycleInv, DraftDue
    <3>2. drafts = 1
      BY <2>3, <3>1 DEF OneMore
    <3>3. QED
      BY <1>0, <1>6, <2>1, <2>2, <3>1, <3>2 DEF CycleInv
  <2>4. CASE final # "Resolved"
    <3>1. drafts = trail.drafts
      BY <2>4
    <3>2. QED
      BY <1>0, <1>6, <2>1, <2>2, <3>1 DEF CycleInv
  <2>5. QED
    BY <2>3, <2>4
<1>8. ASSUME crashes = 0 PROVE Replayed(new, row)
  <2>1. Replayed(trail, t) /\ Wrote(q, row) /\ row.reopens <= MaxReopens
    BY <1>0, <1>8 DEF LogInv
  <2>2. /\ trail.status = t.status /\ trail.acked = (t.acked # None)
        /\ trail.resolved = (t.resolved # None) /\ trail.reopens = t.reopens
    BY <2>1 DEF Replayed
  <2>3. new.status = row.status /\ row.acked = t.acked
    BY <1>0, <1>3, <1>6, <2>1, MovedColumns
  <2>4. new.acked = (row.acked # None)
    BY <1>6, <2>2, <2>3
  <2>5. /\ q.action = "reopen" => row.reopens = t.reopens + 1 /\ row.resolved = None
        /\ q.action # "reopen" => row.reopens = t.reopens
        /\ final = "Resolved" => row.resolved \in Nat
        /\ final # "Resolved" /\ q.action # "reopen" => row.resolved = t.resolved
    BY <1>0, <1>3, <2>1, MovedColumns
  <2>6. new.reopens = row.reopens
    <3>1. CASE q.action = "reopen"
      <4>1. t.reopens \in Nat /\ t.reopens < MaxReopens + 1
        BY <1>0, <2>1, <2>5, <3>1 DEF Rows
      <4>2. reopens = t.reopens + 1
        BY <2>2, <3>1, <4>1 DEF OneMore
      <4>3. QED
        BY <1>6, <2>5, <3>1, <4>2
    <3>2. CASE q.action # "reopen"
      BY <1>6, <2>2, <2>5, <3>2
    <3>3. QED
      BY <3>1, <3>2
  <2>7. new.resolved = (row.resolved # None)
    <3>1. CASE final = "Resolved"
      BY <1>6, <2>5, <3>1, ConstantsAssumption
    <3>2. CASE final # "Resolved" /\ q.action = "reopen"
      BY <1>6, <2>5, <3>2
    <3>3. CASE final # "Resolved" /\ q.action # "reopen"
      BY <1>6, <2>2, <2>5, <3>3
    <3>4. QED
      BY <3>1, <3>2, <3>3
  <2>8. QED
    BY <2>3, <2>4, <2>6, <2>7 DEF Replayed
<1>9. QED
  BY <1>0, <1>2, <1>5, <1>7, <1>8, FinishSerialInv

(* Taking ownership logs what SaveOwnership did to acked and status.      *)
LEMMA AnnounceOwnershipSerialInv ==
  ASSUME SerialInv, IInv', NEW r \in Requests, AnnounceOwnership(r)
  PROVE  SerialInv'
<1> DEFINE q == owed[r]
           t == q.copy
           status == IF trail.status = "New" THEN "InProgress" ELSE trail.status
           new == [trail EXCEPT !.acked = TRUE, !.status = status]
<1>0. /\ q.kind = "own" /\ q # Idle /\ trail \in Trails /\ CycleInv /\ LogInv
      /\ Finish(r, new)
  BY DEF AnnounceOwnership, SerialInv, TTypeOK, Idle
<1>1. status \in Statuses
  BY <1>0 DEF Trails, Statuses
<1>2. new \in Trails
  BY <1>0, <1>1 DEF Trails
<1>3. /\ new.status = status /\ new.acked = TRUE /\ new.resolved = trail.resolved
      /\ new.reopens = trail.reopens /\ new.drafts = trail.drafts
      /\ new.alerts = trail.alerts
  BY <1>0 DEF Trails
<1>4. CycleInv'
  <2>1. /\ row' = row /\ trail' = new /\ owed' = [owed EXCEPT ![r] = Idle]
        /\ \A x \in Requests : x # r => owed[x] = Idle
    BY <1>0 DEF Finish, vars, SerialInv, OneWriter, Busy
  <2>2. \A x \in Requests : owed'[x] = Idle
    BY <2>1 DEF SerialInv, TTypeOK
  <2>3. QED
    BY <1>0, <1>3, <2>1, <2>2 DEF CycleInv
<1>5. ASSUME crashes = 0 PROVE Replayed(new, row)
  <2>1. Replayed(trail, t) /\ Wrote(q, row)
    BY <1>0, <1>5 DEF LogInv
  <2>2. /\ row.acked \in Nat /\ row.resolved = t.resolved /\ row.reopens = t.reopens
        /\ row.status = IF t.status = "New" THEN "InProgress" ELSE t.status
    BY <1>0, <2>1 DEF Wrote
  <2>3. (row.acked # None) = TRUE
    BY <2>2, ConstantsAssumption
  <2>4. /\ trail.status = t.status /\ trail.resolved = (t.resolved # None)
        /\ trail.reopens = t.reopens
    BY <2>1 DEF Replayed
  <2>5. new.status = row.status /\ new.reopens = row.reopens
    BY <1>3, <2>2, <2>4
  <2>6. new.acked = (row.acked # None) /\ new.resolved = (row.resolved # None)
    BY <1>3, <2>2, <2>3, <2>4
  <2>7. QED
    BY <2>5, <2>6 DEF Replayed
<1>6. QED
  BY <1>0, <1>2, <1>4, <1>5, FinishSerialInv

(* A mitigation, an edit or an auto_assign changed no stage the log has.  *)
LEMMA AnnounceOtherSerialInv ==
  ASSUME SerialInv, IInv', NEW r \in Requests, AnnounceOther(r)
  PROVE  SerialInv'
<1> DEFINE q == owed[r]
<1>0. /\ q.kind \in {"mitigate", "edit", "auto_assign"} /\ q # Idle
      /\ trail \in Trails /\ CycleInv /\ LogInv /\ Finish(r, trail)
  BY DEF AnnounceOther, SerialInv, TTypeOK, Idle
<1>1. CycleInv'
  <2>1. /\ row' = row /\ trail' = trail /\ owed' = [owed EXCEPT ![r] = Idle]
        /\ \A x \in Requests : x # r => owed[x] = Idle
    BY <1>0 DEF Finish, vars, SerialInv, OneWriter, Busy
  <2>2. \A x \in Requests : owed'[x] = Idle
    BY <2>1 DEF SerialInv, TTypeOK
  <2>3. QED
    BY <1>0, <2>1, <2>2 DEF CycleInv
<1>2. ASSUME crashes = 0 PROVE Replayed(trail, row)
  <2>1. Replayed(trail, q.copy) /\ Wrote(q, row)
    BY <1>0, <1>2 DEF LogInv
  <2>2. /\ row.acked = q.copy.acked /\ row.status = q.copy.status
        /\ row.resolved = q.copy.resolved /\ row.reopens = q.copy.reopens
    BY <1>0, <2>1 DEF Wrote
  <2>3. QED
    BY <2>1, <2>2 DEF Replayed
<1>3. QED
  BY <1>0, <1>1, <1>2, FinishSerialInv

LEMMA TClaimSerialInv ==
  ASSUME ~Overlap, SerialInv, IInv', TClaimBreach
  PROVE  SerialInv'
<1>0. /\ row \in Rows /\ trail \in Trails /\ clock \in Nat
      /\ CycleInv /\ LogInv
  BY DEF SerialInv, IInv, TypeOK, TTypeOK
<1>1. /\ row' = [row EXCEPT !.notified = clock] /\ req' = req /\ owed' = owed
      /\ trail' = [trail EXCEPT !.alerts = OneMore(@, 2)] /\ crashes' = crashes
      /\ row.notified = None
      /\ \A x \in Requests : req[x].pc = "idle" /\ owed[x] = Idle
  BY DEF TClaimBreach, ClaimBreach, Quiescent, NothingOwed
<1>2. trail.alerts = 0
  BY <1>0, <1>1 DEF CycleInv
<1>3. /\ row'.status = row.status /\ row'.acked = row.acked
      /\ row'.resolved = row.resolved /\ row'.reopens = row.reopens
      /\ row'.notified = clock
  BY <1>0, <1>1 DEF Rows
<1>4. trail' = [trail EXCEPT !.alerts = 1]
  BY <1>1, <1>2 DEF OneMore
<1>5. /\ trail'.status = trail.status /\ trail'.acked = trail.acked
      /\ trail'.resolved = trail.resolved /\ trail'.reopens = trail.reopens
      /\ trail'.alerts = 1 /\ trail'.drafts = trail.drafts
  BY <1>0, <1>4 DEF Trails
<1>6. TTypeOK'
  <2>1. trail' \in Trails
    BY <1>0, <1>4 DEF Trails
  <2>2. QED
    BY <1>1, <2>1 DEF SerialInv, TTypeOK
<1>7. OneWriter' /\ EntitledInFlight'
  BY <1>1 DEF OneWriter, Busy, EntitledInFlight, Loaded
<1>8. CycleInv'
  BY <1>0, <1>1, <1>3, <1>5, ConstantsAssumption DEF CycleInv
<1>9. LogInv'
  <2>1. crashes' = 0 => Replayed(trail, row)
    BY <1>0, <1>1 DEF LogInv, NothingOwed
  <2>2. crashes' = 0 => Replayed(trail', row')
    BY <1>3, <1>5, <2>1 DEF Replayed
  <2>3. row'.reopens <= MaxReopens
    BY <1>0, <1>3 DEF LogInv
  <2>4. QED
    BY <1>1, <2>2, <2>3 DEF LogInv
<1>10. QED
  BY <1>6, <1>7, <1>8, <1>9 DEF SerialInv

(* The request is gone, with nothing written; a crash empties them all.   *)
LEMMA LossSerialInv ==
  ASSUME SerialInv, IInv',
         (\E r \in Requests : TSaveError(r)) \/ Crash
  PROVE  SerialInv'
<1>0. req \in [Requests -> Held] /\ owed \in [Requests -> Held] /\ Idle.pc = "idle"
  BY DEF SerialInv, IInv, TypeOK, TTypeOK, Idle
<1>1. CASE \E r \in Requests : TSaveError(r)
  <2>1. PICK r \in Requests : TSaveError(r)
    BY <1>1
  <2>2. /\ req' = [req EXCEPT ![r] = Idle] /\ row' = row
        /\ owed' = owed /\ trail' = trail /\ crashes' = crashes
    BY <2>1 DEF TSaveError, SaveError
  <2>3. \A x \in Requests : req'[x].pc = "loaded" => req'[x] = req[x]
    BY <1>0, <2>2
  <2>4. OneWriter' /\ EntitledInFlight'
    BY <2>2, <2>3 DEF SerialInv, OneWriter, Busy, EntitledInFlight, Loaded,
                      MayReopenClosed
  <2>5. QED
    BY <2>2, <2>4 DEF SerialInv, TTypeOK, CycleInv, LogInv, NothingOwed, Replayed
<1>2. CASE Crash
  <2>1. /\ req' = [r \in Requests |-> Idle] /\ owed' = [r \in Requests |-> Idle]
        /\ row' = row /\ trail' = trail /\ crashes' = crashes + 1
        /\ crashes \in Nat
    BY <1>2 DEF Crash, SerialInv, TTypeOK
  <2>2. Idle \in Held
    BY ConstantsAssumption DEF Idle, Held, Kinds, NewRow, Rows, Time, Statuses
  <2>3. TTypeOK'
    BY <2>1, <2>2 DEF SerialInv, TTypeOK
  <2>4. OneWriter' /\ EntitledInFlight'
    BY <1>0, <2>1 DEF OneWriter, Busy, EntitledInFlight, Loaded
  <2>5. CycleInv' /\ LogInv'
    BY <2>1 DEF SerialInv, CycleInv, LogInv
  <2>6. QED
    BY <2>3, <2>4, <2>5 DEF SerialInv
<1>3. QED
  BY <1>1, <1>2

LEMMA NextSerialInv ==
  ASSUME ~Overlap, SerialInv, [TNext]_tvars
  PROVE  SerialInv'
<1>0. IInv'
  BY TrailIInv DEF SerialInv
<1>1. ASSUME NEW r \in Requests, TBegin(r) PROVE SerialInv'
  BY <1>0, <1>1, BeginSerialInv
<1>2. ASSUME NEW r \in Requests, TSave(r) PROVE SerialInv'
  BY <1>0, <1>2, SaveSerialInv
<1>3. ASSUME NEW r \in Requests, TSaveError(r) PROVE SerialInv'
  BY <1>0, <1>3, LossSerialInv
<1>4. ASSUME NEW r \in Requests, AnnounceTransition(r) PROVE SerialInv'
  BY <1>0, <1>4, AnnounceTransitionSerialInv
<1>5. ASSUME NEW r \in Requests, AnnounceOwnership(r) PROVE SerialInv'
  BY <1>0, <1>5, AnnounceOwnershipSerialInv
<1>6. ASSUME NEW r \in Requests, AnnounceOther(r) PROVE SerialInv'
  BY <1>0, <1>6, AnnounceOtherSerialInv
<1>7. CASE TClaimBreach
  BY <1>0, <1>7, TClaimSerialInv
<1>8. CASE TTick \/ UNCHANGED tvars
  <2>1. /\ row' = row /\ req' = req /\ owed' = owed /\ trail' = trail
        /\ crashes' = crashes
    BY <1>8 DEF TTick, Tick, tvars
  <2>2. QED
    BY <1>0, <2>1
    DEF SerialInv, TTypeOK, OneWriter, Busy, EntitledInFlight, Loaded, CycleInv,
        LogInv, NothingOwed, Replayed
<1>9. CASE Crash
  BY <1>0, <1>9, LossSerialInv
<1>10. QED
  BY <1>1, <1>2, <1>3, <1>4, <1>5, <1>6, <1>7, <1>8, <1>9 DEF TNext

(* With one writer of the row at a time, a copy in flight is the row, the *)
(* log explains it, and what a cycle owes is done once.                   *)
THEOREM AlwaysSerial ==
  ASSUME ~Overlap
  PROVE  TSpec => []SerialInv
<1>1. TInit => SerialInv
  BY InitSerialInv
<1>2. SerialInv /\ [TNext]_tvars => SerialInv'
  BY NextSerialInv
<1>3. QED
  BY <1>1, <1>2, PTL DEF TSpec

(* One breach alert and one KB draft from one reopening to the next,      *)
(* crashes between a save and what follows it notwithstanding             *)
(* (SLABreachChecker.ProcessOne, KBService.Propose).                      *)
THEOREM AlwaysOncePerCycle ==
  ASSUME ~Overlap
  PROVE  TSpec => []OncePerCycle
<1>1. SerialInv => OncePerCycle
  BY DEF SerialInv, CycleInv, OncePerCycle, OneAlertPerBreach, OneDraftPerResolution
<1>2. QED
  BY <1>1, AlwaysSerial, PTL

(* Replaying the log yields the stage columns of the row, whoever posts    *)
(* what to the transition endpoint (db/backfill.go).                       *)
THEOREM LogAlwaysReplays ==
  ASSUME ~Overlap
  PROVE  TSpec => []LogReplaysRow
<1>1. SerialInv => LogReplaysRow
  BY DEF SerialInv, LogInv, LogReplaysRow, Replayed
<1>2. QED
  BY <1>1, AlwaysSerial, PTL

-----------------------------------------------------------------------------
(* The row implements the documented life cycle (TicketLifecycle), and     *)
(* what a step may do to a Closed ticket.                                  *)

(* A step changes the row by a save, or changes the breach flag only.      *)
LEMMA RowSteps ==
  ASSUME SerialInv, [TNext]_tvars
  PROVE  \/ \E r \in Requests :
              /\ TSave(r) /\ req[r].pc = "loaded" /\ req[r].copy = row
              /\ Write(r, row') /\ Wrote(req[r], row')
         \/ /\ row'.status = row.status /\ row'.acked = row.acked
            /\ row'.resolved = row.resolved /\ row'.reopens = row.reopens
<1>1. ASSUME NEW r \in Requests, TSave(r)
      PROVE  /\ req[r].pc = "loaded" /\ req[r].copy = row
             /\ Write(r, row') /\ Wrote(req[r], row')
  BY <1>1, SaveWrites DEF TSave, SerialInv, OneWriter
<1>2. ASSUME NEW r \in Requests,
             \/ TBegin(r) \/ TSaveError(r) \/ AnnounceTransition(r)
             \/ AnnounceOwnership(r) \/ AnnounceOther(r)
      PROVE  row' = row
  <2>1. CASE TBegin(r)
    BY <2>1, BeginLoads DEF TBegin, Load
  <2>2. CASE TSaveError(r)
    BY <2>2 DEF TSaveError, SaveError
  <2>3. CASE AnnounceTransition(r) \/ AnnounceOwnership(r) \/ AnnounceOther(r)
    BY <2>3 DEF AnnounceTransition, AnnounceOwnership, AnnounceOther, Finish, vars
  <2>4. QED
    BY <1>2, <2>1, <2>2, <2>3
<1>3. CASE TClaimBreach
  BY <1>3 DEF TClaimBreach, ClaimBreach, SerialInv, IInv, TypeOK, Rows
<1>4. CASE TTick \/ Crash \/ UNCHANGED tvars
  BY <1>4 DEF TTick, Tick, Crash, tvars
<1>5. QED
  BY <1>1, <1>2, <1>3, <1>4 DEF TNext

(* A Closed ticket leaves Closed only by the reopening of its creator or   *)
(* of a SystemAdmin (service/ticket.go, Transition).                       *)
THEOREM ReopenAlwaysAuthorised ==
  ASSUME ~Overlap
  PROVE  TSpec => ReopenAuthorised
<1>1. ASSUME SerialInv, [TNext]_tvars,
             row.status = "Closed", row'.status # "Closed"
      PROVE  \E r \in Requests :
               /\ Loaded(r, "transition") /\ req'[r].pc = "idle"
               /\ req[r].action = "reopen" /\ MayReopenClosed(req[r].actor)
  <2>1. PICK r \in Requests :
          /\ req[r].pc = "loaded" /\ req[r].copy = row
          /\ Write(r, row') /\ Wrote(req[r], row')
    BY <1>1, RowSteps
  <2>2. row \in Rows /\ req \in [Requests -> Held]
    BY <1>1 DEF SerialInv, IInv, TypeOK
  <2>3. req[r].kind = "transition"
    BY <1>1, <2>1 DEF Wrote
  <2>4. req[r].action = "reopen"
    BY <1>1, <2>1, <2>2, <2>3, MovedColumns
  <2>5. Loaded(r, "transition") /\ MayReopenClosed(req[r].actor)
    BY <1>1, <2>1, <2>3, <2>4 DEF SerialInv, EntitledInFlight, Loaded
  <2>6. req'[r].pc = "idle"
    BY <2>1, <2>2 DEF Write, Idle
  <2>7. QED
    BY <2>4, <2>5, <2>6
<1>2. SerialInv /\ [TNext]_tvars =>
        [row.status = "Closed" /\ row'.status # "Closed" =>
           \E r \in Requests :
             /\ Loaded(r, "transition") /\ req'[r].pc = "idle"
             /\ req[r].action = "reopen" /\ MayReopenClosed(req[r].actor)]_vars
  BY <1>1
<1>3. QED
  BY <1>2, AlwaysSerial, PTL DEF TSpec, ReopenAuthorised

LEMMA LifecycleInit == TInit => L!Init
  BY DEF TInit, Init, NewRow, StageOf, L!Init

LEMMA LifecycleStep ==
  ASSUME FormsOnly, SerialInv, OInv, [TNext]_tvars
  PROVE  [L!Next]_(L!lvars)
<1>1. ASSUME row'.status = row.status, row'.acked = row.acked,
             row'.resolved = row.resolved, row'.reopens = row.reopens
      PROVE  UNCHANGED L!lvars
  BY <1>1 DEF L!lvars, StageOf
<1>2. ASSUME NEW r \in Requests, req[r].pc = "loaded", req[r].copy = row,
             Wrote(req[r], row')
      PROVE  [L!Next]_(L!lvars)
  <2>1. /\ row \in Rows /\ StampsFit(row) /\ Owned(row) /\ HeldOK(req[r])
    BY <1>2 DEF OInv, IInv, RowOK
  <2>2. CASE req[r].kind = "transition"
    <3>1. req[r].action \notin {"assign", "pickup"}
      BY <1>2, <2>1, <2>2 DEF HeldOK, FormsOnly
    <3>2. row'.acked = row.acked
      BY <1>2, <2>1, <2>2, MovedColumns
    <3>3. \/ /\ row.status = "InProgress" /\ row'.status = "Resolved"
             /\ row'.reopens = row.reopens
          \/ /\ row.status = "InProgress" /\ row'.status = "Closed"
             /\ row'.resolved = row.resolved /\ row'.reopens = row.reopens
          \/ /\ row.status = "Resolved" /\ row'.status = "Closed"
             /\ row'.resolved = row.resolved /\ row'.reopens = row.reopens
          \/ /\ row.status \in {"Resolved", "Closed"} /\ row'.status = "InProgress"
             /\ row'.reopens = row.reopens + 1
      BY <1>2, <2>1, <2>2, <3>1, MovedColumns
    <3>4. CASE row.status = "InProgress" /\ row'.status = "Resolved"
      BY <3>2, <3>3, <3>4 DEF StageOf, L!Next, L!Resolve, L!Move
    <3>5. CASE row.status = "InProgress" /\ row'.status = "Closed"
      BY <2>1, <3>2, <3>3, <3>5 DEF StampsFit, StageOf, L!Next, L!Reject, L!Move
    <3>6. CASE row.status = "Resolved" /\ row'.status = "Closed"
      BY <2>1, <3>2, <3>3, <3>6 DEF StampsFit, StageOf, L!Next, L!Confirm, L!Move
    <3>7. CASE row.status \in {"Resolved", "Closed"} /\ row'.status = "InProgress"
      BY <3>2, <3>3, <3>7 DEF StageOf, L!Next, L!Reopen
    <3>8. QED
      BY <3>3, <3>4, <3>5, <3>6, <3>7
  <2>3. CASE req[r].kind = "own"
    <3>1. /\ row'.acked \in Nat /\ (row.acked # None => row'.acked = row.acked)
          /\ row'.status = IF row.status = "New" THEN "InProgress" ELSE row.status
          /\ row'.resolved = row.resolved /\ row'.reopens = row.reopens
      BY <1>2, <2>3 DEF Wrote
    <3>2. CASE row.status = "New"
      BY <3>1, <3>2 DEF StageOf, L!Next, L!TakeOwnership
    <3>3. CASE row.status # "New"
      BY <1>1, <2>1, <3>1, <3>3 DEF Owned
    <3>4. QED
      BY <3>2, <3>3
  <2>4. CASE req[r].kind \notin {"transition", "own"}
    BY <1>1, <1>2, <2>4 DEF Wrote
  <2>5. QED
    BY <2>2, <2>3, <2>4
<1>3. QED
  BY <1>1, <1>2, RowSteps

(* The row implements the life cycle its readers know: it takes only the   *)
(* documented transitions, is acknowledged once and counts every           *)
(* reopening (statemachine.go, stagebar.go).                               *)
THEOREM ImplementsLifecycle ==
  ASSUME ~Overlap, FormsOnly
  PROVE  TSpec => Lifecycle
<1>1. TInit => L!Init
  BY LifecycleInit
<1>2. TInit => OInv
  BY InitIInv DEF TInit, OInv, Init, Owned, NewRow, Idle
<1>3. OInv /\ [TNext]_tvars => OInv'
  BY TrailOInv
<1>4. SerialInv /\ OInv /\ [TNext]_tvars => [L!Next]_(L!lvars)
  BY LifecycleStep
<1>5. QED
  BY <1>1, <1>2, <1>3, <1>4, AlwaysSerial, PTL DEF TSpec, Lifecycle, L!Spec

-----------------------------------------------------------------------------
(* The sparklines.  Days are quotients, so what the code's window and its  *)
(* buckets agree on is arithmetic about division, for every length of day  *)
(* and number of days shown.                                               *)

LEMMA Multiples ==
  ASSUME NEW d \in Nat \ {0}, NEW p \in Int, NEW q \in Int
  PROVE  /\ d * p \in Int /\ d * q \in Int
         /\ d * (p - q) = d * p - d * q
         /\ p < q => d * p + d <= d * q
  OBVIOUS

LEMMA DivisionBounds ==
  ASSUME NEW a \in Int, NEW d \in Nat \ {0}
  PROVE  /\ a \div d \in Int
         /\ d * (a \div d) <= a /\ a < d * (a \div d) + d
  OBVIOUS

LEMMA DivisionUnique ==
  ASSUME NEW a \in Int, NEW d \in Nat \ {0}, NEW q \in Int,
         d * q <= a, a < d * q + d
  PROVE  a \div d = q
  OBVIOUS

(* Whole days later, the date is as many days later.                       *)
LEMMA DivisionShift ==
  ASSUME NEW a \in Int, NEW d \in Nat \ {0}, NEW i \in Int
  PROVE  (a - d * i) \div d = (a \div d) - i
<1> DEFINE q == a \div d
<1>1. q \in Int /\ d * q <= a /\ a < d * q + d
  BY DivisionBounds
<1>2. d * (q - i) = d * q - d * i /\ d * q \in Int /\ d * i \in Int
  BY <1>1, Multiples
<1>3. d * (q - i) <= a - d * i /\ a - d * i < d * (q - i) + d
  BY <1>1, <1>2
<1>4. q - i \in Int /\ a - d * i \in Int
  BY <1>1, <1>2
<1>5. QED
  BY <1>3, <1>4, DivisionUnique

LEMMA DivisionMonotone ==
  ASSUME NEW a \in Int, NEW b \in Int, NEW d \in Nat \ {0}, a <= b
  PROVE  a \div d <= b \div d
<1> DEFINE p == a \div d
           q == b \div d
<1>1. p \in Int /\ q \in Int /\ d * p <= a /\ b < d * q + d
  BY DivisionBounds
<1>2. q < p => d * q + d <= d * p
  BY <1>1, Multiples
<1>3. d * p \in Int /\ d * q \in Int
  BY <1>1, Multiples
<1>4. QED
  BY <1>1, <1>2, <1>3

LEMMA DateShift ==
  ASSUME NEW t \in Int, NEW i \in Int
  PROVE  Date(t - DayLen * i) = Date(t) - i /\ Date(t) \in Int
<1>1. DayLen \in Nat \ {0} /\ Epoch \in Int
  BY MetricsAssumption DEF Epoch
<1>2. DayLen * i \in Int
  BY <1>1
<1>3. (t - DayLen * i) + Epoch = (t + Epoch) - DayLen * i
  BY <1>1, <1>2
<1>4. t + Epoch \in Int
  BY <1>1
<1>5. /\ ((t + Epoch) - DayLen * i) \div DayLen = ((t + Epoch) \div DayLen) - i
      /\ (t + Epoch) \div DayLen \in Int
  BY <1>1, <1>4, DivisionShift, DivisionBounds
<1>6. QED
  BY <1>3, <1>5 DEF Date

(* The dates shown are the last Days ones.                                 *)
LEMMA DatesShown ==
  ASSUME clock \in Nat
  PROVE  dates = Date(clock) - Days + 1 .. Date(clock)
<1>1. Days \in Nat \ {0} /\ Date(clock) \in Int
  BY MetricsAssumption, DateShift
<1>2. \A i \in 0 .. Days - 1 : Date(clock - DayLen * i) = Date(clock) - i
  BY <1>1, DateShift
<1>3. ASSUME NEW x \in dates PROVE x \in Date(clock) - Days + 1 .. Date(clock)
  <2>1. PICK i \in 0 .. Days - 1 : x = Date(clock) - i
    BY <1>2, <1>3 DEF dates
  <2>2. QED
    BY <1>1, <2>1
<1>4. ASSUME NEW x \in Date(clock) - Days + 1 .. Date(clock) PROVE x \in dates
  <2>1. Date(clock) - x \in 0 .. Days - 1 /\ x = Date(clock) - (Date(clock) - x)
    BY <1>1
  <2>2. x = Date(clock - DayLen * (Date(clock) - x))
    BY <1>2, <2>1
  <2>3. QED
    BY <2>1, <2>2 DEF dates
<1>5. QED
  BY <1>3, <1>4

(* A ticket resolved on one of the days shown was fetched for it.          *)
LEMMA ShownIsFetched ==
  ASSUME clock \in Nat, NEW t, t.resolved \in Nat, t.resolved <= clock,
         Date(t.resolved) \in dates
  PROVE  fetched(t)
<1> DEFINE R == t.resolved
           from == clock - DayLen * Days
<1>1. DayLen \in Nat \ {0} /\ Days \in Nat \ {0} /\ DayLen * Days \in Nat
  BY MetricsAssumption
<1>2. Epoch \in Int
  BY <1>1 DEF Epoch
<1>3. Date(R) \in Int /\ Date(clock) \in Int /\ Date(from) = Date(clock) - Days
  <2>1. R \in Int /\ clock \in Int /\ Days \in Int /\ 0 \in Int
    BY <1>1
  <2>2. Date(R - DayLen * 0) = Date(R) - 0 /\ Date(R) \in Int
    BY <2>1, DateShift
  <2>3. Date(clock - DayLen * Days) = Date(clock) - Days /\ Date(clock) \in Int
    BY <2>1, DateShift
  <2>4. QED
    BY <2>2, <2>3
<1>4. Date(clock) - Days + 1 <= Date(R)
  BY <1>1, <1>3, DatesShown
<1>5. from <= R
  <2>1. from \in Int /\ from + Epoch \in Int /\ R + Epoch \in Int
    BY <1>1, <1>2
  <2>2. R < from => R + Epoch <= from + Epoch
    BY <1>2, <2>1
  <2>3. R < from => Date(R) <= Date(from)
    BY <1>1, <2>1, <2>2, DivisionMonotone DEF Date
  <2>4. QED
    BY <1>1, <1>3, <1>4, <2>1, <2>3
<1>6. R < clock + DayLen
  BY <1>1
<1>7. QED
  BY <1>5, <1>6, ConstantsAssumption DEF fetched, ListResolvedBetween

(* A ticket resolved on one of the days shown is in exactly that day's     *)
(* bucket, and no other ticket is in any (manager_handlers.go,             *)
(* computeMTTxTrend after ListResolvedBetween).                            *)
THEOREM TrendAlwaysWhole == TSpec => []TrendWhole
<1>1. ASSUME IInv PROVE TrendWhole
  <2>1. clock \in Nat /\ row \in Rows /\ Past(row, clock)
    BY <1>1 DEF IInv, TypeOK, RowOK
  <2>2. CASE row.resolved = None
    BY <2>2 DEF TrendWhole, computeMTTxTrend, fetched, ListResolvedBetween
  <2>3. CASE row.resolved # None
    <3>1. row.resolved \in Nat /\ row.resolved <= clock
      BY <2>1, <2>3 DEF Rows, Time, Past
    <3>2. computeMTTxTrend(row) = {Date(row.resolved)} \cap dates
      <4>1. Date(row.resolved) \in dates => fetched(row)
        BY <2>1, <3>1, ShownIsFetched
      <4>2. QED
        BY <4>1 DEF computeMTTxTrend
    <3>3. QED
      BY <2>1, <2>3, <3>2, DatesShown DEF TrendWhole
  <2>4. QED
    BY <2>2, <2>3
<1>2. IInv => TrendWhole
  BY <1>1
<1>3. QED
  BY <1>2, TrailConsistent, PTL
=============================================================================
