---------------------------- MODULE StageMetrics ----------------------------
(***************************************************************************)
(* What the manager dashboard computes from the stage columns of a ticket  *)
(* (internal/httpapi/manager_handlers.go: ticketMTTx, durationAvg,         *)
(* computeMTTxTrend), as operators on the row of module Ticket.            *)
(*                                                                         *)
(* Times count from the ticket's creation, which is 0; it was detected     *)
(* Lead units earlier (DetectedAt, which only an Agent backdates).         *)
(***************************************************************************)
EXTENDS Ticket, Integers

CONSTANTS
  Lead,    \* how long before its creation the ticket was detected
  DayLen,  \* clock units in a day
  Days     \* mttxTrendDays, the days the sparklines show

ASSUME MetricsAssumption ==
  Lead \in Nat /\ DayLen \in Nat \ {0} /\ Days \in Nat \ {0}

-----------------------------------------------------------------------------
(* The samples of one ticket: no element for a stage it has not reached.  *)

Sample(reached, duration) == IF reached THEN {duration} ELSE {}

MTTRFaulty(t) ==
  Sample(t.resolved # None /\ t.acked # None, t.resolved - t.acked)

(* From the mitigation, or from the acknowledgement when there was none.  *)
MTTR(t) ==
  IF t.mitigated # None
  THEN Sample(t.resolved # None, t.resolved - t.mitigated)
  ELSE Sample(t.resolved # None /\ t.acked # None, t.resolved - t.acked)

ticketMTTx(t) ==
  [ mttd |-> {0 - Lead},   \* DetectedAt.Sub(CreatedAt), as the code has it
    mtta |-> Sample(t.acked # None, t.acked + Lead),
    mttm |-> Sample(t.mitigated # None /\ t.acked # None, t.mitigated - t.acked),
    mttr |-> MTTR(t) ]

(* durationAvg.add: a negative sample is dropped.                         *)
add(samples) == {d \in samples : d >= 0}

-----------------------------------------------------------------------------
(* The sparklines: a query scoped to the window, then one bucket per UTC  *)
(* day.  The dashboard is opened at the clock's time; Epoch keeps the     *)
(* days before the ticket's creation in Nat.                              *)
Epoch == Days * DayLen

Date(time) == (time + Epoch) \div DayLen

ListResolvedBetweenFaulty(t, from, to) ==
  t.resolved # None /\ from + DayLen <= t.resolved /\ t.resolved < to

ListResolvedBetween(t, from, to) ==
  t.resolved # None /\ from <= t.resolved /\ t.resolved < to

dates == { Date(clock - DayLen * i) : i \in 0 .. Days - 1 }

(* handleManagerDashboard's query.                                        *)
fetched(t) == ListResolvedBetween(t, clock - DayLen * Days, clock + DayLen)

(* The days whose bucket the ticket is added to.                          *)
computeMTTxTrend(t) ==
  { day \in dates :
      /\ fetched(t)
      /\ Date(t.resolved) = day }

-----------------------------------------------------------------------------
(* Properties.                                                            *)

(* The stages of a resolved ticket add up: none of its samples is dropped *)
(* as negative, and together they are the time from its detection to its  *)
(* resolution, whatever order it was acknowledged, mitigated, resolved    *)
(* and reopened in (manager_handlers.go, ticketMTTx and durationAvg.add). *)
StagesAddUp ==
  row.resolved # None =>
    LET s == ticketMTTx(row) IN
    \E a \in add(s.mtta), m \in add(s.mttm) \cup (IF s.mttm = {} THEN {0} ELSE {}),
       r \in add(s.mttr) : a + m + r = row.resolved + Lead

(* A ticket resolved on one of the days shown is in exactly that day's    *)
(* bucket, whenever in the day the dashboard is opened; an older one is   *)
(* in none (computeMTTxTrend after ListResolvedBetween).                  *)
TrendWhole ==
  computeMTTxTrend(row) =
    IF row.resolved = None THEN {}
    ELSE { Date(row.resolved) } \cap (Date(clock) - Days + 1 .. Date(clock))

(* DESIGN/03 line 29: the time to detect is CreatedAt - DetectedAt, so a  *)
(* ticket detected before it was created has a sample (mttxSummary.MTTD). *)
DetectionCounted == add(ticketMTTx(row).mttd) = {Lead}
=============================================================================
