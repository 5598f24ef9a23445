------------------------------ MODULE MCTicket ------------------------------
(* Instances of Ticket with overlapping requests.  One account is enough: *)
(* who may do what is decided before the row is written, and is exercised *)
(* in MCTicketTrail.                                                      *)
EXTENDS StageMetrics

CONSTANT boss

MCUsers == {boss}
MCRole == [u \in MCUsers |-> "SystemAdmin"]
=============================================================================
