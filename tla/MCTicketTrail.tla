---------------------------- MODULE MCTicketTrail ----------------------------
(* Instances of TicketTrail: the creator, an engineer of the queue, an    *)
(* engineer outside it and a manager.                                     *)
EXTENDS TicketTrail, StageMetrics

CONSTANTS cust, eng, guest, boss

MCUsers == {cust, eng, guest, boss}
MCRole ==
  [u \in MCUsers |-> CASE u = cust -> "Customer"
                       [] u = boss -> "Manager"
                       [] OTHER -> "Engineer"]
=============================================================================
