------------------------------- MODULE MCDesk -------------------------------
(* Instances of Desk: one ticket there from the start, one to be created. *)
EXTENDS Desk, TLC

CONSTANTS ann, bob, q1, q2, t1, t2

MCDefaultTable == [p \in Priorities |-> 2]
MCTables == {[p \in Priorities |-> 1]}
MCSymmetry == Permutations({ann, bob}) \cup Permutations(Slots)
=============================================================================
