------------------------------ MODULE MCSessions ------------------------------
(* Two admins, so that one may act as the other, and the customer of an    *)
(* organization.                                                           *)
EXTENDS Sessions, TLC

CONSTANTS ada, bob, eve, o1

MCRole == ada :> "SystemAdmin" @@ bob :> "SystemAdmin" @@ eve :> "Customer"
MCMember == ada :> {} @@ bob :> {} @@ eve :> {o1}

MCSymmetry == Permutations({ada, bob}) \union Permutations(Tabs)
=============================================================================
