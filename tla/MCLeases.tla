------------------------------ MODULE MCLeases ------------------------------
(* Instances of Leases.                                                    *)
EXTENDS Leases, TLC

Symmetric == Permutations(Holder) \cup Permutations(Client)
=============================================================================
