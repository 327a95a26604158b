------------------------------ MODULE MCOutbox ------------------------------
(* An instance of Outbox: two claim loops over a row and its child.        *)
EXTENDS Outbox

AllTwo == [r \in Row |-> 2]
=============================================================================
