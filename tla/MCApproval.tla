----------------------------- MODULE MCApproval -----------------------------
(* A small instance of Approval: two holders, two approvers of whom one is   *)
(* not independent, decisions signed for the first and the second registry   *)
(* revision, windows that open late, and two commands that want the one      *)
(* approval.                                                                 *)
EXTENDS Approval, TLC

CONSTANTS h1, h2, a1, a2, u1, u2

MCHolders == {h1, h2}
MCApprovers == {a1, a2}
MCUses == {u1, u2}
MCCredentialExpiry == a1 :> 3 @@ a2 :> 2

D(choice, approver, revision, expires) ==
    [choice |-> choice, approver |-> approver, revision |-> revision, expires |-> expires]

\* All three choices and a decision of a2, who is not independent, under the first
\* registry revision, and an approval under the second.
MCDecisions ==
    {D("ApproveOnce", a1, 1, 2), D("Deny", a1, 1, 3), D("Amend", a1, 1, 2),
     D("ApproveOnce", a2, 1, 2), D("ApproveOnce", a1, 2, 2)}
=============================================================================
