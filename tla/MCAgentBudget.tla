---------------------------- MODULE MCAgentBudget ---------------------------
(***************************************************************************)
(* An agent and another client on one ledger: a root account and a possible *)
(* sub-account, a small and a smaller limit, a request that pays at once    *)
(* and one with a ceiling, and two actions.                                 *)
(***************************************************************************)
EXTENDS AgentBudget

CONSTANTS acct1, acct2, a1, a2, e1

Limit(units, attempts, retries) ==
    [d \in Dimension |-> IF d = "Attempts" THEN attempts
                         ELSE IF d = "Retries" THEN retries ELSE units]

MCLimits == {Limit(3, 2, 1), Limit(1, 1, 1)}

MCRequest ==
    {[now |-> [r \in Resource |-> 0], ceiling |-> [r \in Resource |-> 1]],
     [now |-> [r \in Resource |-> 1], ceiling |-> [r \in Resource |-> 0]]}
=============================================================================
