---------------------------- MODULE AgentBudget -----------------------------
(***************************************************************************)
(* The agent's checked handle on one reservation, composed with the budget *)
(* ledger it commits to through a port.  The commit of a command is one    *)
(* step of the ledger; its receipt may be lost, and the process may drop   *)
(* the handle and begin with the same plan again.                          *)
(***************************************************************************)
EXTENDS Budget

VARIABLE handle     \* the local state of the handle on each reservation

vars == <<accounts, reservations, handle>>

HandleState == {"None", "Held", "Active", "Settled", "Cancelled", "Indeterminate"}
Handles == 1..MaxReservations

AgentInit == Init /\ handle = [i \in Handles |-> "None"]

\* Mutant: the handle moves when the commit fails, too.
ReceivedEarly(i, command, state) ==
    \/ command /\ UNCHANGED handle
    \/ UNCHANGED ledger /\ handle' = [handle EXCEPT ![i] = state]

\* a commit, then its receipt, unless the port fails after committing
Received(i, command, state) ==
    \/ command /\ handle' = [handle EXCEPT ![i] = state]
    \/ command /\ UNCHANGED handle

\* The agent's plans spend nothing at once and reserve a nonzero ceiling.
AgentPlan == {request \in Request :
                /\ \A r \in Resource : request.now[r] = 0
                /\ \E r \in Resource : request.ceiling[r] > 0}

AgentBegin(a, action, request, retry) ==
    Received(Len(reservations) + 1, Begin(a, action, request, retry), "Held")

\* Begin with the same plan: the receipt is Idempotent whatever the phase.
AgentResume(i) ==
    /\ handle[i] = "None"
    /\ Received(i, BeginReplay(i), "Held")

AgentActivate(i, evidence) ==
    /\ handle[i] = "Held"
    /\ Received(i, Activate(i, evidence), "Active")

\* observe, observe_model and observe_effect: the kind of the receipt is not looked at
AgentObserve(i, cumulative, evidence, finality) ==
    /\ handle[i] = "Active"
    /\ Received(i, Observe(i, cumulative, evidence, finality),
                IF finality = "Final" THEN "Settled" ELSE "Active")

AgentFinalizeAmbiguous(i, evidence) ==
    /\ handle[i] = "Active"
    /\ Received(i, FinalizeAmbiguous(i, evidence), "Indeterminate")

AgentCancelHeld(i, evidence) ==
    /\ handle[i] = "Held"
    /\ Received(i, CancelHeld(i, evidence), "Cancelled")

\* The process that held the handle ends.
Drop(i) ==
    /\ handle[i] # "None"
    /\ handle' = [handle EXCEPT ![i] = "None"]
    /\ UNCHANGED ledger

AgentStep ==
    \/ \E a \in Account, action \in Action, request \in AgentPlan, retry \in BOOLEAN :
         AgentBegin(a, action, request, retry)
    \/ \E i \in DOMAIN reservations, e \in Evidence :
         \/ AgentActivate(i, e) \/ AgentFinalizeAmbiguous(i, e) \/ AgentCancelHeld(i, e)
         \/ \E u \in Usage, finality \in {"Interim", "Final"} : AgentObserve(i, u, e, finality)
    \/ \E i \in DOMAIN reservations : AgentResume(i) \/ Drop(i)

AgentNext == AgentStep \/ (Next /\ UNCHANGED handle)

AgentSpec == AgentInit /\ [][AgentNext]_vars

---------------------------------------------------------------------------

\* The agent's handle never claims more than the ledger holds: an active handle
\* stands on committed activation evidence, and a settled, cancelled or
\* indeterminate one on the matching end of its reservation, through lost
\* receipts and repeated commands.
HandleTruth ==
    \A i \in DOMAIN reservations :
        LET r == reservations[i]
        IN  /\ handle[i] = "Active" => r.activation_evidence # None
            /\ handle[i] = "Settled" =>
                 r.phase \in {"SettledFinal", "OverrunFaulted"} /\ r.finality = "Final"
            /\ handle[i] = "Cancelled" => r.phase = "CancelledHeld"
            /\ handle[i] = "Indeterminate" => r.phase = "SettledAmbiguous"

\* A handle becomes active only while its attempt is live at the ledger: a
\* resumed plan of a finished attempt never starts the external effect again.
ActivatesLiveWork ==
    [][\A i \in DOMAIN reservations :
         handle[i] # "Active" /\ handle'[i] = "Active" =>
           Live(reservations[i]) /\ Live(reservations'[i])]_vars

\* The sums of the ledger are right in every account of the tree.
LedgerTruth == TypeOK /\ LedgerValidates /\ ConsumedIsUsage

\* Every attempt can be settled: what it may still cost is there, an overrun shuts
\* its lineage, retries do not overlap, and the agent's handle knows its attempt.
AttemptTruth ==
    CeilingPayable /\ OverrunShutsLineage /\ OneAttemptAtATime /\ HandleTruth

\* Shut accounts only drain, and no handle is activated over an attempt that is
\* over.
NoLateWork == ShutDrains /\ ActivatesLiveWork
=============================================================================
