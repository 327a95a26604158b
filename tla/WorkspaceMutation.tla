-------------------------- MODULE WorkspaceMutation --------------------------
(***************************************************************************)
(* The workspace gateway over the patch transaction (peritus-workspace,    *)
(* mutation.rs, mutation/recovery.rs, reconcile.rs, consumption.rs): an    *)
(* action is durably consumed once, its patch is applied, cancelled or     *)
(* recovered, and the gateway tells the caller what became of it.  The     *)
(* gateway is behind one lock, so one call runs at a time; the prepared    *)
(* token is held outside the lock.                                         *)
(***************************************************************************)
EXTENDS PatchTransaction

CONSTANT MaxCrashes

ASSUME CrashAssumption == MaxCrashes \in Nat

VARIABLES
    up,         \* the process runs and the workspace is open
    condition,  \* the safety condition of the open workspace
    consumed,   \* the projection of the consumed actions
    token,      \* the prepared patch operations not yet used
    told,       \* the last outcome reported for each action
    crashes,
    reconciled  \* history: restart reconciliation resolved a transaction

gatewayVars == <<up, condition, consumed, token, told, crashes, reconciled>>
mutationVars == <<patchVars, gatewayVars>>

Condition == {"Clean", "Dirty", "Reconciling", "Indeterminate"}
Conclusive == {"Applied", "AlreadyApplied", "Cancelled", "RolledBack", "NotAttempted"}
Outcome == Conclusive \cup {"none", "Error", "Dirty", "Indeterminate"}

MutationInit ==
    /\ PatchInit
    /\ up = TRUE /\ condition = "Clean" /\ consumed = {} /\ token = {}
    /\ told = [a \in Action |-> "none"] /\ crashes = 0 /\ reconciled = FALSE

Free == up /\ At("idle")

Tell(a, outcome) == told' = [told EXCEPT ![a] = outcome]

(***************************************************************************)
(* Authorization and application.                                          *)
(***************************************************************************)
\* authorize: the marker is written exclusively before the token exists.
PreparePatch(a) ==
    /\ Free /\ condition = "Clean" /\ a \notin consumed
    /\ marker[a] = "absent"
    /\ marker' = [marker EXCEPT ![a] = "open"]
    /\ consumed' = consumed \cup {a} /\ token' = token \cup {a}
    /\ UNCHANGED <<disk, call, edits, faults, up, condition, told, crashes, reconciled>>

\* The marker cannot be synchronized; it may be there all the same.
PrepareFails(a) ==
    /\ Free /\ condition = "Clean" /\ a \notin consumed
    /\ faults < MaxFaults /\ faults' = faults + 1
    /\ marker[a] = "absent" /\ marker' \in {marker, [marker EXCEPT ![a] = "open"]}
    /\ condition' = "Indeterminate"
    /\ UNCHANGED <<disk, call, edits, up, consumed, token, told, crashes, reconciled>>

DropToken(a) ==
    /\ a \in token /\ token' = token \ {a}
    /\ UNCHANGED <<patchVars, up, condition, consumed, told, crashes, reconciled>>

PreparedActionMatches == condition = "Clean"

ApplyPrepared(a) ==
    /\ Free /\ a \in token /\ token' = token \ {a}
    /\ IF PreparedActionMatches
       THEN Begin("apply", a, "inspect", "none") /\ told' = told
       ELSE call' = call /\ Tell(a, "Error")
    /\ UNCHANGED <<disk, marker, edits, faults, up, condition, consumed, crashes, reconciled>>

CancelPrepared(a) ==
    /\ Free /\ a \in token /\ token' = token \ {a}
    /\ IF PreparedActionMatches /\ ~txn /\ marker[a] \in {"open", "RolledBack"}
       THEN /\ marker' = [marker EXCEPT ![a] = "RolledBack"]
            /\ condition' = "Clean" /\ Tell(a, "Cancelled")
       ELSE /\ marker' = marker
            /\ condition' = "Indeterminate" /\ Tell(a, "Error")
    /\ UNCHANGED <<disk, call, edits, faults, up, consumed, crashes, reconciled>>

\* The receipt of the cancellation cannot be synchronized.
CancelFails(a) ==
    /\ Free /\ a \in token /\ token' = token \ {a}
    /\ faults < MaxFaults /\ faults' = faults + 1
    /\ PreparedActionMatches /\ ~txn /\ marker[a] = "open"
    /\ marker' \in {marker, [marker EXCEPT ![a] = "RolledBack"]}
    /\ condition' = "Indeterminate" /\ Tell(a, "Error")
    /\ UNCHANGED <<disk, call, edits, up, consumed, crashes, reconciled>>

\* Mutant: a patched workspace takes new work at once.
AfterApplyClean ==
    IF call.ends = "Failed" \/ (call.ends = "Stopped" /\ txn) THEN "Indeterminate" ELSE "Clean"

\* What the gateway makes of the result of apply_patch.
AfterApply ==
    CASE call.ends = "Applied" -> "Dirty"
      [] call.ends = "Failed" -> "Indeterminate"
      [] call.ends = "Cancelled" -> "Clean"
      [] OTHER -> IF txn THEN "Indeterminate" ELSE "Clean"

FinishApply ==
    /\ up /\ At("done") /\ call.by = "apply" /\ call' = NoCall
    /\ condition' = AfterApply
    /\ Tell(call.for, IF call.ends \in {"Applied", "Cancelled"} THEN call.ends ELSE "Error")
    /\ UNCHANGED <<disk, marker, edits, faults, up, consumed, token, crashes, reconciled>>

(***************************************************************************)
(* recover_mutation: what became of a consumed action.                     *)
(***************************************************************************)
Answer(a, outcome, c) == Tell(a, outcome) /\ condition' = c /\ call' = call

RecoverAbsent(a) ==
    /\ marker[a] = "absent"
    /\ IF txn THEN Answer(a, "Indeterminate", "Indeterminate")
       ELSE Answer(a, "NotAttempted", condition)

RecoverRecordedApplied(a) ==
    /\ marker[a] = "Applied"
    /\ IF txn /\ manifest.phase \in {"none", "Installed"}
       THEN /\ Begin("applied", a, "cleanup", "AlreadyApplied")
            /\ UNCHANGED <<told, condition>>
       ELSE Answer(a, "AlreadyApplied", "Dirty")

\* Mutant: without its transaction the recorded rollback is forgotten.
RecoverForgotten(a) ==
    /\ marker[a] = "RolledBack"
    /\ IF txn
       THEN Begin("rolled", a, "read", "none") /\ UNCHANGED <<told, condition>>
       ELSE Answer(a, "NotAttempted", condition)

RecoverRecordedRollback(a) ==
    /\ marker[a] = "RolledBack"
    /\ IF txn
       THEN Begin("rolled", a, "read", "none") /\ UNCHANGED <<told, condition>>
       ELSE Answer(a, "RolledBack", "Clean")

\* Mutant: the transaction directory is not looked for.
RecoverOpenBlind(a) == marker[a] = "open" /\ Answer(a, "NotAttempted", condition)

RecoverOpen(a) ==
    /\ marker[a] = "open"
    /\ IF txn
       THEN Begin("recover", a, "read", "none") /\ UNCHANGED <<told, condition>>
       ELSE Answer(a, "NotAttempted", condition)

\* The dispatcher recovers an action the projection says was consumed.
RecoverMutation(a) ==
    /\ Free /\ a \in consumed
    /\ \/ RecoverAbsent(a) \/ RecoverRecordedApplied(a)
       \/ RecoverRecordedRollback(a) \/ RecoverOpen(a)
    /\ UNCHANGED <<disk, marker, edits, faults, up, consumed, token, crashes, reconciled>>

FinishRecover ==
    /\ up /\ At("done") /\ call.by \in {"recover", "rolled", "applied"}
    /\ call' = NoCall
    /\ CASE call.ends = "AlreadyApplied" /\ call.by # "rolled" ->
                condition' = "Dirty" /\ Tell(call.for, "AlreadyApplied")
         [] call.ends = "RolledBackCleanly" ->
                condition' = "Clean" /\ Tell(call.for, "RolledBack")
         [] call.ends = "Dirty" ->
                condition' = "Indeterminate" /\ Tell(call.for, "Dirty")
         [] OTHER ->
                condition' = "Indeterminate" /\ Tell(call.for, "Indeterminate")
    /\ UNCHANGED <<disk, marker, edits, faults, up, consumed, token, crashes, reconciled>>

(***************************************************************************)
(* reconcile_restart: every transaction of the namespace is resolved, then *)
(* Git is compared with the current snapshot.  No receipt is recorded.     *)
(***************************************************************************)
GitClean == AllPre

ReconcileRestart ==
    /\ Free /\ txn
    /\ Begin("reconcile", Nobody, "read", "none") /\ reconciled' = TRUE
    /\ UNCHANGED <<disk, marker, edits, faults, up, condition, consumed, token, told, crashes>>

\* The disposition of the classifier, for an exact correlation.
Disposition(complete, transactionClean) ==
    IF complete /\ transactionClean /\ GitClean THEN "Clean"
    ELSE IF complete THEN "Dirty" ELSE "Indeterminate"

Reconciled(complete, transactionClean) ==
    /\ condition' \in {Disposition(complete, transactionClean), "Reconciling", "Indeterminate"}
    /\ UNCHANGED <<disk, marker, edits, faults, up, consumed, token, told, crashes, reconciled>>

ReconcileNothing ==
    /\ Free /\ ~txn /\ call' = call
    /\ Reconciled(TRUE, ~quarantined)

FinishReconcile ==
    /\ up /\ At("done") /\ call.by = "reconcile" /\ call' = NoCall
    /\ Reconciled(call.ends \notin {"Indeterminate", "Failed"},
                  ~quarantined /\ call.ends = "RolledBackCleanly")

(***************************************************************************)
(* The process stops and the workspace is opened again.                    *)
(***************************************************************************)
Crash ==
    /\ up /\ crashes < MaxCrashes /\ crashes' = crashes + 1
    /\ up' = FALSE /\ call' = NoCall /\ token' = {} /\ consumed' = {}
    /\ UNCHANGED <<disk, marker, edits, faults, condition, told, reconciled>>

\* The host supplies the condition; Clean is accepted only when Git agrees.
Reopen ==
    /\ ~up /\ up' = TRUE
    /\ condition' \in IF GitClean THEN Condition ELSE Condition \ {"Clean"}
    /\ consumed' = {a \in Action : marker[a] # "absent"}
    /\ UNCHANGED <<patchVars, token, told, crashes, reconciled>>

Step == PatchStep \/ Environment

UseToken(a) == ApplyPrepared(a) \/ CancelPrepared(a) \/ CancelFails(a) \/ DropToken(a)

Gateway ==
    \/ \E a \in Action : PreparePatch(a) \/ PrepareFails(a) \/ UseToken(a)
    \/ FinishApply \/ FinishRecover
    \/ Crash \/ Reopen

Reconcile == ReconcileRestart \/ ReconcileNothing \/ FinishReconcile

\* Nothing in the gateway orders restart reconciliation and recovery.
MutationNext ==
    \/ up /\ Step /\ UNCHANGED gatewayVars
    \/ Gateway
    \/ \E a \in Action : RecoverMutation(a)
    \/ Reconcile

MutationSpec == MutationInit /\ [][MutationNext]_mutationVars

\* The steps of a running call are taken and the worker uses its token; a stopped
\* process is started again; the host dispatches a consumed action again until it
\* is told a conclusive outcome and no transaction of it is left.
Asked(a) == (txn \/ told[a] \notin Conclusive) /\ RecoverMutation(a)

FairMutationSpec ==
    /\ MutationSpec
    /\ WF_mutationVars(up /\ PatchStep /\ UNCHANGED gatewayVars)
    /\ WF_mutationVars(FinishApply) /\ WF_mutationVars(FinishRecover) /\ WF_mutationVars(Reopen)
    /\ \A a \in Action : WF_mutationVars(UseToken(a)) /\ WF_mutationVars(Asked(a))

(***************************************************************************)
(* Properties.                                                             *)
(***************************************************************************)
MutationTypeOK ==
    /\ target \in [Op -> File] /\ dirs \subseteq Dir
    /\ txn \in BOOLEAN /\ quarantined \in BOOLEAN
    /\ manifest.phase \in Phase /\ manifest.created \subseteq Dir
    /\ staged \subseteq Op /\ backup \in [Op -> File]
    /\ marker \in [Action -> Marker]
    /\ call.k \in 0 .. (Len(Kind) + Len(Outer) + 1) /\ call.mutated \in BOOLEAN
    /\ call.for \in Action \cup {Nobody}
    /\ edits \in 0 .. MaxEdits /\ faults \in 0 .. MaxFaults /\ crashes \in 0 .. MaxCrashes
    /\ up \in BOOLEAN /\ condition \in Condition
    /\ consumed \subseteq Action /\ token \subseteq Action
    /\ told \in [Action -> Outcome]

\* Two consumed actions carry the same patch and so share its transaction.
Shared == \E a, b \in Action : a # b /\ marker[a] # "absent" /\ marker[b] # "absent"

\* Nobody else wrote a target or resolved the transaction without a receipt.
Undisturbed == edits = 0 /\ ~reconciled /\ ~Shared

Unchanged == (\A i \in Op : target[i] = Preimage(i)) /\ dirs = {}
Installed == \A i \in Op : target[i] = Postimage(i)

\* When nobody else writes the targets, every state an interrupted installation
\* can leave is one recovery resolves: with a Prepared manifest nothing was
\* changed, with an Installing one every target is its preimage, its postimage
\* or a replaced file whose backup is intact.
Recoverable ==
    Undisturbed /\ txn =>
        /\ manifest.phase \in {"none", "Prepared"} => Unchanged \/ \E a \in Action : marker[a] = "Applied"
        /\ manifest.phase = "Installing" =>
              \A i \in Op : \/ target[i] \in {Preimage(i), Postimage(i)}
                            \/ Kind[i] = "Replace" /\ backup[i] = "old"

\* "It records a conclusive transaction result in the existing action marker
\* before recovery removes transaction files": no step leaves a changed workspace
\* with neither the receipt that says it was applied nor the manifest and the
\* backups that undo it.
EvidenceOrReceipt ==
    Undisturbed /\ ~Unchanged =>
        \/ \E a \in Action : marker[a] = "Applied"
        \/ /\ txn /\ manifest.phase \in {"Installing", "Installed"}
           /\ \A i \in Op : Kind[i] # "Create" /\ target[i] # "old" => backup[i] = "old"

\* A receipt that says Applied is durable only over a workspace in which every
\* postimage is installed, also when recovery after a crash wrote it.
AppliedTruth == edits = 0 /\ (\E a \in Action : marker[a] = "Applied") => Installed

\* A receipt that says RolledBack stands only over a workspace in which every
\* preimage is back and no directory of the patch is left.
RolledBackTruth ==
    edits = 0 /\ ~Shared /\ (\A a \in Action : marker[a] \in {"absent", "RolledBack"}) => Unchanged

\* No answer contradicts the conclusive answer right before it, whatever crashes,
\* retries and repeated recoveries come in between.
OutcomesAgree ==
    [][\A a \in Action :
          /\ told[a] \in {"Applied", "AlreadyApplied"} =>
                told'[a] \notin {"Cancelled", "RolledBack", "NotAttempted"}
          /\ told[a] \in {"Cancelled", "RolledBack"} =>
                told'[a] \notin {"Applied", "AlreadyApplied", "NotAttempted"}]_mutationVars

\* "Exact durable snapshot and complete Git/filesystem observations agree": a
\* workspace that accepts new work is never one that a patch has changed.
CleanTruth == edits = 0 /\ ~Shared /\ up /\ At("idle") /\ condition = "Clean" => AllPre

\* Rollback and recovery never remove what somebody else wrote at a target.
EditsKept ==
    [][\A i \in Op :
          target[i] = "foreign" /\ call.at \in {"remove", "restore", "read", "rmdir"}
             => target'[i] = "foreign" \/ edits' # edits]_mutationVars

\* "The action was consumed but no patch transaction was ever published": told
\* so, the caller may rely on the workspace not having been changed.
NotAttemptedTruth ==
    [][\A a \in Action :
          /\ Undisturbed
          /\ told[a] # "NotAttempted" /\ told'[a] = "NotAttempted"
          => Unchanged]_mutationVars

\* Every consumed action is told a conclusive outcome in the end, however often
\* the process stops on the way, and no transaction directory stays behind.
Concludes ==
    /\ \A a \in Action :
          marker[a] = "open" ~> told[a] \in Conclusive \/ faults > 0 \/ ~Undisturbed
    /\ txn ~> ~txn \/ faults > 0 \/ ~Undisturbed

\* At every moment the disk holds what recovery needs.
CrashSafe == MutationTypeOK /\ Recoverable /\ EvidenceOrReceipt

\* Receipts and the condition of the workspace describe the files.
ReceiptTruth == AppliedTruth /\ RolledBackTruth /\ CleanTruth

\* Answers stand: they agree with each other and with the files, and nobody
\* else's content is removed on the way.
AnswersStand == OutcomesAgree /\ NotAttemptedTruth /\ EditsKept

----------------------------------------------------------------------------
(* Statements of documents and comments that the code does not keep: the     *)
(* README names the instance that refutes each of them.                      *)

\* "Current targets disagree with both the exact preimage and postimage."
DirtyTruth ==
    edits = 0 => \A a \in Action : told[a] = "Dirty" => ~AllPre /\ ~AllPost
=============================================================================
