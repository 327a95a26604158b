--------------------------- MODULE PatchTransaction ---------------------------
(***************************************************************************)
(* A multi-file patch applied as one recoverable filesystem transaction    *)
(* (peritus-patch, src/transaction).  Every effect on the disk is a step   *)
(* of its own, so that the process may stop between any two of them.  The  *)
(* disk keeps the targets, the directories the plan had to create and the  *)
(* transaction directory (manifest, staged finals, backups); the marker of *)
(* each workspace action keeps its durable terminal result.  The running   *)
(* call (apply, recovery, cleanup) is the volatile record `call'.          *)
(*                                                                         *)
(* A file is abstracted to what its identity is compared with: the content *)
(* the plan expects to find, the content it installs, or anything else.    *)
(***************************************************************************)
EXTENDS Integers, Sequences, FiniteSets

CONSTANTS
    Kind,       \* the plan: the kind of each operation, in path order
    Home,       \* the new directory each target is in, 0 when it exists already
    Outer,      \* the new directory each new directory is in, outermost first
    Action,     \* the authorized actions that carry this plan
    Nobody,     \* stands for no action
    MaxEdits,   \* how often somebody else writes a target
    MaxFaults   \* how many filesystem calls fail

Op == DOMAIN Kind

Dir == DOMAIN Outer

ASSUME PlanAssumption ==
    /\ Kind \in Seq({"Create", "Replace", "Delete"}) /\ Len(Kind) > 0
    /\ Outer \in Seq(Nat) /\ \A d \in Dir : Outer[d] < d
    /\ Home \in [Op -> {0} \cup Dir]
    /\ \A i \in Op : Home[i] # 0 => Kind[i] = "Create"
    /\ Nobody \notin Action
    /\ MaxEdits \in Nat /\ MaxFaults \in Nat

VARIABLES
    target,       \* what every target holds
    dirs,         \* which of the plan's new directories exist
    txn,          \* whether the transaction directory exists
    manifest,     \* its manifest: the phase and the directories to create
    staged,       \* the operations whose final file is staged
    backup,       \* what each backup holds
    quarantined,  \* a transaction directory was moved aside
    marker,       \* the durable marker of each action and its terminal result
    call,         \* the call that is running, lost with the process
    edits, faults \* how often the environment has acted

disk == <<target, dirs, txn, manifest, staged, backup, quarantined>>
patchVars == <<disk, marker, call, edits, faults>>

File == {"absent", "old", "new", "foreign"}
Phase == {"none", "Prepared", "Installing", "Installed"}
Marker == {"absent", "open", "Applied", "RolledBack"}

Preimage(i) == IF Kind[i] = "Create" THEN "absent" ELSE "old"

Postimage(i) == IF Kind[i] = "Delete" THEN "absent" ELSE "new"

IsPre(i) == target[i] = Preimage(i)
IsPost(i) == target[i] = Postimage(i)
AllPre == \A i \in Op : IsPre(i)
AllPost == \A i \in Op : IsPost(i)

\* The replaced file is gone but its backup can be moved back.
BackupRestores(i) ==
    /\ Kind[i] = "Replace" /\ target[i] = "absent"
    /\ backup[i] = Preimage(i)

AllRecoverable == \A i \in Op : IsPre(i) \/ IsPost(i) \/ BackupRestores(i)

NoCall == [by |-> "nobody", for |-> Nobody, at |-> "idle", k |-> 0,
           mutated |-> FALSE, ends |-> "none"]

NoManifest == [phase |-> "none", created |-> {}]

PatchInit ==
    /\ target = [i \in Op |-> Preimage(i)]
    /\ dirs = {} /\ txn = FALSE /\ manifest = NoManifest
    /\ staged = {} /\ backup = [i \in Op |-> "absent"] /\ quarantined = FALSE
    /\ marker = [a \in Action |-> "absent"]
    /\ call = NoCall /\ edits = 0 /\ faults = 0

Begin(by, a, at, ends) ==
    call' = [NoCall EXCEPT !.by = by, !.for = a, !.at = at, !.ends = ends]

At(at) == call.at = at
Go(at) == call' = [call EXCEPT !.at = at]
GoTo(at, k) == call' = [call EXCEPT !.at = at, !.k = k]
Toward(at, ends) == call' = [call EXCEPT !.at = at, !.ends = ends]
Return(ends) == call' = [call EXCEPT !.at = "done", !.ends = ends]

Quiet == UNCHANGED <<marker, edits, faults>>
DiskKept == UNCHANGED disk

(***************************************************************************)
(* Preparation: nothing of the workspace is changed.                       *)
(***************************************************************************)
Missing == Dir \ dirs

\* The preimages are read and the transaction directory is created.
Inspect ==
    /\ At("inspect") /\ Quiet
    /\ UNCHANGED <<target, dirs, manifest, staged, backup, quarantined>>
    /\ IF AllPre /\ ~txn
       THEN txn' = TRUE /\ Go("prepare")
       ELSE txn' = txn /\ Return("Stopped")

Prepare ==
    /\ At("prepare") /\ Quiet
    /\ manifest' = [phase |-> "Prepared", created |-> Missing]
    /\ UNCHANGED <<target, dirs, txn, staged, backup, quarantined>>
    /\ Go("stage")

Stage ==
    /\ At("stage") /\ Quiet
    /\ staged' = {i \in Op : Kind[i] # "Delete"}
    /\ UNCHANGED <<target, dirs, txn, manifest, backup, quarantined>>
    /\ Go("begin")

\* Cancellation is looked at only until the first target is touched.  Without a
\* transaction directory of its own the call has nothing to clean up.
CheckCancelled ==
    /\ call.by = "apply" /\ ~call.mutated
    /\ call.at \in {"inspect", "prepare", "stage", "begin", "mkdir", "observe"}
    /\ Toward(IF At("inspect") THEN "withdraw" ELSE "complete", "Cancelled")
    /\ DiskKept /\ Quiet

(***************************************************************************)
(* Installation.                                                           *)
(***************************************************************************)
\* Mutant: the phase is not made durable before the first target changes.
EnterUnmarked == At("begin") /\ Quiet /\ DiskKept /\ GoTo("mkdir", 1)

EnterInstalling ==
    /\ At("begin") /\ Quiet
    /\ manifest' = [manifest EXCEPT !.phase = "Installing"]
    /\ UNCHANGED <<target, dirs, txn, staged, backup, quarantined>>
    /\ GoTo("mkdir", 1)

CreateDirectory ==
    /\ At("mkdir") /\ call.k <= Len(Outer) /\ Quiet
    /\ dirs' = IF call.k \in manifest.created THEN dirs \cup {call.k} ELSE dirs
    /\ call' = [call EXCEPT !.k = @ + 1,
                            !.mutated = @ \/ call.k \in manifest.created]
    /\ UNCHANGED <<target, txn, manifest, staged, backup, quarantined>>

DirectoriesCreated ==
    /\ At("mkdir") /\ call.k > Len(Outer)
    /\ GoTo("observe", 1) /\ DiskKept /\ Quiet

\* The call after operation k: the next operation, or the verification.
NextOp(k) ==
    [call EXCEPT !.mutated = TRUE,
                 !.at = IF k < Len(Kind) THEN "observe" ELSE "verify",
                 !.k = IF k < Len(Kind) THEN k + 1 ELSE k]

\* What an error of the installation leads to.
AfterError ==
    IF call.mutated THEN GoTo("remove", Len(Kind)) ELSE Return("Stopped")

Unexpected(i) == ~IsPre(i)

ObserveTarget ==
    /\ At("observe") /\ DiskKept /\ Quiet
    /\ IF Unexpected(call.k) THEN AfterError
       ELSE Go(IF Kind[call.k] = "Create" THEN "final" ELSE "backup")

BackupOriginal ==
    LET k == call.k
    IN /\ At("backup") /\ Quiet
       /\ UNCHANGED <<dirs, txn, manifest, staged, quarantined>>
       /\ IF target[k] = "absent"
          THEN AfterError /\ UNCHANGED <<target, backup>>
          ELSE /\ backup' = [backup EXCEPT ![k] = target[k]]
               /\ target' = [target EXCEPT ![k] = "absent"]
               /\ call' = IF Kind[k] = "Delete" THEN NextOp(k)
                          ELSE [call EXCEPT !.mutated = TRUE, !.at = "final"]

\* The rename replaces whatever the target holds by now.
InstallFinal ==
    LET k == call.k
    IN /\ At("final") /\ Quiet
       /\ target' = [target EXCEPT ![k] = "new"]
       /\ staged' = staged \ {k}
       /\ call' = NextOp(k)
       /\ UNCHANGED <<dirs, txn, manifest, backup, quarantined>>

VerifyPostimages ==
    /\ At("verify") /\ DiskKept /\ Quiet
    /\ IF AllPost THEN Go("persist") ELSE AfterError

\* Mutant: the result is reported without marking the manifest.
PersistNothing ==
    /\ At("persist") /\ DiskKept /\ Quiet
    /\ Toward("complete", IF call.by = "apply" THEN "Applied" ELSE "AlreadyApplied")

PersistInstalled ==
    /\ At("persist") /\ Quiet
    /\ manifest' = [manifest EXCEPT !.phase = "Installed"]
    /\ UNCHANGED <<target, dirs, txn, staged, backup, quarantined>>
    /\ Toward("complete", IF call.by = "apply" THEN "Applied" ELSE "AlreadyApplied")

(***************************************************************************)
(* Rollback, of a failed application and of recovery.                      *)
(***************************************************************************)
RollbackFailure == IF call.by = "apply" THEN "Failed" ELSE "Indeterminate"

\* Mutant: whatever is at the target is taken for the patch's own file.
RemovableAnything(i) == TRUE

Removable(i) ==
    \/ IsPost(i)
    \/ IsPre(i)
    \/ Kind[i] = "Replace" /\ target[i] = "absent"

RollbackRemove ==
    LET k == call.k
    IN /\ At("remove") /\ Quiet
       /\ UNCHANGED <<dirs, txn, manifest, staged, backup, quarantined>>
       /\ IF Removable(k)
          THEN /\ target' = IF IsPre(k) THEN target
                            ELSE [target EXCEPT ![k] = "absent"]
               /\ Go("restore")
          ELSE target' = target /\ Return(RollbackFailure)

Restored(k) == IF k > 1 THEN GoTo("remove", k - 1) ELSE Go("verifyPre")

RollbackRestore ==
    LET k == call.k
        kept == target[k] = Preimage(k) /\ backup[k] = "absent"
        spare == Kind[k] # "Create" /\ IsPre(k) /\ backup[k] = Preimage(k)
        moved == Kind[k] # "Create" /\ target[k] = "absent" /\ backup[k] = Preimage(k)
    IN /\ At("restore") /\ Quiet
       /\ UNCHANGED <<dirs, txn, manifest, staged, quarantined>>
       /\ IF kept \/ spare \/ moved
          THEN /\ target' = IF moved THEN [target EXCEPT ![k] = Preimage(k)] ELSE target
               /\ backup' = [backup EXCEPT ![k] = "absent"]
               /\ Restored(k)
          ELSE UNCHANGED <<target, backup>> /\ Return(RollbackFailure)

VerifyPreimages ==
    /\ At("verifyPre") /\ DiskKept /\ Quiet
    /\ IF AllPre THEN GoTo("rmdir", Len(Outer)) ELSE Return(RollbackFailure)

Empty(d) ==
    /\ \A i \in Op : Home[i] = d => target[i] = "absent"
    /\ \A e \in dirs : Outer[e] # d

\* Mutant: the directories are left where they are.
KeepDirectory == GoTo("rmdir", call.k - 1) /\ dirs' = dirs

RemoveDirectory ==
    IF call.k \notin manifest.created \cap dirs \/ Empty(call.k)
    THEN GoTo("rmdir", call.k - 1) /\ dirs' = dirs \ ({call.k} \cap manifest.created)
    ELSE Return(RollbackFailure) /\ dirs' = dirs

RemoveCreatedDirectory ==
    /\ At("rmdir") /\ call.k > 0 /\ Quiet
    /\ RemoveDirectory
    /\ UNCHANGED <<target, txn, manifest, staged, backup, quarantined>>

RolledBack ==
    /\ At("rmdir") /\ call.k = 0 /\ DiskKept /\ Quiet
    /\ Toward("complete", IF call.by = "apply" THEN "Restored" ELSE "RolledBackCleanly")

(***************************************************************************)
(* Restart recovery: classification of what the disk holds.                *)
(***************************************************************************)
\* Without a manifest the directory is moved aside, never interpreted.
Quarantine ==
    /\ At("read") /\ manifest.phase = "none" /\ Quiet
    /\ txn' = FALSE /\ quarantined' = TRUE
    /\ staged' = {} /\ backup' = [i \in Op |-> "absent"]
    /\ UNCHANGED <<target, dirs, manifest>>
    /\ Return("Indeterminate")

\* Mutant: an interrupted installation is taken for a finished one.
ClassifyOptimistic ==
    /\ At("read") /\ manifest.phase # "none" /\ DiskKept /\ Quiet
    /\ Go("persist")

Classify ==
    /\ At("read") /\ manifest.phase # "none" /\ DiskKept /\ Quiet
    /\ CASE manifest.phase = "Prepared" /\ AllPre ->
                Toward("complete", "RolledBackCleanly")
         [] manifest.phase = "Installing" /\ AllPost -> Go("persist")
         [] manifest.phase = "Installing" /\ AllRecoverable /\ ~AllPost ->
                GoTo("remove", Len(Kind))
         [] manifest.phase = "Installed" /\ AllPost ->
                Toward("complete", "AlreadyApplied")
         [] OTHER -> Return("Dirty")

(***************************************************************************)
(* Completion: the receipt is durable before any evidence is removed.      *)
(***************************************************************************)
\* apply_patch and the gateway's recovery pass a callback that records.
Records == call.by \in {"apply", "recover"}

\* Mutant: the marker gets the result of the call as it is.
TerminalRaw == call.ends

Terminal == IF call.ends \in {"Applied", "AlreadyApplied"} THEN "Applied" ELSE "RolledBack"

Recorded == [marker EXCEPT ![call.for] = Terminal]

\* Mutant: the evidence goes first.
CleanupFirst ==
    /\ At("complete") /\ Quiet
    /\ txn' = FALSE /\ manifest' = NoManifest /\ staged' = {}
    /\ backup' = [i \in Op |-> "absent"]
    /\ UNCHANGED <<target, dirs, quarantined>>
    /\ Go("cleanup")

\* complete_action: the first terminal result stays.
CompleteAction ==
    /\ call.at \in {"complete", "withdraw"} /\ DiskKept /\ UNCHANGED <<edits, faults>>
    /\ IF ~Records
       THEN Go("cleanup") /\ marker' = marker
       ELSE IF marker[call.for] \in {"open", Terminal}
            THEN Go(IF At("withdraw") THEN "done" ELSE "cleanup") /\ marker' = Recorded
            ELSE Return("Failed") /\ marker' = marker

Bare == staged = {} /\ \A i \in Op : backup[i] = "absent"

\* remove_dir_all takes the entries in any order, the directory last.
RemoveManifest ==
    /\ At("cleanup") /\ txn /\ manifest.phase # "none" /\ Quiet
    /\ manifest' = NoManifest
    /\ UNCHANGED <<target, dirs, txn, staged, backup, quarantined, call>>

RemoveLeaves ==
    /\ At("cleanup") /\ txn /\ ~Bare /\ Quiet
    /\ staged' = {} /\ backup' = [i \in Op |-> "absent"]
    /\ UNCHANGED <<target, dirs, txn, manifest, quarantined, call>>

RemoveTransaction ==
    /\ At("cleanup") /\ Quiet
    /\ txn => manifest.phase = "none" /\ Bare
    /\ txn' = FALSE
    /\ UNCHANGED <<target, dirs, manifest, staged, backup, quarantined>>
    /\ Return(call.ends)

(***************************************************************************)
(* The environment.                                                        *)
(***************************************************************************)
CleanupPending == IF call.ends \in {"Cancelled", "Restored"} THEN "Stopped" ELSE call.ends

\* One call of the filesystem fails.  A step that renames and then syncs may
\* have taken effect: for the manifest and the receipt both are possible, for
\* every other step that is the failure of the step after it.
Fault ==
    /\ faults < MaxFaults /\ faults' = faults + 1 /\ edits' = edits
    /\ UNCHANGED <<target, dirs, txn, staged, backup, quarantined>>
    /\ \/ /\ call.at \in {"inspect", "prepare", "stage", "begin"}
          /\ Return("Stopped") /\ UNCHANGED <<manifest, marker>>
       \/ /\ call.at \in {"mkdir", "observe", "backup", "final", "verify"}
          /\ AfterError /\ UNCHANGED <<manifest, marker>>
       \/ /\ At("persist") /\ marker' = marker
          /\ manifest' \in {manifest, [manifest EXCEPT !.phase = "Installed"]}
          /\ IF call.by = "apply" THEN AfterError ELSE Return("Failed")
       \/ /\ call.at \in {"remove", "restore", "verifyPre", "rmdir"}
          /\ Return(RollbackFailure) /\ UNCHANGED <<manifest, marker>>
       \/ /\ At("read") /\ Return("Failed") /\ UNCHANGED <<manifest, marker>>
       \/ /\ call.at \in {"complete", "withdraw"} /\ Records /\ manifest' = manifest
          /\ marker' \in {marker} \cup
                 (IF marker[call.for] = "open" THEN {Recorded} ELSE {})
          /\ Return("Failed")
       \/ /\ At("cleanup") /\ Return(CleanupPending) /\ UNCHANGED <<manifest, marker>>

\* Somebody else writes or removes a target.
Edit(i, f) ==
    /\ edits < MaxEdits /\ edits' = edits + 1
    /\ target[i] # f /\ (Home[i] = 0 \/ Home[i] \in dirs)
    /\ target' = [target EXCEPT ![i] = f]
    /\ UNCHANGED <<dirs, txn, manifest, staged, backup, quarantined, marker, call, faults>>

Recovery == Quarantine \/ Classify

Install ==
    \/ EnterInstalling \/ CreateDirectory \/ DirectoriesCreated \/ ObserveTarget
    \/ BackupOriginal \/ InstallFinal \/ VerifyPostimages \/ PersistInstalled

Rollback ==
    \/ RollbackRemove \/ RollbackRestore \/ VerifyPreimages
    \/ RemoveCreatedDirectory \/ RolledBack

Cleanup == RemoveManifest \/ RemoveLeaves \/ RemoveTransaction

PatchStep ==
    \/ Inspect \/ Prepare \/ Stage \/ Install \/ Rollback
    \/ Recovery \/ CompleteAction \/ Cleanup

Environment == CheckCancelled \/ Fault \/ \E i \in Op, f \in {"foreign", "absent"} : Edit(i, f)

=============================================================================
