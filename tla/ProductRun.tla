------------------------------ MODULE ProductRun ------------------------------
(***************************************************************************)
(* One product run: the writer / gates / review / fixer loop of the        *)
(* product runner, the recorder that turns every material boundary into a  *)
(* candidate checkpoint, the settlement the run ends with, and the record  *)
(* the daemon keeps of it, loads after a restart and retries from.         *)
(*                                                                         *)
(* A developer turn, a gate run and a review take time: each is a step     *)
(* that begins it and a step that records its result, and messages of the  *)
(* user, edits of the workspace and crashes of the daemon come between.    *)
(* What a check looked at is remembered in `passed` and `failed`, which no *)
(* guard reads.  An attempt that ends without a settlement leaves nothing  *)
(* of what it found, and they go back to what they were at the last one.   *)
(* Every change of the daemon's record is persisted in the step that makes *)
(* it, so `record` is also what a restart loads.                           *)
(***************************************************************************)
EXTENDS Settlement

\* What may happen in a behaviour: the source contents (0 is the run's retained
\* baseline), whether the delivery scope allows external effects, whether the
\* request allows a conclusion without a patch, the causes an attempt may be
\* interrupted with, where an attempt may be when the workspace is edited, the
\* stages a developer's tools and turns report, whether an observation, a
\* projection or a validation may fail, and the bounds.
CONSTANT Scopes

Places == {"Turn", "Loop", "Gates", "Qualify", "Review", "Investigate",
           "Exit", "Final", "Error", "Refused", "Off", "Down"}

ASSUME ScopeAssumption ==
    \A s \in Scopes :
        /\ 0 \in s.contents /\ s.contents \subseteq Nat
        /\ s.effects \in BOOLEAN /\ s.investigation \in BOOLEAN
        /\ s.faults \in BOOLEAN
        /\ s.interruptions \subseteq {"UserWait", "Cancellation", "Recovery", "Provider"}
        /\ s.editedAt \subseteq Places /\ s.toolStages \subseteq {"Changed", "SelfChecked"}
        /\ {s.head, s.sequence, s.crash, s.retry, s.edit, s.tool} \subseteq Nat
        /\ {s.context, s.revision} \subseteq Nat \ {0}

VARIABLES
    scope,         \* the scope of this behaviour
    workspace,     \* content, head and execution context, as they are
    conversation,  \* the revision of the public request
    recorder,      \* CandidateRecorder of the live attempt
    run,           \* the live attempt
    record,        \* the daemon's durable record of the run
    count,         \* crashes, retries, edits and tool calls so far
    passed,        \* checks that passed, with what they looked at
    failed,        \* checks whose latest result is negative
    kept,          \* both of them at the last settlement
    fresh          \* gates passed since the daemon started

vars == <<scope, workspace, conversation, recorder, run, record, count, passed, failed,
          kept, fresh>>

history == <<passed, failed, kept, fresh>>

\* An attempt ends without a settlement.
Forget ==
    /\ passed' = kept.passed /\ failed' = kept.failed
    /\ UNCHANGED <<kept, fresh>>

Contents == scope.contents
MaxHead == scope.head             \* bound on repository history
MaxContext == scope.context       \* bound on host execution contexts
MaxRevision == scope.revision     \* bound on messages of the user
MaxSequence == scope.sequence     \* bound on candidate checkpoints

\* How reading the workspace, its configuration or a retained file may end.
Outcomes == IF scope.faults THEN BOOLEAN ELSE {TRUE}

Terminal == {"Complete", "Failed", "Cancelled", "WaitingForUser", "RecoveryRequired"}

NoResume == [checkpoint |-> NoCheckpoint, next |-> "None", report |-> FALSE]

\* The live attempt: where it is, the phase a continuation would resume, the
\* revision it has incorporated, the revision of the obligation ledger, what
\* the running gates look at, the source the retained diff shows, whether a
\* gate report is retained, whether it passed, and the cause it ended with.
Idle(pc, revision) ==
    [pc |-> pc, next |-> "None", rev |-> revision, ledger |-> 0,
     seen |-> [content |-> 0, context |-> NoContext], diff |-> 0,
     report |-> FALSE, gatesOk |-> FALSE, cause |-> "None"]

NewRecord == [phase |-> "Running", checkpoint |-> NoCheckpoint, settlement |-> NoSettlement,
              resume |-> NoResume, deliverable |-> "none", actionable |-> FALSE]

\* A record the daemon cannot load any more.
Lost == [NewRecord EXCEPT !.phase = "Lost"]

Repository(w) == <<w.content, w.head>>

----------------------------------------------------------------------------
(* CandidateRecorder.                                                      *)

Nothing == [kind |-> "None", ok |-> FALSE, context |-> NoContext]

Result(kind, ok, context) == [kind |-> kind, ok |-> ok, context |-> context]

\* Mutant: the sequence of a resumed run starts over.
NewRecorderFromZero(prior) ==
    [checkpoint |-> prior, sequence |-> 0,
     external |-> scope.effects /\ prior # NoCheckpoint, execution |-> prior.identity.execution]

NewRecorder(prior) ==
    [checkpoint |-> prior, sequence |-> prior.identity.sequence,
     external |-> scope.effects /\ prior # NoCheckpoint, execution |-> prior.identity.execution]

Stronger(a, b) == IF Rank[a] >= Rank[b] THEN a ELSE b

\* Mutant: a negative result does not replace a positive one.
RetainedPositive(previous, kind, acquired, identity) ==
    IF acquired.kind = kind /\ (acquired.ok \/ ~previous[kind].ok)
    THEN Evidence(kind, identity, acquired.ok)
    ELSE IF acquired.kind = "effect" /\ kind # "gates" THEN Missing
    ELSE previous[kind]

\* The evidence of `kind` before it is reconciled with the new identity.
Retained(previous, kind, acquired, identity) ==
    IF acquired.kind = kind THEN Evidence(kind, identity, acquired.ok)
    ELSE IF acquired.kind = "effect" /\ kind # "gates" THEN Missing
    ELSE previous[kind]

\* The recorder after record(requested, revision, acquired) observed w.  A
\* workspace that is back at the baseline has no candidate.
Recorded(w, r, requested, revision, acquired) ==
    LET execution == IF acquired.kind = "gates" THEN acquired.context ELSE r.execution
        identity == [content |-> w.content, repository |-> Repository(w),
                     execution |-> execution, requirements |-> revision,
                     sequence |-> r.sequence + 1]
        stage == IF /\ r.checkpoint # NoCheckpoint
                    /\ SameContentAndRequirements(r.checkpoint.identity, identity)
                 THEN Stronger(r.checkpoint.stage, requested) ELSE requested
    IN  IF w.content = 0 /\ ~r.external
        THEN [r EXCEPT !.checkpoint = NoCheckpoint]
        ELSE [r EXCEPT !.sequence = @ + 1, !.execution = execution,
                       !.checkpoint = Observe(identity, stage,
                            Retained(r.checkpoint, "gates", acquired, identity),
                            Retained(r.checkpoint, "obligations", acquired, identity),
                            Retained(r.checkpoint, "review", acquired, identity))]

\* The attempt goes on as `after` once `prior` became r, or ends on the
\* invariant the new checkpoint violates.
Takes(prior, r, after) ==
    /\ r.sequence <= MaxSequence
    /\ recorder' = r
    /\ run' = IF r.checkpoint = NoCheckpoint \/ Admissible(prior.checkpoint, r.checkpoint)
              THEN after ELSE [after EXCEPT !.pc = "Refused"]

Current(r, kind) == Satisfied(kind, r.checkpoint[kind], r.checkpoint.identity)

----------------------------------------------------------------------------
(* The daemon's record.                                                    *)

\* finish: the runner returned `settlement` for `checkpoint` with the
\* continuation `resume`, and the candidate is handed over.
HandedOver(checkpoint, settlement, resume) ==
    [phase |-> PhaseOf(settlement.disposition), checkpoint |-> checkpoint,
     settlement |-> settlement, resume |-> resume,
     deliverable |-> IF checkpoint = NoCheckpoint THEN "none" ELSE "open",
     actionable |-> checkpoint # NoCheckpoint]

\* The same settlement stands, but no candidate is handed over: the goal cannot
\* be settled, or the task baseline cannot be retained either, or the
\* deliverable cannot be projected, which fails an accepted run.
NotHandedOver(checkpoint, settlement, resume) ==
    LET withheld == [HandedOver(checkpoint, settlement, resume) EXCEPT !.deliverable = "none"]
        unsettled == [withheld EXCEPT !.phase = "RecoveryRequired"]
    IN  {unsettled, [unsettled EXCEPT !.actionable = FALSE],
         [withheld EXCEPT !.phase = IF settlement.disposition = "Accepted" THEN "Failed" ELSE @]}

Finished(checkpoint, settlement, resume) ==
    {HandedOver(checkpoint, settlement, resume)}
    \union (IF scope.faults THEN NotHandedOver(checkpoint, settlement, resume) ELSE {})

\* finish: the runner returned an error.
Errored(r) ==
    {[r EXCEPT !.phase = "Failed"]}
    \union (IF scope.faults
            THEN {[r EXCEPT !.phase = "RecoveryRequired", !.actionable = @ /\ retained] :
                  retained \in BOOLEAN}
            ELSE {})

\* changed_checkpoint: the record's checkpoint under the facts of w.
ChangedCheckpoint(previous, w, execution) ==
    Reobserve(previous, [content |-> w.content, repository |-> Repository(w),
                         execution |-> execution,
                         requirements |-> previous.identity.requirements,
                         sequence |-> previous.identity.sequence + 1])

\* project_reconciled
Projected(loaded, checkpoint, settlement) ==
    [loaded EXCEPT !.checkpoint = checkpoint, !.settlement = settlement,
                   !.phase = IF @ = "RecoveryRequired" THEN @
                             ELSE PhaseOf(settlement.disposition),
                   !.actionable = IsQualified(checkpoint)]

\* A continuation that is read back goes on no later than at the gates, without
\* their report.
Resumed(resume) ==
    IF resume = NoResume THEN resume
    ELSE [resume EXCEPT !.report = FALSE, !.next = IF @ = "Writing" THEN @ ELSE "Checking"]

\* The record as it is read back: what was running is interrupted.
Loaded ==
    [record EXCEPT !.phase = IF @ \in Terminal THEN @ ELSE "RecoveryRequired",
                   !.settlement = IF @ = NoSettlement THEN @
                                  ELSE Decide(record.checkpoint, @.cause),
                   !.resume = Resumed(@)]

\* reconcile_candidate
Rebound(resume, checkpoint) ==
    IF resume = NoResume THEN resume
    ELSE [resume EXCEPT !.checkpoint = checkpoint, !.report = FALSE,
                        !.next = IF SameContentAndRequirements(resume.checkpoint.identity,
                                                               checkpoint.identity)
                                 THEN "Checking" ELSE "Writing"]

TerminalCandidate(loaded) ==
    loaded.phase \in Terminal /\ loaded.deliverable = "open" /\ loaded.checkpoint # NoCheckpoint

\* Mutant: only a changed source or repository makes a candidate stale.
ReconciledSourceOnly(loaded, validated) ==
    LET identity == loaded.checkpoint.identity
        stale == ChangedCheckpoint(loaded.checkpoint, workspace, NoContext)
    IN  IF ~TerminalCandidate(loaded) THEN loaded
        ELSE IF ~validated THEN [loaded EXCEPT !.actionable = FALSE]
        ELSE IF \/ identity.repository # Repository(workspace)
                \/ identity.content # workspace.content
        THEN Projected([loaded EXCEPT !.resume = Rebound(@, stale)], stale,
                       Decide(stale, loaded.settlement.cause))
        ELSE loaded

\* Mutant: a candidate whose workspace cannot be validated is left as it is.
ReconciledIfValidated(loaded, validated) ==
    LET identity == loaded.checkpoint.identity
        stale == ChangedCheckpoint(loaded.checkpoint, workspace, NoContext)
    IN  IF ~TerminalCandidate(loaded) \/ ~validated THEN loaded
        ELSE IF \/ identity.repository # Repository(workspace)
                \/ identity.content # workspace.content
                \/ identity.execution # NoContext
        THEN Projected([loaded EXCEPT !.resume = Rebound(@, stale)], stale,
                       Decide(stale, loaded.settlement.cause))
        ELSE loaded

\* reconcile_restored_candidates: a candidate whose workspace, digests or
\* discard receipts cannot be validated is marked unavailable, and what was
\* settled about it stands.
Reconciled(loaded, validated) ==
    LET identity == loaded.checkpoint.identity
        stale == ChangedCheckpoint(loaded.checkpoint, workspace, NoContext)
    IN  IF ~TerminalCandidate(loaded) THEN loaded
        ELSE IF ~validated THEN [loaded EXCEPT !.actionable = FALSE]
        ELSE IF \/ identity.repository # Repository(workspace)
                \/ identity.content # workspace.content
                \/ identity.execution # NoContext
        THEN Projected([loaded EXCEPT !.resume = Rebound(@, stale)], stale,
                       Decide(stale, loaded.settlement.cause))
        ELSE IF loaded.resume # NoResume
        THEN Projected(loaded, loaded.checkpoint, loaded.settlement)
        ELSE loaded

\* A record whose continuation names another checkpoint is quarantined.
Quarantined == record.resume # NoResume /\ record.resume.checkpoint # record.checkpoint

----------------------------------------------------------------------------
(* The world around the run.                                               *)

\* The user, an editor, a package upgrade or a git command of the user.
EditWorkspace ==
    /\ run.pc \in scope.editedAt /\ count.edit < scope.edit
    /\ count' = [count EXCEPT !.edit = @ + 1]
    /\ \/ \E c \in Contents \ {workspace.content} :
             workspace' = [workspace EXCEPT !.content = c]
       \/ \E e \in 1..MaxContext \ {workspace.context} :
             workspace' = [workspace EXCEPT !.context = e]
       \/ /\ workspace.head < MaxHead
          /\ workspace' = [workspace EXCEPT !.head = @ + 1]
    /\ UNCHANGED <<conversation, recorder, run, record, history>>

UserMessage ==
    /\ run.pc # "Down" /\ record.phase # "Lost" /\ conversation < MaxRevision
    /\ conversation' = conversation + 1
    /\ UNCHANGED <<workspace, recorder, run, record, count, history>>

----------------------------------------------------------------------------
(* A developer turn: the model edits, runs commands and reads messages.    *)
(* Its first invocation incorporates every message sent so far.            *)

Turn(state, kind) == [state EXCEPT !.pc = "Turn", !.next = kind, !.rev = conversation]

\* A file tool changes the source; a command may change it and verify it.
ToolChange ==
    /\ run.pc = "Turn" /\ count.tool < scope.tool
    /\ count' = [count EXCEPT !.tool = @ + 1]
    /\ \E c \in Contents, stage \in scope.toolStages :
          /\ stage = "Changed" => c # workspace.content
          /\ workspace' = [workspace EXCEPT !.content = c]
          /\ Takes(recorder, Recorded(workspace', recorder, stage, run.rev, Nothing), run)
    /\ UNCHANGED <<conversation, record, history>>

\* A command acts outside the workspace.  What was reviewed before it no
\* longer counts.
ToolEffect ==
    /\ scope.effects /\ run.pc = "Turn" /\ count.tool < scope.tool
    /\ count' = [count EXCEPT !.tool = @ + 1]
    /\ LET marked == [recorder EXCEPT !.external = TRUE] IN
       Takes(recorder, Recorded(workspace, marked, "Changed", run.rev,
                                [Nothing EXCEPT !.kind = "effect"]), run)
    /\ passed' = {p \in passed : p.kind = "gates"}
    /\ UNCHANGED <<workspace, conversation, record, failed, kept, fresh>>

\* A later invocation of the turn incorporates a message sent meanwhile.
Incorporate ==
    /\ run.pc = "Turn" /\ run.rev # conversation
    /\ run' = [run EXCEPT !.rev = conversation]
    /\ UNCHANGED <<workspace, conversation, recorder, record, count, history>>

\* The turn is applied: the first write and a fix record it, a follow-up
\* leaves it to its tools.
EndTurn ==
    LET checking == [run EXCEPT !.pc = "Loop", !.next = "Checking"] IN
    /\ run.pc = "Turn"
    /\ IF run.next = "FollowUp"
       THEN run' = checking /\ UNCHANGED recorder
       ELSE \E stage \in IF run.next = "Writing" THEN scope.toolStages ELSE {"Changed"} :
               Takes(recorder, Recorded(workspace, recorder, stage, run.rev, Nothing), checking)
    /\ UNCHANGED <<workspace, conversation, record, count, history>>

----------------------------------------------------------------------------
(* The loop of run_until_terminal.                                         *)

Exit(state, cause, next) ==
    [state EXCEPT !.pc = "Exit", !.cause = cause,
                  !.next = IF next = "FollowUp" THEN "Writing" ELSE next]

AtLoop(next) == run.pc = "Loop" /\ run.next = next /\ conversation = run.rev

\* Before the conversation is looked at.
LoopFinalizing ==
    /\ run.pc = "Loop" /\ run.next = "Finalizing"
    /\ run' = Exit(run, "Completed", "Finalizing")
    /\ UNCHANGED <<workspace, conversation, recorder, record, count, history>>

FollowUp ==
    /\ run.pc = "Loop" /\ run.next # "Finalizing" /\ conversation # run.rev
    /\ run' = Turn(run, "FollowUp")
    /\ UNCHANGED <<workspace, conversation, recorder, record, count, history>>

\* no_change::eligible
NoPatch == scope.investigation /\ recorder.checkpoint = NoCheckpoint /\ workspace.content = 0

BeginInvestigation ==
    /\ AtLoop("Checking") /\ NoPatch
    /\ run' = [run EXCEPT !.pc = "Investigate"]
    /\ UNCHANGED <<workspace, conversation, recorder, record, count, history>>

EndInvestigation ==
    /\ run.pc = "Investigate"
    /\ \E ok \in BOOLEAN :
          run' = IF conversation # run.rev THEN Turn(run, "FollowUp")
                 ELSE IF workspace.content # 0 THEN Exit(run, "Provider", "Checking")
                 ELSE IF ok THEN Exit(run, "NoChangeComplete", "Finalizing")
                 ELSE Turn(run, "Fixing")
    /\ UNCHANGED <<workspace, conversation, recorder, record, count, history>>

BeginGates ==
    /\ AtLoop("Checking") /\ ~NoPatch
    /\ run' = [run EXCEPT !.pc = "Gates",
                          !.seen = [content |-> workspace.content, context |-> workspace.context]]
    /\ UNCHANGED <<workspace, conversation, recorder, record, count, history>>

\* The check that ended: what it looked at, and how it ended.
Check(kind, content, requirements, execution) ==
    [kind |-> kind, content |-> content, requirements |-> requirements, execution |-> execution]

Remember(check, ok) ==
    /\ passed' = IF ok THEN passed \union {check} ELSE passed
    /\ failed' = IF ok THEN failed \ {check} ELSE failed \union {check}

EndGates(ok) ==
    LET r == Recorded(workspace, recorder, IF ok THEN "GatesPassed" ELSE "SelfChecked",
                      run.rev, Result("gates", ok, run.seen.context))
        inspected == [run EXCEPT !.seen = [content |-> 0, context |-> NoContext],
                                 !.diff = workspace.content, !.report = TRUE]
    IN  /\ run.pc = "Gates"
        /\ Takes(recorder, r,
                 IF conversation # run.rev THEN Turn(inspected, "FollowUp")
                 ELSE IF r.checkpoint = NoCheckpoint THEN [inspected EXCEPT !.pc = "Error"]
                 ELSE IF ok /\ Current(r, "obligations") /\ Current(r, "review")
                 THEN [inspected EXCEPT !.pc = "Qualify"]
                 ELSE [inspected EXCEPT !.pc = "Loop", !.next = "Reviewing"])
        /\ Remember(Check("gates", run.seen.content, run.rev, run.seen.context), ok)
        /\ fresh' = (fresh \/ ok)
        /\ UNCHANGED <<workspace, conversation, record, count, kept>>

\* The candidate's review is current already.
Qualify ==
    /\ run.pc = "Qualify"
    /\ Takes(recorder, Recorded(workspace, recorder, "Qualified", run.rev, Nothing),
             Exit(run, "Completed", "Finalizing"))
    /\ UNCHANGED <<workspace, conversation, record, count, history>>

\* A review that is current already is not marked as pending.
BeginReview ==
    LET reviewing == [run EXCEPT !.pc = "Review", !.gatesOk = Current(recorder, "gates")] IN
    /\ AtLoop("Reviewing")
    /\ IF ~run.report THEN run' = [run EXCEPT !.pc = "Error"] /\ UNCHANGED recorder
       ELSE IF reviewing.gatesOk /\ ~Current(recorder, "review")
       THEN Takes(recorder, Recorded(workspace, recorder, "ReviewPending", run.rev, Nothing),
                  reviewing)
       ELSE run' = reviewing /\ UNCHANGED recorder
    /\ UNCHANGED <<workspace, conversation, record, count, history>>

\* The review is dropped when a message arrived meanwhile.  Otherwise the
\* obligations are qualified and the review is recorded after them.
EndReview(ok) ==
    LET qualified == run.gatesOk /\ ok
        obliged == Recorded(workspace, recorder,
                            IF run.gatesOk THEN "GatesPassed" ELSE "SelfChecked",
                            run.rev, Result("obligations", qualified, NoContext))
        r == Recorded(workspace, obliged,
                      IF qualified THEN "Qualified"
                      ELSE IF run.gatesOk THEN "ReviewPending" ELSE "SelfChecked",
                      run.rev, Result("review", ok, NoContext))
        reviewed == [run EXCEPT !.gatesOk = FALSE]
        fixing == [reviewed EXCEPT !.pc = "Loop", !.next = "Fixing"]
    IN  /\ run.pc = "Review"
        /\ IF conversation # run.rev
           THEN run' = Turn(reviewed, "FollowUp") /\ UNCHANGED <<recorder, passed, failed>>
           ELSE /\ IF recorder.checkpoint = NoCheckpoint
                   THEN run' = fixing /\ UNCHANGED recorder
                   ELSE Takes(recorder, r, IF qualified
                                           THEN Exit(reviewed, "Completed", "Finalizing")
                                           ELSE fixing)
                /\ Remember(Check("review", run.diff, run.rev, NoContext), ok)
        /\ UNCHANGED <<workspace, conversation, record, count, kept, fresh>>

BeginFix ==
    /\ AtLoop("Fixing")
    /\ run' = IF run.report /\ recorder.checkpoint # NoCheckpoint THEN Turn(run, "Fixing")
              ELSE [run EXCEPT !.pc = "Error"]
    /\ UNCHANGED <<workspace, conversation, recorder, record, count, history>>

\* A question to the user, a cancellation, a failed apply, or a provider,
\* gate, deadline or repository failure ends the attempt.
Interrupt(cause) ==
    /\ run.pc \in {"Turn", "Gates", "Review", "Investigate"}
    /\ cause = "UserWait" => run.pc = "Turn"
    /\ run' = Exit([run EXCEPT !.seen = [content |-> 0, context |-> NoContext]], cause, run.next)
    /\ UNCHANGED <<workspace, conversation, recorder, record, count, history>>

----------------------------------------------------------------------------
(* The end of an attempt.                                                  *)

\* The Finalizing update: the checkpoint is persisted with the record.
Publish ==
    /\ run.pc = "Exit"
    /\ run' = [run EXCEPT !.pc = "Final"]
    /\ record' = [record EXCEPT !.checkpoint =
                     IF recorder.checkpoint = NoCheckpoint THEN @ ELSE recorder.checkpoint]
    /\ UNCHANGED <<workspace, conversation, recorder, count, history>>

\* Mutant: the candidate is settled as it was last recorded.
RefreshedNot(r) == r

\* refresh: what the candidate is now, for the request as it is now.
Refreshed(r) == Recorded(workspace, r, "Observed", conversation, Nothing)

\* Mutant: an investigation completes whatever has been asked since.
FinalCauseKept(observed) ==
    IF ~observed /\ run.cause \in {"Completed", "NoChangeComplete"} THEN "Provider" ELSE run.cause

\* An investigation of an older request did not complete the present one, and
\* nothing completes unless the candidate could be observed again.
FinalCause(observed) ==
    IF \/ run.cause = "NoChangeComplete" /\ run.rev # conversation
       \/ run.cause \in {"Completed", "NoChangeComplete"} /\ ~observed
    THEN "Provider" ELSE run.cause

\* A candidate that cannot be observed is settled as it was last recorded.
Finalize ==
    \E observed \in Outcomes :
        LET r == IF observed THEN Refreshed(recorder) ELSE recorder
            resume == IF r.checkpoint = NoCheckpoint THEN NoResume
                      ELSE [checkpoint |-> r.checkpoint, next |-> run.next, report |-> run.report]
        IN  /\ run.pc = "Final" /\ r.sequence <= MaxSequence
            /\ recorder' = NewRecorder(NoCheckpoint)
            /\ run' = Idle(IF r.checkpoint = NoCheckpoint \/ r = recorder
                              \/ Admissible(recorder.checkpoint, r.checkpoint)
                           THEN "Off" ELSE "Refused", run.rev)
            /\ record' \in Finished(r.checkpoint, Decide(r.checkpoint, FinalCause(observed)), resume)
            /\ kept' = [passed |-> passed, failed |-> failed]
            /\ UNCHANGED <<workspace, conversation, count, passed, failed, fresh>>

\* A fatal error: no settlement, no new checkpoint.
FinishError ==
    /\ run.pc = "Error"
    /\ run' = Idle("Off", run.rev)
    /\ recorder' = NewRecorder(NoCheckpoint)
    /\ record' \in Errored(record)
    /\ Forget
    /\ UNCHANGED <<workspace, conversation, count>>

----------------------------------------------------------------------------
(* Retries.                                                                *)

Retryable ==
    /\ run.pc = "Off" /\ count.retry < scope.retry
    /\ \/ record.phase \in {"Failed", "Cancelled", "RecoveryRequired"}
       \/ record.phase \in {"WaitingForUser", "Complete"} /\ conversation # run.rev

\* Mutant: the snapshot of a retry keeps the deliverable.
RetryingKept == [record EXCEPT !.phase = "Running", !.settlement = NoSettlement]

\* retry_bound: the record that is persisted before the attempt is spawned.
Retrying ==
    [record EXCEPT !.phase = "Running", !.settlement = NoSettlement, !.deliverable = "none"]

\* ExecutionContext::prepare: the retained candidate is observed again, and
\* the attempt goes on where the last one stopped if it is the same
\* candidate for the same request.
Retry ==
    LET resume == record.resume
        prior == NewRecorder(resume.checkpoint)
        r == Recorded(workspace, prior, "Observed", conversation, Nothing)
        launched == [Idle("Turn", conversation) EXCEPT !.ledger = conversation]
        same == /\ resume # NoResume /\ r.checkpoint # NoCheckpoint
                /\ SameContentAndRequirements(resume.checkpoint.identity, r.checkpoint.identity)
    IN  /\ Retryable
        /\ Takes(prior, r,
                 IF same /\ resume.next # "Writing"
                 THEN [launched EXCEPT !.pc = "Loop", !.next = resume.next,
                                       !.rev = resume.checkpoint.identity.requirements,
                                       !.diff = resume.checkpoint.identity.content,
                                       !.report = resume.report]
                 ELSE Turn(launched, "Writing"))
        /\ record' = Retrying
        /\ count' = [count EXCEPT !.retry = @ + 1]
        /\ UNCHANGED <<workspace, conversation, history>>

\* from_initial_error: the attempt fails before it observes anything, and what
\* the last one left is settled, unless its changed paths cannot be listed.
RetryFails ==
    LET checkpoint == record.resume.checkpoint IN
    /\ Retryable
    /\ \/ record' \in Finished(checkpoint, Decide(checkpoint, "Provider"), record.resume)
       \/ scope.faults /\ record' \in Errored(Retrying)
    /\ count' = [count EXCEPT !.retry = @ + 1]
    /\ UNCHANGED <<workspace, conversation, recorder, run, history>>

\* cancel: a run that waits for the user needs no runner to stop.
CancelWaiting ==
    /\ run.pc = "Off" /\ record.phase = "WaitingForUser"
    /\ record' = [record EXCEPT !.phase = "Cancelled"]
    /\ UNCHANGED <<workspace, conversation, recorder, run, count, history>>

----------------------------------------------------------------------------
(* The explicit commit of a candidate, and a crash of the daemon.          *)

\* handoff::bind: a commit that changed the repository and left the source
\* alone is part of the settled candidate; otherwise it is only recorded.
Bound(w) ==
    LET committed == [record EXCEPT !.deliverable = "committed"]
        checkpoint == ChangedCheckpoint(record.checkpoint, w, record.checkpoint.identity.execution)
    IN  IF \/ w.content # workspace.content
           \/ Repository(w) = record.checkpoint.identity.repository
        THEN committed
        ELSE [committed EXCEPT !.checkpoint = checkpoint,
                               !.settlement = Decide(checkpoint, @.cause),
                               !.resume = NoResume, !.actionable = TRUE]

\* Nothing may be left to commit: then no repository moves and no hook runs.
Commit ==
    /\ run.pc = "Off" /\ record.deliverable = "open" /\ record.actionable
    /\ record.checkpoint.identity.repository = Repository(workspace)
    /\ \/ UNCHANGED workspace
       \/ /\ workspace.head < MaxHead
          /\ \E c \in Contents :
                workspace' = [workspace EXCEPT !.content = c, !.head = @ + 1]
    /\ record' = Bound(workspace')
    /\ UNCHANGED <<conversation, recorder, run, count, history>>

Crash ==
    /\ run.pc # "Down" /\ count.crash < scope.crash
    /\ count' = [count EXCEPT !.crash = @ + 1]
    /\ run' = Idle("Down", run.rev)
    /\ recorder' = NewRecorder(NoCheckpoint)
    /\ Forget
    /\ UNCHANGED <<workspace, conversation, record>>

Restart ==
    /\ run.pc = "Down"
    /\ run' = Idle("Off", run.rev)
    /\ \E validated \in Outcomes :
          record' = IF record.phase = "Lost" \/ Quarantined THEN Lost
                    ELSE Reconciled(Loaded, validated)
    /\ fresh' = FALSE
    /\ UNCHANGED <<workspace, conversation, recorder, count, passed, failed, kept>>

----------------------------------------------------------------------------
(* The run has been launched: its baseline is captured and its first       *)
(* developer turn begins.                                                  *)

Init ==
    /\ scope \in Scopes
    /\ workspace = [content |-> 0, head |-> 0, context |-> 1]
    /\ conversation = 1
    /\ recorder = NewRecorder(NoCheckpoint)
    /\ run = [Idle("Turn", 1) EXCEPT !.next = "Writing", !.ledger = 1]
    /\ record = NewRecord
    /\ count = [crash |-> 0, retry |-> 0, edit |-> 0, tool |-> 0]
    /\ passed = {} /\ failed = {} /\ kept = [passed |-> {}, failed |-> {}] /\ fresh = FALSE

Step ==
    \/ EditWorkspace \/ UserMessage
    \/ ToolChange \/ ToolEffect \/ Incorporate \/ EndTurn
    \/ LoopFinalizing \/ FollowUp \/ BeginInvestigation \/ EndInvestigation
    \/ BeginGates \/ (\E ok \in BOOLEAN : EndGates(ok)) \/ Qualify
    \/ BeginReview \/ (\E ok \in BOOLEAN : EndReview(ok)) \/ BeginFix
    \/ (\E cause \in scope.interruptions : Interrupt(cause))
    \/ Publish \/ Finalize \/ FinishError
    \/ Retry \/ RetryFails \/ CancelWaiting
    \/ Commit \/ Crash \/ Restart

Next == Step /\ UNCHANGED scope

Spec == Init /\ [][Next]_vars

----------------------------------------------------------------------------
(* Properties.                                                             *)

\* The shapes of the attempt, the recorder and the record: the checkpoint of
\* each is one that CandidateCheckpoint::new accepts.
TypeOK ==
    /\ workspace \in [content : Contents, head : 0..MaxHead, context : 1..MaxContext]
    /\ conversation \in 1..MaxRevision /\ run.rev \in 1..conversation
    /\ recorder.sequence \in 0..MaxSequence
    /\ run.pc \in Places
    /\ record.phase \in Terminal \union {"Running", "Lost"}
    /\ record.deliverable \in {"none", "open", "committed"}
    /\ \A c \in {recorder.checkpoint, record.checkpoint, record.resume.checkpoint} :
          c # NoCheckpoint => c.stage \in Stages /\ Admissible(NoCheckpoint, c)

Accepted(r) == r.settlement.disposition = "Accepted"

\* A run is accepted only for source that the gates passed on, in the host
\* context the candidate is bound to, and that a review passed since the last
\* external effect of a settled attempt or the live one, both for the request the
\* candidate is bound to (RunSettlement::decide over what record() retained).
AcceptedTruth ==
    LET i == record.checkpoint.identity IN
    Accepted(record) => /\ Check("gates", i.content, i.requirements, i.execution) \in passed
                        /\ Check("review", i.content, i.requirements, NoContext) \in passed

\* A later negative result about the same candidate revokes a positive one: a
\* run is not accepted while the latest gates or the latest review of that
\* source failed, in an attempt that was settled or in the live one
\* (reconcile_for, stronger()).
NegativeRevokes ==
    LET i == record.checkpoint.identity IN
    Accepted(record) => /\ Check("gates", i.content, i.requirements, i.execution) \notin failed
                        /\ Check("review", i.content, i.requirements, NoContext) \notin failed

\* No checkpoint the recorder builds, in a first attempt or a resumed one, is
\* refused by the reducer that admits it (validate_successor, reconcile_for).
NeverRefused == run.pc # "Refused"

\* A deliverable that is still open has the settlement that is needed to
\* reconcile it after a restart; mark_stale fails without one, and the run
\* cannot be selected any more.
ReconcilableAtStartup == record.deliverable = "open" => record.settlement # NoSettlement

\* What the user may accept, export, commit or discard (validate_exact_candidate).
Offered(r) == r.deliverable = "open" /\ r.actionable

\* After a restart no uncommitted candidate is offered, not even one that was
\* accepted: the execution context its gates depend on is gone, or its
\* workspace could not be validated (reconcile_restored_candidates).
RestartWithdraws == [][run.pc = "Down" /\ run'.pc = "Off" => ~Offered(record')]_vars

\* An attempt that settles as accepted settles for the source as it is then and
\* the request as it is then, or it says that it could not observe them: it keeps
\* the candidate that it recorded last and does not settle as completed (finalize
\* refreshes both and turns Completed into the error of the refresh).
FinalizeObserves ==
    [][run.pc = "Final" /\ run'.pc = "Off" /\ Accepted(record')
       => \/ /\ record'.checkpoint.identity.content = workspace.content
             /\ record'.checkpoint.identity.requirements = conversation
          \/ /\ record'.checkpoint = recorder.checkpoint
             /\ record'.settlement.cause # "Completed"]_vars

\* A run completes without a candidate only while the source is the baseline
\* and the request is the one that was investigated (no_change, finalize).
NoChangeTruth ==
    [][run.pc = "Final" /\ record'.settlement.disposition = "CompletedWithoutCandidate"
       => workspace.content = 0 /\ run.rev = conversation]_vars

\* A run is accepted only on passed checks of its candidate, and a failed check
\* revokes what an older one had established.
CandidateTruth == TypeOK /\ AcceptedTruth /\ NegativeRevokes

\* No checkpoint of a live run is refused, and startup can reconcile every record
\* that has an open deliverable.
RecordTruth == NeverRefused /\ ReconcilableAtStartup

\* Settlements look at the present: restarts withdraw what is open, finalization
\* observes, and "no change" is said only of an unchanged request.
SettlementsObserve == RestartWithdraws /\ FinalizeObserves /\ NoChangeTruth

----------------------------------------------------------------------------
(* Statements of documents and comments that the code does not keep: the     *)
(* README names the instance that refutes each of them.                      *)

\* Evidence is bound to the candidate it was produced from.
EvidenceFromCandidate ==
    LET i == recorder.checkpoint.identity IN
    Current(recorder, "gates") =>
        Check("gates", i.content, i.requirements, i.execution) \in passed

\* Gate evidence is reacquired after a restart before a run is accepted.
RestartReacquiresGates == Accepted(record) /\ record.deliverable = "open" => fresh

\* An interrupted run can be retried after a restart.
RecordSurvives == record.phase # "Lost"

\* The obligations of a qualifying candidate are those of its request.
ObligationsOfRequest ==
    Current(recorder, "obligations") => run.ledger = recorder.checkpoint.identity.requirements

\* A run settles only for the candidate it observed.
SettlementObserves ==
    [][run.pc \in {"Off", "Final"} /\ ~Accepted(record) /\ Accepted(record')
       => record'.checkpoint.identity.content = workspace'.content]_vars

\* A continuation holds what was known when the run stopped: no positive
\* evidence that a later check of the stopped attempt refuted.
ContinuationExact ==
    [][LET e == record'.resume.checkpoint.gates IN
       run.pc \notin {"Off", "Down"} /\ run'.pc = "Off" /\ e.ok
       => Check("gates", e.from.content, e.from.requirements, e.from.execution) \notin failed]_vars

\* A continuation names the first phase that is stale or missing.
ResumesAtFirstStale ==
    record.resume.next = "Finalizing" => IsQualified(record.resume.checkpoint)
=============================================================================
