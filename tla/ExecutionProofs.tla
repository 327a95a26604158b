----------------------------- MODULE ExecutionProofs -----------------------------
(***************************************************************************)
(* Theorems about carrying work out: the cycle of writer, gates, review     *)
(* and fixer that delivers a run (Orchestrator), and the transaction that   *)
(* puts a patch into the workspace (WorkspaceMutation).                     *)
(*                                                                         *)
(* The orchestrator is safe for any limits of its counters.  The workspace *)
(* theorems hold for every plan, any number of actions that carry it, and   *)
(* any number of crashes, failing filesystem calls and foreign edits.      *)
(*                                                                         *)
(* MutationInv relates where the running call is to what it left on the    *)
(* disk: what may have been changed by now, which phase the manifest has,  *)
(* what the receipt says, and what stands in for every file that is gone.  *)
(* Its parts are named for the assumption they need: Receipts none at all, *)
(* Unedited that nobody else writes a target, Untouched and Undone also    *)
(* that no second action carries the patch, UndoEvidence also that restart *)
(* reconciliation did not resolve the transaction without a receipt.       *)
(***************************************************************************)
EXTENDS Orchestrator, WorkspaceMutation, TLAPS

------------------------------------------------------------------------------
(* The orchestrator: the inductive invariant.                                *)

\* The directives that may be pending in a phase.  A directive for gates or review
\* infrastructure outlives the step that made it needless; directives that pause or
\* resume may be pending anywhere in an active run.
Permitted(p) ==
    CASE p = "WriterPending" -> {"StartWriter", "PauseChildren", "ResumeChildren"}
      [] p \in {"GatesPending", "GatesActive"} ->
            {"StartGates", "FinalizeChildren", "PauseChildren", "ResumeChildren"}
      [] p = "ReviewPending" -> {"StartReview", "PauseChildren", "ResumeChildren"}
      [] p = "FixerPending" -> {"StartFixer", "PauseChildren", "ResumeChildren"}
      [] p = "RevisionAdvancing" -> {"FinalizeChildren", "PauseChildren", "ResumeChildren"}
      [] p = "EvaluatingAcceptance" ->
            {"FinalizeChildren", "EvaluateAcceptance", "PauseChildren", "ResumeChildren"}
      [] p = "KernelAcceptancePending" ->
            {"BeginKernelAcceptance", "EvaluateKernelAcceptance", "PauseChildren",
             "ResumeChildren"}
      [] p = "Cancelling" -> {"CancelChildren"}
      [] OTHER -> {"PauseChildren", "ResumeChildren"}

DirectiveFits == directive # None => directive.kind \in Permitted(phase)

\* The phases after the gates and after the review rest on observations of the
\* present revision.
EvidenceFits ==
    /\ phase \in {"ReviewPending", "ReviewActive", "EvaluatingAcceptance",
                  "KernelAcceptancePending"}
           => lastGate = [class |-> "Passed", revision |-> revision]
    /\ phase \in {"EvaluatingAcceptance", "KernelAcceptancePending"}
           => lastReview = [class |-> "Completed", revision |-> revision]

\* While the kernel decides, it is the only child; an acknowledged kernel directive
\* made it one, unless the run is stuck between pause and resume.
KernelOwned ==
    phase = "KernelAcceptancePending" =>
        /\ active \subseteq {"Kernel"}
        /\ directive # None /\ directive.acknowledged /\ ~reconciling
               /\ directive.kind \in {"BeginKernelAcceptance", "EvaluateKernelAcceptance"}
           => "Kernel" \in active

\* A pause is a reconciliation, and no acceptance is ever retained.
SettlementFits ==
    /\ paused => reconciling
    /\ pendingTerminal # "KernelAccepted"

\* Revisions are counted from the first.
RevisionsCounted == revision = count["Revisions"]

RunInv ==
    /\ TypeOK /\ Validate /\ DirectiveFits /\ EvidenceFits /\ KernelOwned /\ SettlementFits
    /\ RevisionsCounted /\ NoOrphanedChild /\ AcceptanceTruth

-----------------------------------------------------------------------------
(* Vocabulary                                                               *)

\* Counters within their limits.
Within(k) == k \in [Counter -> Nat] /\ \A c \in Counter : k[c] <= Limit[c]

\* Counting with room keeps the limit, and touches no other counter.
LEMMA CountOne ==
    ASSUME RunInv, NEW c \in Counter, NEW n \in Nat, Room(c, n), count' = Counted(c, n)
    PROVE  Within(count') /\ \A d \in Counter \ {c} : count'[d] = count[d]
BY LimitAssumption DEF RunInv, TypeOK, Room, Counted, Within

\* The same for two counters at once.
LEMMA CountTwo ==
    ASSUME RunInv, NEW c \in Counter, NEW d \in Counter, c # d, Room(c, 1), Room(d, 1),
           count' = [count EXCEPT ![c] = @ + 1, ![d] = @ + 1]
    PROVE  Within(count') /\ \A e \in Counter \ {c, d} : count'[e] = count[e]
BY LimitAssumption DEF RunInv, TypeOK, Room, Within

\* What a directive may have started are children.
LEMMA OwnedType ==
    /\ \A kind \in DirectiveKind : OwnedBy(kind) \subseteq Child
    /\ OwnedBy("PauseChildren") = {} /\ OwnedBy("ResumeChildren") = {}
    /\ OwnedBy("CancelChildren") = {} /\ OwnedBy("FinalizeChildren") = {}
    /\ OwnedBy("EvaluateAcceptance") = {}
    /\ OwnedBy("StartGates") = {"Gates"}
    /\ OwnedBy("BeginKernelAcceptance") = {"Kernel"}
    /\ OwnedBy("EvaluateKernelAcceptance") = {"Kernel"}
BY DEF DirectiveKind, OwnedBy, D3, Child

\* What is started is owned.
LEMMA StartedOwned ==
    ASSUME RunInv
    PROVE  /\ started \subseteq active \cup PendingOwned
           /\ PendingOwned \subseteq Child
           /\ active \subseteq Child /\ started \subseteq Child
BY OwnedType DEF RunInv, NoOrphanedChild, PendingOwned, TypeOK, PendingDirective

\* What an active run is not.
LEMMA ActiveFacts ==
    ASSUME RunInv, phase \in ActivePhase
    PROVE  terminal = None /\ pendingTerminal = None
BY DEF RunInv, Validate, ActivePhase

\* The variables whose type an observation changes.
EvidenceTyped ==
    /\ revision \in 1..Limit["Revisions"]
    /\ lastGate \in Observed({"Passed", "CandidateFailed", "Indeterminate",
                              "InfrastructureFailed"})
    /\ lastReview \in Observed({"NeedsFix", "Completed", "NeedsHuman", "Failed"})
    /\ certificate \in 1..Limit["Revisions"] \cup {None}
    /\ begun \in BOOLEAN

LEMMA EvidenceKept ==
    ASSUME RunInv
    PROVE  EvidenceTyped /\ Within(count) /\ RevisionsCounted
BY DEF RunInv, EvidenceTyped, TypeOK, Within

-----------------------------------------------------------------------------
(* Steps                                                                    *)

\* A run that ends without acceptance keeps what it owns.
LEMMA SetTerminalStep ==
    ASSUME RunInv, phase \in ActivePhase, NEW cause \in TerminalCause,
           cause # "KernelAccepted", NEW owned, owned \subseteq Child,
           NEW open, open \in HandoffKind \cup {None},
           SetTerminal(cause, owned, open),
           EvidenceTyped', Within(count'), RevisionsCounted',
           started' \subseteq owned, Validate'
    PROVE  RunInv'
<1>0. terminal = None /\ pendingTerminal = None
  BY ActiveFacts
<1>1. active' = owned
  BY DEF SetTerminal
<1>2. CASE owned = {}
  <2>1. /\ phase' = "Terminal" /\ paused' = FALSE /\ terminal' = cause
        /\ pendingTerminal' = None /\ directive' = None /\ handoff' = None
        /\ proposed' = FALSE /\ pausedChildren' = {} /\ reconciling' = FALSE
        /\ cancellation' = (cancellation /\ cause = "CancellationReconciled")
    BY <1>2 DEF SetTerminal, Close
  <2>2. cancellation' \in BOOLEAN
    BY <2>1
  <2>3. TypeOK'
    BY <1>1, <1>2, <2>1, <2>2 DEF TypeOK, EvidenceTyped, Within
  <2>4. /\ DirectiveFits' /\ EvidenceFits' /\ KernelOwned' /\ SettlementFits'
        /\ NoOrphanedChild' /\ AcceptanceTruth'
    BY <1>1, <1>2, <2>1, NoneAssumption
    DEF DirectiveFits, EvidenceFits, KernelOwned, SettlementFits, NoOrphanedChild,
        AcceptanceTruth, TerminalCause
  <2> QED BY <2>3, <2>4 DEF RunInv
<1>3. CASE owned # {}
  <2>1. /\ phase' = "Cancelling" /\ paused' = FALSE /\ pendingTerminal' = cause
        /\ cancellation' = TRUE /\ directive' = None /\ handoff' = open
        /\ UNCHANGED <<terminal, proposed, pausedChildren, reconciling>>
    BY <1>3 DEF SetTerminal, pauseVars
  <2>2. TypeOK'
    BY <1>1, <2>1 DEF TypeOK, EvidenceTyped, Within, RunInv
  <2>3. /\ DirectiveFits' /\ EvidenceFits' /\ KernelOwned' /\ SettlementFits'
        /\ NoOrphanedChild' /\ AcceptanceTruth'
    BY <1>0, <1>1, <2>1, NoneAssumption
    DEF DirectiveFits, EvidenceFits, KernelOwned, SettlementFits, NoOrphanedChild,
        AcceptanceTruth, TerminalCause
  <2> QED BY <2>2, <2>3 DEF RunInv
<1> QED BY <1>2, <1>3

\* A new directive fits the phase, and is remembered for what it may start.
LEMMA PublishStep ==
    ASSUME RunInv, Publish, Validate'
    PROVE  RunInv'
<1>0. PICK kind \in DirectiveKind :
        \E destination \in Destinations(kind) : PublishDirective(kind, destination)
  BY DEF Publish
<1>1. PICK destination \in Destinations(kind) : PublishDirective(kind, destination)
  BY <1>0
<1>2. /\ directive = None /\ MatchesPhase(kind) /\ destination \in Destinations(kind)
      /\ directive' = [kind |-> kind, destination |-> destination,
                       acknowledged |-> FALSE, deliveries |-> 1]
      /\ started' = started \cup OwnedBy(kind)
      /\ UNCHANGED <<phase, paused, active, pausedChildren, reconciling, handoff, proposed,
                     revision, lastGate, lastReview, certificate, begun,
                     terminal, pendingTerminal, cancellation>>
  BY <1>1 DEF PublishDirective, pauseVars, evidence, terminalVars
<1>3. Within(count') /\ count'["Revisions"] = count["Revisions"]
  BY <1>1, CountOne DEF PublishDirective, Counter
<1>4. destination \in Child \cup {"QualityEvaluator"}
  BY <1>2, StartedOwned DEF Destinations, Child, DirectiveKind
<1>5. directive' \in PendingDirective
  BY <1>2, <1>4, LimitAssumption DEF PendingDirective
<1>6. started' \subseteq Child
  BY <1>2, OwnedType, StartedOwned
<1>7. TypeOK'
  BY <1>2, <1>3, <1>5, <1>6 DEF RunInv, TypeOK, Within
<1>8. DirectiveFits'
  BY <1>2 DEF DirectiveFits, MatchesPhase, Permitted, RunInv, TypeOK, ActivePhase, Active
<1>9. KernelOwned'
  BY <1>2 DEF RunInv, KernelOwned
<1>10. NoOrphanedChild'
  BY <1>2, <1>5, NoneAssumption DEF RunInv, NoOrphanedChild
<1>11. AcceptanceTruth'
  <2>1. terminal # "KernelAccepted"
    BY <1>2, NoneAssumption DEF RunInv, Validate, MatchesPhase, TypeOK, TerminalCause, ActivePhase, Active
  <2> QED BY <1>2, <2>1 DEF AcceptanceTruth
<1> QED
  BY <1>2, <1>3, <1>7, <1>8, <1>9, <1>10, <1>11
  DEF RunInv, EvidenceFits, SettlementFits, RevisionsCounted

\* Publishing again changes the delivery count only.
LEMMA RepublishStep ==
    ASSUME RunInv, RepublishDirective, Validate'
    PROVE  RunInv'
<1>1. /\ directive # None /\ directive.deliveries < MaxDeliveries /\ ~directive.acknowledged
      /\ directive' = [directive EXCEPT !.deliveries = @ + 1]
      /\ UNCHANGED <<phase, paused, active, pausedChildren, reconciling, handoff, proposed,
                     revision, lastGate, lastReview, certificate, begun,
                     terminal, pendingTerminal, cancellation, count, started>>
  BY DEF RepublishDirective, pauseVars, evidence, terminalVars
<1>2. directive \in PendingDirective
  BY <1>1 DEF RunInv, TypeOK
<1>3. /\ directive' \in PendingDirective /\ directive'.kind = directive.kind
      /\ directive'.acknowledged = directive.acknowledged
  BY <1>1, <1>2, LimitAssumption DEF PendingDirective
<1>4. directive' # None
  BY <1>3, NoneAssumption
<1>5. TypeOK'
  BY <1>1, <1>3 DEF RunInv, TypeOK
<1> QED
  BY <1>1, <1>3, <1>4, <1>5
  DEF RunInv, DirectiveFits, EvidenceFits, KernelOwned, SettlementFits, RevisionsCounted,
      NoOrphanedChild, AcceptanceTruth

\* Acknowledgement: a child the directive may have started becomes an active one, or
\* the directive keeps standing for it.
LEMMA AcknowledgeStep ==
    ASSUME RunInv, AcknowledgeDirective, Validate'
    PROVE  RunInv'
<1>0. /\ directive # None
      /\ UNCHANGED <<paused, handoff, proposed, revision, lastGate, lastReview, certificate,
                     begun, terminal, pendingTerminal, cancellation, started>>
  BY DEF AcknowledgeDirective, evidence, terminalVars
<1>1. directive \in PendingDirective
  BY <1>0 DEF RunInv, TypeOK
<1>2. terminal # "KernelAccepted"
  BY <1>0, NoneAssumption DEF RunInv, Validate, TerminalCause
<1>3. AcceptanceTruth'
  BY <1>0, <1>2 DEF AcceptanceTruth
<1> DEFINE marked == [directive EXCEPT !.acknowledged = TRUE]
<1>4. /\ marked \in PendingDirective /\ marked.kind = directive.kind
      /\ marked.acknowledged = TRUE /\ marked # None
  <2>1. marked \in PendingDirective /\ marked.kind = directive.kind /\ marked.acknowledged = TRUE
    BY <1>1 DEF PendingDirective
  <2> QED BY <2>1, NoneAssumption
<1> HIDE DEF marked
<1>5. CASE AcknowledgeGates
  <2>1. /\ directive' = marked /\ active' = active \cup {"Gates"}
        /\ phase = "GatesPending" /\ phase' = "GatesActive"
        /\ UNCHANGED <<pausedChildren, reconciling>>
    BY <1>5 DEF AcknowledgeGates, pauseVars, marked
  <2>2. Within(count') /\ count'["Revisions"] = count["Revisions"]
    BY <1>5, CountOne DEF AcknowledgeGates, Counter
  <2>3. TypeOK'
    BY <1>0, <1>4, <2>1, <2>2 DEF RunInv, TypeOK, Within, Child, ActivePhase
  <2>4. DirectiveFits'
    BY <1>0, <1>4, <2>1 DEF RunInv, DirectiveFits, Permitted
  <2>5. NoOrphanedChild'
    BY <1>0, <1>4, <2>1 DEF RunInv, NoOrphanedChild
  <2> QED
    BY <1>0, <1>3, <2>1, <2>2, <2>3, <2>4, <2>5
    DEF RunInv, EvidenceFits, KernelOwned, SettlementFits, RevisionsCounted
<1>6. CASE AcknowledgeKernel
  <2>1. /\ directive' = marked /\ active' = active \cup OwnedBy(directive.kind)
        /\ phase = "KernelAcceptancePending" /\ ~paused
        /\ UNCHANGED <<phase, pausedChildren, reconciling, count>>
    BY <1>6 DEF AcknowledgeKernel, pauseVars, marked, Active
  <2>2. directive.kind \in {"BeginKernelAcceptance", "EvaluateKernelAcceptance",
                            "PauseChildren", "ResumeChildren"}
    BY <1>0, <2>1 DEF RunInv, DirectiveFits, Permitted
  <2>3. /\ OwnedBy(directive.kind) \subseteq {"Kernel"}
        /\ directive.kind \in {"BeginKernelAcceptance", "EvaluateKernelAcceptance"}
             => "Kernel" \in OwnedBy(directive.kind)
    BY <2>2, OwnedType
  <2>4. TypeOK'
    BY <1>0, <1>4, <2>1, <2>3 DEF RunInv, TypeOK, Child
  <2>5. DirectiveFits' /\ NoOrphanedChild'
    BY <1>0, <1>4, <2>1 DEF RunInv, DirectiveFits, NoOrphanedChild
  <2>6. KernelOwned'
    BY <1>4, <2>1, <2>3 DEF RunInv, KernelOwned
  <2> QED
    BY <1>0, <1>3, <2>1, <2>4, <2>5, <2>6
    DEF RunInv, EvidenceFits, SettlementFits, RevisionsCounted
<1>7. CASE AcknowledgePause
  <2>1. /\ paused /\ directive.kind = "PauseChildren" /\ directive' = None
        /\ pausedChildren' = pausedChildren \cup {directive.destination}
        /\ directive.destination \in active
        /\ UNCHANGED <<phase, active, reconciling, count>>
    BY <1>7 DEF AcknowledgePause
  <2>2. TypeOK'
    BY <1>0, <2>1 DEF RunInv, TypeOK
  <2>3. NoOrphanedChild'
    BY <1>0, <2>1, OwnedType DEF RunInv, NoOrphanedChild
  <2> QED
    BY <1>0, <1>3, <2>1, <2>2, <2>3
    DEF RunInv, DirectiveFits, EvidenceFits, KernelOwned, SettlementFits, RevisionsCounted
<1>8. CASE AcknowledgeResume
  <2>1. /\ ~paused /\ directive.kind = "ResumeChildren" /\ directive' = None
        /\ pausedChildren' = pausedChildren \ {directive.destination}
        /\ reconciling' = (pausedChildren' # {})
        /\ UNCHANGED <<phase, active, count>>
    BY <1>8 DEF AcknowledgeResume, Active
  <2>2. TypeOK'
    <3>1. reconciling' \in BOOLEAN
      BY <2>1
    <3> QED BY <1>0, <2>1, <3>1 DEF RunInv, TypeOK
  <2>3. NoOrphanedChild'
    BY <1>0, <2>1, OwnedType DEF RunInv, NoOrphanedChild
  <2> QED
    BY <1>0, <1>3, <2>1, <2>2, <2>3
    DEF RunInv, DirectiveFits, EvidenceFits, KernelOwned, SettlementFits, RevisionsCounted
<1>9. CASE AcknowledgeOther
  <2>1. /\ directive' = marked
        /\ UNCHANGED <<phase, active, pausedChildren, reconciling, count>>
    BY <1>9 DEF AcknowledgeOther, pauseVars, marked
  <2>2. phase = "KernelAcceptancePending" => paused
    BY <1>9 DEF AcknowledgeOther, Active, ActivePhase
  <2>3. TypeOK'
    BY <1>0, <1>4, <2>1 DEF RunInv, TypeOK
  <2>4. DirectiveFits' /\ NoOrphanedChild'
    BY <1>0, <1>4, <2>1 DEF RunInv, DirectiveFits, NoOrphanedChild
  <2>5. KernelOwned'
    BY <2>1, <2>2 DEF RunInv, KernelOwned, SettlementFits
  <2> QED
    BY <1>0, <1>3, <2>1, <2>3, <2>4, <2>5
    DEF RunInv, EvidenceFits, SettlementFits, RevisionsCounted
<1> QED BY <1>5, <1>6, <1>7, <1>8, <1>9 DEF AcknowledgeDirective

\* The activation turns what the directive may have started into active children.
LEMMA ActivationStep ==
    ASSUME RunInv, ObserveHandoffActivation, Validate'
    PROVE  RunInv'
<1>1. /\ phase \in ActivePhase /\ directive # None
      /\ active' = active \cup OwnedBy(directive.kind)
      /\ directive' = None
      /\ UNCHANGED <<paused, pausedChildren, reconciling, handoff, proposed, revision, lastGate,
                     lastReview, certificate, begun, terminal, pendingTerminal, cancellation,
                     started>>
  BY DEF ObserveHandoffActivation, Unhindered, Active, PendingIs, pauseVars, evidence, terminalVars
<1>2. /\ phase \in {"WriterPending", "ReviewPending", "FixerPending"}
      /\ phase' \in {"WriterActive", "ReviewActive", "FixerActive"}
      /\ phase' = "ReviewActive" => phase = "ReviewPending"
  BY DEF ObserveHandoffActivation
<1>3. Within(count') /\ count'["Revisions"] = count["Revisions"]
  <2>1. PICK cycle \in {"WriterCycles", "ReviewCycles", "FixerCycles"} :
          /\ Room(cycle, 1) /\ Room("RetainedObservations", 1)
          /\ count' = [count EXCEPT ![cycle] = @ + 1, !["RetainedObservations"] = @ + 1]
    BY DEF ObserveHandoffActivation
  <2>2. cycle \in Counter /\ "RetainedObservations" \in Counter /\ cycle # "RetainedObservations"
    BY DEF Counter
  <2>3. Within(count') /\ \A e \in Counter \ {cycle, "RetainedObservations"} : count'[e] = count[e]
    BY <2>1, <2>2, CountTwo
  <2> QED BY <2>3 DEF Counter
<1>4. TypeOK'
  <2>1. active' \subseteq Child
    BY <1>1, StartedOwned DEF PendingOwned
  <2> QED BY <1>1, <1>2, <1>3, <2>1 DEF RunInv, TypeOK, Within, ActivePhase
<1>5. NoOrphanedChild'
  BY <1>1 DEF RunInv, NoOrphanedChild
<1>6. AcceptanceTruth'
  BY <1>1, ActiveFacts, NoneAssumption DEF AcceptanceTruth, TerminalCause
<1> QED
  BY <1>1, <1>2, <1>3, <1>4, <1>5, <1>6
  DEF RunInv, DirectiveFits, EvidenceFits, KernelOwned, SettlementFits, RevisionsCounted

\* The writer or the fixer is done; the agent is no child any more.
LEMMA RoleStep ==
    ASSUME RunInv, NEW completed \in BOOLEAN,
           ObserveWriter(completed) \/ ObserveFixer(completed), Validate'
    PROVE  RunInv'
<1>1. /\ phase \in {"WriterActive", "FixerActive"} /\ ~paused
      /\ started' = started \ {"Agent"}
      /\ UNCHANGED <<revision, lastGate, lastReview, certificate, begun>>
  BY DEF ObserveWriter, ObserveFixer, Unhindered, Active, evidence
<1>2. Within(count') /\ count'["Revisions"] = count["Revisions"]
  BY CountOne DEF ObserveWriter, ObserveFixer, Counter
<1>3. terminal = None /\ pendingTerminal = None
  BY <1>1, ActiveFacts DEF ActivePhase
<1>4. CASE completed
  <2>1. /\ phase' \in {"GatesPending", "RevisionAdvancing"} /\ active' = active \ {"Agent"}
        /\ handoff' = None /\ proposed' \in BOOLEAN
        /\ UNCHANGED <<paused, directive, pausedChildren, reconciling, terminal,
                       pendingTerminal, cancellation>>
    BY <1>4 DEF ObserveWriter, ObserveFixer, pauseVars, terminalVars, RunInv, TypeOK
  <2>2. TypeOK'
    BY <1>1, <1>2, <2>1 DEF RunInv, TypeOK, Within, ActivePhase
  <2>3. DirectiveFits'
    BY <1>1, <2>1 DEF RunInv, DirectiveFits, Permitted
  <2>4. NoOrphanedChild'
    BY <1>1, <2>1 DEF RunInv, NoOrphanedChild
  <2>5. AcceptanceTruth'
    BY <1>3, <2>1, NoneAssumption DEF AcceptanceTruth, TerminalCause
  <2> QED
    BY <1>1, <1>2, <2>1, <2>2, <2>3, <2>4, <2>5
    DEF RunInv, EvidenceFits, KernelOwned, SettlementFits, RevisionsCounted
<1>5. CASE ~completed
  <2>1. PICK cause \in {"WriterFailed", "FixerFailed"} :
          SetTerminal(cause, (active \ {"Agent"}) \cup PendingOwned, None)
    BY <1>5 DEF ObserveWriter, ObserveFixer
  <2>2. EvidenceTyped' /\ RevisionsCounted'
    BY <1>1, <1>2, EvidenceKept DEF EvidenceTyped, RevisionsCounted
  <2>3. /\ (active \ {"Agent"}) \cup PendingOwned \subseteq Child
        /\ started' \subseteq (active \ {"Agent"}) \cup PendingOwned
    BY <1>1, StartedOwned
  <2>4. cause \in TerminalCause /\ cause # "KernelAccepted" /\ phase \in ActivePhase
    BY <1>1 DEF TerminalCause, ActivePhase
  <2> QED BY <1>2, <2>1, <2>2, <2>3, <2>4, SetTerminalStep
<1> QED BY <1>4, <1>5

\* The gates are done; only a pass opens the review of this revision.
LEMMA GatesStep ==
    ASSUME RunInv, NEW class \in {"Passed", "CandidateFailed", "InfrastructureFailed",
                                  "Indeterminate"},
           ObserveGates(class), Validate'
    PROVE  RunInv'
<1>1. /\ phase = "GatesActive" /\ ~paused
      /\ lastGate' = [class |-> class, revision |-> revision]
      /\ started' = started \ {"Gates"}
      /\ UNCHANGED <<revision, lastReview, certificate, begun>>
  BY DEF ObserveGates, Unhindered, Active
<1>2. terminal = None /\ pendingTerminal = None
  BY <1>1, ActiveFacts DEF ActivePhase
<1>3. PendingOwned \subseteq {"Gates"}
  BY <1>1, OwnedType DEF RunInv, DirectiveFits, Permitted, PendingOwned
<1>4. started' \subseteq active \ {"Gates"}
  BY <1>1, <1>3, StartedOwned
<1>5. EvidenceTyped'
  BY <1>1, EvidenceKept DEF EvidenceTyped, Observed
<1>6. CASE GatesPass(class)
  <2>1. /\ active' = active \ {"Gates"} /\ directive' = None /\ handoff' = "Reviewer"
        /\ phase' = "ReviewPending"
        /\ UNCHANGED <<paused, pausedChildren, reconciling, proposed, terminal,
                       pendingTerminal, cancellation>>
    BY <1>6 DEF ObserveGates, pauseVars, terminalVars
  <2>2. Within(count') /\ count'["Revisions"] = count["Revisions"]
    <3>1. /\ Room("RetainedObservations", 1) /\ Room("Handoffs", 1)
          /\ count' = [count EXCEPT !["RetainedObservations"] = @ + 1, !["Handoffs"] = @ + 1]
      BY <1>6 DEF ObserveGates
    <3>2. /\ Within(count')
          /\ \A e \in Counter \ {"RetainedObservations", "Handoffs"} : count'[e] = count[e]
      BY <3>1, CountTwo DEF Counter
    <3> QED BY <3>2 DEF Counter
  <2>3. TypeOK'
    BY <1>1, <1>4, <1>5, <2>1, <2>2 DEF RunInv, TypeOK, EvidenceTyped, Within, ActivePhase, HandoffKind
  <2>4. NoOrphanedChild'
    BY <1>4, <2>1 DEF NoOrphanedChild
  <2>5. AcceptanceTruth'
    BY <1>2, <2>1, NoneAssumption DEF AcceptanceTruth, TerminalCause
  <2>6. EvidenceFits'
    BY <1>1, <1>6, <2>1 DEF EvidenceFits, GatesPass
  <2> QED
    BY <1>1, <2>1, <2>2, <2>3, <2>4, <2>5, <2>6
    DEF RunInv, DirectiveFits, KernelOwned, SettlementFits, RevisionsCounted
<1>7. CASE ~GatesPass(class)
  <2>1. SetTerminal(GateCause(class), active \ {"Gates"}, handoff)
    BY <1>7 DEF ObserveGates
  <2>2. Within(count') /\ RevisionsCounted'
    <3>1. Room("RetainedObservations", 1) /\ count' = Counted("RetainedObservations", 1)
      BY <1>7 DEF ObserveGates
    <3> QED BY <1>1, <3>1, CountOne, EvidenceKept DEF Counter, RevisionsCounted
  <2>3. GateCause(class) \in TerminalCause /\ GateCause(class) # "KernelAccepted"
    BY DEF GateCause, TerminalCause
  <2>4. /\ active \ {"Gates"} \subseteq Child /\ phase \in ActivePhase
        /\ handoff \in HandoffKind \cup {None}
    BY <1>1 DEF RunInv, TypeOK, ActivePhase
  <2> QED BY <1>4, <1>5, <2>1, <2>2, <2>3, <2>4, SetTerminalStep
<1> QED BY <1>6, <1>7

\* The review is done, or asks for fixes and stays.
LEMMA ReviewStep ==
    ASSUME RunInv, NEW class \in {"NeedsFix", "Completed", "NeedsHuman", "Failed"},
           ObserveReview(class), Validate'
    PROVE  RunInv'
<1>1. /\ phase = "ReviewActive" /\ ~paused
      /\ lastReview' = [class |-> class, revision |-> revision]
      /\ Room("RetainedObservations", 1)
      /\ UNCHANGED <<revision, lastGate, certificate, begun>>
  BY DEF ObserveReview, Unhindered, Active
<1>2. terminal = None /\ pendingTerminal = None
  BY <1>1, ActiveFacts DEF ActivePhase
<1>3. PendingOwned = {}
  BY <1>1, OwnedType DEF RunInv, DirectiveFits, Permitted, PendingOwned
<1>4. EvidenceTyped'
  BY <1>1, EvidenceKept DEF EvidenceTyped, Observed
<1>5. CASE class = "NeedsFix"
  <2>1. /\ Room("Handoffs", 1)
        /\ count' = [count EXCEPT !["RetainedObservations"] = @ + 1, !["Handoffs"] = @ + 1]
        /\ handoff' = "Fixer" /\ directive' = None /\ phase' = "FixerPending"
        /\ UNCHANGED <<paused, active, pausedChildren, reconciling, proposed, terminal,
                       pendingTerminal, cancellation, started>>
    BY <1>5 DEF ObserveReview, pauseVars, terminalVars
  <2>2. Within(count') /\ count'["Revisions"] = count["Revisions"]
    <3>1. /\ Within(count')
          /\ \A e \in Counter \ {"RetainedObservations", "Handoffs"} : count'[e] = count[e]
      BY <1>1, <2>1, CountTwo DEF Counter
    <3> QED BY <3>1 DEF Counter
  <2>3. TypeOK'
    BY <1>1, <1>4, <2>1, <2>2 DEF RunInv, TypeOK, EvidenceTyped, Within, ActivePhase, HandoffKind
  <2>4. NoOrphanedChild'
    BY <1>3, <2>1, StartedOwned DEF NoOrphanedChild
  <2>5. AcceptanceTruth'
    BY <1>2, <2>1, NoneAssumption DEF AcceptanceTruth, TerminalCause
  <2> QED
    BY <1>1, <2>1, <2>2, <2>3, <2>4, <2>5
    DEF RunInv, DirectiveFits, EvidenceFits, KernelOwned, SettlementFits, RevisionsCounted
<1>6. CASE class = "Completed"
  <2>1. /\ count' = Counted("RetainedObservations", 1)
        /\ handoff' = None /\ directive' = None /\ phase' = "EvaluatingAcceptance"
        /\ active' = active \ {"Review"} /\ started' = started \ {"Review"}
        /\ UNCHANGED <<paused, pausedChildren, reconciling, proposed, terminal,
                       pendingTerminal, cancellation>>
    BY <1>6 DEF ObserveReview, pauseVars, terminalVars
  <2>2. Within(count') /\ count'["Revisions"] = count["Revisions"]
    BY <1>1, <2>1, CountOne DEF Counter
  <2>3. TypeOK'
    BY <1>1, <1>4, <2>1, <2>2 DEF RunInv, TypeOK, EvidenceTyped, Within, ActivePhase
  <2>4. NoOrphanedChild'
    BY <1>3, <2>1, StartedOwned DEF NoOrphanedChild
  <2>5. AcceptanceTruth'
    BY <1>2, <2>1, NoneAssumption DEF AcceptanceTruth, TerminalCause
  <2>6. EvidenceFits'
    BY <1>1, <1>6, <2>1 DEF RunInv, EvidenceFits
  <2> QED
    BY <1>1, <2>1, <2>2, <2>3, <2>4, <2>5, <2>6
    DEF RunInv, DirectiveFits, KernelOwned, SettlementFits, RevisionsCounted
<1>7. CASE class \in {"NeedsHuman", "Failed"}
  <2>1. /\ count' = Counted("RetainedObservations", 1)
        /\ started' = started \ {"Review"}
        /\ SetTerminal(IF class = "NeedsHuman" THEN "ReviewNeedsHuman" ELSE "ReviewFailed",
                       active \ {"Review"}, None)
    BY <1>7 DEF ObserveReview
  <2>2. PICK cause \in {"ReviewNeedsHuman", "ReviewFailed"} :
          SetTerminal(cause, active \ {"Review"}, None)
    BY <2>1
  <2>3. Within(count') /\ RevisionsCounted'
    BY <1>1, <2>1, CountOne, EvidenceKept DEF Counter, RevisionsCounted
  <2>4. /\ active \ {"Review"} \subseteq Child /\ started' \subseteq active \ {"Review"}
        /\ phase \in ActivePhase
        /\ cause \in TerminalCause /\ cause # "KernelAccepted"
    BY <1>1, <1>3, <2>1, StartedOwned DEF ActivePhase, TerminalCause
  <2> QED BY <1>4, <2>2, <2>3, <2>4, SetTerminalStep
<1> QED BY <1>5, <1>6, <1>7

\* The children of a role are finished, as the pending directive asked.
LEMMA InfrastructureStep ==
    ASSUME RunInv, NEW outcome \in {"Completed", "Failed", "Indeterminate"},
           ObserveRoleInfrastructure(outcome), Validate'
    PROVE  RunInv'
<1>1. /\ phase \in {"EvaluatingAcceptance", "RevisionAdvancing"} /\ ~paused
      /\ directive # None /\ directive.kind = "FinalizeChildren"
      /\ Room("RetainedObservations", 2) /\ count' = Counted("RetainedObservations", 2)
      /\ started' = started \ D3
      /\ UNCHANGED <<revision, lastGate, lastReview, certificate, begun>>
  BY DEF ObserveRoleInfrastructure, Unhindered, Active, PendingIs, evidence
<1>2. terminal = None /\ pendingTerminal = None
  BY <1>1, ActiveFacts DEF ActivePhase
<1>3. PendingOwned = {}
  BY <1>1, OwnedType DEF PendingOwned
<1>4. Within(count') /\ count'["Revisions"] = count["Revisions"]
  BY <1>1, CountOne DEF Counter
<1>5. started' \subseteq active \ D3
  BY <1>1, <1>3, StartedOwned
<1>6. EvidenceTyped' /\ RevisionsCounted'
  BY <1>1, <1>4, EvidenceKept DEF EvidenceTyped, RevisionsCounted
<1>7. CASE outcome = "Completed"
  <2>1. /\ active' = active \ D3 /\ directive' = None
        /\ UNCHANGED <<phase, paused, pausedChildren, reconciling, handoff, proposed, terminal,
                       pendingTerminal, cancellation>>
    BY <1>7 DEF ObserveRoleInfrastructure, pauseVars, terminalVars
  <2>2. TypeOK'
    BY <1>1, <1>4, <1>6, <2>1 DEF RunInv, TypeOK, EvidenceTyped, Within
  <2>3. NoOrphanedChild'
    BY <1>5, <2>1 DEF NoOrphanedChild
  <2>4. AcceptanceTruth'
    BY <1>2, <2>1, NoneAssumption DEF AcceptanceTruth, TerminalCause
  <2> QED
    BY <1>1, <1>6, <2>1, <2>2, <2>3, <2>4
    DEF RunInv, DirectiveFits, EvidenceFits, KernelOwned, SettlementFits
<1>8. CASE outcome # "Completed"
  <2>1. PICK cause \in {"ChildAmbiguous", "CoordinationFailed"} :
          SetTerminal(cause, active \ D3, handoff)
    BY <1>8 DEF ObserveRoleInfrastructure
  <2>2. /\ active \ D3 \subseteq Child /\ phase \in ActivePhase
        /\ handoff \in HandoffKind \cup {None}
        /\ cause \in TerminalCause /\ cause # "KernelAccepted"
    BY <1>1 DEF RunInv, TypeOK, ActivePhase, TerminalCause
  <2> QED BY <1>4, <1>5, <1>6, <2>1, <2>2, SetTerminalStep
<1> QED BY <1>7, <1>8

\* A new revision starts over at its gates.
LEMMA AdvanceStep ==
    ASSUME RunInv, AdvanceCandidate, Validate'
    PROVE  RunInv'
<1>1. /\ phase = "RevisionAdvancing" /\ ~paused
      /\ Room("Revisions", 1) /\ count' = Counted("Revisions", 1)
      /\ revision' = revision + 1 /\ proposed' = FALSE /\ certificate' = None
      /\ phase' = "GatesPending"
      /\ UNCHANGED <<paused, directive, active, pausedChildren, reconciling, handoff, lastGate,
                     lastReview, begun, terminal, pendingTerminal, cancellation, started>>
  BY DEF AdvanceCandidate, Unhindered, Active, pauseVars, terminalVars
<1>2. terminal = None
  BY <1>1, ActiveFacts DEF ActivePhase
<1>3. Within(count')
  BY <1>1, CountOne DEF Counter
<1>4. count'["Revisions"] = count["Revisions"] + 1
  BY <1>1 DEF Counted, RunInv, TypeOK, Counter
<1>5. revision' = count'["Revisions"] /\ revision' \in 1..Limit["Revisions"]
  BY <1>1, <1>3, <1>4, LimitAssumption DEF RunInv, RevisionsCounted, TypeOK, Within, Counter
<1>6. TypeOK'
  BY <1>1, <1>3, <1>5 DEF RunInv, TypeOK, Within, ActivePhase
<1>7. DirectiveFits'
  BY <1>1 DEF RunInv, DirectiveFits, Permitted
<1>8. AcceptanceTruth'
  BY <1>1, <1>2, NoneAssumption DEF AcceptanceTruth, TerminalCause
<1> QED
  BY <1>1, <1>5, <1>6, <1>7, <1>8
  DEF RunInv, EvidenceFits, KernelOwned, SettlementFits, RevisionsCounted, NoOrphanedChild

\* The certificate is for the revision the gates and the review were about.
LEMMA CertificateStep ==
    ASSUME RunInv, RecordAcceptanceCertificate, Validate'
    PROVE  RunInv'
<1>1. /\ phase = "EvaluatingAcceptance" /\ ~paused
      /\ directive # None /\ directive.kind = "EvaluateAcceptance" /\ active = {}
      /\ directive' = None /\ certificate' = revision /\ phase' = "KernelAcceptancePending"
      /\ UNCHANGED <<paused, active, pausedChildren, reconciling, handoff, revision, proposed,
                     lastGate, lastReview, begun, terminal, pendingTerminal, cancellation,
                     count, started>>
  BY DEF RecordAcceptanceCertificate, Unhindered, Active, PendingIs, pauseVars, terminalVars
<1>2. terminal = None
  BY <1>1, ActiveFacts DEF ActivePhase
<1>3. TypeOK'
  BY <1>1 DEF RunInv, TypeOK, ActivePhase
<1>4. NoOrphanedChild'
  BY <1>1, OwnedType, StartedOwned DEF NoOrphanedChild, PendingOwned
<1>5. AcceptanceTruth'
  BY <1>1, <1>2, NoneAssumption DEF AcceptanceTruth, TerminalCause
<1> QED
  BY <1>1, <1>3, <1>4, <1>5
  DEF RunInv, DirectiveFits, EvidenceFits, KernelOwned, SettlementFits, RevisionsCounted

\* The kernel accepts what was certified, with nothing left running.
LEMMA KernelStep ==
    ASSUME RunInv, NEW result \in {"Begun", "Accepted", "NeedsChanges"},
           ObserveKernelAcceptance(result), Validate'
    PROVE  RunInv'
<1>1. /\ phase = "KernelAcceptancePending" /\ ~paused /\ ~reconciling
      /\ directive # None /\ directive.acknowledged
      /\ directive.kind = IF result = "Begun" THEN "BeginKernelAcceptance"
                          ELSE "EvaluateKernelAcceptance"
      /\ Room("RetainedObservations", 1) /\ count' = Counted("RetainedObservations", 1)
      /\ UNCHANGED <<revision, lastGate, lastReview, certificate>>
  BY DEF ObserveKernelAcceptance, Unhindered, Active, PendingIs
<1>2. terminal = None /\ pendingTerminal = None
  BY <1>1, ActiveFacts DEF ActivePhase
<1>3. Within(count') /\ count'["Revisions"] = count["Revisions"]
  BY <1>1, CountOne DEF Counter
<1>4. active = {"Kernel"}
  BY <1>1 DEF RunInv, KernelOwned
<1>5. PendingOwned = {"Kernel"}
  BY <1>1, OwnedType DEF PendingOwned
<1>6. started \subseteq {"Kernel"}
  BY <1>4, <1>5, StartedOwned
<1>7. RevisionsCounted'
  BY <1>1, <1>3, EvidenceKept DEF RevisionsCounted
<1>8. CASE result = "Begun"
  <2>1. /\ begun' = TRUE /\ directive' = None
        /\ UNCHANGED <<phase, paused, active, pausedChildren, reconciling, handoff, proposed,
                       terminal, pendingTerminal, cancellation, started>>
    BY <1>8 DEF ObserveKernelAcceptance, pauseVars, terminalVars
  <2>2. TypeOK'
    BY <1>1, <1>3, <2>1 DEF RunInv, TypeOK, Within
  <2>3. NoOrphanedChild'
    BY <1>4, <1>6, <2>1 DEF NoOrphanedChild
  <2>4. AcceptanceTruth'
    BY <1>2, <2>1, NoneAssumption DEF AcceptanceTruth, TerminalCause
  <2> QED
    BY <1>1, <1>7, <2>1, <2>2, <2>3, <2>4
    DEF RunInv, DirectiveFits, EvidenceFits, KernelOwned, SettlementFits
<1>9. CASE result = "Accepted"
  <2>1. /\ SetTerminal("KernelAccepted", active \ {"Kernel"}, handoff)
        /\ started' = started \ {"Kernel"} /\ begun' = begun
    BY <1>9 DEF ObserveKernelAcceptance
  <2>2. active \ {"Kernel"} = {}
    BY <1>4
  <2>3. /\ active' = {} /\ phase' = "Terminal" /\ paused' = FALSE /\ terminal' = "KernelAccepted"
        /\ pendingTerminal' = None /\ cancellation' = FALSE
        /\ directive' = None /\ handoff' = None /\ proposed' = FALSE
        /\ pausedChildren' = {} /\ reconciling' = FALSE
    BY <2>1, <2>2 DEF SetTerminal, Close
  <2>4. started' = {}
    BY <1>6, <2>1
  <2>5. TypeOK'
    BY <1>1, <1>3, <2>1, <2>3, <2>4 DEF RunInv, TypeOK, Within, TerminalCause
  <2>6. AcceptanceTruth'
    BY <1>1, <2>3, <2>4 DEF RunInv, EvidenceFits, AcceptanceTruth, Validate
  <2> QED
    BY <1>7, <2>3, <2>4, <2>5, <2>6, NoneAssumption
    DEF RunInv, DirectiveFits, EvidenceFits, KernelOwned, SettlementFits, NoOrphanedChild,
        TerminalCause
<1>10. CASE result = "NeedsChanges"
  <2>1. /\ SetTerminal("KernelNeedsChanges", active \ {"Kernel"}, handoff)
        /\ started' = started \ {"Kernel"} /\ begun' = begun
    BY <1>10 DEF ObserveKernelAcceptance
  <2>2. EvidenceTyped'
    BY <1>1, <2>1, EvidenceKept DEF EvidenceTyped
  <2>3. started' \subseteq active \ {"Kernel"} /\ active \ {"Kernel"} \subseteq Child
    BY <1>4, <1>6, <2>1
  <2>4. /\ phase \in ActivePhase /\ handoff \in HandoffKind \cup {None}
        /\ "KernelNeedsChanges" \in TerminalCause
    BY <1>1 DEF RunInv, TypeOK, ActivePhase, TerminalCause
  <2> QED BY <1>3, <1>7, <2>1, <2>2, <2>3, <2>4, SetTerminalStep
<1> QED BY <1>8, <1>9, <1>10

\* Pausing and resuming keep every child and every directive.
LEMMA PauseStep ==
    ASSUME RunInv, Pause \/ Resume, Validate'
    PROVE  RunInv'
<1>1. /\ phase \in ActivePhase /\ reconciling' = TRUE /\ paused' \in BOOLEAN
      /\ pausedChildren' \subseteq Child
      /\ UNCHANGED <<phase, directive, active, handoff, proposed, revision, lastGate, lastReview,
                     certificate, begun, terminal, pendingTerminal, cancellation, count, started>>
  BY DEF Pause, Resume, Unhindered, Active, pauseVars, evidence, terminalVars, RunInv, TypeOK,
         SettlementFits
<1>2. TypeOK'
  BY <1>1 DEF RunInv, TypeOK
<1> QED
  BY <1>1, <1>2
  DEF RunInv, DirectiveFits, EvidenceFits, KernelOwned, SettlementFits, RevisionsCounted,
      NoOrphanedChild, AcceptanceTruth

\* Cancelling takes over what the dropped directive may have started.
LEMMA CancelStep ==
    ASSUME RunInv, Cancel, Validate'
    PROVE  RunInv'
<1>1. /\ phase \in ActivePhase /\ active' = active \cup PendingOwned /\ cancellation' = TRUE
      /\ directive' = None /\ reconciling' = FALSE /\ pausedChildren' = {}
      /\ phase' = "Cancelling" /\ paused' = FALSE
      /\ UNCHANGED <<handoff, proposed, revision, lastGate, lastReview, certificate, begun,
                     terminal, pendingTerminal, count, started>>
  BY DEF Cancel, evidence
<1>2. terminal = None /\ pendingTerminal = None
  BY <1>1, ActiveFacts
<1>3. TypeOK'
  BY <1>1, StartedOwned DEF RunInv, TypeOK
<1>4. NoOrphanedChild'
  BY <1>1, StartedOwned DEF NoOrphanedChild
<1>5. AcceptanceTruth'
  BY <1>1, <1>2, NoneAssumption DEF AcceptanceTruth, TerminalCause
<1> QED
  BY <1>1, <1>3, <1>4, <1>5
  DEF RunInv, DirectiveFits, EvidenceFits, KernelOwned, SettlementFits, RevisionsCounted

\* One child less to settle.
LEMMA ReconcileStep ==
    ASSUME RunInv, NEW child \in Child, NEW class \in {"Terminal", "Unreachable", "Ambiguous"},
           ReconcileCancellation(child, class), Validate'
    PROVE  RunInv'
<1>1. /\ phase = "Cancelling" /\ directive # None /\ directive.kind = "CancelChildren"
      /\ Room("CancellationReconciliations", 1) /\ Room("RetainedObservations", 1)
      /\ count' = [count EXCEPT !["CancellationReconciliations"] = @ + 1,
                                !["RetainedObservations"] = @ + 1]
      /\ active' = active \ {child} /\ started' = started \ {child} /\ directive' = None
      /\ pendingTerminal' \in {"ChildAmbiguous", pendingTerminal}
      /\ UNCHANGED <<phase, paused, pausedChildren, reconciling, handoff, proposed, revision,
                     lastGate, lastReview, certificate, begun, terminal, cancellation>>
  BY DEF ReconcileCancellation, PendingIs, AmbiguousTerminal, pauseVars, evidence
<1>2. terminal = None
  BY <1>1 DEF RunInv, Validate
<1>3. Within(count') /\ count'["Revisions"] = count["Revisions"]
  <2>1. /\ Within(count')
        /\ \A e \in Counter \ {"CancellationReconciliations", "RetainedObservations"} :
              count'[e] = count[e]
    BY <1>1, CountTwo DEF Counter
  <2> QED BY <2>1 DEF Counter
<1>4. PendingOwned = {}
  BY <1>1, OwnedType DEF PendingOwned
<1>5. TypeOK'
  BY <1>1, <1>3 DEF RunInv, TypeOK, Within, TerminalCause
<1>6. NoOrphanedChild'
  BY <1>1, <1>4, StartedOwned DEF NoOrphanedChild
<1>7. AcceptanceTruth'
  BY <1>1, <1>2, NoneAssumption DEF AcceptanceTruth, TerminalCause
<1> QED
  BY <1>1, <1>3, <1>5, <1>6, <1>7
  DEF RunInv, DirectiveFits, EvidenceFits, KernelOwned, SettlementFits, RevisionsCounted

\* A settled run ends with the cause it retained.
LEMMA FinalizeStep ==
    ASSUME RunInv, Finalize, Validate'
    PROVE  RunInv'
<1>1. /\ phase = "Cancelling" /\ active = {} /\ directive = None
      /\ phase' = "Terminal" /\ paused' = FALSE /\ pendingTerminal' = None
      /\ terminal' = IF pendingTerminal = None THEN "CancellationReconciled" ELSE pendingTerminal
      /\ directive' = None /\ handoff' = None /\ proposed' = FALSE
      /\ pausedChildren' = {} /\ reconciling' = FALSE
      /\ UNCHANGED <<active, revision, lastGate, lastReview, certificate, begun, count, started>>
  BY DEF Finalize, Quiescent, Close, evidence
<1>2. terminal' \in TerminalCause /\ terminal' # "KernelAccepted"
  BY <1>1 DEF RunInv, TypeOK, SettlementFits, TerminalCause
<1>3. cancellation' \in BOOLEAN
  BY DEF Finalize, Close
<1>4. TypeOK'
  BY <1>1, <1>2, <1>3 DEF RunInv, TypeOK
<1>5. NoOrphanedChild'
  BY <1>1 DEF RunInv, NoOrphanedChild
<1>6. AcceptanceTruth'
  BY <1>2 DEF AcceptanceTruth
<1> QED
  BY <1>1, <1>4, <1>5, <1>6, NoneAssumption
  DEF RunInv, DirectiveFits, EvidenceFits, KernelOwned, SettlementFits, RevisionsCounted,
      TerminalCause

\* A run that is ended keeps what it owns until it is settled.
LEMMA ExplicitStep ==
    ASSUME RunInv, NEW cause \in ExplicitCause, ExplicitTerminal(cause), Validate'
    PROVE  RunInv'
<1>1. /\ phase \in ActivePhase
      /\ SetTerminal(cause, active \cup PendingOwned, handoff)
      /\ UNCHANGED <<revision, lastGate, lastReview, certificate, begun, count, started>>
  BY DEF ExplicitTerminal, evidence
<1>2. EvidenceTyped' /\ Within(count') /\ RevisionsCounted'
  BY <1>1, EvidenceKept DEF EvidenceTyped, Within, RevisionsCounted
<1>3. /\ active \cup PendingOwned \subseteq Child /\ started' \subseteq active \cup PendingOwned
      /\ handoff \in HandoffKind \cup {None}
      /\ cause \in TerminalCause /\ cause # "KernelAccepted"
  BY <1>1, StartedOwned DEF RunInv, TypeOK, TerminalCause, ExplicitCause
<1> QED BY <1>1, <1>2, <1>3, SetTerminalStep

-----------------------------------------------------------------------------
(* Theorems                                                                 *)

LEMMA RunStep ==
    ASSUME RunInv, [Next]_vars
    PROVE  RunInv'
<1>1. CASE Decide(Publish)
  BY <1>1, PublishStep DEF Decide
<1>2. CASE Decide(RepublishDirective)
  BY <1>2, RepublishStep DEF Decide
<1>3. CASE Decide(AcknowledgeDirective)
  BY <1>3, AcknowledgeStep DEF Decide
<1>4. CASE Decide(Observe)
  BY <1>4, ActivationStep, RoleStep, GatesStep, ReviewStep, InfrastructureStep, KernelStep
  DEF Decide, Observe
<1>5. CASE Decide(AdvanceCandidate)
  BY <1>5, AdvanceStep DEF Decide
<1>6. CASE Decide(RecordAcceptanceCertificate)
  BY <1>6, CertificateStep DEF Decide
<1>7. CASE Decide(Pause) \/ Decide(Resume)
  BY <1>7, PauseStep DEF Decide
<1>8. CASE Decide(Cancel)
  BY <1>8, CancelStep DEF Decide
<1>9. CASE Decide(Settle)
  BY <1>9, ReconcileStep, FinalizeStep DEF Decide, Settle
<1>10. CASE \E cause \in ExplicitCause : Decide(ExplicitTerminal(cause))
  BY <1>10, ExplicitStep DEF Decide
<1>11. CASE UNCHANGED vars
  BY <1>11
  DEF vars, pauseVars, evidence, terminalVars, RunInv, TypeOK, Validate, DirectiveFits,
      EvidenceFits, KernelOwned, SettlementFits, RevisionsCounted, NoOrphanedChild,
      AcceptanceTruth
<1> QED
  BY <1>1, <1>2, <1>3, <1>4, <1>5, <1>6, <1>7, <1>8, <1>9, <1>10, <1>11 DEF Next

LEMMA RunStart ==
    ASSUME Init
    PROVE  RunInv
<1>1. TypeOK
  <2>1. Limit["Revisions"] \in Nat /\ 1 \in 1..Limit["Revisions"]
    BY LimitAssumption DEF Counter
  <2>2. count \in [Counter -> Nat] /\ \A c \in Counter : count[c] <= Limit[c]
    BY LimitAssumption DEF Init
  <2>3. /\ phase \in ActivePhase /\ handoff \in HandoffKind
        /\ lastGate = None /\ lastReview = None /\ revision = 1
    BY DEF Init, ActivePhase, HandoffKind
  <2> QED BY <2>1, <2>2, <2>3 DEF Init, TypeOK, Observed
<1>2. Validate /\ DirectiveFits /\ EvidenceFits /\ KernelOwned /\ SettlementFits
  BY NoneAssumption
  DEF Init, Validate, DirectiveFits, EvidenceFits, KernelOwned, SettlementFits, TerminalCause
<1>3. RevisionsCounted /\ NoOrphanedChild /\ AcceptanceTruth
  BY NoneAssumption
  DEF Init, RevisionsCounted, NoOrphanedChild, AcceptanceTruth, TerminalCause, Counter
<1> QED BY <1>1, <1>2, <1>3 DEF RunInv

\* The inductive invariant holds along every behaviour.
THEOREM RunInvariant == Spec => []RunInv
<1>1. Init => RunInv
  BY RunStart
<1>2. RunInv /\ [Next]_vars => RunInv'
  BY RunStep
<1> QED BY <1>1, <1>2, PTL DEF Spec

\* Acceptance rests on the gates and the review of exactly the accepted revision, and no
\* child a committed directive may have started is forgotten (acceptance.rs,
\* role_cycle.rs, normalize_pending_ownership).
THEOREM RunIsTruthful == Spec => []RunTruth
<1>1. RunInv => RunTruth
  BY DEF RunInv, RunTruth
<1> QED BY <1>1, RunInvariant, PTL

\* A run that settles ends, never in acceptance, and reports the cause it retained
\* (reconcile, finalize).
THEOREM CausesStand == Spec => CommittedCauseStands
<1>1. ASSUME RunInv, [Next]_vars
      PROVE  [ /\ phase = "Cancelling" =>
                    phase' \in {"Cancelling", "Terminal"}
                        /\ terminal' # "KernelAccepted"
               /\ pendingTerminal # None => pendingTerminal \in {pendingTerminal', terminal'}
             ]_vars
  <2>1. CASE phase = "Cancelling" /\ Next
    <3>1. terminal = None /\ pendingTerminal # "KernelAccepted" /\ ~paused
      BY <1>1, <2>1 DEF RunInv, Validate, SettlementFits, TypeOK, ActivePhase
    <3>2. CASE Finalize
      BY <3>1, <3>2 DEF Finalize, Close
    <3>3. CASE \E child \in Child, class \in {"Terminal", "Unreachable", "Ambiguous"} :
                  ReconcileCancellation(child, class)
      BY <2>1, <3>1, <3>3, NoneAssumption
      DEF ReconcileCancellation, AmbiguousTerminal, TerminalCause
    <3>4. CASE Publish
      BY <2>1, <3>1, <3>4, NoneAssumption
      DEF Publish, PublishDirective, terminalVars, TerminalCause
    <3>5. CASE RepublishDirective
      BY <2>1, <3>1, <3>5, NoneAssumption DEF RepublishDirective, terminalVars, TerminalCause
    <3>6. CASE AcknowledgeDirective
      BY <2>1, <3>1, <3>6, NoneAssumption
      DEF AcknowledgeDirective, AcknowledgeGates, AcknowledgeKernel, AcknowledgePause,
          AcknowledgeResume, AcknowledgeOther, Active, ActivePhase, terminalVars, TerminalCause
    <3>7. ~Observe
      BY <2>1
      DEF Observe, ObserveHandoffActivation, ObserveWriter, ObserveFixer, ObserveGates,
          ObserveReview, ObserveRoleInfrastructure, ObserveKernelAcceptance
    <3>8. ~AdvanceCandidate /\ ~RecordAcceptanceCertificate
      BY <2>1 DEF AdvanceCandidate, RecordAcceptanceCertificate
    <3>9. ~Pause /\ ~Resume /\ ~Cancel /\ \A cause \in ExplicitCause : ~ExplicitTerminal(cause)
      BY <2>1, <3>1 DEF Pause, Resume, Cancel, ExplicitTerminal, Unhindered, Active, ActivePhase
    <3> QED
      BY <2>1, <3>2, <3>3, <3>4, <3>5, <3>6, <3>7, <3>8, <3>9 DEF Next, Decide, Settle
  <2>2. CASE phase # "Cancelling"
    BY <1>1, <2>2 DEF RunInv, Validate
  <2>3. CASE UNCHANGED vars
    BY <2>3
  <2> QED BY <1>1, <2>1, <2>2, <2>3
<1> QED BY <1>1, RunInvariant, PTL DEF Spec, CommittedCauseStands

------------------------------------------------------------------------------
(* The workspace: the inductive invariant.                                   *)

\* The callers of the transaction, the positions of a call and its results.
By == {"nobody", "apply", "recover", "rolled", "applied", "reconcile"}
Before == {"prepare", "stage", "begin"}
Installs == {"mkdir", "observe", "backup", "final", "verify"}
Undoes == {"remove", "restore", "verifyPre", "rmdir"}
Ending == {"withdraw", "complete", "cleanup", "done"}
Position == {"idle", "inspect", "read", "persist"} \cup Before \cup Installs \cup Undoes \cup Ending
Forward == {"Applied", "AlreadyApplied"}
Backed == {"Cancelled", "Restored", "RolledBackCleanly", "Stopped"}
End == {"none", "Failed", "Dirty", "Indeterminate"} \cup Forward \cup Backed
Bound == Len(Kind) + Len(Outer) + 1

CallType == [by : By, for : Action \cup {Nobody}, at : Position, k : 0 .. Bound,
             mutated : BOOLEAN, ends : End]

StateTypes ==
    /\ target \in [Op -> File] /\ dirs \in SUBSET Dir
    /\ txn \in BOOLEAN /\ quarantined \in BOOLEAN
    /\ manifest \in [phase : Phase, created : SUBSET Dir]
    /\ staged \in SUBSET Op /\ backup \in [Op -> File]
    /\ marker \in [Action -> Marker]
    /\ edits \in 0 .. MaxEdits /\ faults \in 0 .. MaxFaults /\ crashes \in 0 .. MaxCrashes
    /\ up \in BOOLEAN /\ condition \in Condition
    /\ consumed \in SUBSET Action /\ token \in SUBSET Action
    /\ told \in [Action -> Outcome] /\ reconciled \in BOOLEAN

Types == StateTypes /\ call \in CallType

\* The results with which each caller removes the evidence.
Ends(by) ==
    IF by = "apply" THEN {"Applied", "Cancelled", "Restored"}
    ELSE IF by = "applied" THEN {"AlreadyApplied"}
    ELSE {"AlreadyApplied", "RolledBackCleanly"}

\* Who is where: only apply_patch prepares and installs, only recovery reads, and
\* the operation at hand is one of the kind the step handles.
Positioned ==
    /\ call.at \in {"inspect", "withdraw"} \cup Before \cup Installs => call.by = "apply"
    /\ call.at = "read" => call.by \in {"recover", "rolled", "reconcile"}
    /\ call.at # "idle" => call.by # "nobody"
    /\ call.by \in {"apply", "recover", "rolled", "applied"} => call.for \in Action
    /\ call.by = "applied" => call.at \in {"cleanup", "done"} /\ call.ends = "AlreadyApplied"
    /\ call.at \in {"observe", "backup", "final", "verify", "remove", "restore"} => call.k \in Op
    /\ call.at = "mkdir" => call.k \in 1 .. (Len(Outer) + 1)
    /\ call.at = "rmdir" => call.k \in 0 .. Len(Outer)
    /\ call.at = "backup" => Kind[call.k] # "Create"
    /\ call.at = "final" => Kind[call.k] # "Delete"

\* The manifest says Installing before anything is changed, and is there until
\* everything is undone or recorded.
Phased ==
    /\ call.at \in Before => txn
    /\ call.at \in {"stage", "begin"} => manifest.phase = "Prepared"
    /\ call.at \in Installs \cup Undoes \cup {"persist"} =>
          txn /\ manifest.phase \in {"Installing", "Installed"}
    /\ ~txn => manifest.phase = "none"

\* What a call may end with.
Ended ==
    /\ call.at = "withdraw" => call.ends = "Cancelled"
    /\ call.at \in {"complete", "cleanup"} => call.ends \in Ends(call.by)
    /\ call.at = "done" =>
          IF call.by = "apply" THEN call.ends \in Ends("apply") \cup {"Stopped", "Failed"}
          ELSE call.ends \in Ends(call.by) \cup {"Dirty", "Indeterminate", "Failed"}

Control == Positioned /\ Phased /\ Ended

AnyApplied == \E a \in Action : marker[a] = "Applied"
AnyRolledBack == \E a \in Action : marker[a] = "RolledBack"

\* The receipt is recorded before the evidence is removed, the caller is told what
\* the receipt says, and nothing runs for an action that was not consumed.
Receipts ==
    /\ call.at \in {"cleanup", "done"} /\ call.by \in {"apply", "recover"} =>
          /\ call.ends \in Forward => marker[call.for] = "Applied"
          /\ call.ends \in Backed \ {"Stopped"} => marker[call.for] = "RolledBack"
    /\ call.by = "rolled" => marker[call.for] = "RolledBack"
    /\ call.by = "applied" => marker[call.for] = "Applied"
    /\ call.for \in Action => marker[call.for] # "absent"
    /\ \A a \in consumed \cup token : marker[a] # "absent"
    /\ \A a \in Action :
          /\ told[a] \in Forward => marker[a] = "Applied"
          /\ told[a] \in {"Cancelled", "RolledBack"} => marker[a] = "RolledBack"

\* What the steps of the patch can leave at a target.
Natural(i) ==
    /\ target[i] # "foreign"
    /\ Kind[i] = "Create" => target[i] # "old"
    /\ Kind[i] = "Delete" => target[i] # "new"

\* Nobody else writes: Applied is recorded over installed postimages only, and
\* nothing that changes a target runs after it.
Unedited ==
    edits = 0 =>
        /\ \A i \in Op : Natural(i)
        /\ call.at = "backup" => IsPre(call.k)
        /\ call.at = "final" /\ Kind[call.k] # "Create" => target[call.k] = "absent"
        /\ AnyApplied => AllPost
        /\ \/ call.by = "apply" /\ call.at \in Before \cup Installs \cup {"persist"}
           \/ call.at \in Undoes
           => ~AnyApplied
        /\ call.at = "persist" => AllPost
        /\ call.at = "complete" /\ call.ends \in Forward => AllPost

\* One action, nobody else writes: until the first directory or target is changed
\* the workspace is as the plan expects to find it.
Untouched ==
    edits = 0 /\ ~Shared =>
        /\ (\A a \in Action : marker[a] = "absent") => At("idle") /\ ~txn /\ Unchanged
        /\ \A a \in token : At("idle") /\ ~txn /\ Unchanged /\ marker[a] = "open"
        /\ call.at \in {"inspect", "withdraw"} => ~txn /\ Unchanged
        /\ call.at \in Before => Unchanged
        /\ call.at \in {"inspect", "withdraw"} \cup Before \cup Installs =>
              marker[call.for] = "open"
        /\ call.by = "apply" /\ call.at \in Installs \cup {"persist"} /\ ~call.mutated =>
              Unchanged
        /\ manifest.phase = "Prepared" => Unchanged

\* One action, nobody else writes: a call that ends without the patch has put
\* everything back, directories included.
Undone ==
    edits = 0 /\ ~Shared =>
        /\ manifest.phase # "none" => manifest.created = Dir
        /\ call.at = "rmdir" => AllPre /\ \A d \in dirs : d <= call.k
        /\ call.at \in Ending /\ call.ends \in Backed => Unchanged
        /\ AnyRolledBack => Unchanged

\* Every file that is gone has its backup.
Kept == \A i \in Op : Kind[i] # "Create" /\ target[i] # "old" => backup[i] = "old"

\* Without disturbance what was changed is recorded as applied, or the manifest and
\* the backups that undo it are there.
UndoEvidence ==
    /\ call.by = "reconcile" => reconciled
    /\ Undisturbed /\ manifest.phase \in {"none", "Prepared"} => Unchanged \/ AnyApplied
    /\ Undisturbed /\ manifest.phase \in {"Installing", "Installed"} => Kept \/ AnyApplied

MutationInv == Types /\ Control /\ Receipts /\ Unedited /\ Untouched /\ Undone /\ CleanTruth /\ UndoEvidence

------------------------------------------------------------------------------
(* Facts about the plan and the targets.                                     *)

LEMMA PlanFacts ==
    /\ Op = 1 .. Len(Kind) /\ Len(Kind) \in Nat \ {0}
    /\ Dir = 1 .. Len(Outer) /\ Len(Outer) \in Nat
    /\ Kind \in [Op -> {"Create", "Replace", "Delete"}]
    /\ Nobody \notin Action
    /\ MaxEdits \in Nat /\ MaxFaults \in Nat /\ MaxCrashes \in Nat
BY PlanAssumption, CrashAssumption DEF Op, Dir

\* A plan changes something.
LEMMA NotBoth == ~(AllPre /\ AllPost)
BY PlanFacts DEF AllPre, AllPost, IsPre, IsPost, Preimage, Postimage

------------------------------------------------------------------------------
(* What each step does to the call.                                          *)

\* The call goes on, and a call begins.
Move(p, k, m, e) ==
    call' = [by |-> call.by, for |-> call.for, at |-> p, k |-> k, mutated |-> m, ends |-> e]

Started(by, a, p, e) ==
    call' = [by |-> by, for |-> a, at |-> p, k |-> 0, mutated |-> FALSE, ends |-> e]

LEMMA InspectMoves ==
    ASSUME call \in CallType, Inspect
    PROVE  \/ AllPre /\ ~txn /\ Move("prepare", call.k, call.mutated, call.ends)
           \/ ~(AllPre /\ ~txn) /\ Move("done", call.k, call.mutated, "Stopped")
BY DEF Inspect, Go, Return, Move, CallType

LEMMA PrepareMoves ==
    ASSUME call \in CallType, Prepare
    PROVE  Move("stage", call.k, call.mutated, call.ends)
BY DEF Prepare, Go, Move, CallType

LEMMA StageMoves ==
    ASSUME call \in CallType, Stage
    PROVE  Move("begin", call.k, call.mutated, call.ends)
BY DEF Stage, Go, Move, CallType

LEMMA EnterInstallingMoves ==
    ASSUME call \in CallType, EnterInstalling
    PROVE  Move("mkdir", 1, call.mutated, call.ends)
BY DEF EnterInstalling, GoTo, Move, CallType

LEMMA CreateDirectoryMoves ==
    ASSUME call \in CallType, CreateDirectory
    PROVE  \/ /\ call.k \in manifest.created
              /\ Move("mkdir", call.k + 1, TRUE, call.ends)
           \/ /\ call.k \notin manifest.created
              /\ Move("mkdir", call.k + 1, call.mutated, call.ends)
<1>1. call'.mutated = (call.mutated \/ call.k \in manifest.created)
    BY DEF CreateDirectory, CallType
<1>2. call.mutated \in BOOLEAN
    BY DEF CallType
<1>3. call' = [by |-> call.by, for |-> call.for, at |-> "mkdir", k |-> call.k + 1,
               mutated |-> call'.mutated, ends |-> call.ends]
    BY DEF CreateDirectory, At, CallType
<1>4. call.k \in manifest.created => call'.mutated = TRUE
    BY <1>1
<1>5. call.k \notin manifest.created => call'.mutated = call.mutated
    BY <1>1, <1>2
<1> QED
    BY <1>3, <1>4, <1>5 DEF Move

LEMMA DirectoriesCreatedMoves ==
    ASSUME call \in CallType, DirectoriesCreated
    PROVE  Move("observe", 1, call.mutated, call.ends)
BY DEF DirectoriesCreated, GoTo, Move, CallType

LEMMA ObserveTargetMoves ==
    ASSUME call \in CallType, ObserveTarget
    PROVE  \/ /\ ~IsPre(call.k) /\ call.mutated
              /\ Move("remove", Len(Kind), call.mutated, call.ends)
           \/ /\ ~IsPre(call.k) /\ ~call.mutated
              /\ Move("done", call.k, call.mutated, "Stopped")
           \/ /\ IsPre(call.k) /\ Kind[call.k] = "Create"
              /\ Move("final", call.k, call.mutated, call.ends)
           \/ /\ IsPre(call.k) /\ Kind[call.k] # "Create"
              /\ Move("backup", call.k, call.mutated, call.ends)
BY DEF ObserveTarget, Unexpected, AfterError, Go, GoTo, Return, Move, CallType

LEMMA BackupOriginalMoves ==
    ASSUME call \in CallType, BackupOriginal
    PROVE  \/ /\ target[call.k] = "absent" /\ call.mutated
              /\ Move("remove", Len(Kind), call.mutated, call.ends)
           \/ /\ target[call.k] = "absent" /\ ~call.mutated
              /\ Move("done", call.k, call.mutated, "Stopped")
           \/ /\ target[call.k] # "absent" /\ Kind[call.k] = "Delete"
              /\ call.k < Len(Kind)
              /\ Move("observe", call.k + 1, TRUE, call.ends)
           \/ /\ target[call.k] # "absent" /\ Kind[call.k] = "Delete"
              /\ ~(call.k < Len(Kind))
              /\ Move("verify", call.k, TRUE, call.ends)
           \/ /\ target[call.k] # "absent" /\ Kind[call.k] # "Delete"
              /\ Move("final", call.k, TRUE, call.ends)
<1>1. CASE target[call.k] = "absent"
  <2>1. AfterError
    BY <1>1 DEF BackupOriginal
  <2> QED
    BY <1>1, <2>1 DEF AfterError, GoTo, Return, Move, CallType
<1>2. CASE target[call.k] # "absent" /\ Kind[call.k] = "Delete"
  <2>1. call' = NextOp(call.k)
    BY <1>2 DEF BackupOriginal
  <2> QED
    BY <1>2, <2>1 DEF NextOp, Move, CallType
<1>3. CASE target[call.k] # "absent" /\ Kind[call.k] # "Delete"
  <2>1. call' = [call EXCEPT !.mutated = TRUE, !.at = "final"]
    BY <1>3 DEF BackupOriginal
  <2> QED
    BY <1>3, <2>1 DEF Move, CallType
<1> QED
    BY <1>1, <1>2, <1>3

LEMMA InstallFinalMoves ==
    ASSUME call \in CallType, InstallFinal
    PROVE  \/ call.k < Len(Kind) /\ Move("observe", call.k + 1, TRUE, call.ends)
           \/ ~(call.k < Len(Kind)) /\ Move("verify", call.k, TRUE, call.ends)
BY DEF InstallFinal, NextOp, Move, CallType

LEMMA VerifyPostimagesMoves ==
    ASSUME call \in CallType, VerifyPostimages
    PROVE  \/ AllPost /\ Move("persist", call.k, call.mutated, call.ends)
           \/ /\ ~AllPost /\ call.mutated
              /\ Move("remove", Len(Kind), call.mutated, call.ends)
           \/ /\ ~AllPost /\ ~call.mutated
              /\ Move("done", call.k, call.mutated, "Stopped")
BY DEF VerifyPostimages, AfterError, Go, GoTo, Return, Move, CallType

LEMMA PersistInstalledMoves ==
    ASSUME call \in CallType, PersistInstalled
    PROVE  \/ /\ call.by = "apply"
              /\ Move("complete", call.k, call.mutated, "Applied")
           \/ /\ call.by # "apply"
              /\ Move("complete", call.k, call.mutated, "AlreadyApplied")
BY DEF PersistInstalled, Toward, Move, CallType

LEMMA RollbackRemoveMoves ==
    ASSUME call \in CallType, RollbackRemove
    PROVE  \/ /\ Removable(call.k)
              /\ Move("restore", call.k, call.mutated, call.ends)
           \/ /\ ~Removable(call.k) /\ call.by = "apply"
              /\ Move("done", call.k, call.mutated, "Failed")
           \/ /\ ~Removable(call.k) /\ call.by # "apply"
              /\ Move("done", call.k, call.mutated, "Indeterminate")
BY DEF RollbackRemove, RollbackFailure, Go, Return, Move, CallType

LEMMA RollbackRestoreMoves ==
    ASSUME call \in CallType, RollbackRestore
    PROVE  \/ call.k > 1 /\ Move("remove", call.k - 1, call.mutated, call.ends)
           \/ /\ ~(call.k > 1)
              /\ Move("verifyPre", call.k, call.mutated, call.ends)
           \/ /\ UNCHANGED <<target, backup>> /\ call.by = "apply"
              /\ Move("done", call.k, call.mutated, "Failed")
           \/ /\ UNCHANGED <<target, backup>> /\ call.by # "apply"
              /\ Move("done", call.k, call.mutated, "Indeterminate")
BY DEF RollbackRestore, Restored, RollbackFailure, Go, GoTo, Return, Move, CallType

LEMMA VerifyPreimagesMoves ==
    ASSUME call \in CallType, VerifyPreimages
    PROVE  \/ AllPre /\ Move("rmdir", Len(Outer), call.mutated, call.ends)
           \/ /\ ~AllPre /\ call.by = "apply"
              /\ Move("done", call.k, call.mutated, "Failed")
           \/ /\ ~AllPre /\ call.by # "apply"
              /\ Move("done", call.k, call.mutated, "Indeterminate")
BY DEF VerifyPreimages, RollbackFailure, GoTo, Return, Move, CallType

LEMMA RemoveCreatedDirectoryMoves ==
    ASSUME call \in CallType, RemoveCreatedDirectory
    PROVE  \/ /\ dirs' = dirs \ ({call.k} \cap manifest.created)
              /\ Move("rmdir", call.k - 1, call.mutated, call.ends)
           \/ /\ dirs' = dirs /\ call.by = "apply"
              /\ Move("done", call.k, call.mutated, "Failed")
           \/ /\ dirs' = dirs /\ call.by # "apply"
              /\ Move("done", call.k, call.mutated, "Indeterminate")
BY DEF RemoveCreatedDirectory, RemoveDirectory, RollbackFailure, GoTo, Return, Move, CallType

LEMMA RolledBackMoves ==
    ASSUME call \in CallType, RolledBack
    PROVE  \/ /\ call.by = "apply"
              /\ Move("complete", call.k, call.mutated, "Restored")
           \/ /\ call.by # "apply"
              /\ Move("complete", call.k, call.mutated, "RolledBackCleanly")
BY DEF RolledBack, Toward, Move, CallType

LEMMA QuarantineMoves ==
    ASSUME call \in CallType, Quarantine
    PROVE  Move("done", call.k, call.mutated, "Indeterminate")
BY DEF Quarantine, Return, Move, CallType

LEMMA ClassifyMoves ==
    ASSUME call \in CallType, Classify
    PROVE  \/ /\ manifest.phase = "Prepared" /\ AllPre
              /\ Move("complete", call.k, call.mutated, "RolledBackCleanly")
           \/ /\ manifest.phase = "Installing" /\ AllPost
              /\ Move("persist", call.k, call.mutated, call.ends)
           \/ /\ manifest.phase = "Installing" /\ ~AllPost
              /\ Move("remove", Len(Kind), call.mutated, call.ends)
           \/ /\ manifest.phase = "Installed" /\ AllPost
              /\ Move("complete", call.k, call.mutated, "AlreadyApplied")
           \/ Move("done", call.k, call.mutated, "Dirty")
BY DEF Classify, Go, GoTo, Toward, Return, Move, CallType

LEMMA CompleteActionMoves ==
    ASSUME call \in CallType, CompleteAction
    PROVE  \/ /\ ~Records /\ marker' = marker
              /\ Move("cleanup", call.k, call.mutated, call.ends)
           \/ /\ Records /\ marker[call.for] \in {"open", Terminal}
              /\ marker' = Recorded /\ call.at = "withdraw"
              /\ Move("done", call.k, call.mutated, call.ends)
           \/ /\ Records /\ marker[call.for] \in {"open", Terminal}
              /\ marker' = Recorded /\ call.at = "complete"
              /\ Move("cleanup", call.k, call.mutated, call.ends)
           \/ marker' = marker /\ Move("done", call.k, call.mutated, "Failed")
BY DEF CompleteAction, At, Go, Return, Move, CallType

LEMMA RemoveTransactionMoves ==
    ASSUME call \in CallType, RemoveTransaction
    PROVE  Move("done", call.k, call.mutated, call.ends)
BY DEF RemoveTransaction, Return, Move, CallType

LEMMA CheckCancelledMoves ==
    ASSUME call \in CallType, CheckCancelled
    PROVE  \/ /\ call.at = "inspect"
              /\ Move("withdraw", call.k, call.mutated, "Cancelled")
           \/ /\ call.at # "inspect"
              /\ Move("complete", call.k, call.mutated, "Cancelled")
BY DEF CheckCancelled, At, Toward, Move, CallType

LEMMA FaultMoves ==
    ASSUME call \in CallType, Fault
    PROVE  \/ /\ call.at \in {"inspect", "prepare", "stage", "begin"}
              /\ UNCHANGED <<manifest, marker>>
              /\ Move("done", call.k, call.mutated, "Stopped")
           \/ /\ call.at \in {"mkdir", "observe", "backup", "final", "verify"}
              /\ UNCHANGED <<manifest, marker>> /\ call.mutated
              /\ Move("remove", Len(Kind), call.mutated, call.ends)
           \/ /\ call.at \in {"mkdir", "observe", "backup", "final", "verify"}
              /\ UNCHANGED <<manifest, marker>> /\ ~call.mutated
              /\ Move("done", call.k, call.mutated, "Stopped")
           \/ /\ call.at = "persist" /\ marker' = marker
              /\ manifest' \in {manifest, [manifest EXCEPT !.phase = "Installed"]}
              /\ call.by = "apply" /\ call.mutated
              /\ Move("remove", Len(Kind), call.mutated, call.ends)
           \/ /\ call.at = "persist" /\ marker' = marker
              /\ manifest' \in {manifest, [manifest EXCEPT !.phase = "Installed"]}
              /\ call.by = "apply" /\ ~call.mutated
              /\ Move("done", call.k, call.mutated, "Stopped")
           \/ /\ call.at = "persist" /\ marker' = marker
              /\ manifest' \in {manifest, [manifest EXCEPT !.phase = "Installed"]}
              /\ call.by # "apply"
              /\ Move("done", call.k, call.mutated, "Failed")
           \/ /\ call.at \in {"remove", "restore", "verifyPre", "rmdir"}
              /\ UNCHANGED <<manifest, marker>> /\ call.by = "apply"
              /\ Move("done", call.k, call.mutated, "Failed")
           \/ /\ call.at \in {"remove", "restore", "verifyPre", "rmdir"}
              /\ UNCHANGED <<manifest, marker>> /\ call.by # "apply"
              /\ Move("done", call.k, call.mutated, "Indeterminate")
           \/ /\ call.at = "read" /\ UNCHANGED <<manifest, marker>>
              /\ Move("done", call.k, call.mutated, "Failed")
           \/ /\ call.at \in {"complete", "withdraw"} /\ Records
              /\ manifest' = manifest /\ marker' = marker
              /\ Move("done", call.k, call.mutated, "Failed")
           \/ /\ call.at \in {"complete", "withdraw"} /\ Records
              /\ manifest' = manifest /\ marker[call.for] = "open"
              /\ marker' = Recorded
              /\ Move("done", call.k, call.mutated, "Failed")
           \/ /\ call.at = "cleanup"
              /\ call.ends \in {"Cancelled", "Restored"}
              /\ UNCHANGED <<manifest, marker>>
              /\ Move("done", call.k, call.mutated, "Stopped")
           \/ /\ call.at = "cleanup"
              /\ call.ends \notin {"Cancelled", "Restored"}
              /\ UNCHANGED <<manifest, marker>>
              /\ Move("done", call.k, call.mutated, call.ends)
<1>1. \A e : Return(e) => Move("done", call.k, call.mutated, e)
    BY DEF Return, Move, CallType
<1>2. \A p, k : GoTo(p, k) => Move(p, k, call.mutated, call.ends)
    BY DEF GoTo, Move, CallType
<1> QED
    BY <1>1, <1>2 DEF Fault, At, AfterError, RollbackFailure, CleanupPending

\* The whole of the steps that make or remove the transaction directory, and of the
\* two that begin a call.
LEMMA InspectEffect ==
    ASSUME call \in CallType, Inspect
    PROVE  /\ call.at = "inspect"
           /\ UNCHANGED <<target, dirs, manifest, staged, backup, quarantined,
                          marker, edits, faults>>
           /\ \/ AllPre /\ ~txn /\ txn'
                 /\ Move("prepare", call.k, call.mutated, call.ends)
              \/ txn' = txn /\ Move("done", call.k, call.mutated, "Stopped")
BY InspectMoves DEF Inspect, Quiet, At

LEMMA CreateDirectoryEffect ==
    ASSUME call \in CallType, CreateDirectory
    PROVE  /\ call.at = "mkdir" /\ call.k <= Len(Outer)
           /\ UNCHANGED <<target, txn, manifest, staged, backup, quarantined,
                          marker, edits, faults>>
           /\ \/ call.k \in manifest.created /\ dirs' = dirs \cup {call.k}
                 /\ Move("mkdir", call.k + 1, TRUE, call.ends)
              \/ call.k \notin manifest.created /\ dirs' = dirs
                 /\ Move("mkdir", call.k + 1, call.mutated, call.ends)
BY CreateDirectoryMoves DEF CreateDirectory, Quiet, At

LEMMA QuarantineEffect ==
    ASSUME call \in CallType, Quarantine
    PROVE  /\ call.at = "read" /\ manifest.phase = "none"
           /\ ~txn' /\ txn' \in BOOLEAN /\ quarantined' \in BOOLEAN
           /\ staged' = {} /\ backup' = [i \in Op |-> "absent"]
           /\ UNCHANGED <<target, dirs, manifest, marker, edits, faults>>
           /\ Move("done", call.k, call.mutated, "Indeterminate")
BY QuarantineMoves DEF Quarantine, Quiet, At

LEMMA RemoveTransactionEffect ==
    ASSUME call \in CallType, RemoveTransaction
    PROVE  /\ call.at = "cleanup" /\ ~txn' /\ txn' \in BOOLEAN
           /\ txn => manifest.phase = "none" /\ Bare
           /\ UNCHANGED <<target, dirs, manifest, staged, backup, quarantined,
                          marker, edits, faults>>
           /\ Move("done", call.k, call.mutated, call.ends)
BY RemoveTransactionMoves DEF RemoveTransaction, Quiet, At

LEMMA ApplyPreparedEffect ==
    ASSUME NEW a \in Action, ApplyPrepared(a)
    PROVE  /\ up /\ call.at = "idle" /\ a \in token /\ token' = token \ {a}
           /\ UNCHANGED <<target, dirs, txn, manifest, staged, backup, quarantined, marker,
                          edits, faults, up, condition, consumed, crashes, reconciled>>
           /\ \/ condition = "Clean" /\ told' = told
                 /\ Started("apply", a, "inspect", "none")
              \/ call' = call /\ told' = [told EXCEPT ![a] = "Error"]
BY DEF ApplyPrepared, Free, At, PreparedActionMatches, Begin, NoCall, Started, Tell, disk

LEMMA RecoverMutationEffect ==
    ASSUME NEW a \in Action, RecoverMutation(a)
    PROVE  /\ up /\ call.at = "idle" /\ a \in consumed
           /\ UNCHANGED <<target, dirs, txn, manifest, staged, backup, quarantined, marker,
                          edits, faults, up, consumed, token, crashes, reconciled>>
           /\ \/ /\ txn /\ UNCHANGED <<told, condition>>
                 /\ \/ /\ marker[a] = "Applied"
                       /\ Started("applied", a, "cleanup", "AlreadyApplied")
                    \/ marker[a] = "RolledBack" /\ Started("rolled", a, "read", "none")
                    \/ marker[a] = "open" /\ Started("recover", a, "read", "none")
              \/ /\ call' = call /\ marker[a] = "Applied" /\ condition' = "Dirty"
                 /\ told' = [told EXCEPT ![a] = "AlreadyApplied"]
              \/ /\ call' = call /\ ~txn /\ marker[a] = "RolledBack" /\ condition' = "Clean"
                 /\ told' = [told EXCEPT ![a] = "RolledBack"]
              \/ /\ call' = call /\ ~txn /\ marker[a] \in {"absent", "open"}
                 /\ condition' = condition /\ told' = [told EXCEPT ![a] = "NotAttempted"]
              \/ /\ call' = call /\ marker[a] = "absent" /\ condition' = "Indeterminate"
                 /\ told' = [told EXCEPT ![a] = "Indeterminate"]
<1>1. /\ up /\ call.at = "idle" /\ a \in consumed
      /\ UNCHANGED <<target, dirs, txn, manifest, staged, backup, quarantined, marker,
                     edits, faults, up, consumed, token, crashes, reconciled>>
    BY DEF RecoverMutation, Free, At, disk
<1>2. CASE RecoverAbsent(a)
    BY <1>1, <1>2 DEF RecoverAbsent, Answer, Tell
<1>3. CASE RecoverRecordedApplied(a)
    BY <1>1, <1>3 DEF RecoverRecordedApplied, Answer, Tell, Begin, NoCall, Started
<1>4. CASE RecoverRecordedRollback(a)
    BY <1>1, <1>4 DEF RecoverRecordedRollback, Answer, Tell, Begin, NoCall, Started
<1>5. CASE RecoverOpen(a)
    BY <1>1, <1>5 DEF RecoverOpen, Answer, Tell, Begin, NoCall, Started
<1> QED
    BY <1>2, <1>3, <1>4, <1>5 DEF RecoverMutation

------------------------------------------------------------------------------
(* Types.                                                                    *)

LEMMA InCallType ==
    ASSUME NEW by \in By, NEW a \in Action \cup {Nobody}, NEW p \in Position,
           NEW k \in 0 .. Bound, NEW m \in BOOLEAN, NEW e \in End
    PROVE  [by |-> by, for |-> a, at |-> p, k |-> k, mutated |-> m, ends |-> e] \in CallType
BY DEF CallType

LEMMA StartedIn ==
    ASSUME NEW by \in By, NEW a \in Action \cup {Nobody}, NEW p \in Position, NEW e \in End,
           Started(by, a, p, e)
    PROVE  call' \in CallType
<1>1. 0 \in 0 .. Bound
    BY PlanFacts DEF Bound
<1>2. FALSE \in BOOLEAN
    OBVIOUS
<1> QED
    BY <1>1, <1>2, InCallType, Zenon DEF Started

\* Every step keeps the types of the disk, the markers and the gateway.
LEMMA StateStep ==
    ASSUME MutationInv, MutationNext
    PROVE  StateTypes'
<1>0. call \in CallType
    BY DEF MutationInv, Types
<1>1. ASSUME up, Inspect, UNCHANGED gatewayVars PROVE StateTypes'
  <2>1. txn' \in BOOLEAN
    BY <1>1 DEF Inspect, MutationInv, Types, StateTypes
  <2> QED
    BY <1>1, <2>1 DEF Inspect, Quiet, gatewayVars, MutationInv, Types, StateTypes
<1>2. ASSUME up, Prepare, UNCHANGED gatewayVars PROVE StateTypes'
    BY <1>2, <1>0 DEF Prepare, Missing, Quiet, gatewayVars, MutationInv, Types,
       StateTypes, Phase
<1>3. ASSUME up, Stage, UNCHANGED gatewayVars PROVE StateTypes'
    BY <1>3, <1>0 DEF Stage, Quiet, gatewayVars, MutationInv, Types, StateTypes
<1>4. ASSUME up, EnterInstalling, UNCHANGED gatewayVars PROVE StateTypes'
    BY <1>4, <1>0, EnterInstallingMoves, PlanFacts DEF EnterInstalling, Quiet, At,
       gatewayVars, Move, MutationInv, Types, StateTypes, Control, Positioned,
       Condition, Outcome, Conclusive, File, Phase, Marker, Preimage
<1>5. ASSUME up, CreateDirectory, UNCHANGED gatewayVars PROVE StateTypes'
    BY <1>5, <1>0 DEF CreateDirectory, Quiet, gatewayVars, MutationInv, Types,
       StateTypes
<1>6. ASSUME up, DirectoriesCreated, UNCHANGED gatewayVars PROVE StateTypes'
    BY <1>6, <1>0 DEF DirectoriesCreated, DiskKept, Quiet, gatewayVars, disk,
       MutationInv, Types, StateTypes
<1>7. ASSUME up, ObserveTarget, UNCHANGED gatewayVars PROVE StateTypes'
    BY <1>7, <1>0 DEF ObserveTarget, DiskKept, Quiet, gatewayVars, disk,
       MutationInv, Types, StateTypes
<1>8. ASSUME up, BackupOriginal, UNCHANGED gatewayVars PROVE StateTypes'
  <2>1. call.k \in Op
    BY <1>8 DEF BackupOriginal, At, MutationInv, Control, Positioned
  <2>2. target' \in [Op -> File] /\ backup' \in [Op -> File]
    BY <1>8, <2>1 DEF BackupOriginal, MutationInv, Types, StateTypes, File
  <2> QED
    BY <1>8, <2>2 DEF BackupOriginal, Quiet, gatewayVars, MutationInv, Types,
       StateTypes
<1>9. ASSUME up, InstallFinal, UNCHANGED gatewayVars PROVE StateTypes'
    BY <1>9, <1>0 DEF InstallFinal, Quiet, At, gatewayVars, MutationInv, Types,
       StateTypes, Control, Positioned, File
<1>10. ASSUME up, VerifyPostimages, UNCHANGED gatewayVars PROVE StateTypes'
    BY <1>10, <1>0 DEF VerifyPostimages, DiskKept, Quiet, gatewayVars, disk,
       MutationInv, Types, StateTypes
<1>11. ASSUME up, PersistInstalled, UNCHANGED gatewayVars PROVE StateTypes'
    BY <1>11, <1>0 DEF PersistInstalled, Quiet, gatewayVars, MutationInv, Types,
       StateTypes, Phase
<1>12. ASSUME up, RollbackRemove, UNCHANGED gatewayVars PROVE StateTypes'
    BY <1>12, <1>0 DEF RollbackRemove, Quiet, gatewayVars, MutationInv, Types,
       StateTypes, File
<1>13. ASSUME up, RollbackRestore, UNCHANGED gatewayVars PROVE StateTypes'
  <2>1. call.k \in Op
    BY <1>13 DEF RollbackRestore, At, MutationInv, Control, Positioned
  <2>2. target' \in [Op -> File] /\ backup' \in [Op -> File]
    BY <1>13, <2>1 DEF RollbackRestore, MutationInv, Types, StateTypes, File
  <2> QED
    BY <1>13, <2>2 DEF RollbackRestore, Quiet, gatewayVars, MutationInv, Types,
       StateTypes
<1>14. ASSUME up, VerifyPreimages, UNCHANGED gatewayVars PROVE StateTypes'
    BY <1>14, <1>0 DEF VerifyPreimages, DiskKept, Quiet, gatewayVars, disk,
       MutationInv, Types, StateTypes
<1>15. ASSUME up, RemoveCreatedDirectory, UNCHANGED gatewayVars
      PROVE  StateTypes'
    BY <1>15, <1>0, RemoveCreatedDirectoryMoves, PlanFacts DEF
       RemoveCreatedDirectory, Quiet, At, gatewayVars, Move, MutationInv, Types,
       StateTypes, Control, Positioned, Condition, Outcome, Conclusive, File, Phase,
       Marker, Preimage
<1>16. ASSUME up, RolledBack, UNCHANGED gatewayVars PROVE StateTypes'
    BY <1>16, <1>0 DEF RolledBack, DiskKept, Quiet, gatewayVars, disk, MutationInv,
       Types, StateTypes
<1>17. ASSUME up, Quarantine, UNCHANGED gatewayVars PROVE StateTypes'
  <2>1. txn' \in BOOLEAN /\ quarantined' \in BOOLEAN
    BY <1>17, <1>0, QuarantineEffect
  <2>2. staged' \in SUBSET Op /\ backup' \in [Op -> File]
    BY <1>17, <1>0, QuarantineEffect DEF File
  <2>3. UNCHANGED <<target, dirs, manifest, marker, edits, faults>>
    BY <1>17, <1>0, QuarantineEffect
  <2> QED
    BY <1>17, <2>1, <2>2, <2>3 DEF gatewayVars, MutationInv, Types, StateTypes
<1>18. ASSUME up, Classify, UNCHANGED gatewayVars PROVE StateTypes'
    BY <1>18, <1>0 DEF Classify, DiskKept, Quiet, gatewayVars, disk, MutationInv,
       Types, StateTypes
<1>19. ASSUME up, CompleteAction, UNCHANGED gatewayVars PROVE StateTypes'
  <2>1. marker' \in [Action -> Marker]
    BY <1>19, <1>0, CompleteActionMoves DEF Recorded, Terminal, MutationInv, Types,
       StateTypes, Marker
  <2> QED
    BY <1>19, <2>1 DEF CompleteAction, DiskKept, disk, gatewayVars, MutationInv,
       Types, StateTypes
<1>20. ASSUME up, RemoveManifest, UNCHANGED gatewayVars PROVE StateTypes'
    BY <1>20 DEF RemoveManifest, NoManifest, Quiet, gatewayVars, MutationInv, Types,
       StateTypes, Phase
<1>21. ASSUME up, RemoveLeaves, UNCHANGED gatewayVars PROVE StateTypes'
    BY <1>21 DEF RemoveLeaves, Quiet, gatewayVars, MutationInv, Types, StateTypes,
       File
<1>22. ASSUME up, RemoveTransaction, UNCHANGED gatewayVars PROVE StateTypes'
    BY <1>22, <1>0, RemoveTransactionEffect DEF gatewayVars, MutationInv, Types,
       StateTypes
<1>23. ASSUME up, CheckCancelled, UNCHANGED gatewayVars PROVE StateTypes'
    BY <1>23, <1>0 DEF CheckCancelled, DiskKept, Quiet, gatewayVars, disk,
       MutationInv, Types, StateTypes
<1>24. ASSUME up, Fault, UNCHANGED gatewayVars PROVE StateTypes'
  <2>1. faults' \in 0 .. MaxFaults /\ edits' = edits
    BY <1>24, PlanFacts DEF Fault, MutationInv, Types, StateTypes
  <2>2. manifest' \in [phase : Phase, created : SUBSET Dir]
    BY <1>24, <1>0, FaultMoves DEF MutationInv, Types, StateTypes, Phase
  <2>3. marker' \in [Action -> Marker]
    BY <1>24, <1>0, FaultMoves DEF Recorded, Terminal, MutationInv, Types,
       StateTypes, Marker
  <2> QED
    BY <1>24, <2>1, <2>2, <2>3 DEF Fault, gatewayVars, MutationInv, Types,
       StateTypes
<1>25. ASSUME up, NEW i \in Op, NEW f \in {"foreign", "absent"}, Edit(i, f), UNCHANGED gatewayVars
      PROVE  StateTypes'
    BY <1>25, PlanFacts DEF Edit, gatewayVars, MutationInv, Types, StateTypes, File
<1>26. ASSUME NEW a \in Action, PreparePatch(a) PROVE StateTypes'
    BY <1>26 DEF PreparePatch, disk, MutationInv, Types, StateTypes, Marker
<1>27. ASSUME NEW a \in Action, PrepareFails(a) PROVE StateTypes'
    BY <1>27, PlanFacts DEF PrepareFails, Free, disk, MutationInv, Types,
       StateTypes, Condition, Marker
<1>28. ASSUME NEW a \in Action, ApplyPrepared(a) PROVE StateTypes'
    BY <1>28, ApplyPreparedEffect DEF MutationInv, Types, StateTypes, Outcome
<1>29. ASSUME NEW a \in Action, CancelPrepared(a) PROVE StateTypes'
  <2>1. marker' \in [Action -> Marker]
    BY <1>29 DEF CancelPrepared, MutationInv, Types, StateTypes, Marker
  <2>2. told' \in [Action -> Outcome] /\ condition' \in Condition
    BY <1>29 DEF CancelPrepared, Tell, MutationInv, Types, StateTypes, Outcome,
       Conclusive, Condition
  <2> QED
    BY <1>29, <2>1, <2>2 DEF CancelPrepared, disk, MutationInv, Types, StateTypes
<1>30. ASSUME NEW a \in Action, CancelFails(a) PROVE StateTypes'
  <2>1. marker' \in [Action -> Marker]
    BY <1>30 DEF CancelFails, MutationInv, Types, StateTypes, Marker
  <2>2. told' \in [Action -> Outcome]
    BY <1>30 DEF CancelFails, Tell, MutationInv, Types, StateTypes, Outcome
  <2>3. faults' \in 0 .. MaxFaults
    BY <1>30, PlanFacts DEF CancelFails, MutationInv, Types, StateTypes
  <2> QED
    BY <1>30, <2>1, <2>2, <2>3 DEF CancelFails, disk, MutationInv, Types,
       StateTypes, Condition
<1>31. ASSUME NEW a \in Action, DropToken(a) PROVE StateTypes'
    BY <1>31 DEF DropToken, patchVars, disk, MutationInv, Types, StateTypes
<1>32. ASSUME FinishApply PROVE StateTypes'
    BY <1>32 DEF FinishApply, AfterApply, Tell, disk, MutationInv, Types,
       StateTypes, Control, Positioned, Condition, Outcome, Conclusive
<1>33. ASSUME FinishRecover PROVE StateTypes'
  <2>1. told' \in [Action -> Outcome] /\ condition' \in Condition
    BY <1>33 DEF FinishRecover, Tell, MutationInv, Types, StateTypes, Outcome,
       Conclusive, Condition
  <2> QED
    BY <1>33, <2>1 DEF FinishRecover, disk, MutationInv, Types, StateTypes
<1>34. ASSUME Crash PROVE StateTypes'
  <2>1. crashes' \in 0 .. MaxCrashes
    BY <1>34, PlanFacts DEF Crash, MutationInv, Types, StateTypes
  <2>2. up' \in BOOLEAN
    BY <1>34 DEF Crash
  <2> QED
    BY <1>34, <2>1, <2>2 DEF Crash, disk, MutationInv, Types, StateTypes
<1>35. ASSUME Reopen PROVE StateTypes'
    BY <1>35 DEF Reopen, patchVars, disk, MutationInv, Types, StateTypes
<1>36. ASSUME NEW a \in Action, RecoverMutation(a) PROVE StateTypes'
  <2>1. told' \in [Action -> Outcome] /\ condition' \in Condition
    BY <1>36, RecoverMutationEffect DEF MutationInv, Types, StateTypes, Outcome,
       Conclusive, Condition
  <2> QED
    BY <1>36, <2>1, RecoverMutationEffect DEF MutationInv, Types, StateTypes
<1>37. ASSUME ReconcileRestart PROVE StateTypes'
    BY <1>37 DEF ReconcileRestart, disk, MutationInv, Types, StateTypes
<1>38. ASSUME ReconcileNothing PROVE StateTypes'
    BY <1>38 DEF ReconcileNothing, Reconciled, Disposition, disk, MutationInv,
       Types, StateTypes, Condition
<1>39. ASSUME FinishReconcile PROVE StateTypes'
    BY <1>39 DEF FinishReconcile, Reconciled, Disposition, disk, MutationInv, Types,
       StateTypes, Condition
<1> QED
    BY <1>1, <1>2, <1>3, <1>4, <1>5, <1>6, <1>7, <1>8, <1>9, <1>10, <1>11, <1>12,
       <1>13, <1>14, <1>15, <1>16, <1>17, <1>18, <1>19, <1>20, <1>21, <1>22, <1>23,
       <1>24, <1>25, <1>26, <1>27, <1>28, <1>29, <1>30, <1>31, <1>32, <1>33, <1>34,
       <1>35, <1>36, <1>37, <1>38, <1>39 DEF MutationNext, Step, PatchStep,
       Environment, Install, Rollback, Recovery, Cleanup, Gateway, UseToken,
       Reconcile

\* Every step leaves a call, or none.
LEMMA CallStep ==
    ASSUME MutationInv, MutationNext
    PROVE  (call \in CallType)'
<1>0. call \in CallType
    BY DEF MutationInv, Types
<1>1. ASSUME up, Inspect, UNCHANGED gatewayVars PROVE (call \in CallType)'
    BY <1>1, <1>0, InspectEffect DEF Move, CallType, Position, Before, Ending, End,
       Backed
<1>2. ASSUME up, Prepare, UNCHANGED gatewayVars PROVE (call \in CallType)'
    BY <1>2, <1>0, PrepareMoves DEF Move, CallType, Position, Before
<1>3. ASSUME up, Stage, UNCHANGED gatewayVars PROVE (call \in CallType)'
    BY <1>3, <1>0, StageMoves DEF Move, CallType, Position, Before
<1>4. ASSUME up, EnterInstalling, UNCHANGED gatewayVars
      PROVE  (call \in CallType)'
    BY <1>4, <1>0, EnterInstallingMoves DEF Move, CallType, Position, Installs,
       Bound
<1>5. ASSUME up, CreateDirectory, UNCHANGED gatewayVars
      PROVE  (call \in CallType)'
  <2>1. /\ call.by \in By /\ call.for \in Action \cup {Nobody} /\ call.ends \in End
        /\ call.mutated \in BOOLEAN /\ TRUE \in BOOLEAN
    BY <1>0 DEF CallType
  <2>2. "mkdir" \in Position /\ call.k + 1 \in 0 .. Bound
    BY <1>5 DEF CreateDirectory, At, MutationInv, Control, Positioned, Bound,
       Position, Installs
  <2>3. CASE Move("mkdir", call.k + 1, TRUE, call.ends)
    BY <2>1, <2>2, <2>3, InCallType, Zenon DEF Move
  <2>4. CASE Move("mkdir", call.k + 1, call.mutated, call.ends)
    BY <2>1, <2>2, <2>4, InCallType DEF Move
  <2> QED
    BY <1>5, <1>0, CreateDirectoryMoves, <2>3, <2>4
<1>6. ASSUME up, DirectoriesCreated, UNCHANGED gatewayVars
      PROVE  (call \in CallType)'
    BY <1>6, <1>0, DirectoriesCreatedMoves DEF Move, CallType, Position, Installs,
       Bound
<1>7. ASSUME up, ObserveTarget, UNCHANGED gatewayVars PROVE (call \in CallType)'
    BY <1>7, <1>0, ObserveTargetMoves DEF Move, CallType, Position, Installs,
       Undoes, Ending, End, Backed, Bound
<1>8. ASSUME up, BackupOriginal, UNCHANGED gatewayVars
      PROVE  (call \in CallType)'
  <2>1. /\ call.by \in By /\ call.for \in Action \cup {Nobody} /\ call.ends \in End
        /\ call.mutated \in BOOLEAN /\ TRUE \in BOOLEAN
    BY <1>0 DEF CallType
  <2>2. /\ {"remove", "done", "observe", "verify", "final"} \subseteq Position /\ "Stopped" \in End
        /\ call.k \in 0 .. Bound /\ Len(Kind) \in 0 .. Bound
        /\ call.k < Len(Kind) => call.k + 1 \in 0 .. Bound
    BY <1>8, PlanFacts DEF BackupOriginal, At, MutationInv, Control, Positioned,
       Bound, Position, Installs, Undoes, Ending, End, Backed
  <2>3. CASE Move("remove", Len(Kind), call.mutated, call.ends)
    BY <2>1, <2>2, <2>3, InCallType, Zenon DEF Move
  <2>4. CASE Move("done", call.k, call.mutated, "Stopped")
    BY <2>1, <2>2, <2>4, InCallType, Zenon DEF Move
  <2>5. CASE call.k < Len(Kind) /\ Move("observe", call.k + 1, TRUE, call.ends)
    BY <2>1, <2>2, <2>5, InCallType, Zenon DEF Move
  <2>6. CASE Move("verify", call.k, TRUE, call.ends)
    BY <2>1, <2>2, <2>6, InCallType, Zenon DEF Move
  <2>7. CASE Move("final", call.k, TRUE, call.ends)
    BY <2>1, <2>2, <2>7, InCallType, Zenon DEF Move
  <2> QED
    BY <1>8, <1>0, BackupOriginalMoves, <2>3, <2>4, <2>5, <2>6, <2>7
<1>9. ASSUME up, InstallFinal, UNCHANGED gatewayVars PROVE (call \in CallType)'
  <2>1. /\ call.by \in By /\ call.for \in Action \cup {Nobody} /\ call.ends \in End
        /\ call.mutated \in BOOLEAN /\ TRUE \in BOOLEAN
    BY <1>0 DEF CallType
  <2>2. /\ {"observe", "verify"} \subseteq Position /\ call.k \in 0 .. Bound
        /\ call.k < Len(Kind) => call.k + 1 \in 0 .. Bound
    BY <1>9, PlanFacts DEF InstallFinal, At, MutationInv, Control, Positioned,
       Bound, Position, Installs
  <2>3. CASE call.k < Len(Kind) /\ Move("observe", call.k + 1, TRUE, call.ends)
    BY <2>1, <2>2, <2>3, InCallType, Zenon DEF Move
  <2>4. CASE Move("verify", call.k, TRUE, call.ends)
    BY <2>1, <2>2, <2>4, InCallType, Zenon DEF Move
  <2> QED
    BY <1>9, <1>0, InstallFinalMoves, <2>3, <2>4
<1>10. ASSUME up, VerifyPostimages, UNCHANGED gatewayVars
      PROVE  (call \in CallType)'
    BY <1>10, <1>0, VerifyPostimagesMoves DEF Move, CallType, Position, Undoes,
       Ending, End, Backed, Bound
<1>11. ASSUME up, PersistInstalled, UNCHANGED gatewayVars
      PROVE  (call \in CallType)'
    BY <1>11, <1>0, PersistInstalledMoves DEF Move, CallType, Position, Ending, End,
       Forward
<1>12. ASSUME up, RollbackRemove, UNCHANGED gatewayVars
      PROVE  (call \in CallType)'
    BY <1>12, <1>0, RollbackRemoveMoves DEF Move, CallType, Position, Undoes,
       Ending, End
<1>13. ASSUME up, RollbackRestore, UNCHANGED gatewayVars
      PROVE  (call \in CallType)'
    BY <1>13, <1>0, RollbackRestoreMoves DEF Move, CallType, Position, Undoes,
       Ending, End, Bound
<1>14. ASSUME up, VerifyPreimages, UNCHANGED gatewayVars
      PROVE  (call \in CallType)'
    BY <1>14, <1>0, VerifyPreimagesMoves DEF Move, CallType, Position, Undoes,
       Ending, End, Bound
<1>15. ASSUME up, RemoveCreatedDirectory, UNCHANGED gatewayVars
      PROVE  (call \in CallType)'
    BY <1>15, <1>0, RemoveCreatedDirectoryMoves DEF RemoveCreatedDirectory, Move,
       CallType, Position, Undoes, Ending, End, Bound
<1>16. ASSUME up, RolledBack, UNCHANGED gatewayVars PROVE (call \in CallType)'
    BY <1>16, <1>0, RolledBackMoves DEF Move, CallType, Position, Ending, End,
       Backed
<1>17. ASSUME up, Quarantine, UNCHANGED gatewayVars PROVE (call \in CallType)'
    BY <1>17, <1>0, QuarantineEffect DEF Move, CallType, Position, Ending, End
<1>18. ASSUME up, Classify, UNCHANGED gatewayVars PROVE (call \in CallType)'
    BY <1>18, <1>0, ClassifyMoves DEF Move, CallType, Position, Undoes, Ending, End,
       Forward, Backed, Bound
<1>19. ASSUME up, CompleteAction, UNCHANGED gatewayVars
      PROVE  (call \in CallType)'
    BY <1>19, <1>0, CompleteActionMoves DEF Move, CallType, Position, Ending, End
<1>20. ASSUME up, RemoveManifest, UNCHANGED gatewayVars
      PROVE  (call \in CallType)'
    BY <1>20 DEF RemoveManifest, MutationInv, Types
<1>21. ASSUME up, RemoveLeaves, UNCHANGED gatewayVars PROVE (call \in CallType)'
    BY <1>21 DEF RemoveLeaves, MutationInv, Types
<1>22. ASSUME up, RemoveTransaction, UNCHANGED gatewayVars
      PROVE  (call \in CallType)'
    BY <1>22, <1>0, RemoveTransactionEffect DEF Move, CallType, Position, Ending
<1>23. ASSUME up, CheckCancelled, UNCHANGED gatewayVars PROVE (call \in CallType)'
    BY <1>23, <1>0, CheckCancelledMoves DEF Move, CallType, Position, Ending, End,
       Backed
<1>24. ASSUME up, Fault, UNCHANGED gatewayVars PROVE (call \in CallType)'
    BY <1>24, <1>0, FaultMoves DEF Move, CallType, Position, Undoes, Ending, End,
       Backed, Bound
<1>25. ASSUME up, NEW i \in Op, NEW f \in {"foreign", "absent"}, Edit(i, f), UNCHANGED gatewayVars
      PROVE  (call \in CallType)'
    BY <1>25 DEF Edit, MutationInv, Types
<1>26. ASSUME NEW a \in Action, PreparePatch(a) PROVE (call \in CallType)'
    BY <1>26 DEF PreparePatch, MutationInv, Types
<1>27. ASSUME NEW a \in Action, PrepareFails(a) PROVE (call \in CallType)'
    BY <1>27 DEF PrepareFails, MutationInv, Types
<1>28. ASSUME NEW a \in Action, ApplyPrepared(a) PROVE (call \in CallType)'
  <2>1. CASE Started("apply", a, "inspect", "none")
    BY <2>1, StartedIn DEF By, Position, End
  <2> QED
    BY <1>28, <1>0, ApplyPreparedEffect, <2>1
<1>29. ASSUME NEW a \in Action, CancelPrepared(a) PROVE (call \in CallType)'
    BY <1>29 DEF CancelPrepared, MutationInv, Types
<1>30. ASSUME NEW a \in Action, CancelFails(a) PROVE (call \in CallType)'
    BY <1>30 DEF CancelFails, MutationInv, Types
<1>31. ASSUME NEW a \in Action, DropToken(a) PROVE (call \in CallType)'
    BY <1>31 DEF DropToken, patchVars, MutationInv, Types
<1>32. ASSUME FinishApply PROVE (call \in CallType)'
    BY <1>32 DEF FinishApply, NoCall, CallType, Position, End, Bound, By
<1>33. ASSUME FinishRecover PROVE (call \in CallType)'
    BY <1>33 DEF FinishRecover, NoCall, CallType, Position, End, Bound, By
<1>34. ASSUME Crash PROVE (call \in CallType)'
    BY <1>34 DEF Crash, NoCall, CallType, Position, End, Bound, By
<1>35. ASSUME Reopen PROVE (call \in CallType)'
    BY <1>35 DEF Reopen, patchVars, MutationInv, Types
<1>36. ASSUME NEW a \in Action, RecoverMutation(a) PROVE (call \in CallType)'
  <2>1. CASE Started("applied", a, "cleanup", "AlreadyApplied")
    BY <2>1, StartedIn DEF By, Position, Ending, End, Forward
  <2>2. CASE Started("rolled", a, "read", "none")
    BY <2>2, StartedIn DEF By, Position, End
  <2>3. CASE Started("recover", a, "read", "none")
    BY <2>3, StartedIn DEF By, Position, End
  <2> QED
    BY <1>36, <1>0, RecoverMutationEffect, <2>1, <2>2, <2>3
<1>37. ASSUME ReconcileRestart PROVE (call \in CallType)'
  <2>1. Started("reconcile", Nobody, "read", "none")
    BY <1>37 DEF ReconcileRestart, Begin, NoCall, Started
  <2> QED
    BY <2>1, StartedIn DEF By, Position, End
<1>38. ASSUME ReconcileNothing PROVE (call \in CallType)'
    BY <1>38 DEF ReconcileNothing, MutationInv, Types
<1>39. ASSUME FinishReconcile PROVE (call \in CallType)'
    BY <1>39 DEF FinishReconcile, NoCall, CallType, Position, End, Bound, By
<1> QED
    BY <1>1, <1>2, <1>3, <1>4, <1>5, <1>6, <1>7, <1>8, <1>9, <1>10, <1>11, <1>12,
       <1>13, <1>14, <1>15, <1>16, <1>17, <1>18, <1>19, <1>20, <1>21, <1>22, <1>23,
       <1>24, <1>25, <1>26, <1>27, <1>28, <1>29, <1>30, <1>31, <1>32, <1>33, <1>34,
       <1>35, <1>36, <1>37, <1>38, <1>39 DEF MutationNext, Step, PatchStep,
       Environment, Install, Rollback, Recovery, Cleanup, Gateway, UseToken,
       Reconcile

------------------------------------------------------------------------------
(* Control.                                                                  *)

LEMMA PositionedStep ==
    ASSUME MutationInv, MutationNext
    PROVE  Positioned'
<1>0. call \in CallType
    BY DEF MutationInv, Types
<1>1. ASSUME up, Inspect, UNCHANGED gatewayVars PROVE Positioned'
    BY <1>1, <1>0, InspectEffect DEF Move, MutationInv, Control, Positioned
<1>2. ASSUME up, Prepare, UNCHANGED gatewayVars PROVE Positioned'
    BY <1>2, <1>0, PrepareMoves DEF Prepare, At, Move, MutationInv, Control,
       Positioned, Before
<1>3. ASSUME up, Stage, UNCHANGED gatewayVars PROVE Positioned'
    BY <1>3, <1>0, StageMoves DEF Stage, At, Move, MutationInv, Control, Positioned,
       Before
<1>4. ASSUME up, EnterInstalling, UNCHANGED gatewayVars PROVE Positioned'
    BY <1>4, <1>0, EnterInstallingMoves DEF EnterInstalling, At, Move, MutationInv,
       Control, Positioned, Before
<1>5. ASSUME up, CreateDirectory, UNCHANGED gatewayVars PROVE Positioned'
    BY <1>5, <1>0 DEF CreateDirectory, At, MutationInv, Control, Positioned
<1>6. ASSUME up, DirectoriesCreated, UNCHANGED gatewayVars PROVE Positioned'
    BY <1>6, <1>0, DirectoriesCreatedMoves, PlanFacts DEF DirectoriesCreated, At,
       Move, MutationInv, Control, Positioned, Installs
<1>7. ASSUME up, ObserveTarget, UNCHANGED gatewayVars PROVE Positioned'
    BY <1>7, <1>0, ObserveTargetMoves, PlanFacts DEF ObserveTarget, At, Move,
       MutationInv, Control, Positioned, Installs
<1>8. ASSUME up, BackupOriginal, UNCHANGED gatewayVars PROVE Positioned'
    BY <1>8, <1>0, BackupOriginalMoves, PlanFacts DEF BackupOriginal, At, Move,
       MutationInv, Control, Positioned, Installs
<1>9. ASSUME up, InstallFinal, UNCHANGED gatewayVars PROVE Positioned'
    BY <1>9, <1>0, InstallFinalMoves, PlanFacts DEF InstallFinal, At, Move,
       MutationInv, Control, Positioned, Installs
<1>10. ASSUME up, VerifyPostimages, UNCHANGED gatewayVars PROVE Positioned'
    BY <1>10, <1>0, VerifyPostimagesMoves, PlanFacts DEF VerifyPostimages, At, Move,
       MutationInv, Control, Positioned, Installs
<1>11. ASSUME up, PersistInstalled, UNCHANGED gatewayVars PROVE Positioned'
    BY <1>11, <1>0, PersistInstalledMoves DEF PersistInstalled, At, Move,
       MutationInv, Control, Positioned, Before, Installs
<1>12. ASSUME up, RollbackRemove, UNCHANGED gatewayVars PROVE Positioned'
    BY <1>12, <1>0, RollbackRemoveMoves DEF RollbackRemove, At, Move, MutationInv,
       Control, Positioned, Before, Installs
<1>13. ASSUME up, RollbackRestore, UNCHANGED gatewayVars PROVE Positioned'
    BY <1>13, <1>0, RollbackRestoreMoves, PlanFacts DEF RollbackRestore, At, Move,
       MutationInv, Control, Positioned, Before, Installs
<1>14. ASSUME up, VerifyPreimages, UNCHANGED gatewayVars PROVE Positioned'
    BY <1>14, <1>0, VerifyPreimagesMoves DEF VerifyPreimages, At, Move, MutationInv,
       Control, Positioned, Before, Installs
<1>15. ASSUME up, RemoveCreatedDirectory, UNCHANGED gatewayVars
      PROVE  Positioned'
    BY <1>15, <1>0, RemoveCreatedDirectoryMoves DEF RemoveCreatedDirectory, At,
       Move, MutationInv, Control, Positioned, Before, Installs
<1>16. ASSUME up, RolledBack, UNCHANGED gatewayVars PROVE Positioned'
    BY <1>16, <1>0, RolledBackMoves DEF RolledBack, At, Move, MutationInv, Control,
       Positioned, Before, Installs
<1>17. ASSUME up, Quarantine, UNCHANGED gatewayVars PROVE Positioned'
    BY <1>17, <1>0, QuarantineEffect DEF Move, MutationInv, Control, Positioned,
       Before, Installs
<1>18. ASSUME up, Classify, UNCHANGED gatewayVars PROVE Positioned'
    BY <1>18, <1>0, ClassifyMoves, PlanFacts DEF Classify, At, Move, MutationInv,
       Control, Positioned, Before, Installs
<1>19. ASSUME up, CompleteAction, UNCHANGED gatewayVars PROVE Positioned'
    BY <1>19, <1>0, CompleteActionMoves DEF CompleteAction, Move, MutationInv,
       Control, Positioned, Before, Installs
<1>20. ASSUME up, RemoveManifest, UNCHANGED gatewayVars PROVE Positioned'
    BY <1>20 DEF RemoveManifest, MutationInv, Control, Positioned
<1>21. ASSUME up, RemoveLeaves, UNCHANGED gatewayVars PROVE Positioned'
    BY <1>21 DEF RemoveLeaves, MutationInv, Control, Positioned
<1>22. ASSUME up, RemoveTransaction, UNCHANGED gatewayVars PROVE Positioned'
    BY <1>22, <1>0, RemoveTransactionEffect DEF Move, MutationInv, Control,
       Positioned, Before, Installs
<1>23. ASSUME up, CheckCancelled, UNCHANGED gatewayVars PROVE Positioned'
    BY <1>23, <1>0, CheckCancelledMoves DEF CheckCancelled, Move, MutationInv,
       Control, Positioned
<1>24. ASSUME up, Fault, UNCHANGED gatewayVars PROVE Positioned'
    BY <1>24, <1>0, FaultMoves, PlanFacts DEF Move, MutationInv, Control,
       Positioned, Before, Installs
<1>25. ASSUME up, NEW i \in Op, NEW f \in {"foreign", "absent"}, Edit(i, f), UNCHANGED gatewayVars
      PROVE  Positioned'
    BY <1>25 DEF Edit, MutationInv, Control, Positioned
<1>26. ASSUME NEW a \in Action, PreparePatch(a) PROVE Positioned'
    BY <1>26 DEF PreparePatch, MutationInv, Control, Positioned
<1>27. ASSUME NEW a \in Action, PrepareFails(a) PROVE Positioned'
    BY <1>27 DEF PrepareFails, MutationInv, Control, Positioned
<1>28. ASSUME NEW a \in Action, ApplyPrepared(a) PROVE Positioned'
    BY <1>28, ApplyPreparedEffect DEF Started, MutationInv, Control, Positioned
<1>29. ASSUME NEW a \in Action, CancelPrepared(a) PROVE Positioned'
    BY <1>29 DEF CancelPrepared, MutationInv, Control, Positioned
<1>30. ASSUME NEW a \in Action, CancelFails(a) PROVE Positioned'
    BY <1>30 DEF CancelFails, MutationInv, Control, Positioned
<1>31. ASSUME NEW a \in Action, DropToken(a) PROVE Positioned'
    BY <1>31 DEF DropToken, patchVars, MutationInv, Control, Positioned
<1>32. ASSUME FinishApply PROVE Positioned'
    BY <1>32 DEF FinishApply, NoCall, Positioned, Before, Installs
<1>33. ASSUME FinishRecover PROVE Positioned'
    BY <1>33 DEF FinishRecover, NoCall, Positioned, Before, Installs
<1>34. ASSUME Crash PROVE Positioned'
    BY <1>34 DEF Crash, NoCall, Positioned, Before, Installs
<1>35. ASSUME Reopen PROVE Positioned'
    BY <1>35 DEF Reopen, patchVars, MutationInv, Control, Positioned
<1>36. ASSUME NEW a \in Action, RecoverMutation(a) PROVE Positioned'
    BY <1>36, RecoverMutationEffect DEF Started, MutationInv, Control, Positioned,
       Before, Installs
<1>37. ASSUME ReconcileRestart PROVE Positioned'
    BY <1>37 DEF ReconcileRestart, Begin, Positioned, Before, Installs
<1>38. ASSUME ReconcileNothing PROVE Positioned'
    BY <1>38 DEF ReconcileNothing, MutationInv, Control, Positioned
<1>39. ASSUME FinishReconcile PROVE Positioned'
    BY <1>39 DEF FinishReconcile, NoCall, Positioned, Before, Installs
<1> QED
    BY <1>1, <1>2, <1>3, <1>4, <1>5, <1>6, <1>7, <1>8, <1>9, <1>10, <1>11, <1>12,
       <1>13, <1>14, <1>15, <1>16, <1>17, <1>18, <1>19, <1>20, <1>21, <1>22, <1>23,
       <1>24, <1>25, <1>26, <1>27, <1>28, <1>29, <1>30, <1>31, <1>32, <1>33, <1>34,
       <1>35, <1>36, <1>37, <1>38, <1>39 DEF MutationNext, Step, PatchStep,
       Environment, Install, Rollback, Recovery, Cleanup, Gateway, UseToken,
       Reconcile

LEMMA PhasedStep ==
    ASSUME MutationInv, MutationNext
    PROVE  Phased'
<1>0. call \in CallType
    BY DEF MutationInv, Types
<1>1. ASSUME up, Inspect, UNCHANGED gatewayVars PROVE Phased'
    BY <1>1, <1>0, InspectEffect DEF Move, MutationInv, Control, Phased, Before,
       Installs, Undoes
<1>2. ASSUME up, Prepare, UNCHANGED gatewayVars PROVE Phased'
    BY <1>2, <1>0, PrepareMoves DEF Prepare, At, Move, MutationInv, Control, Phased,
       Before, Installs, Undoes
<1>3. ASSUME up, Stage, UNCHANGED gatewayVars PROVE Phased'
    BY <1>3, <1>0, StageMoves DEF Stage, At, Move, MutationInv, Control, Phased,
       Installs, Undoes
<1>4. ASSUME up, EnterInstalling, UNCHANGED gatewayVars PROVE Phased'
    BY <1>4, <1>0, EnterInstallingMoves DEF EnterInstalling, At, Move, MutationInv,
       Control, Phased
<1>5. ASSUME up, CreateDirectory, UNCHANGED gatewayVars PROVE Phased'
    BY <1>5, <1>0 DEF CreateDirectory, MutationInv, Control, Phased
<1>6. ASSUME up, DirectoriesCreated, UNCHANGED gatewayVars PROVE Phased'
    BY <1>6, <1>0, DirectoriesCreatedMoves DEF DirectoriesCreated, DiskKept, At,
       disk, Move, MutationInv, Control, Phased, Installs
<1>7. ASSUME up, ObserveTarget, UNCHANGED gatewayVars PROVE Phased'
    BY <1>7, <1>0, ObserveTargetMoves DEF ObserveTarget, DiskKept, At, disk, Move,
       MutationInv, Control, Phased, Installs
<1>8. ASSUME up, BackupOriginal, UNCHANGED gatewayVars PROVE Phased'
    BY <1>8, <1>0, BackupOriginalMoves DEF BackupOriginal, At, Move, MutationInv,
       Control, Phased, Installs
<1>9. ASSUME up, InstallFinal, UNCHANGED gatewayVars PROVE Phased'
    BY <1>9, <1>0, InstallFinalMoves DEF InstallFinal, At, Move, MutationInv,
       Control, Phased, Installs
<1>10. ASSUME up, VerifyPostimages, UNCHANGED gatewayVars PROVE Phased'
    BY <1>10, <1>0, VerifyPostimagesMoves DEF VerifyPostimages, DiskKept, At, disk,
       Move, MutationInv, Control, Phased, Installs
<1>11. ASSUME up, PersistInstalled, UNCHANGED gatewayVars PROVE Phased'
    BY <1>11, <1>0, PersistInstalledMoves DEF PersistInstalled, At, Move,
       MutationInv, Control, Phased
<1>12. ASSUME up, RollbackRemove, UNCHANGED gatewayVars PROVE Phased'
    BY <1>12, <1>0, RollbackRemoveMoves DEF RollbackRemove, At, Move, MutationInv,
       Control, Phased, Undoes
<1>13. ASSUME up, RollbackRestore, UNCHANGED gatewayVars PROVE Phased'
    BY <1>13, <1>0, RollbackRestoreMoves DEF RollbackRestore, At, Move, MutationInv,
       Control, Phased, Undoes
<1>14. ASSUME up, VerifyPreimages, UNCHANGED gatewayVars PROVE Phased'
    BY <1>14, <1>0, VerifyPreimagesMoves DEF VerifyPreimages, DiskKept, At, disk,
       Move, MutationInv, Control, Phased, Undoes
<1>15. ASSUME up, RemoveCreatedDirectory, UNCHANGED gatewayVars PROVE Phased'
    BY <1>15, <1>0, RemoveCreatedDirectoryMoves DEF RemoveCreatedDirectory, At,
       Move, MutationInv, Control, Phased, Undoes
<1>16. ASSUME up, RolledBack, UNCHANGED gatewayVars PROVE Phased'
    BY <1>16, <1>0, RolledBackMoves DEF RolledBack, DiskKept, disk, Move,
       MutationInv, Control, Phased, Before, Installs, Undoes
<1>17. ASSUME up, Quarantine, UNCHANGED gatewayVars PROVE Phased'
    BY <1>17, <1>0, QuarantineEffect DEF Move, Phased, Before, Installs, Undoes
<1>18. ASSUME up, Classify, UNCHANGED gatewayVars PROVE Phased'
    BY <1>18, <1>0, ClassifyMoves DEF Classify, DiskKept, disk, Move, MutationInv,
       Control, Phased, Installs, Undoes
<1>19. ASSUME up, CompleteAction, UNCHANGED gatewayVars PROVE Phased'
    BY <1>19, <1>0, CompleteActionMoves DEF CompleteAction, DiskKept, disk, Move,
       MutationInv, Control, Phased, Before, Installs, Undoes
<1>20. ASSUME up, RemoveManifest, UNCHANGED gatewayVars PROVE Phased'
    BY <1>20 DEF RemoveManifest, At, Phased, Installs, Undoes
<1>21. ASSUME up, RemoveLeaves, UNCHANGED gatewayVars PROVE Phased'
    BY <1>21 DEF RemoveLeaves, MutationInv, Control, Phased
<1>22. ASSUME up, RemoveTransaction, UNCHANGED gatewayVars PROVE Phased'
    BY <1>22, <1>0, RemoveTransactionEffect DEF Move, MutationInv, Control, Phased,
       Before, Installs, Undoes
<1>23. ASSUME up, CheckCancelled, UNCHANGED gatewayVars PROVE Phased'
    BY <1>23, <1>0, CheckCancelledMoves DEF CheckCancelled, DiskKept, disk, Move,
       MutationInv, Control, Phased, Before, Installs, Undoes
<1>24. ASSUME up, Fault, UNCHANGED gatewayVars PROVE Phased'
    BY <1>24, <1>0, FaultMoves DEF Fault, Move, MutationInv, Types, StateTypes,
       Control, Phased, Before, Installs, Undoes
<1>25. ASSUME up, NEW i \in Op, NEW f \in {"foreign", "absent"}, Edit(i, f), UNCHANGED gatewayVars
      PROVE  Phased'
    BY <1>25 DEF Edit, MutationInv, Control, Phased
<1>26. ASSUME NEW a \in Action, PreparePatch(a) PROVE Phased'
    BY <1>26 DEF PreparePatch, disk, MutationInv, Control, Phased
<1>27. ASSUME NEW a \in Action, PrepareFails(a) PROVE Phased'
    BY <1>27 DEF PrepareFails, disk, MutationInv, Control, Phased
<1>28. ASSUME NEW a \in Action, ApplyPrepared(a) PROVE Phased'
    BY <1>28, ApplyPreparedEffect DEF Started, MutationInv, Control, Phased, Before,
       Installs, Undoes
<1>29. ASSUME NEW a \in Action, CancelPrepared(a) PROVE Phased'
    BY <1>29 DEF CancelPrepared, disk, MutationInv, Control, Phased
<1>30. ASSUME NEW a \in Action, CancelFails(a) PROVE Phased'
    BY <1>30 DEF CancelFails, disk, MutationInv, Control, Phased
<1>31. ASSUME NEW a \in Action, DropToken(a) PROVE Phased'
    BY <1>31 DEF DropToken, patchVars, disk, MutationInv, Control, Phased
<1>32. ASSUME FinishApply PROVE Phased'
    BY <1>32 DEF FinishApply, NoCall, disk, MutationInv, Control, Phased, Before,
       Installs, Undoes
<1>33. ASSUME FinishRecover PROVE Phased'
    BY <1>33 DEF FinishRecover, NoCall, disk, MutationInv, Control, Phased, Before,
       Installs, Undoes
<1>34. ASSUME Crash PROVE Phased'
    BY <1>34 DEF Crash, NoCall, disk, MutationInv, Control, Phased, Before,
       Installs, Undoes
<1>35. ASSUME Reopen PROVE Phased'
    BY <1>35 DEF Reopen, patchVars, disk, MutationInv, Control, Phased
<1>36. ASSUME NEW a \in Action, RecoverMutation(a) PROVE Phased'
    BY <1>36, RecoverMutationEffect DEF Started, MutationInv, Control, Phased,
       Installs, Undoes
<1>37. ASSUME ReconcileRestart PROVE Phased'
    BY <1>37 DEF ReconcileRestart, Begin, disk, Phased, Installs, Undoes
<1>38. ASSUME ReconcileNothing PROVE Phased'
    BY <1>38 DEF ReconcileNothing, Reconciled, disk, MutationInv, Control, Phased
<1>39. ASSUME FinishReconcile PROVE Phased'
    BY <1>39 DEF FinishReconcile, Reconciled, NoCall, disk, MutationInv, Control,
       Phased, Before, Installs, Undoes
<1> QED
    BY <1>1, <1>2, <1>3, <1>4, <1>5, <1>6, <1>7, <1>8, <1>9, <1>10, <1>11, <1>12,
       <1>13, <1>14, <1>15, <1>16, <1>17, <1>18, <1>19, <1>20, <1>21, <1>22, <1>23,
       <1>24, <1>25, <1>26, <1>27, <1>28, <1>29, <1>30, <1>31, <1>32, <1>33, <1>34,
       <1>35, <1>36, <1>37, <1>38, <1>39 DEF MutationNext, Step, PatchStep,
       Environment, Install, Rollback, Recovery, Cleanup, Gateway, UseToken,
       Reconcile

LEMMA EndedStep ==
    ASSUME MutationInv, MutationNext
    PROVE  Ended'
<1>0. call \in CallType
    BY DEF MutationInv, Types
<1>1. ASSUME up, Inspect, UNCHANGED gatewayVars PROVE Ended'
    BY <1>1, <1>0, InspectEffect DEF Move, MutationInv, Control, Ended, Positioned
<1>2. ASSUME up, Prepare, UNCHANGED gatewayVars PROVE Ended'
    BY <1>2, <1>0, PrepareMoves DEF Move, Ended
<1>3. ASSUME up, Stage, UNCHANGED gatewayVars PROVE Ended'
    BY <1>3, <1>0, StageMoves DEF Move, Ended
<1>4. ASSUME up, EnterInstalling, UNCHANGED gatewayVars PROVE Ended'
    BY <1>4, <1>0, EnterInstallingMoves DEF Move, Ended
<1>5. ASSUME up, CreateDirectory, UNCHANGED gatewayVars PROVE Ended'
    BY <1>5, <1>0 DEF CreateDirectory, MutationInv, Control, Ended
<1>6. ASSUME up, DirectoriesCreated, UNCHANGED gatewayVars PROVE Ended'
    BY <1>6, <1>0, DirectoriesCreatedMoves DEF Move, Ended
<1>7. ASSUME up, ObserveTarget, UNCHANGED gatewayVars PROVE Ended'
    BY <1>7, <1>0, ObserveTargetMoves DEF ObserveTarget, At, Move, MutationInv,
       Control, Ended, Positioned, Installs
<1>8. ASSUME up, BackupOriginal, UNCHANGED gatewayVars PROVE Ended'
    BY <1>8, <1>0, BackupOriginalMoves DEF BackupOriginal, At, Move, MutationInv,
       Control, Ended, Positioned, Installs
<1>9. ASSUME up, InstallFinal, UNCHANGED gatewayVars PROVE Ended'
    BY <1>9, <1>0, InstallFinalMoves DEF Move, Ended
<1>10. ASSUME up, VerifyPostimages, UNCHANGED gatewayVars PROVE Ended'
    BY <1>10, <1>0, VerifyPostimagesMoves DEF VerifyPostimages, At, Move,
       MutationInv, Control, Ended, Positioned, Installs
<1>11. ASSUME up, PersistInstalled, UNCHANGED gatewayVars PROVE Ended'
    BY <1>11, <1>0, PersistInstalledMoves DEF Move, Ended, Ends
<1>12. ASSUME up, RollbackRemove, UNCHANGED gatewayVars PROVE Ended'
    BY <1>12, <1>0, RollbackRemoveMoves DEF Move, Ended
<1>13. ASSUME up, RollbackRestore, UNCHANGED gatewayVars PROVE Ended'
    BY <1>13, <1>0, RollbackRestoreMoves DEF Move, Ended
<1>14. ASSUME up, VerifyPreimages, UNCHANGED gatewayVars PROVE Ended'
    BY <1>14, <1>0, VerifyPreimagesMoves DEF Move, Ended
<1>15. ASSUME up, RemoveCreatedDirectory, UNCHANGED gatewayVars PROVE Ended'
    BY <1>15, <1>0, RemoveCreatedDirectoryMoves DEF Move, Ended
<1>16. ASSUME up, RolledBack, UNCHANGED gatewayVars PROVE Ended'
    BY <1>16, <1>0, RolledBackMoves DEF RolledBack, At, Move, MutationInv, Control,
       Ended, Positioned, Ends
<1>17. ASSUME up, Quarantine, UNCHANGED gatewayVars PROVE Ended'
    BY <1>17, <1>0, QuarantineEffect DEF Move, MutationInv, Control, Ended,
       Positioned
<1>18. ASSUME up, Classify, UNCHANGED gatewayVars PROVE Ended'
    BY <1>18, <1>0, ClassifyMoves DEF Classify, At, Move, MutationInv, Control,
       Ended, Positioned, Ends
<1>19. ASSUME up, CompleteAction, UNCHANGED gatewayVars PROVE Ended'
    BY <1>19, <1>0, CompleteActionMoves DEF CompleteAction, Move, MutationInv,
       Control, Ended, Positioned, Ends
<1>20. ASSUME up, RemoveManifest, UNCHANGED gatewayVars PROVE Ended'
    BY <1>20 DEF RemoveManifest, MutationInv, Control, Ended
<1>21. ASSUME up, RemoveLeaves, UNCHANGED gatewayVars PROVE Ended'
    BY <1>21 DEF RemoveLeaves, MutationInv, Control, Ended
<1>22. ASSUME up, RemoveTransaction, UNCHANGED gatewayVars PROVE Ended'
    BY <1>22, <1>0, RemoveTransactionEffect DEF Move, MutationInv, Control, Ended
<1>23. ASSUME up, CheckCancelled, UNCHANGED gatewayVars PROVE Ended'
    BY <1>23, <1>0, CheckCancelledMoves DEF CheckCancelled, Move, Ended, Ends
<1>24. ASSUME up, Fault, UNCHANGED gatewayVars PROVE Ended'
    BY <1>24, <1>0, FaultMoves DEF Move, MutationInv, Control, Ended, Positioned,
       Ends, Before, Installs
<1>25. ASSUME up, NEW i \in Op, NEW f \in {"foreign", "absent"}, Edit(i, f), UNCHANGED gatewayVars
      PROVE  Ended'
    BY <1>25 DEF Edit, MutationInv, Control, Ended
<1>26. ASSUME NEW a \in Action, PreparePatch(a) PROVE Ended'
    BY <1>26 DEF PreparePatch, MutationInv, Control, Ended
<1>27. ASSUME NEW a \in Action, PrepareFails(a) PROVE Ended'
    BY <1>27 DEF PrepareFails, MutationInv, Control, Ended
<1>28. ASSUME NEW a \in Action, ApplyPrepared(a) PROVE Ended'
    BY <1>28, ApplyPreparedEffect DEF Started, Ended
<1>29. ASSUME NEW a \in Action, CancelPrepared(a) PROVE Ended'
    BY <1>29 DEF CancelPrepared, MutationInv, Control, Ended
<1>30. ASSUME NEW a \in Action, CancelFails(a) PROVE Ended'
    BY <1>30 DEF CancelFails, MutationInv, Control, Ended
<1>31. ASSUME NEW a \in Action, DropToken(a) PROVE Ended'
    BY <1>31 DEF DropToken, patchVars, MutationInv, Control, Ended
<1>32. ASSUME FinishApply PROVE Ended'
    BY <1>32 DEF FinishApply, NoCall, Ended
<1>33. ASSUME FinishRecover PROVE Ended'
    BY <1>33 DEF FinishRecover, NoCall, Ended
<1>34. ASSUME Crash PROVE Ended'
    BY <1>34 DEF Crash, NoCall, Ended
<1>35. ASSUME Reopen PROVE Ended'
    BY <1>35 DEF Reopen, patchVars, MutationInv, Control, Ended
<1>36. ASSUME NEW a \in Action, RecoverMutation(a) PROVE Ended'
    BY <1>36, RecoverMutationEffect DEF Started, Ended, Ends
<1>37. ASSUME ReconcileRestart PROVE Ended'
    BY <1>37 DEF ReconcileRestart, Begin, Ended
<1>38. ASSUME ReconcileNothing PROVE Ended'
    BY <1>38 DEF ReconcileNothing, Free, At, Ended
<1>39. ASSUME FinishReconcile PROVE Ended'
    BY <1>39 DEF FinishReconcile, NoCall, Ended
<1> QED
    BY <1>1, <1>2, <1>3, <1>4, <1>5, <1>6, <1>7, <1>8, <1>9, <1>10, <1>11, <1>12,
       <1>13, <1>14, <1>15, <1>16, <1>17, <1>18, <1>19, <1>20, <1>21, <1>22, <1>23,
       <1>24, <1>25, <1>26, <1>27, <1>28, <1>29, <1>30, <1>31, <1>32, <1>33, <1>34,
       <1>35, <1>36, <1>37, <1>38, <1>39 DEF MutationNext, Step, PatchStep,
       Environment, Install, Rollback, Recovery, Cleanup, Gateway, UseToken,
       Reconcile

------------------------------------------------------------------------------
(* Receipts and files.                                                       *)

LEMMA ReceiptsStep ==
    ASSUME MutationInv, MutationNext
    PROVE  Receipts'
<1>0. call \in CallType
    BY DEF MutationInv, Types
<1>1. ASSUME up, Inspect, UNCHANGED gatewayVars PROVE Receipts'
    BY <1>1, <1>0, InspectEffect DEF gatewayVars, Move, MutationInv, Receipts,
       Forward
<1>2. ASSUME up, Prepare, UNCHANGED gatewayVars PROVE Receipts'
    BY <1>2, <1>0, PrepareMoves DEF Prepare, Quiet, gatewayVars, Move, MutationInv,
       Receipts
<1>3. ASSUME up, Stage, UNCHANGED gatewayVars PROVE Receipts'
    BY <1>3, <1>0, StageMoves DEF Stage, Quiet, gatewayVars, Move, MutationInv,
       Receipts
<1>4. ASSUME up, EnterInstalling, UNCHANGED gatewayVars PROVE Receipts'
    BY <1>4, <1>0, EnterInstallingMoves DEF EnterInstalling, Quiet, gatewayVars,
       Move, MutationInv, Receipts
<1>5. ASSUME up, CreateDirectory, UNCHANGED gatewayVars PROVE Receipts'
    BY <1>5, <1>0 DEF CreateDirectory, Quiet, gatewayVars, MutationInv, Receipts
<1>6. ASSUME up, DirectoriesCreated, UNCHANGED gatewayVars PROVE Receipts'
    BY <1>6, <1>0, DirectoriesCreatedMoves DEF DirectoriesCreated, Quiet,
       gatewayVars, Move, MutationInv, Receipts
<1>7. ASSUME up, ObserveTarget, UNCHANGED gatewayVars PROVE Receipts'
    BY <1>7, <1>0, ObserveTargetMoves DEF ObserveTarget, Quiet, gatewayVars, Move,
       MutationInv, Receipts, Forward
<1>8. ASSUME up, BackupOriginal, UNCHANGED gatewayVars PROVE Receipts'
    BY <1>8, <1>0, BackupOriginalMoves DEF BackupOriginal, Quiet, gatewayVars, Move,
       MutationInv, Receipts, Forward
<1>9. ASSUME up, InstallFinal, UNCHANGED gatewayVars PROVE Receipts'
    BY <1>9, <1>0, InstallFinalMoves DEF InstallFinal, Quiet, gatewayVars, Move,
       MutationInv, Receipts
<1>10. ASSUME up, VerifyPostimages, UNCHANGED gatewayVars PROVE Receipts'
    BY <1>10, <1>0, VerifyPostimagesMoves DEF VerifyPostimages, Quiet, gatewayVars,
       Move, MutationInv, Receipts, Forward
<1>11. ASSUME up, PersistInstalled, UNCHANGED gatewayVars PROVE Receipts'
    BY <1>11, <1>0, PersistInstalledMoves DEF PersistInstalled, Quiet, gatewayVars,
       Move, MutationInv, Receipts
<1>12. ASSUME up, RollbackRemove, UNCHANGED gatewayVars PROVE Receipts'
    BY <1>12, <1>0, RollbackRemoveMoves DEF RollbackRemove, Quiet, gatewayVars,
       Move, MutationInv, Receipts, Forward, Backed
<1>13. ASSUME up, RollbackRestore, UNCHANGED gatewayVars PROVE Receipts'
    BY <1>13, <1>0, RollbackRestoreMoves DEF RollbackRestore, Quiet, gatewayVars,
       Move, MutationInv, Receipts, Forward, Backed
<1>14. ASSUME up, VerifyPreimages, UNCHANGED gatewayVars PROVE Receipts'
    BY <1>14, <1>0, VerifyPreimagesMoves DEF VerifyPreimages, Quiet, gatewayVars,
       Move, MutationInv, Receipts, Forward, Backed
<1>15. ASSUME up, RemoveCreatedDirectory, UNCHANGED gatewayVars PROVE Receipts'
    BY <1>15, <1>0, RemoveCreatedDirectoryMoves DEF RemoveCreatedDirectory, Quiet,
       gatewayVars, Move, MutationInv, Receipts, Forward, Backed
<1>16. ASSUME up, RolledBack, UNCHANGED gatewayVars PROVE Receipts'
    BY <1>16, <1>0, RolledBackMoves DEF RolledBack, Quiet, gatewayVars, Move,
       MutationInv, Receipts
<1>17. ASSUME up, Quarantine, UNCHANGED gatewayVars PROVE Receipts'
    BY <1>17, <1>0, QuarantineEffect DEF gatewayVars, Move, MutationInv, Receipts,
       Forward, Backed
<1>18. ASSUME up, Classify, UNCHANGED gatewayVars PROVE Receipts'
    BY <1>18, <1>0, ClassifyMoves DEF Classify, Quiet, gatewayVars, Move,
       MutationInv, Receipts, Forward, Backed
<1>19. ASSUME up, CompleteAction, UNCHANGED gatewayVars PROVE Receipts'
    BY <1>19, <1>0, CompleteActionMoves DEF gatewayVars, Recorded, Terminal,
       Records, Move, MutationInv, Types, StateTypes, Control, Positioned, Receipts,
       Forward, Backed
<1>20. ASSUME up, RemoveManifest, UNCHANGED gatewayVars PROVE Receipts'
    BY <1>20 DEF RemoveManifest, Quiet, gatewayVars, MutationInv, Receipts
<1>21. ASSUME up, RemoveLeaves, UNCHANGED gatewayVars PROVE Receipts'
    BY <1>21 DEF RemoveLeaves, Quiet, gatewayVars, MutationInv, Receipts
<1>22. ASSUME up, RemoveTransaction, UNCHANGED gatewayVars PROVE Receipts'
    BY <1>22, <1>0, RemoveTransactionEffect DEF gatewayVars, Move, MutationInv,
       Receipts
<1>23. ASSUME up, CheckCancelled, UNCHANGED gatewayVars PROVE Receipts'
    BY <1>23, <1>0, CheckCancelledMoves DEF CheckCancelled, Quiet, gatewayVars,
       Move, MutationInv, Receipts
<1>24. ASSUME up, Fault, UNCHANGED gatewayVars PROVE Receipts'
    BY <1>24, <1>0, FaultMoves DEF gatewayVars, Recorded, Terminal, Move,
       MutationInv, Types, StateTypes, Receipts, Forward, Backed
<1>25. ASSUME up, NEW i \in Op, NEW f \in {"foreign", "absent"}, Edit(i, f), UNCHANGED gatewayVars
      PROVE  Receipts'
    BY <1>25 DEF Edit, gatewayVars, MutationInv, Receipts
<1>26. ASSUME NEW a \in Action, PreparePatch(a) PROVE Receipts'
    BY <1>26 DEF PreparePatch, MutationInv, Types, StateTypes, Receipts
<1>27. ASSUME NEW a \in Action, PrepareFails(a) PROVE Receipts'
    BY <1>27 DEF PrepareFails, MutationInv, Types, StateTypes, Control, Positioned,
       Receipts
<1>28. ASSUME NEW a \in Action, ApplyPrepared(a) PROVE Receipts'
    BY <1>28, ApplyPreparedEffect DEF Started, MutationInv, Types, StateTypes,
       Receipts, Forward
<1>29. ASSUME NEW a \in Action, CancelPrepared(a) PROVE Receipts'
  <2>1. call.at = "idle" /\ call' = call /\ consumed' = consumed /\ a \in token /\ token' = token \ {a}
    BY <1>29 DEF CancelPrepared, Free, At
  <2>2. CASE /\ marker[a] \in {"open", "RolledBack"}
             /\ marker' = [marker EXCEPT ![a] = "RolledBack"]
             /\ told' = [told EXCEPT ![a] = "Cancelled"]
    BY <2>1, <2>2 DEF MutationInv, Types, StateTypes, Control, Positioned, Receipts,
       Forward, Outcome, Conclusive
  <2>3. CASE marker' = marker /\ told' = [told EXCEPT ![a] = "Error"]
    BY <2>1, <2>3 DEF MutationInv, Types, StateTypes, Receipts, Forward
  <2> QED
    BY <1>29, <2>2, <2>3 DEF CancelPrepared, Tell
<1>30. ASSUME NEW a \in Action, CancelFails(a) PROVE Receipts'
    BY <1>30 DEF CancelFails, Tell, MutationInv, Types, StateTypes, Control,
       Positioned, Receipts, Forward
<1>31. ASSUME NEW a \in Action, DropToken(a) PROVE Receipts'
    BY <1>31 DEF DropToken, patchVars, MutationInv, Receipts
<1>32. ASSUME FinishApply PROVE Receipts'
    BY <1>32, PlanFacts DEF FinishApply, NoCall, Tell, At, MutationInv, Receipts,
       Forward, Backed
<1>33. ASSUME FinishRecover PROVE Receipts'
    BY <1>33, PlanFacts DEF FinishRecover, NoCall, Tell, At, MutationInv, Types,
       StateTypes, Control, Positioned, Receipts, Forward, Backed
<1>34. ASSUME Crash PROVE Receipts'
    BY <1>34, PlanFacts DEF Crash, NoCall, MutationInv, Receipts
<1>35. ASSUME Reopen PROVE Receipts'
    BY <1>35 DEF Reopen, patchVars, MutationInv, Receipts
<1>36. ASSUME NEW a \in Action, RecoverMutation(a) PROVE Receipts'
    BY <1>36, RecoverMutationEffect DEF Started, MutationInv, Types, StateTypes,
       Receipts, Forward
<1>37. ASSUME ReconcileRestart PROVE Receipts'
    BY <1>37, PlanFacts DEF ReconcileRestart, Begin, MutationInv, Receipts
<1>38. ASSUME ReconcileNothing PROVE Receipts'
    BY <1>38 DEF ReconcileNothing, Reconciled, MutationInv, Receipts
<1>39. ASSUME FinishReconcile PROVE Receipts'
    BY <1>39, PlanFacts DEF FinishReconcile, Reconciled, NoCall, MutationInv,
       Receipts
<1> QED
    BY <1>1, <1>2, <1>3, <1>4, <1>5, <1>6, <1>7, <1>8, <1>9, <1>10, <1>11, <1>12,
       <1>13, <1>14, <1>15, <1>16, <1>17, <1>18, <1>19, <1>20, <1>21, <1>22, <1>23,
       <1>24, <1>25, <1>26, <1>27, <1>28, <1>29, <1>30, <1>31, <1>32, <1>33, <1>34,
       <1>35, <1>36, <1>37, <1>38, <1>39 DEF MutationNext, Step, PatchStep,
       Environment, Install, Rollback, Recovery, Cleanup, Gateway, UseToken,
       Reconcile

LEMMA UneditedStep ==
    ASSUME MutationInv, MutationNext
    PROVE  Unedited'
<1>0. call \in CallType
    BY DEF MutationInv, Types
<1>1. ASSUME up, Inspect, UNCHANGED gatewayVars PROVE Unedited'
    BY <1>1, <1>0, InspectEffect, NotBoth DEF Move, MutationInv, Unedited, Natural,
       AnyApplied, AllPost, IsPost, Before, Installs, Undoes
<1>2. ASSUME up, Prepare, UNCHANGED gatewayVars PROVE Unedited'
    BY <1>2, <1>0, PrepareMoves DEF Prepare, Quiet, At, Move, MutationInv, Control,
       Positioned, Unedited, Natural, AnyApplied, Before
<1>3. ASSUME up, Stage, UNCHANGED gatewayVars PROVE Unedited'
    BY <1>3, <1>0, StageMoves DEF Stage, Quiet, At, Move, MutationInv, Unedited,
       Natural, AnyApplied, AllPost, IsPost, Before, Undoes
<1>4. ASSUME up, EnterInstalling, UNCHANGED gatewayVars PROVE Unedited'
    BY <1>4, <1>0, EnterInstallingMoves DEF EnterInstalling, Quiet, At, Move,
       MutationInv, Unedited, Natural, AnyApplied, AllPost, IsPost, Before, Undoes
<1>5. ASSUME up, CreateDirectory, UNCHANGED gatewayVars PROVE Unedited'
    BY <1>5, <1>0 DEF CreateDirectory, Quiet, At, MutationInv, Unedited, Natural,
       AnyApplied, AllPost, IsPost
<1>6. ASSUME up, DirectoriesCreated, UNCHANGED gatewayVars PROVE Unedited'
    BY <1>6, <1>0, DirectoriesCreatedMoves DEF DirectoriesCreated, DiskKept, Quiet,
       At, disk, Move, MutationInv, Control, Positioned, Unedited, Natural,
       AnyApplied, Installs
<1>7. ASSUME up, ObserveTarget, UNCHANGED gatewayVars PROVE Unedited'
    BY <1>7, <1>0, ObserveTargetMoves DEF ObserveTarget, DiskKept, Quiet, At, disk,
       Move, MutationInv, Control, Positioned, Unedited, Natural, AnyApplied, IsPre,
       Installs
<1>8. ASSUME up, BackupOriginal, UNCHANGED gatewayVars PROVE Unedited'
    BY <1>8, <1>0, BackupOriginalMoves DEF BackupOriginal, Quiet, At, Move,
       MutationInv, Types, StateTypes, Control, Positioned, Unedited, Natural,
       AnyApplied, Installs
<1>9. ASSUME up, InstallFinal, UNCHANGED gatewayVars PROVE Unedited'
    BY <1>9, <1>0, InstallFinalMoves DEF InstallFinal, Quiet, At, Move, MutationInv,
       Control, Positioned, Unedited, Natural, AnyApplied, Installs
<1>10. ASSUME up, VerifyPostimages, UNCHANGED gatewayVars PROVE Unedited'
    BY <1>10, <1>0, VerifyPostimagesMoves DEF VerifyPostimages, DiskKept, Quiet, At,
       disk, Move, MutationInv, Unedited, Natural, AnyApplied, AllPost, IsPost,
       Installs, Undoes
<1>11. ASSUME up, PersistInstalled, UNCHANGED gatewayVars PROVE Unedited'
    BY <1>11, <1>0, PersistInstalledMoves DEF PersistInstalled, Quiet, At, Move,
       MutationInv, Unedited, Natural, AnyApplied, AllPost, IsPost, Undoes
<1>12. ASSUME up, RollbackRemove, UNCHANGED gatewayVars PROVE Unedited'
    BY <1>12, <1>0, RollbackRemoveMoves DEF RollbackRemove, Quiet, At, Move,
       MutationInv, Types, StateTypes, Unedited, Natural, AnyApplied, Undoes
<1>13. ASSUME up, RollbackRestore, UNCHANGED gatewayVars PROVE Unedited'
    BY <1>13, <1>0, RollbackRestoreMoves DEF RollbackRestore, Quiet, At, Move,
       MutationInv, Types, StateTypes, Unedited, Natural, AnyApplied, Preimage,
       Undoes
<1>14. ASSUME up, VerifyPreimages, UNCHANGED gatewayVars PROVE Unedited'
    BY <1>14, <1>0, VerifyPreimagesMoves DEF VerifyPreimages, DiskKept, Quiet, At,
       disk, Move, MutationInv, Unedited, Natural, AnyApplied, Undoes
<1>15. ASSUME up, RemoveCreatedDirectory, UNCHANGED gatewayVars PROVE Unedited'
    BY <1>15, <1>0, RemoveCreatedDirectoryMoves DEF RemoveCreatedDirectory, Quiet,
       At, Move, MutationInv, Unedited, Natural, AnyApplied, Undoes
<1>16. ASSUME up, RolledBack, UNCHANGED gatewayVars PROVE Unedited'
    BY <1>16, <1>0, RolledBackMoves DEF RolledBack, DiskKept, Quiet, At, disk, Move,
       MutationInv, Unedited, Natural, AnyApplied, Forward, Undoes
<1>17. ASSUME up, Quarantine, UNCHANGED gatewayVars PROVE Unedited'
    BY <1>17, <1>0, QuarantineEffect DEF Move, MutationInv, Unedited, Natural,
       AnyApplied, AllPost, IsPost, Before, Installs, Undoes
<1>18. ASSUME up, Classify, UNCHANGED gatewayVars PROVE Unedited'
    BY <1>18, <1>0, ClassifyMoves DEF Classify, DiskKept, Quiet, At, disk, Move,
       MutationInv, Control, Positioned, Unedited, Natural, AnyApplied, AllPost,
       IsPost, Forward, Undoes
<1>19. ASSUME up, CompleteAction, UNCHANGED gatewayVars PROVE Unedited'
    BY <1>19, <1>0, CompleteActionMoves DEF CompleteAction, DiskKept, disk,
       Recorded, Terminal, Ended, Move, MutationInv, Types, StateTypes, Control,
       Unedited, Natural, AnyApplied, AllPost, IsPost, Forward, Before, Installs,
       Undoes
<1>20. ASSUME up, RemoveManifest, UNCHANGED gatewayVars PROVE Unedited'
    BY <1>20 DEF RemoveManifest, Quiet, MutationInv, Unedited, Natural, AnyApplied,
       AllPost, IsPre, IsPost
<1>21. ASSUME up, RemoveLeaves, UNCHANGED gatewayVars PROVE Unedited'
    BY <1>21 DEF RemoveLeaves, Quiet, MutationInv, Unedited, Natural, AnyApplied,
       AllPost, IsPre, IsPost
<1>22. ASSUME up, RemoveTransaction, UNCHANGED gatewayVars PROVE Unedited'
    BY <1>22, <1>0, RemoveTransactionEffect DEF Move, MutationInv, Unedited,
       Natural, AnyApplied, AllPost, IsPost, Before, Installs, Undoes
<1>23. ASSUME up, CheckCancelled, UNCHANGED gatewayVars PROVE Unedited'
    BY <1>23, <1>0, CheckCancelledMoves DEF CheckCancelled, DiskKept, Quiet, disk,
       Move, MutationInv, Unedited, Natural, AnyApplied, AllPost, IsPost, Forward,
       Before, Installs, Undoes
<1>24. ASSUME up, Fault, UNCHANGED gatewayVars PROVE Unedited'
    BY <1>24, <1>0, FaultMoves DEF Fault, Recorded, Terminal, Ended, Move,
       MutationInv, Types, StateTypes, Control, Positioned, Unedited, Natural,
       AnyApplied, AllPost, IsPost, Forward, Before, Installs, Undoes
<1>25. ASSUME up, NEW i \in Op, NEW f \in {"foreign", "absent"}, Edit(i, f), UNCHANGED gatewayVars
      PROVE  Unedited'
    BY <1>25 DEF Edit, MutationInv, Types, StateTypes, Unedited
<1>26. ASSUME NEW a \in Action, PreparePatch(a) PROVE Unedited'
    BY <1>26 DEF PreparePatch, disk, MutationInv, Unedited, Natural, AnyApplied,
       AllPost, IsPre, IsPost
<1>27. ASSUME NEW a \in Action, PrepareFails(a) PROVE Unedited'
    BY <1>27 DEF PrepareFails, disk, MutationInv, Types, StateTypes, Unedited,
       Natural, AnyApplied, AllPost, IsPre, IsPost
<1>28. ASSUME NEW a \in Action, ApplyPrepared(a) PROVE Unedited'
    BY <1>28, ApplyPreparedEffect DEF Started, MutationInv, Unedited, Natural,
       AnyApplied, AllPost, IsPost, Before, Installs, Undoes
<1>29. ASSUME NEW a \in Action, CancelPrepared(a) PROVE Unedited'
    BY <1>29 DEF CancelPrepared, disk, MutationInv, Types, StateTypes, Unedited,
       Natural, AnyApplied, AllPost, IsPre, IsPost
<1>30. ASSUME NEW a \in Action, CancelFails(a) PROVE Unedited'
    BY <1>30 DEF CancelFails, disk, MutationInv, Types, StateTypes, Unedited,
       Natural, AnyApplied, AllPost, IsPre, IsPost
<1>31. ASSUME NEW a \in Action, DropToken(a) PROVE Unedited'
    BY <1>31 DEF DropToken, patchVars, disk, MutationInv, Unedited, Natural,
       AnyApplied, AllPost, IsPre, IsPost
<1>32. ASSUME FinishApply PROVE Unedited'
    BY <1>32 DEF FinishApply, NoCall, disk, MutationInv, Unedited, Natural,
       AnyApplied, AllPost, IsPost, Undoes
<1>33. ASSUME FinishRecover PROVE Unedited'
    BY <1>33 DEF FinishRecover, NoCall, disk, MutationInv, Unedited, Natural,
       AnyApplied, AllPost, IsPost, Undoes
<1>34. ASSUME Crash PROVE Unedited'
    BY <1>34 DEF Crash, NoCall, disk, MutationInv, Unedited, Natural, AnyApplied,
       AllPost, IsPost, Undoes
<1>35. ASSUME Reopen PROVE Unedited'
    BY <1>35 DEF Reopen, patchVars, disk, MutationInv, Unedited, Natural,
       AnyApplied, AllPost, IsPre, IsPost
<1>36. ASSUME NEW a \in Action, RecoverMutation(a) PROVE Unedited'
    BY <1>36, RecoverMutationEffect DEF Started, MutationInv, Unedited, Natural,
       AnyApplied, AllPost, IsPost, Undoes
<1>37. ASSUME ReconcileRestart PROVE Unedited'
    BY <1>37 DEF ReconcileRestart, Begin, disk, MutationInv, Unedited, Natural,
       AnyApplied, AllPost, IsPost, Undoes
<1>38. ASSUME ReconcileNothing PROVE Unedited'
    BY <1>38 DEF ReconcileNothing, Reconciled, disk, MutationInv, Unedited, Natural,
       AnyApplied, AllPost, IsPre, IsPost
<1>39. ASSUME FinishReconcile PROVE Unedited'
    BY <1>39 DEF FinishReconcile, Reconciled, NoCall, disk, MutationInv, Unedited,
       Natural, AnyApplied, AllPost, IsPost, Undoes
<1> QED
    BY <1>1, <1>2, <1>3, <1>4, <1>5, <1>6, <1>7, <1>8, <1>9, <1>10, <1>11, <1>12,
       <1>13, <1>14, <1>15, <1>16, <1>17, <1>18, <1>19, <1>20, <1>21, <1>22, <1>23,
       <1>24, <1>25, <1>26, <1>27, <1>28, <1>29, <1>30, <1>31, <1>32, <1>33, <1>34,
       <1>35, <1>36, <1>37, <1>38, <1>39 DEF MutationNext, Step, PatchStep,
       Environment, Install, Rollback, Recovery, Cleanup, Gateway, UseToken,
       Reconcile

LEMMA UntouchedStep ==
    ASSUME MutationInv, MutationNext
    PROVE  Untouched'
<1>0. call \in CallType
    BY DEF MutationInv, Types
<1>1. ASSUME up, Inspect, UNCHANGED gatewayVars PROVE Untouched'
  <2>1. /\ call.at = "inspect"
        /\ UNCHANGED <<target, dirs, manifest, staged, backup, quarantined, marker, edits, faults>>
        /\ UNCHANGED gatewayVars
    BY <1>1, <1>0, InspectEffect
  <2>2. CASE AllPre /\ ~txn /\ txn' /\ Move("prepare", call.k, call.mutated, call.ends)
    BY <2>1, <2>2 DEF gatewayVars, Move, MutationInv, Untouched, Shared, Unchanged,
       At
  <2>3. CASE txn' = txn /\ Move("done", call.k, call.mutated, "Stopped")
    BY <2>1, <2>3 DEF gatewayVars, Move, MutationInv, Untouched, Shared, Unchanged,
       At
  <2> QED
    BY <1>1, <1>0, InspectEffect, <2>2, <2>3
<1>2. ASSUME up, Prepare, UNCHANGED gatewayVars PROVE Untouched'
    BY <1>2, <1>0, PrepareMoves DEF Prepare, Quiet, At, gatewayVars, Move,
       MutationInv, Untouched, Shared, Unchanged, Before
<1>3. ASSUME up, Stage, UNCHANGED gatewayVars PROVE Untouched'
    BY <1>3, <1>0, StageMoves DEF Stage, Quiet, At, gatewayVars, Move, MutationInv,
       Untouched, Shared, Unchanged, Before
<1>4. ASSUME up, EnterInstalling, UNCHANGED gatewayVars PROVE Untouched'
    BY <1>4, <1>0, EnterInstallingMoves DEF EnterInstalling, Quiet, At, gatewayVars,
       Move, MutationInv, Untouched, Shared, Unchanged, Before
<1>5. ASSUME up, CreateDirectory, UNCHANGED gatewayVars PROVE Untouched'
  <2>1. /\ call.at = "mkdir" /\ call.k <= Len(Outer) /\ UNCHANGED gatewayVars
        /\ UNCHANGED <<target, txn, manifest, staged, backup, quarantined, marker, edits, faults>>
    BY <1>5, <1>0, CreateDirectoryEffect
  <2>2. CASE call.k \in manifest.created /\ dirs' = dirs \cup {call.k} /\ Move("mkdir", call.k + 1, TRUE, call.ends)
    BY <2>1, <2>2 DEF gatewayVars, Move, MutationInv, Control, Phased, Untouched,
       Shared, Before, Installs
  <2>3. CASE call.k \notin manifest.created /\ dirs' = dirs /\ Move("mkdir", call.k + 1, call.mutated, call.ends)
    BY <2>1, <2>3 DEF gatewayVars, Move, MutationInv, Untouched, Shared, Unchanged,
       At
  <2> QED
    BY <1>5, <1>0, CreateDirectoryEffect, <2>2, <2>3
<1>6. ASSUME up, DirectoriesCreated, UNCHANGED gatewayVars PROVE Untouched'
    BY <1>6, <1>0, DirectoriesCreatedMoves DEF DirectoriesCreated, DiskKept, Quiet,
       At, gatewayVars, disk, Move, MutationInv, Untouched, Shared, Unchanged,
       Before, Installs
<1>7. ASSUME up, ObserveTarget, UNCHANGED gatewayVars PROVE Untouched'
    BY <1>7, <1>0, ObserveTargetMoves DEF ObserveTarget, DiskKept, Quiet, At,
       gatewayVars, disk, Move, MutationInv, Untouched, Shared, Unchanged, Before,
       Installs
<1>8. ASSUME up, BackupOriginal, UNCHANGED gatewayVars PROVE Untouched'
    BY <1>8, <1>0, BackupOriginalMoves DEF BackupOriginal, Quiet, At, gatewayVars,
       Move, MutationInv, Control, Phased, Untouched, Shared, Before, Installs
<1>9. ASSUME up, InstallFinal, UNCHANGED gatewayVars PROVE Untouched'
    BY <1>9, <1>0, InstallFinalMoves DEF InstallFinal, Quiet, At, gatewayVars, Move,
       MutationInv, Control, Phased, Untouched, Shared, Before, Installs
<1>10. ASSUME up, VerifyPostimages, UNCHANGED gatewayVars PROVE Untouched'
    BY <1>10, <1>0, VerifyPostimagesMoves DEF VerifyPostimages, DiskKept, Quiet, At,
       gatewayVars, disk, Move, MutationInv, Untouched, Shared, Unchanged, Before,
       Installs
<1>11. ASSUME up, PersistInstalled, UNCHANGED gatewayVars PROVE Untouched'
    BY <1>11, <1>0, PersistInstalledMoves DEF PersistInstalled, Quiet, At,
       gatewayVars, Move, MutationInv, Untouched, Shared, Before, Installs
<1>12. ASSUME up, RollbackRemove, UNCHANGED gatewayVars PROVE Untouched'
    BY <1>12, <1>0, RollbackRemoveMoves DEF RollbackRemove, Quiet, At, gatewayVars,
       Move, MutationInv, Control, Positioned, Untouched, Shared, Unchanged, IsPre,
       Before, Installs
<1>13. ASSUME up, RollbackRestore, UNCHANGED gatewayVars PROVE Untouched'
    BY <1>13, <1>0, RollbackRestoreMoves DEF RollbackRestore, Quiet, At,
       gatewayVars, Move, MutationInv, Control, Positioned, Untouched, Shared,
       Unchanged, Preimage, Before, Installs
<1>14. ASSUME up, VerifyPreimages, UNCHANGED gatewayVars PROVE Untouched'
    BY <1>14, <1>0, VerifyPreimagesMoves DEF VerifyPreimages, DiskKept, Quiet, At,
       gatewayVars, disk, Move, MutationInv, Untouched, Shared, Unchanged, Before,
       Installs
<1>15. ASSUME up, RemoveCreatedDirectory, UNCHANGED gatewayVars PROVE Untouched'
    BY <1>15, <1>0, RemoveCreatedDirectoryMoves DEF RemoveCreatedDirectory, Quiet,
       At, gatewayVars, Move, MutationInv, Untouched, Shared, Unchanged, Before,
       Installs
<1>16. ASSUME up, RolledBack, UNCHANGED gatewayVars PROVE Untouched'
    BY <1>16, <1>0, RolledBackMoves DEF RolledBack, DiskKept, Quiet, At,
       gatewayVars, disk, Move, MutationInv, Untouched, Shared, Unchanged, Before,
       Installs
<1>17. ASSUME up, Quarantine, UNCHANGED gatewayVars PROVE Untouched'
    BY <1>17, <1>0, QuarantineEffect DEF gatewayVars, Move, MutationInv, Untouched,
       Shared, At, Before, Installs
<1>18. ASSUME up, Classify, UNCHANGED gatewayVars PROVE Untouched'
    BY <1>18, <1>0, ClassifyMoves DEF Classify, DiskKept, Quiet, At, gatewayVars,
       disk, Move, MutationInv, Control, Positioned, Untouched, Shared, Unchanged,
       Before, Installs
<1>19. ASSUME up, CompleteAction, UNCHANGED gatewayVars PROVE Untouched'
    BY <1>19, <1>0, CompleteActionMoves DEF CompleteAction, DiskKept, gatewayVars,
       disk, Recorded, Terminal, Move, MutationInv, Types, StateTypes, Untouched,
       Shared, Unchanged, At, Before, Installs
<1>20. ASSUME up, RemoveManifest, UNCHANGED gatewayVars PROVE Untouched'
    BY <1>20 DEF RemoveManifest, NoManifest, Quiet, gatewayVars, MutationInv,
       Untouched, Shared, Unchanged
<1>21. ASSUME up, RemoveLeaves, UNCHANGED gatewayVars PROVE Untouched'
    BY <1>21 DEF RemoveLeaves, Quiet, gatewayVars, MutationInv, Untouched, Shared,
       Unchanged
<1>22. ASSUME up, RemoveTransaction, UNCHANGED gatewayVars PROVE Untouched'
    BY <1>22, <1>0, RemoveTransactionEffect DEF gatewayVars, Move, MutationInv,
       Untouched, Shared, Unchanged, At, Before, Installs
<1>23. ASSUME up, CheckCancelled, UNCHANGED gatewayVars PROVE Untouched'
    BY <1>23, <1>0, CheckCancelledMoves DEF CheckCancelled, DiskKept, Quiet,
       gatewayVars, disk, Move, MutationInv, Untouched, Shared, Unchanged, At,
       Before, Installs
<1>24. ASSUME up, Fault, UNCHANGED gatewayVars PROVE Untouched'
  <2>1. UNCHANGED <<target, dirs, txn, edits, token>>
    BY <1>24 DEF Fault, gatewayVars
  <2>2. CASE marker' = marker
    BY <1>24, <1>0, <2>1, <2>2, FaultMoves DEF Move, MutationInv, Types, StateTypes,
       Untouched, Shared, Unchanged, At, Before, Installs
  <2>3. CASE /\ call.at \in {"complete", "withdraw"} /\ Records /\ marker[call.for] = "open"
             /\ manifest' = manifest /\ marker' = Recorded
             /\ Move("done", call.k, call.mutated, "Failed")
    BY <2>1, <2>3 DEF Move, Recorded, Terminal, MutationInv, Untouched, Shared,
       Unchanged, At, Before, Installs
  <2> QED
    BY <1>24, <1>0, FaultMoves, <2>2, <2>3
<1>25. ASSUME up, NEW i \in Op, NEW f \in {"foreign", "absent"}, Edit(i, f), UNCHANGED gatewayVars
      PROVE  Untouched'
    BY <1>25 DEF Edit, MutationInv, Types, StateTypes, Untouched
<1>26. ASSUME NEW a \in Action, PreparePatch(a) PROVE Untouched'
    BY <1>26 DEF PreparePatch, At, disk, MutationInv, Types, StateTypes, Untouched,
       Shared, Unchanged
<1>27. ASSUME NEW a \in Action, PrepareFails(a) PROVE Untouched'
  <2>1. /\ UNCHANGED <<target, dirs, txn, manifest, edits, token, call>> /\ At("idle")
        /\ marker[a] = "absent"
    BY <1>27 DEF PrepareFails, disk, Free
  <2>2. CASE marker' = marker
    BY <2>1, <2>2 DEF MutationInv, Untouched, Shared, Unchanged, At
  <2>3. CASE marker' = [marker EXCEPT ![a] = "open"]
    BY <2>1, <2>3 DEF MutationInv, Types, StateTypes, Untouched, Shared, Unchanged
  <2> QED
    BY <1>27, <2>2, <2>3 DEF PrepareFails
<1>28. ASSUME NEW a \in Action, ApplyPrepared(a) PROVE Untouched'
  <2>1. /\ up /\ call.at = "idle" /\ a \in token /\ token' = token \ {a}
        /\ UNCHANGED <<target, dirs, txn, manifest, staged, backup, quarantined, marker, edits,
                       faults, up, condition, consumed, crashes, reconciled>>
    BY <1>28, ApplyPreparedEffect
  <2>2. CASE condition = "Clean" /\ told' = told /\ Started("apply", a, "inspect", "none")
    BY <2>1, <2>2 DEF Started, MutationInv, Types, StateTypes, Untouched, Shared,
       Unchanged
  <2>3. CASE call' = call /\ told' = [told EXCEPT ![a] = "Error"]
    BY <2>1, <2>3 DEF MutationInv, Types, StateTypes, Control, Phased, Untouched,
       Shared
  <2> QED
    BY <1>28, ApplyPreparedEffect, <2>2, <2>3
<1>29. ASSUME NEW a \in Action, CancelPrepared(a) PROVE Untouched'
    BY <1>29 DEF CancelPrepared, At, disk, MutationInv, Types, StateTypes, Control,
       Phased, Untouched, Shared
<1>30. ASSUME NEW a \in Action, CancelFails(a) PROVE Untouched'
    BY <1>30 DEF CancelFails, At, disk, MutationInv, Types, StateTypes, Control,
       Phased, Untouched, Shared
<1>31. ASSUME NEW a \in Action, DropToken(a) PROVE Untouched'
    BY <1>31 DEF DropToken, patchVars, disk, MutationInv, Types, StateTypes,
       Untouched, Shared, Unchanged
<1>32. ASSUME FinishApply PROVE Untouched'
    BY <1>32 DEF FinishApply, NoCall, At, disk, MutationInv, Untouched, Shared,
       Unchanged, Before, Installs
<1>33. ASSUME FinishRecover PROVE Untouched'
    BY <1>33 DEF FinishRecover, NoCall, At, disk, MutationInv, Untouched, Shared,
       Unchanged, Before, Installs
<1>34. ASSUME Crash PROVE Untouched'
    BY <1>34 DEF Crash, NoCall, disk, MutationInv, Untouched, Shared, Unchanged, At,
       Before, Installs
<1>35. ASSUME Reopen PROVE Untouched'
    BY <1>35 DEF Reopen, patchVars, disk, MutationInv, Untouched, Shared, Unchanged,
       At
<1>36. ASSUME NEW a \in Action, RecoverMutation(a) PROVE Untouched'
  <2>1. /\ up /\ call.at = "idle" /\ a \in consumed
        /\ UNCHANGED <<target, dirs, txn, manifest, staged, backup, quarantined, marker, edits,
                       faults, up, consumed, token, crashes, reconciled>>
    BY <1>36, RecoverMutationEffect
  <2>2. CASE txn /\ marker[a] = "Applied" /\ Started("applied", a, "cleanup", "AlreadyApplied")
    BY <2>1, <2>2 DEF Started, MutationInv, Untouched, Shared, Unchanged, Before,
       Installs
  <2>3. CASE txn /\ marker[a] = "RolledBack" /\ Started("rolled", a, "read", "none")
    BY <2>1, <2>3 DEF Started, MutationInv, Untouched, Shared, Unchanged, Before,
       Installs
  <2>4. CASE txn /\ marker[a] = "open" /\ Started("recover", a, "read", "none")
    BY <2>1, <2>4 DEF Started, MutationInv, Untouched, Shared, Unchanged, Before
  <2>5. CASE call' = call
    BY <2>1, <2>5 DEF MutationInv, Untouched, Shared, Unchanged, At
  <2> QED
    BY <1>36, RecoverMutationEffect, <2>2, <2>3, <2>4, <2>5
<1>37. ASSUME ReconcileRestart PROVE Untouched'
    BY <1>37 DEF ReconcileRestart, Begin, disk, MutationInv, Untouched, Shared,
       Unchanged, Before, Installs
<1>38. ASSUME ReconcileNothing PROVE Untouched'
    BY <1>38 DEF ReconcileNothing, Reconciled, At, disk, MutationInv, Untouched,
       Shared, Unchanged
<1>39. ASSUME FinishReconcile PROVE Untouched'
    BY <1>39 DEF FinishReconcile, Reconciled, NoCall, At, disk, MutationInv,
       Untouched, Shared, Unchanged, Before, Installs
<1> QED
    BY <1>1, <1>2, <1>3, <1>4, <1>5, <1>6, <1>7, <1>8, <1>9, <1>10, <1>11, <1>12,
       <1>13, <1>14, <1>15, <1>16, <1>17, <1>18, <1>19, <1>20, <1>21, <1>22, <1>23,
       <1>24, <1>25, <1>26, <1>27, <1>28, <1>29, <1>30, <1>31, <1>32, <1>33, <1>34,
       <1>35, <1>36, <1>37, <1>38, <1>39 DEF MutationNext, Step, PatchStep,
       Environment, Install, Rollback, Recovery, Cleanup, Gateway, UseToken,
       Reconcile

LEMMA UndoneStep ==
    ASSUME MutationInv, MutationNext
    PROVE  Undone'
<1>0. call \in CallType
    BY DEF MutationInv, Types
<1>1. ASSUME up, Inspect, UNCHANGED gatewayVars PROVE Undone'
  <2>1. /\ call.at = "inspect"
        /\ UNCHANGED <<target, dirs, manifest, staged, backup, quarantined, marker, edits, faults>>
        /\ UNCHANGED gatewayVars
    BY <1>1, <1>0, InspectEffect
  <2>2. CASE AllPre /\ ~txn /\ txn' /\ Move("prepare", call.k, call.mutated, call.ends)
    BY <2>1, <2>2 DEF MutationInv, Untouched, Undone, Shared, Unchanged, AllPre,
       IsPre
  <2>3. CASE txn' = txn /\ Move("done", call.k, call.mutated, "Stopped")
    BY <2>1, <2>3 DEF MutationInv, Untouched, Undone, Shared, Unchanged, AllPre,
       IsPre
  <2> QED
    BY <1>1, <1>0, InspectEffect, <2>2, <2>3
<1>2. ASSUME up, Prepare, UNCHANGED gatewayVars PROVE Undone'
    BY <1>2, <1>0 DEF Prepare, Missing, Quiet, At, MutationInv, Untouched, Undone,
       Shared, Unchanged, AllPre, IsPre, Before
<1>3. ASSUME up, Stage, UNCHANGED gatewayVars PROVE Undone'
    BY <1>3, <1>0, StageMoves DEF Stage, Quiet, Move, MutationInv, Undone,
       AnyRolledBack, Ending, Shared, Unchanged
<1>4. ASSUME up, EnterInstalling, UNCHANGED gatewayVars PROVE Undone'
    BY <1>4, <1>0, EnterInstallingMoves DEF EnterInstalling, Quiet, At, Move,
       MutationInv, Control, Phased, Undone, AnyRolledBack, Ending, Shared,
       Unchanged
<1>5. ASSUME up, CreateDirectory, UNCHANGED gatewayVars PROVE Undone'
  <2>1. /\ call.at = "mkdir" /\ call.k <= Len(Outer) /\ UNCHANGED gatewayVars
        /\ UNCHANGED <<target, txn, manifest, staged, backup, quarantined, marker, edits, faults>>
    BY <1>5, <1>0, CreateDirectoryEffect
  <2>2. CASE call.k \in manifest.created /\ dirs' = dirs \cup {call.k} /\ Move("mkdir", call.k + 1, TRUE, call.ends)
    BY <2>1, <2>2 DEF Move, MutationInv, Control, Positioned, Untouched, Undone,
       AnyRolledBack, Ending, Shared, Installs
  <2>3. CASE call.k \notin manifest.created /\ dirs' = dirs /\ Move("mkdir", call.k + 1, call.mutated, call.ends)
    BY <2>1, <2>3 DEF Move, MutationInv, Undone, AnyRolledBack, Shared, Unchanged
  <2> QED
    BY <1>5, <1>0, CreateDirectoryEffect, <2>2, <2>3
<1>6. ASSUME up, DirectoriesCreated, UNCHANGED gatewayVars PROVE Undone'
    BY <1>6, <1>0, DirectoriesCreatedMoves DEF DirectoriesCreated, DiskKept, Quiet,
       disk, Move, MutationInv, Undone, AnyRolledBack, Ending, Shared, Unchanged
<1>7. ASSUME up, ObserveTarget, UNCHANGED gatewayVars PROVE Undone'
    BY <1>7, <1>0, ObserveTargetMoves DEF ObserveTarget, DiskKept, Quiet, At, disk,
       Move, MutationInv, Control, Positioned, Untouched, Undone, AnyRolledBack,
       Ending, Shared, Unchanged, Installs
<1>8. ASSUME up, BackupOriginal, UNCHANGED gatewayVars PROVE Undone'
  <2>1. /\ call.at = "backup" /\ UNCHANGED <<dirs, manifest, marker, edits>>
    BY <1>8 DEF BackupOriginal, At, Quiet
  <2>2. edits = 0 /\ ~Shared => ~AnyRolledBack
    BY <2>1 DEF MutationInv, Control, Positioned, Untouched, Shared, AnyRolledBack,
       Installs
  <2>3. target[call.k] = "absent" => UNCHANGED target
    BY <1>8 DEF BackupOriginal
  <2> QED
    BY <1>8, <1>0, <2>1, <2>2, <2>3, BackupOriginalMoves DEF Move, MutationInv,
       Control, Positioned, Untouched, Undone, AnyRolledBack, Ending, Shared,
       Unchanged, Installs
<1>9. ASSUME up, InstallFinal, UNCHANGED gatewayVars PROVE Undone'
  <2>1. /\ call.at = "final" /\ UNCHANGED <<dirs, manifest, marker, edits>>
    BY <1>9 DEF InstallFinal, At, Quiet
  <2>2. edits = 0 /\ ~Shared => ~AnyRolledBack
    BY <2>1 DEF MutationInv, Control, Positioned, Untouched, Shared, AnyRolledBack,
       Installs
  <2> QED
    BY <1>9, <1>0, <2>1, <2>2, InstallFinalMoves DEF Move, MutationInv, Undone,
       AnyRolledBack, Ending, Shared
<1>10. ASSUME up, VerifyPostimages, UNCHANGED gatewayVars PROVE Undone'
    BY <1>10, <1>0, VerifyPostimagesMoves DEF VerifyPostimages, DiskKept, Quiet, At,
       disk, Move, MutationInv, Control, Positioned, Untouched, Undone,
       AnyRolledBack, Ending, Shared, Unchanged, Installs
<1>11. ASSUME up, PersistInstalled, UNCHANGED gatewayVars PROVE Undone'
    BY <1>11, <1>0, PersistInstalledMoves DEF PersistInstalled, Quiet, At, Move,
       MutationInv, Control, Phased, Undone, AnyRolledBack, Backed, Shared,
       Unchanged
<1>12. ASSUME up, RollbackRemove, UNCHANGED gatewayVars PROVE Undone'
    BY <1>12, <1>0, RollbackRemoveMoves DEF RollbackRemove, Quiet, At, Move,
       MutationInv, Control, Positioned, Undone, AnyRolledBack, Backed, Ending,
       Shared, Unchanged, IsPre
<1>13. ASSUME up, RollbackRestore, UNCHANGED gatewayVars PROVE Undone'
    BY <1>13, <1>0, RollbackRestoreMoves DEF RollbackRestore, Quiet, Move,
       MutationInv, Types, StateTypes, Undone, AnyRolledBack, Backed, Ending,
       Shared, Unchanged
<1>14. ASSUME up, VerifyPreimages, UNCHANGED gatewayVars PROVE Undone'
    BY <1>14, <1>0, VerifyPreimagesMoves, PlanFacts DEF VerifyPreimages, DiskKept,
       Quiet, disk, Move, MutationInv, Types, StateTypes, Undone, AnyRolledBack,
       Backed, Ending, Marker, Shared, Unchanged, AllPre, IsPre
<1>15. ASSUME up, RemoveCreatedDirectory, UNCHANGED gatewayVars PROVE Undone'
  <2>1. /\ call.at = "rmdir" /\ call.k > 0 /\ UNCHANGED <<target, manifest, marker, edits>>
    BY <1>15 DEF RemoveCreatedDirectory, At, Quiet
  <2>2. edits = 0 /\ ~Shared => manifest.created = Dir
    BY <2>1 DEF MutationInv, Control, Phased, Undone, Undoes
  <2>3. CASE /\ dirs' = dirs \ ({call.k} \cap manifest.created)
             /\ Move("rmdir", call.k - 1, call.mutated, call.ends)
    <3>1. edits = 0 /\ ~Shared => \A d \in dirs' : d <= call.k - 1
      <4>1. SUFFICES ASSUME edits = 0, ~Shared, NEW d \in dirs' PROVE d <= call.k - 1
        OBVIOUS
      <4>2. d \in dirs /\ d \in Dir /\ d # call.k
        BY <2>2, <2>3, <4>1 DEF MutationInv, Types, StateTypes
      <4>3. d <= call.k /\ call.k \in Nat
        BY <2>1, <4>1, <4>2, PlanFacts DEF MutationInv, Control, Positioned, Undone
      <4> QED
        BY <4>2, <4>3, PlanFacts
    <3>2. dirs' \subseteq dirs /\ call'.at = "rmdir" /\ call'.k = call.k - 1
      BY <2>3 DEF Move
    <3> QED
      BY <2>1, <2>2, <3>1, <3>2 DEF MutationInv, Undone, AnyRolledBack, Shared,
         Unchanged, AllPre, IsPre, Ending
  <2>4. CASE dirs' = dirs /\ call.by = "apply" /\ Move("done", call.k, call.mutated, "Failed")
    BY <2>1, <2>2, <2>4 DEF Move, MutationInv, Undone, AnyRolledBack, Backed,
       Shared, Unchanged
  <2>5. CASE dirs' = dirs /\ Move("done", call.k, call.mutated, "Indeterminate")
    BY <2>1, <2>2, <2>5 DEF Move, MutationInv, Undone, AnyRolledBack, Backed,
       Shared, Unchanged
  <2> QED
    BY <1>15, <1>0, RemoveCreatedDirectoryMoves, <2>3, <2>4, <2>5
<1>16. ASSUME up, RolledBack, UNCHANGED gatewayVars PROVE Undone'
    BY <1>16, <1>0, PlanFacts DEF RolledBack, DiskKept, Quiet, At, disk,
       MutationInv, Types, StateTypes, Undone, Shared, Unchanged, AllPre, IsPre
<1>17. ASSUME up, Quarantine, UNCHANGED gatewayVars PROVE Undone'
  <2>1. /\ UNCHANGED <<target, dirs, manifest, marker, edits>>
        /\ Move("done", call.k, call.mutated, "Indeterminate")
    BY <1>17, <1>0, QuarantineEffect
  <2> QED
    BY <2>1 DEF Move, MutationInv, Undone, AnyRolledBack, Backed, Shared, Unchanged
<1>18. ASSUME up, Classify, UNCHANGED gatewayVars PROVE Undone'
    BY <1>18, <1>0, ClassifyMoves DEF Classify, DiskKept, Quiet, disk, Move,
       MutationInv, Untouched, Undone, AnyRolledBack, Backed, Ending, Shared,
       Unchanged
<1>19. ASSUME up, CompleteAction, UNCHANGED gatewayVars PROVE Undone'
  <2>1. call.at \in {"complete", "withdraw"} /\ UNCHANGED <<target, dirs, txn, manifest, edits>>
    BY <1>19 DEF CompleteAction, DiskKept, disk
  <2>2. CASE marker' = marker
    BY <1>19, <1>0, <2>1, <2>2, CompleteActionMoves DEF Move, MutationInv, Undone,
       AnyRolledBack, Backed, Ending, Shared, Unchanged
  <2>3. CASE /\ Records /\ marker[call.for] \in {"open", Terminal} /\ marker' = Recorded
             /\ \/ Move("done", call.k, call.mutated, call.ends)
                \/ Move("cleanup", call.k, call.mutated, call.ends)
    <3>1. call.for \in Action /\ call.ends \in Forward \cup Backed
      BY <2>1, <2>3 DEF Records, MutationInv, Control, Positioned, Ended, Ends,
         Forward, Backed
    <3>2. Shared => Shared'
      BY <2>3, <3>1 DEF Shared, Recorded, Terminal
    <3>3. edits = 0 /\ ~Shared /\ AnyRolledBack' => Unchanged
      BY <2>1, <2>3, <3>1 DEF AnyRolledBack, Recorded, Terminal, MutationInv,
         Undone, Ending, Forward
    <3> QED
      BY <2>1, <2>3, <3>1, <3>2, <3>3 DEF Move, MutationInv, Undone, Unchanged,
         Ending
  <2> QED
    BY <1>19, <1>0, CompleteActionMoves, <2>2, <2>3
<1>20. ASSUME up, RemoveManifest, UNCHANGED gatewayVars PROVE Undone'
    BY <1>20 DEF RemoveManifest, NoManifest, Quiet, At, MutationInv, Undone,
       AnyRolledBack, Shared, Unchanged
<1>21. ASSUME up, RemoveLeaves, UNCHANGED gatewayVars PROVE Undone'
    BY <1>21 DEF RemoveLeaves, Quiet, At, MutationInv, Undone, AnyRolledBack,
       Shared, Unchanged
<1>22. ASSUME up, RemoveTransaction, UNCHANGED gatewayVars PROVE Undone'
  <2>1. /\ call.at = "cleanup" /\ UNCHANGED <<target, dirs, manifest, marker, edits>>
        /\ Move("done", call.k, call.mutated, call.ends)
    BY <1>22, <1>0, RemoveTransactionEffect
  <2> QED
    BY <2>1 DEF Move, MutationInv, Undone, AnyRolledBack, Ending, Shared, Unchanged
<1>23. ASSUME up, CheckCancelled, UNCHANGED gatewayVars PROVE Undone'
    BY <1>23, <1>0, CheckCancelledMoves DEF CheckCancelled, DiskKept, Quiet, disk,
       Move, MutationInv, Untouched, Undone, Shared, Unchanged, Before, Installs
<1>24. ASSUME up, Fault, UNCHANGED gatewayVars PROVE Undone'
  <2>1. UNCHANGED <<target, dirs, edits>>
    BY <1>24 DEF Fault
  <2>2. /\ edits = 0 /\ ~Shared /\ manifest'.phase # "none" => manifest'.created = Dir
        /\ call'.at # "rmdir"
    BY <1>24, <1>0, FaultMoves DEF Move, MutationInv, Types, StateTypes, Control,
       Phased, Undone
  <2>3. /\ edits = 0 /\ ~Shared /\ call'.at \in Ending /\ call'.ends \in Backed
        => Unchanged
    BY <1>24, <1>0, FaultMoves DEF Move, MutationInv, Untouched, Undone, Backed,
       Ending, Before, Installs, Control, Positioned
  <2>4. CASE marker' = marker
    BY <2>1, <2>2, <2>3, <2>4 DEF MutationInv, Undone, AnyRolledBack, Shared, Unchanged
  <2>5. CASE /\ call.at \in {"complete", "withdraw"} /\ Records /\ marker[call.for] = "open"
             /\ marker' = Recorded
    <3>1. call.for \in Action /\ (call.ends \in Forward \/ call.ends \in Backed)
      BY <2>5 DEF Records, MutationInv, Control, Positioned, Ended, Ends, Forward, Backed
    <3>2. Shared' = Shared
      BY <2>5, <3>1 DEF Recorded, Terminal, Shared, MutationInv, Types, StateTypes
    <3>3. edits = 0 /\ ~Shared /\ AnyRolledBack' => Unchanged
      BY <2>5, <3>1 DEF Recorded, Terminal, AnyRolledBack, MutationInv, Types,
         StateTypes, Undone, Ending, Forward
    <3> QED
      BY <2>1, <2>2, <2>3, <3>2, <3>3 DEF Undone, AnyRolledBack, Unchanged
  <2> QED
    BY <1>24, <1>0, FaultMoves, <2>4, <2>5
<1>25. ASSUME up, NEW i \in Op, NEW f \in {"foreign", "absent"}, Edit(i, f), UNCHANGED gatewayVars
      PROVE  Undone'
    BY <1>25 DEF Edit, MutationInv, Types, StateTypes, Undone
<1>26. ASSUME NEW a \in Action, PreparePatch(a) PROVE Undone'
    BY <1>26 DEF PreparePatch, Free, At, disk, MutationInv, Undone, AnyRolledBack,
       Shared, Unchanged
<1>27. ASSUME NEW a \in Action, PrepareFails(a) PROVE Undone'
    BY <1>27 DEF PrepareFails, Free, At, disk, MutationInv, Types, StateTypes,
       Undone, AnyRolledBack, Shared, Unchanged
<1>28. ASSUME NEW a \in Action, ApplyPrepared(a) PROVE Undone'
  <2>1. /\ up /\ call.at = "idle" /\ a \in token /\ token' = token \ {a}
        /\ UNCHANGED <<target, dirs, txn, manifest, staged, backup, quarantined, marker, edits,
                       faults, up, condition, consumed, crashes, reconciled>>
    BY <1>28, ApplyPreparedEffect
  <2>2. CASE condition = "Clean" /\ told' = told /\ Started("apply", a, "inspect", "none")
    BY <2>1, <2>2 DEF Started, MutationInv, Undone, AnyRolledBack, Ending, Shared,
       Unchanged
  <2>3. CASE call' = call /\ told' = [told EXCEPT ![a] = "Error"]
    BY <2>1, <2>3 DEF MutationInv, Undone, AnyRolledBack, Shared, Unchanged
  <2> QED
    BY <1>28, ApplyPreparedEffect, <2>2, <2>3
<1>29. ASSUME NEW a \in Action, CancelPrepared(a) PROVE Undone'
    BY <1>29 DEF CancelPrepared, At, disk, MutationInv, Types, StateTypes,
       Untouched, Undone, Shared, Unchanged
<1>30. ASSUME NEW a \in Action, CancelFails(a) PROVE Undone'
    BY <1>30 DEF CancelFails, At, disk, MutationInv, Types, StateTypes, Untouched,
       Undone, Shared, Unchanged
<1>31. ASSUME NEW a \in Action, DropToken(a) PROVE Undone'
    BY <1>31 DEF DropToken, patchVars, disk, MutationInv, Undone, AnyRolledBack,
       Shared, Unchanged, AllPre, IsPre
<1>32. ASSUME FinishApply PROVE Undone'
    BY <1>32 DEF FinishApply, NoCall, disk, MutationInv, Undone, AnyRolledBack,
       Backed, Shared, Unchanged
<1>33. ASSUME FinishRecover PROVE Undone'
    BY <1>33 DEF FinishRecover, NoCall, disk, MutationInv, Undone, AnyRolledBack,
       Ending, Shared, Unchanged
<1>34. ASSUME Crash PROVE Undone'
    BY <1>34 DEF Crash, NoCall, disk, MutationInv, Undone, AnyRolledBack, Ending,
       Shared, Unchanged
<1>35. ASSUME Reopen PROVE Undone'
    BY <1>35 DEF Reopen, patchVars, disk, MutationInv, Undone, AnyRolledBack,
       Shared, Unchanged, AllPre, IsPre
<1>36. ASSUME NEW a \in Action, RecoverMutation(a) PROVE Undone'
  <2>1. /\ up /\ call.at = "idle" /\ a \in consumed
        /\ UNCHANGED <<target, dirs, txn, manifest, staged, backup, quarantined, marker, edits,
                       faults, up, consumed, token, crashes, reconciled>>
    BY <1>36, RecoverMutationEffect
  <2>2. CASE txn /\ marker[a] = "Applied" /\ Started("applied", a, "cleanup", "AlreadyApplied")
    BY <2>1, <2>2 DEF Started, MutationInv, Undone, AnyRolledBack, Backed, Shared
  <2>3. CASE txn /\ marker[a] = "RolledBack" /\ Started("rolled", a, "read", "none")
    BY <2>1, <2>3 DEF Started, MutationInv, Undone, AnyRolledBack, Shared, Unchanged
  <2>4. CASE txn /\ marker[a] = "open" /\ Started("recover", a, "read", "none")
    BY <2>1, <2>4 DEF Started, MutationInv, Undone, AnyRolledBack, Ending, Shared
  <2>5. CASE call' = call
    BY <2>1, <2>5 DEF MutationInv, Undone, AnyRolledBack, Shared, Unchanged
  <2> QED
    BY <1>36, RecoverMutationEffect, <2>2, <2>3, <2>4, <2>5
<1>37. ASSUME ReconcileRestart PROVE Undone'
    BY <1>37 DEF ReconcileRestart, Begin, disk, MutationInv, Undone, AnyRolledBack,
       Backed, Shared, Unchanged
<1>38. ASSUME ReconcileNothing PROVE Undone'
    BY <1>38 DEF ReconcileNothing, Reconciled, disk, MutationInv, Undone,
       AnyRolledBack, Shared, Unchanged, AllPre, IsPre
<1>39. ASSUME FinishReconcile PROVE Undone'
    BY <1>39 DEF FinishReconcile, Reconciled, NoCall, disk, MutationInv, Undone,
       AnyRolledBack, Ending, Shared, Unchanged
<1> QED
    BY <1>1, <1>2, <1>3, <1>4, <1>5, <1>6, <1>7, <1>8, <1>9, <1>10, <1>11, <1>12,
       <1>13, <1>14, <1>15, <1>16, <1>17, <1>18, <1>19, <1>20, <1>21, <1>22, <1>23,
       <1>24, <1>25, <1>26, <1>27, <1>28, <1>29, <1>30, <1>31, <1>32, <1>33, <1>34,
       <1>35, <1>36, <1>37, <1>38, <1>39 DEF MutationNext, Step, PatchStep,
       Environment, Install, Rollback, Recovery, Cleanup, Gateway, UseToken,
       Reconcile

LEMMA CleanStep ==
    ASSUME MutationInv, MutationNext
    PROVE  CleanTruth'
<1>0. call \in CallType
    BY DEF MutationInv, Types
<1>1. ASSUME up, Inspect, UNCHANGED gatewayVars PROVE CleanTruth'
    BY <1>1, <1>0, InspectEffect DEF Move, CleanTruth, At
<1>2. ASSUME up, Prepare, UNCHANGED gatewayVars PROVE CleanTruth'
    BY <1>2, <1>0, PrepareMoves DEF At, Move, CleanTruth
<1>3. ASSUME up, Stage, UNCHANGED gatewayVars PROVE CleanTruth'
    BY <1>3, <1>0, StageMoves DEF At, Move, CleanTruth
<1>4. ASSUME up, EnterInstalling, UNCHANGED gatewayVars PROVE CleanTruth'
    BY <1>4, <1>0, EnterInstallingMoves DEF At, Move, CleanTruth
<1>5. ASSUME up, CreateDirectory, UNCHANGED gatewayVars PROVE CleanTruth'
    BY <1>5, <1>0 DEF CreateDirectory, At, CleanTruth
<1>6. ASSUME up, DirectoriesCreated, UNCHANGED gatewayVars PROVE CleanTruth'
    BY <1>6, <1>0, DirectoriesCreatedMoves DEF At, Move, CleanTruth
<1>7. ASSUME up, ObserveTarget, UNCHANGED gatewayVars PROVE CleanTruth'
    BY <1>7, <1>0, ObserveTargetMoves DEF At, Move, CleanTruth
<1>8. ASSUME up, BackupOriginal, UNCHANGED gatewayVars PROVE CleanTruth'
    BY <1>8, <1>0, BackupOriginalMoves DEF At, Move, CleanTruth
<1>9. ASSUME up, InstallFinal, UNCHANGED gatewayVars PROVE CleanTruth'
    BY <1>9, <1>0, InstallFinalMoves DEF At, Move, CleanTruth
<1>10. ASSUME up, VerifyPostimages, UNCHANGED gatewayVars PROVE CleanTruth'
    BY <1>10, <1>0, VerifyPostimagesMoves DEF At, Move, CleanTruth
<1>11. ASSUME up, PersistInstalled, UNCHANGED gatewayVars PROVE CleanTruth'
    BY <1>11, <1>0, PersistInstalledMoves DEF At, Move, CleanTruth
<1>12. ASSUME up, RollbackRemove, UNCHANGED gatewayVars PROVE CleanTruth'
    BY <1>12, <1>0, RollbackRemoveMoves DEF At, Move, CleanTruth
<1>13. ASSUME up, RollbackRestore, UNCHANGED gatewayVars PROVE CleanTruth'
    BY <1>13, <1>0, RollbackRestoreMoves DEF At, Move, CleanTruth
<1>14. ASSUME up, VerifyPreimages, UNCHANGED gatewayVars PROVE CleanTruth'
    BY <1>14, <1>0, VerifyPreimagesMoves DEF At, Move, CleanTruth
<1>15. ASSUME up, RemoveCreatedDirectory, UNCHANGED gatewayVars
      PROVE  CleanTruth'
    BY <1>15, <1>0, RemoveCreatedDirectoryMoves DEF At, Move, CleanTruth
<1>16. ASSUME up, RolledBack, UNCHANGED gatewayVars PROVE CleanTruth'
    BY <1>16, <1>0, RolledBackMoves DEF At, Move, CleanTruth
<1>17. ASSUME up, Quarantine, UNCHANGED gatewayVars PROVE CleanTruth'
    BY <1>17, <1>0, QuarantineEffect DEF Move, CleanTruth, At
<1>18. ASSUME up, Classify, UNCHANGED gatewayVars PROVE CleanTruth'
    BY <1>18, <1>0, ClassifyMoves DEF At, Move, CleanTruth
<1>19. ASSUME up, CompleteAction, UNCHANGED gatewayVars PROVE CleanTruth'
    BY <1>19, <1>0, CompleteActionMoves DEF Move, CleanTruth, At
<1>20. ASSUME up, RemoveManifest, UNCHANGED gatewayVars PROVE CleanTruth'
    BY <1>20 DEF RemoveManifest, At, CleanTruth
<1>21. ASSUME up, RemoveLeaves, UNCHANGED gatewayVars PROVE CleanTruth'
    BY <1>21 DEF RemoveLeaves, At, CleanTruth
<1>22. ASSUME up, RemoveTransaction, UNCHANGED gatewayVars PROVE CleanTruth'
    BY <1>22, <1>0, RemoveTransactionEffect DEF Move, CleanTruth, At
<1>23. ASSUME up, CheckCancelled, UNCHANGED gatewayVars PROVE CleanTruth'
    BY <1>23, <1>0, CheckCancelledMoves DEF Move, CleanTruth, At
<1>24. ASSUME up, Fault, UNCHANGED gatewayVars PROVE CleanTruth'
    BY <1>24, <1>0, FaultMoves DEF Move, CleanTruth, At
<1>25. ASSUME up, NEW i \in Op, NEW f \in {"foreign", "absent"}, Edit(i, f), UNCHANGED gatewayVars
      PROVE  CleanTruth'
    BY <1>25 DEF Edit, MutationInv, Types, StateTypes, CleanTruth
<1>26. ASSUME NEW a \in Action, PreparePatch(a) PROVE CleanTruth'
    BY <1>26 DEF PreparePatch, At, disk, MutationInv, CleanTruth, Shared, AllPre,
       IsPre
<1>27. ASSUME NEW a \in Action, PrepareFails(a) PROVE CleanTruth'
    BY <1>27 DEF PrepareFails, CleanTruth
<1>28. ASSUME NEW a \in Action, ApplyPrepared(a) PROVE CleanTruth'
  <2>1. /\ up /\ call.at = "idle" /\ a \in token /\ token' = token \ {a}
        /\ UNCHANGED <<target, dirs, txn, manifest, staged, backup, quarantined, marker, edits,
                       faults, up, condition, consumed, crashes, reconciled>>
    BY <1>28, ApplyPreparedEffect
  <2>2. CASE condition = "Clean" /\ told' = told /\ Started("apply", a, "inspect", "none")
    BY <2>1, <2>2 DEF Started, CleanTruth, At
  <2>3. CASE call' = call /\ told' = [told EXCEPT ![a] = "Error"]
    BY <2>1, <2>3 DEF MutationInv, Untouched, CleanTruth, Shared, AllPre, IsPre
  <2> QED
    BY <1>28, ApplyPreparedEffect, <2>2, <2>3
<1>29. ASSUME NEW a \in Action, CancelPrepared(a) PROVE CleanTruth'
    BY <1>29 DEF CancelPrepared, PreparedActionMatches, At, disk, MutationInv,
       Types, StateTypes, CleanTruth, Shared, AllPre, IsPre
<1>30. ASSUME NEW a \in Action, CancelFails(a) PROVE CleanTruth'
    BY <1>30 DEF CancelFails, CleanTruth
<1>31. ASSUME NEW a \in Action, DropToken(a) PROVE CleanTruth'
    BY <1>31 DEF DropToken, patchVars, disk, MutationInv, Untouched, CleanTruth,
       Shared, AllPre, IsPre
<1>32. ASSUME FinishApply PROVE CleanTruth'
    BY <1>32 DEF FinishApply, AfterApply, At, disk, MutationInv, Control, Ended,
       Ends, Undone, CleanTruth, Backed, Ending, Shared, Unchanged, AllPre, IsPre
<1>33. ASSUME FinishRecover PROVE CleanTruth'
    BY <1>33 DEF FinishRecover, At, disk, MutationInv, Undone, CleanTruth, Backed,
       Ending, Shared, Unchanged, AllPre, IsPre
<1>34. ASSUME Crash PROVE CleanTruth'
    BY <1>34 DEF Crash, CleanTruth
<1>35. ASSUME Reopen PROVE CleanTruth'
    BY <1>35 DEF Reopen, GitClean, patchVars, disk, CleanTruth, AllPre, IsPre
<1>36. ASSUME NEW a \in Action, RecoverMutation(a) PROVE CleanTruth'
  <2>1. /\ up /\ call.at = "idle" /\ a \in consumed
        /\ UNCHANGED <<target, dirs, txn, manifest, staged, backup, quarantined, marker, edits,
                       faults, up, consumed, token, crashes, reconciled>>
    BY <1>36, RecoverMutationEffect
  <2>2. CASE txn /\ marker[a] = "Applied" /\ Started("applied", a, "cleanup", "AlreadyApplied")
    BY <2>1, <2>2 DEF Started, CleanTruth, At
  <2>3. CASE txn /\ marker[a] = "RolledBack" /\ Started("rolled", a, "read", "none")
    BY <2>1, <2>3 DEF Started, CleanTruth, At
  <2>4. CASE txn /\ marker[a] = "open" /\ Started("recover", a, "read", "none")
    BY <2>1, <2>4 DEF Started, CleanTruth, At
  <2>5. CASE call' = call
    BY <1>36, RecoverMutationEffect, <2>1, <2>5 DEF MutationInv, Undone, CleanTruth,
       AnyRolledBack, Shared, Unchanged, AllPre, IsPre, At
  <2> QED
    BY <1>36, RecoverMutationEffect, <2>2, <2>3, <2>4, <2>5
<1>37. ASSUME ReconcileRestart PROVE CleanTruth'
    BY <1>37 DEF ReconcileRestart, Begin, At, CleanTruth
<1>38. ASSUME ReconcileNothing PROVE CleanTruth'
    BY <1>38 DEF ReconcileNothing, Reconciled, Disposition, GitClean, disk,
       CleanTruth, AllPre, IsPre
<1>39. ASSUME FinishReconcile PROVE CleanTruth'
    BY <1>39 DEF FinishReconcile, Reconciled, Disposition, GitClean, disk,
       CleanTruth, AllPre, IsPre
<1> QED
    BY <1>1, <1>2, <1>3, <1>4, <1>5, <1>6, <1>7, <1>8, <1>9, <1>10, <1>11, <1>12,
       <1>13, <1>14, <1>15, <1>16, <1>17, <1>18, <1>19, <1>20, <1>21, <1>22, <1>23,
       <1>24, <1>25, <1>26, <1>27, <1>28, <1>29, <1>30, <1>31, <1>32, <1>33, <1>34,
       <1>35, <1>36, <1>37, <1>38, <1>39 DEF MutationNext, Step, PatchStep,
       Environment, Install, Rollback, Recovery, Cleanup, Gateway, UseToken,
       Reconcile

\* Evidence is removed only once nothing is changed or the receipt says Applied.
LEMMA CleanupSettled ==
    ASSUME MutationInv, call.at = "cleanup", Undisturbed
    PROVE  Unchanged \/ AnyApplied
<1>1. /\ call.by \in By /\ call.by # "nobody" /\ call.by # "reconcile"
      /\ call.ends \in Ends(call.by) /\ call.for \in Action
    BY DEF MutationInv, Types, CallType, Control, Positioned, Ended, UndoEvidence, Undisturbed, By
<1>2. edits = 0 /\ ~Shared
    BY DEF Undisturbed
<1>3. CASE call.ends \in Backed
    BY <1>2, <1>3 DEF MutationInv, Undone, Ending
<1>4. CASE call.ends \in Forward /\ call.by \in {"apply", "recover", "applied"}
    BY <1>1, <1>4 DEF MutationInv, Receipts, AnyApplied
<1>5. CASE call.by = "rolled"
    BY <1>1, <1>2, <1>5 DEF MutationInv, Receipts, Undone, AnyRolledBack
<1> QED
    BY <1>1, <1>3, <1>4, <1>5 DEF By, Ends, Forward, Backed

LEMMA UndoEvidenceStep ==
    ASSUME MutationInv, MutationNext
    PROVE  UndoEvidence'
<1>0. call \in CallType
    BY DEF MutationInv, Types
<1>1. ASSUME up, Inspect, UNCHANGED gatewayVars PROVE UndoEvidence'
  <2>1. UNCHANGED <<target, dirs, manifest, backup, marker, edits, reconciled>> /\ call'.by = call.by
    BY <1>1, <1>0, InspectEffect DEF Move, gatewayVars
  <2> QED
    BY <2>1 DEF MutationInv, UndoEvidence, Undisturbed, Kept, Shared, Unchanged,
       AnyApplied
<1>2. ASSUME up, Prepare, UNCHANGED gatewayVars PROVE UndoEvidence'
    BY <1>2, <1>0, PrepareMoves DEF Prepare, Quiet, At, gatewayVars, Move,
       MutationInv, Untouched, UndoEvidence, Undisturbed, Shared, Unchanged, Before
<1>3. ASSUME up, Stage, UNCHANGED gatewayVars PROVE UndoEvidence'
    BY <1>3, <1>0, StageMoves DEF Stage, Quiet, gatewayVars, Move, MutationInv,
       UndoEvidence, Undisturbed, Kept, AnyApplied, Shared, Unchanged
<1>4. ASSUME up, EnterInstalling, UNCHANGED gatewayVars PROVE UndoEvidence'
    BY <1>4, <1>0, EnterInstallingMoves DEF EnterInstalling, Quiet, At, gatewayVars,
       Move, MutationInv, Untouched, UndoEvidence, Undisturbed, Kept, Shared,
       Unchanged, Preimage, Before
<1>5. ASSUME up, CreateDirectory, UNCHANGED gatewayVars PROVE UndoEvidence'
    BY <1>5, <1>0 DEF CreateDirectory, Quiet, At, gatewayVars, MutationInv, Control,
       Phased, UndoEvidence, Undisturbed, Kept, AnyApplied, Shared, Installs
<1>6. ASSUME up, DirectoriesCreated, UNCHANGED gatewayVars PROVE UndoEvidence'
    BY <1>6, <1>0, DirectoriesCreatedMoves DEF DirectoriesCreated, DiskKept, Quiet,
       gatewayVars, disk, Move, MutationInv, UndoEvidence, Undisturbed, Kept,
       AnyApplied, Shared, Unchanged
<1>7. ASSUME up, ObserveTarget, UNCHANGED gatewayVars PROVE UndoEvidence'
    BY <1>7, <1>0, ObserveTargetMoves DEF ObserveTarget, DiskKept, Quiet,
       gatewayVars, disk, Move, MutationInv, UndoEvidence, Undisturbed, Kept,
       AnyApplied, Shared, Unchanged
<1>8. ASSUME up, BackupOriginal, UNCHANGED gatewayVars PROVE UndoEvidence'
    BY <1>8, <1>0, BackupOriginalMoves DEF BackupOriginal, Quiet, At, gatewayVars,
       Move, MutationInv, Types, StateTypes, CallType, Control, Positioned, Phased,
       Unedited, UndoEvidence, Undisturbed, Kept, AnyApplied, Shared, Unchanged,
       IsPre, Preimage, Installs
<1>9. ASSUME up, InstallFinal, UNCHANGED gatewayVars PROVE UndoEvidence'
    BY <1>9, <1>0, InstallFinalMoves DEF InstallFinal, Quiet, At, gatewayVars, Move,
       MutationInv, Control, Phased, Unedited, UndoEvidence, Undisturbed, Kept,
       AnyApplied, Shared, Installs
<1>10. ASSUME up, VerifyPostimages, UNCHANGED gatewayVars PROVE UndoEvidence'
    BY <1>10, <1>0, VerifyPostimagesMoves DEF VerifyPostimages, DiskKept, Quiet,
       gatewayVars, disk, Move, MutationInv, UndoEvidence, Undisturbed, Kept,
       AnyApplied, Shared, Unchanged
<1>11. ASSUME up, PersistInstalled, UNCHANGED gatewayVars PROVE UndoEvidence'
    BY <1>11, <1>0, PersistInstalledMoves DEF PersistInstalled, Quiet, At,
       gatewayVars, Move, MutationInv, Control, Phased, UndoEvidence, Undisturbed,
       Kept, AnyApplied, Shared
<1>12. ASSUME up, RollbackRemove, UNCHANGED gatewayVars PROVE UndoEvidence'
    BY <1>12, <1>0, RollbackRemoveMoves DEF RollbackRemove, Quiet, gatewayVars,
       Move, MutationInv, Types, StateTypes, UndoEvidence, Undisturbed, Kept,
       AnyApplied, Shared, Unchanged, IsPre, Preimage
<1>13. ASSUME up, RollbackRestore, UNCHANGED gatewayVars PROVE UndoEvidence'
  <2>1. /\ UNCHANGED <<dirs, manifest, marker, edits, reconciled>>
        /\ manifest.phase \in {"Installing", "Installed"}
    BY <1>13 DEF RollbackRestore, Quiet, At, gatewayVars, MutationInv, Control,
       Phased, Undoes
  <2>2. call'.by = call.by
    BY <1>13, <1>0, RollbackRestoreMoves DEF Move
  <2>3. Kept => Kept'
    BY <1>13 DEF RollbackRestore, IsPre, Kept, MutationInv, Types, StateTypes
  <2> QED
    BY <2>1, <2>2, <2>3 DEF MutationInv, UndoEvidence, Undisturbed, Shared,
       AnyApplied
<1>14. ASSUME up, VerifyPreimages, UNCHANGED gatewayVars PROVE UndoEvidence'
    BY <1>14, <1>0, VerifyPreimagesMoves DEF VerifyPreimages, DiskKept, Quiet,
       gatewayVars, disk, Move, MutationInv, UndoEvidence, Undisturbed, Kept,
       AnyApplied, Shared, Unchanged
<1>15. ASSUME up, RemoveCreatedDirectory, UNCHANGED gatewayVars PROVE UndoEvidence'
    BY <1>15, <1>0, RemoveCreatedDirectoryMoves DEF RemoveCreatedDirectory, Quiet,
       gatewayVars, Move, MutationInv, UndoEvidence, Undisturbed, Kept, AnyApplied,
       Shared, Unchanged
<1>16. ASSUME up, RolledBack, UNCHANGED gatewayVars PROVE UndoEvidence'
    BY <1>16, <1>0, RolledBackMoves DEF RolledBack, DiskKept, Quiet, gatewayVars,
       disk, Move, MutationInv, UndoEvidence, Undisturbed, Kept, AnyApplied, Shared,
       Unchanged
<1>17. ASSUME up, Quarantine, UNCHANGED gatewayVars PROVE UndoEvidence'
  <2>1. /\ UNCHANGED <<target, dirs, manifest, marker, edits, reconciled>> /\ call'.by = call.by
        /\ manifest.phase = "none"
    BY <1>17, <1>0, QuarantineEffect DEF Move, gatewayVars
  <2> QED
    BY <2>1 DEF MutationInv, UndoEvidence, Undisturbed, Shared, Unchanged,
       AnyApplied
<1>18. ASSUME up, Classify, UNCHANGED gatewayVars PROVE UndoEvidence'
    BY <1>18, <1>0, ClassifyMoves DEF Classify, DiskKept, Quiet, gatewayVars, disk,
       Move, MutationInv, UndoEvidence, Undisturbed, Kept, AnyApplied, Shared,
       Unchanged
<1>19. ASSUME up, CompleteAction, UNCHANGED gatewayVars PROVE UndoEvidence'
  <2>1. UNCHANGED <<target, dirs, manifest, backup, edits, reconciled>> /\ call'.by = call.by
    BY <1>19, <1>0, CompleteActionMoves DEF CompleteAction, DiskKept, disk, Move,
       gatewayVars
  <2>2. Shared => Shared'
    BY <1>19, <1>0, CompleteActionMoves DEF Shared, MutationInv, Types, StateTypes,
       Recorded, Terminal
  <2>3. AnyApplied => AnyApplied'
    BY <1>19, <1>0, CompleteActionMoves DEF AnyApplied, MutationInv, Types,
       StateTypes, Recorded
  <2> QED
    BY <2>1, <2>2, <2>3 DEF MutationInv, UndoEvidence, Undisturbed, Kept, Unchanged
<1>20. ASSUME up, RemoveManifest, UNCHANGED gatewayVars PROVE UndoEvidence'
  <2>1. /\ call.at = "cleanup" /\ manifest'.phase = "none"
        /\ UNCHANGED <<target, dirs, backup, marker, edits, reconciled, call>>
    BY <1>20 DEF RemoveManifest, NoManifest, Quiet, At, gatewayVars
  <2> QED
    BY <2>1, CleanupSettled DEF MutationInv, UndoEvidence, Undisturbed, Shared,
       Unchanged, AnyApplied
<1>21. ASSUME up, RemoveLeaves, UNCHANGED gatewayVars PROVE UndoEvidence'
  <2>1. /\ call.at = "cleanup"
        /\ UNCHANGED <<target, dirs, manifest, marker, edits, reconciled, call>>
    BY <1>21 DEF RemoveLeaves, Quiet, At, gatewayVars
  <2>2. Unchanged => Kept'
    BY <2>1 DEF Unchanged, Kept, Preimage
  <2> QED
    BY <2>1, <2>2, CleanupSettled DEF MutationInv, UndoEvidence, Undisturbed,
       Shared, Unchanged, AnyApplied
<1>22. ASSUME up, RemoveTransaction, UNCHANGED gatewayVars PROVE UndoEvidence'
  <2>1. UNCHANGED <<target, dirs, manifest, backup, marker, edits, reconciled>> /\ call'.by = call.by
    BY <1>22, <1>0, RemoveTransactionEffect DEF Move, gatewayVars
  <2> QED
    BY <2>1 DEF MutationInv, UndoEvidence, Undisturbed, Kept, Shared, Unchanged,
       AnyApplied
<1>23. ASSUME up, CheckCancelled, UNCHANGED gatewayVars PROVE UndoEvidence'
    BY <1>23, <1>0, CheckCancelledMoves DEF CheckCancelled, DiskKept, Quiet,
       gatewayVars, disk, Move, MutationInv, UndoEvidence, Undisturbed, Kept,
       AnyApplied, Shared, Unchanged
<1>24. ASSUME up, Fault, UNCHANGED gatewayVars PROVE UndoEvidence'
  <2>1. UNCHANGED <<target, dirs, backup, edits, reconciled>> /\ call'.by = call.by
    BY <1>24, <1>0, FaultMoves DEF Fault, Move, gatewayVars
  <2>2. Shared => Shared'
    BY <1>24, <1>0, FaultMoves DEF Shared, MutationInv, Types, StateTypes, Recorded,
       Terminal
  <2>3. AnyApplied => AnyApplied'
    BY <1>24, <1>0, FaultMoves DEF AnyApplied, MutationInv, Types, StateTypes,
       Recorded
  <2>4. \/ manifest' = manifest
        \/ manifest.phase \in {"Installing", "Installed"} /\ manifest'.phase = "Installed"
    BY <1>24, <1>0, FaultMoves DEF MutationInv, Types, StateTypes, Control, Phased
  <2> QED
    BY <2>1, <2>2, <2>3, <2>4 DEF MutationInv, UndoEvidence, Undisturbed, Kept,
       Unchanged
<1>25. ASSUME up, NEW i \in Op, NEW f \in {"foreign", "absent"}, Edit(i, f), UNCHANGED gatewayVars
      PROVE  UndoEvidence'
    BY <1>25 DEF Edit, gatewayVars, MutationInv, Types, StateTypes, UndoEvidence,
       Undisturbed
<1>26. ASSUME NEW a \in Action, PreparePatch(a) PROVE UndoEvidence'
    BY <1>26 DEF PreparePatch, disk, MutationInv, UndoEvidence, Undisturbed, Kept,
       AnyApplied, Shared, Unchanged
<1>27. ASSUME NEW a \in Action, PrepareFails(a) PROVE UndoEvidence'
  <2>1. UNCHANGED <<target, dirs, manifest, backup, edits, reconciled, call>>
    BY <1>27 DEF PrepareFails, disk
  <2>2. Shared => Shared'
    BY <1>27 DEF Shared, MutationInv, Types, StateTypes, PrepareFails
  <2>3. AnyApplied => AnyApplied'
    BY <1>27 DEF AnyApplied, MutationInv, Types, StateTypes, PrepareFails
  <2> QED
    BY <2>1, <2>2, <2>3 DEF MutationInv, UndoEvidence, Undisturbed, Kept, Unchanged
<1>28. ASSUME NEW a \in Action, ApplyPrepared(a) PROVE UndoEvidence'
  <2>1. UNCHANGED <<target, dirs, manifest, backup, marker, edits, reconciled>> /\ (call'.by = call.by \/ call'.by # "reconcile")
    BY <1>28, ApplyPreparedEffect DEF Started
  <2> QED
    BY <2>1 DEF MutationInv, UndoEvidence, Undisturbed, Kept, Shared, Unchanged,
       AnyApplied
<1>29. ASSUME NEW a \in Action, CancelPrepared(a) PROVE UndoEvidence'
  <2>1. UNCHANGED <<target, dirs, manifest, backup, edits, reconciled, call>>
    BY <1>29 DEF CancelPrepared, disk
  <2>2. Shared => Shared'
    BY <1>29 DEF Shared, MutationInv, Types, StateTypes, CancelPrepared
  <2>3. AnyApplied => AnyApplied'
    BY <1>29 DEF AnyApplied, MutationInv, Types, StateTypes, CancelPrepared
  <2> QED
    BY <2>1, <2>2, <2>3 DEF MutationInv, UndoEvidence, Undisturbed, Kept, Unchanged
<1>30. ASSUME NEW a \in Action, CancelFails(a) PROVE UndoEvidence'
    BY <1>30 DEF CancelFails, disk, MutationInv, Types, StateTypes, UndoEvidence,
       Undisturbed, Kept, AnyApplied, Shared, Unchanged
<1>31. ASSUME NEW a \in Action, DropToken(a) PROVE UndoEvidence'
    BY <1>31 DEF DropToken, patchVars, disk, MutationInv, UndoEvidence, Undisturbed,
       Kept, AnyApplied, Shared, Unchanged
<1>32. ASSUME FinishApply PROVE UndoEvidence'
    BY <1>32 DEF FinishApply, NoCall, disk, MutationInv, UndoEvidence, Undisturbed,
       Kept, AnyApplied, Shared, Unchanged
<1>33. ASSUME FinishRecover PROVE UndoEvidence'
    BY <1>33 DEF FinishRecover, NoCall, disk, MutationInv, UndoEvidence,
       Undisturbed, Kept, AnyApplied, Shared, Unchanged
<1>34. ASSUME Crash PROVE UndoEvidence'
    BY <1>34 DEF Crash, NoCall, disk, MutationInv, UndoEvidence, Undisturbed, Kept,
       AnyApplied, Shared, Unchanged
<1>35. ASSUME Reopen PROVE UndoEvidence'
    BY <1>35 DEF Reopen, patchVars, disk, MutationInv, UndoEvidence, Undisturbed,
       Kept, AnyApplied, Shared, Unchanged
<1>36. ASSUME NEW a \in Action, RecoverMutation(a) PROVE UndoEvidence'
  <2>1. UNCHANGED <<target, dirs, manifest, backup, marker, edits, reconciled>> /\ (call'.by = call.by \/ call'.by # "reconcile")
    BY <1>36, RecoverMutationEffect DEF Started
  <2> QED
    BY <2>1 DEF MutationInv, UndoEvidence, Undisturbed, Kept, Shared, Unchanged,
       AnyApplied
<1>37. ASSUME ReconcileRestart PROVE UndoEvidence'
    BY <1>37 DEF ReconcileRestart, UndoEvidence, Undisturbed
<1>38. ASSUME ReconcileNothing PROVE UndoEvidence'
    BY <1>38 DEF ReconcileNothing, Reconciled, disk, MutationInv, UndoEvidence,
       Undisturbed, Kept, AnyApplied, Shared, Unchanged
<1>39. ASSUME FinishReconcile PROVE UndoEvidence'
    BY <1>39 DEF FinishReconcile, Reconciled, MutationInv, UndoEvidence, Undisturbed
<1> QED
    BY <1>1, <1>2, <1>3, <1>4, <1>5, <1>6, <1>7, <1>8, <1>9, <1>10, <1>11, <1>12,
       <1>13, <1>14, <1>15, <1>16, <1>17, <1>18, <1>19, <1>20, <1>21, <1>22, <1>23,
       <1>24, <1>25, <1>26, <1>27, <1>28, <1>29, <1>30, <1>31, <1>32, <1>33, <1>34,
       <1>35, <1>36, <1>37, <1>38, <1>39 DEF MutationNext, Step, PatchStep,
       Environment, Install, Rollback, Recovery, Cleanup, Gateway, UseToken,
       Reconcile

------------------------------------------------------------------------------
(* Theorems.                                                                 *)

LEMMA InvInit ==
    ASSUME MutationInit
    PROVE  MutationInv
<1>1. call \in CallType
  <2>1. {"nobody"} \subseteq By /\ {"idle"} \subseteq Position /\ {"none"} \subseteq End /\ 0 \in 0 .. Bound
    BY PlanFacts DEF By, Position, End, Bound
  <2>2. FALSE \in BOOLEAN
    OBVIOUS
  <2> QED
    BY <2>1, <2>2, InCallType, Zenon DEF MutationInit, PatchInit, NoCall
<1>2. StateTypes
  <2>1. target \in [Op -> File] /\ backup \in [Op -> File]
    BY DEF MutationInit, PatchInit, Preimage, File
  <2>2. marker \in [Action -> Marker] /\ told \in [Action -> Outcome]
    BY DEF MutationInit, PatchInit, Marker, Outcome
  <2>3. manifest \in [phase : Phase, created : SUBSET Dir] /\ condition \in Condition
    BY DEF MutationInit, PatchInit, NoManifest, Phase, Condition
  <2>4. /\ txn \in BOOLEAN /\ quarantined \in BOOLEAN /\ up \in BOOLEAN /\ reconciled \in BOOLEAN
    BY DEF MutationInit, PatchInit
  <2>5. /\ edits \in 0 .. MaxEdits /\ faults \in 0 .. MaxFaults /\ crashes \in 0 .. MaxCrashes
        /\ dirs \in SUBSET Dir /\ staged \in SUBSET Op /\ consumed \in SUBSET Action
        /\ token \in SUBSET Action
    BY PlanFacts DEF MutationInit, PatchInit
  <2> QED
    BY <2>1, <2>2, <2>3, <2>4, <2>5 DEF StateTypes
<1>3. /\ call.by = "nobody" /\ call.at = "idle" /\ call.for = Nobody /\ manifest.phase = "none"
      /\ txn = FALSE /\ Unchanged /\ token = {} /\ consumed = {}
      /\ \A a \in Action : marker[a] = "absent" /\ told[a] = "none"
    BY DEF MutationInit, PatchInit, NoCall, NoManifest, Unchanged
<1>4. Control
    BY <1>3, PlanFacts DEF Control, Positioned, Phased, Ended, Before, Installs, Undoes
<1>5. Receipts
    BY <1>3, PlanFacts DEF Receipts, Forward
<1>6. Unedited
    BY <1>3, PlanFacts DEF Unedited, Natural, AnyApplied, Unchanged, Preimage, Before, Installs, Undoes
<1>7. Untouched
    BY <1>3 DEF Untouched, Before, Installs, At
<1>8. Undone
    BY <1>3 DEF Undone, AnyRolledBack, Ending
<1>9. CleanTruth
    BY <1>3 DEF CleanTruth, Unchanged, AllPre, IsPre
<1>10. UndoEvidence
    BY <1>3 DEF UndoEvidence
<1> QED
    BY <1>1, <1>2, <1>4, <1>5, <1>6, <1>7, <1>8, <1>9, <1>10 DEF MutationInv, Types

LEMMA InvStep ==
    ASSUME MutationInv, [MutationNext]_mutationVars
    PROVE  MutationInv'
<1>1. CASE MutationNext
    BY <1>1, StateStep, CallStep, PositionedStep, PhasedStep, EndedStep, ReceiptsStep, UneditedStep,
       UntouchedStep, UndoneStep, CleanStep, UndoEvidenceStep DEF MutationInv, Types, Control
<1>2. CASE UNCHANGED mutationVars
    BY <1>2 DEF mutationVars, patchVars, gatewayVars, disk, MutationInv, Types, StateTypes, Control, Positioned,
       Phased, Ended, Receipts, Unedited, Natural, Untouched, Undone, CleanTruth, UndoEvidence,
       Undisturbed, Shared, Unchanged, Kept, AnyApplied, AnyRolledBack, AllPre, AllPost, IsPre,
       IsPost, At
<1> QED
    BY <1>1, <1>2

\* The invariant of the gateway: where the call is determines what may be changed on
\* the disk, what the receipts say and what undoes the rest.
THEOREM MutationInvariant == MutationSpec => []MutationInv
<1>1. MutationInit => MutationInv
    BY InvInit
<1>2. MutationInv /\ [MutationNext]_mutationVars => MutationInv'
    BY InvStep
<1> QED
    BY <1>1, <1>2, PTL DEF MutationSpec

LEMMA CrashSafeHolds ==
    ASSUME MutationInv
    PROVE  CrashSafe
<1>1. MutationTypeOK
    BY DEF MutationInv, Types, StateTypes, CallType, MutationTypeOK, Bound
<1>2. Recoverable
  <2>1. SUFFICES ASSUME Undisturbed, txn
                 PROVE  /\ manifest.phase \in {"none", "Prepared"} => Unchanged \/ AnyApplied
                        /\ manifest.phase = "Installing" =>
                              \A i \in Op : \/ target[i] \in {Preimage(i), Postimage(i)}
                                            \/ Kind[i] = "Replace" /\ backup[i] = "old"
    BY DEF Recoverable, AnyApplied
  <2>2. manifest.phase \in {"none", "Prepared"} => Unchanged \/ AnyApplied
    BY <2>1 DEF MutationInv, UndoEvidence
  <2>3. ASSUME manifest.phase = "Installing", NEW i \in Op
        PROVE  \/ target[i] \in {Preimage(i), Postimage(i)}
               \/ Kind[i] = "Replace" /\ backup[i] = "old"
    <3>1. CASE AnyApplied
      BY <2>1, <3>1 DEF MutationInv, Unedited, Undisturbed, AllPost, IsPost
    <3>2. CASE Kept
      BY <2>1, <3>2, PlanFacts DEF MutationInv, Types, StateTypes, Unedited, Natural, Undisturbed, Kept, Preimage,
         Postimage, File
    <3> QED
      BY <2>1, <2>3, <3>1, <3>2 DEF MutationInv, UndoEvidence
  <2> QED
    BY <2>2, <2>3
<1>3. EvidenceOrReceipt
    BY DEF MutationInv, Types, StateTypes, Phase, Control, Phased, UndoEvidence, EvidenceOrReceipt, Kept, AnyApplied
<1> QED
    BY <1>1, <1>2, <1>3 DEF CrashSafe

\* At every moment of an application or a recovery the disk holds what the next
\* recovery needs: the phase is durable before a target changes, a replaced or
\* deleted file has its backup, and the receipt comes before the cleanup.
THEOREM TransactionsAreCrashSafe == MutationSpec => []CrashSafe
BY MutationInvariant, CrashSafeHolds, PTL

LEMMA ReceiptTruthHolds ==
    ASSUME MutationInv
    PROVE  ReceiptTruth
<1>1. AppliedTruth
    BY DEF MutationInv, Unedited, AppliedTruth, AnyApplied, Installed, AllPost, IsPost
<1>2. RolledBackTruth
  <2>1. SUFFICES ASSUME edits = 0, ~Shared, \A a \in Action : marker[a] \in {"absent", "RolledBack"}
                 PROVE  Unchanged
    BY DEF RolledBackTruth
  <2>2. CASE AnyRolledBack
    BY <2>1, <2>2 DEF MutationInv, Undone
  <2>3. CASE ~AnyRolledBack
    BY <2>1, <2>3 DEF MutationInv, Untouched, AnyRolledBack
  <2> QED
    BY <2>2, <2>3
<1> QED
    BY <1>1, <1>2 DEF MutationInv, ReceiptTruth

\* A receipt that says Applied stands over installed postimages, one that says
\* RolledBack over preimages with no directory left, and a Clean workspace is not a
\* patched one, whatever crashed or failed on the way.
THEOREM ReceiptsAreTrue == MutationSpec => []ReceiptTruth
BY MutationInvariant, ReceiptTruthHolds, PTL

\* The first terminal result of an action stays.
LEMMA ReceiptsStay ==
    ASSUME MutationInv, [MutationNext]_mutationVars, NEW b \in Action, marker[b] \in {"Applied", "RolledBack"}
    PROVE  marker'[b] = marker[b]
<1>0. call \in CallType /\ marker \in [Action -> Marker]
    BY DEF MutationInv, Types, StateTypes
<1>1. CASE UNCHANGED marker
    BY <1>1
<1>2. CASE CompleteAction
    BY <1>0, <1>2, CompleteActionMoves DEF Recorded
<1>3. CASE Fault
    BY <1>0, <1>3, FaultMoves DEF Recorded
<1>4. ASSUME NEW a \in Action, PreparePatch(a) \/ PrepareFails(a) \/ CancelPrepared(a) \/ CancelFails(a)
      PROVE  marker'[b] = marker[b]
    BY <1>0, <1>4 DEF PreparePatch, PrepareFails, CancelPrepared, CancelFails
<1>5. \/ UNCHANGED marker \/ CompleteAction \/ Fault
      \/ \E a \in Action : PreparePatch(a) \/ PrepareFails(a) \/ CancelPrepared(a) \/ CancelFails(a)
  <2>1. CASE UNCHANGED mutationVars
    BY <2>1 DEF mutationVars, patchVars
  <2>2. CASE PatchStep
    BY <2>2 DEF PatchStep, Install, Rollback, Recovery, Cleanup, Inspect, Prepare, Stage,
       EnterInstalling, CreateDirectory, DirectoriesCreated, ObserveTarget, BackupOriginal, InstallFinal,
       VerifyPostimages, PersistInstalled, RollbackRemove, RollbackRestore, VerifyPreimages,
       RemoveCreatedDirectory, RolledBack, Quarantine, Classify, RemoveManifest, RemoveLeaves,
       RemoveTransaction, Quiet
  <2>3. CASE Environment
    BY <2>3 DEF Environment, CheckCancelled, Edit, Quiet
  <2>4. CASE Gateway
    BY <2>4 DEF Gateway, UseToken, ApplyPrepared, DropToken, patchVars, FinishApply, FinishRecover, Crash,
       Reopen
  <2>5. CASE \E a \in Action : RecoverMutation(a)
    BY <2>5 DEF RecoverMutation
  <2>6. CASE Reconcile
    BY <2>6 DEF Reconcile, ReconcileRestart, ReconcileNothing, FinishReconcile, Reconciled
  <2> QED
    BY <2>1, <2>2, <2>3, <2>4, <2>5, <2>6 DEF MutationNext, Step
<1> QED
    BY <1>1, <1>2, <1>3, <1>4, <1>5

\* Only the answer to a recovery says NotAttempted, of an action without a result and
\* a transaction.
LEMMA NotAttemptedIsOpen ==
    ASSUME MutationInv, [MutationNext]_mutationVars, NEW b \in Action, told[b] # "NotAttempted",
           told'[b] = "NotAttempted"
    PROVE  marker[b] = "open" /\ ~txn
<1>0. told \in [Action -> Outcome] /\ marker \in [Action -> Marker]
    BY DEF MutationInv, Types, StateTypes
<1>1. CASE FinishApply
    BY <1>0, <1>1 DEF FinishApply, Tell
<1>2. CASE FinishRecover
    BY <1>0, <1>2 DEF FinishRecover, Tell
<1>3. ASSUME NEW a \in Action, ApplyPrepared(a) \/ CancelPrepared(a) \/ CancelFails(a)
      PROVE  FALSE
    BY <1>0, <1>3 DEF ApplyPrepared, CancelPrepared, CancelFails, Tell
<1>4. ASSUME NEW a \in Action, RecoverMutation(a)
      PROVE  marker[b] = "open" /\ ~txn
    BY <1>0, <1>4, RecoverMutationEffect DEF MutationInv, Receipts
<1>5. \/ FinishApply \/ FinishRecover
      \/ \E a \in Action : \/ ApplyPrepared(a) \/ CancelPrepared(a) \/ CancelFails(a)
                           \/ RecoverMutation(a)
  <2>1. CASE UNCHANGED mutationVars
    BY <2>1 DEF mutationVars, gatewayVars
  <2>2. CASE UNCHANGED gatewayVars
    BY <2>2 DEF gatewayVars
  <2>3. CASE Gateway
    BY <2>3 DEF Gateway, UseToken, PreparePatch, PrepareFails, DropToken, Crash, Reopen
  <2>4. CASE Reconcile
    BY <2>4 DEF Reconcile, ReconcileRestart, ReconcileNothing, FinishReconcile, Reconciled
  <2> QED
    BY <2>1, <2>2, <2>3, <2>4 DEF MutationNext
<1> QED
    BY <1>1, <1>2, <1>3, <1>4, <1>5

\* A target changes by a step of the installation, of the rollback, or by somebody
\* else's hand.
LEMMA TargetsChange ==
    ASSUME MutationInv, [MutationNext]_mutationVars
    PROVE  \/ UNCHANGED target \/ RollbackRemove \/ RollbackRestore
           \/ call.at \in {"backup", "final"} \/ edits' # edits
<1>1. CASE UNCHANGED mutationVars
    BY <1>1 DEF mutationVars, patchVars, disk
<1>2. CASE PatchStep
    BY <1>2 DEF PatchStep, Install, Rollback, Recovery, Cleanup, Inspect, Prepare, Stage,
       EnterInstalling, CreateDirectory, DirectoriesCreated, ObserveTarget, BackupOriginal, InstallFinal,
       VerifyPostimages, PersistInstalled, VerifyPreimages, RemoveCreatedDirectory, RolledBack,
       Quarantine, Classify, CompleteAction, RemoveManifest, RemoveLeaves, RemoveTransaction,
       DiskKept, disk, At
<1>3. CASE CheckCancelled \/ Fault
    BY <1>3 DEF CheckCancelled, Fault, DiskKept, disk
<1>4. ASSUME NEW i \in Op, NEW f \in {"foreign", "absent"}, Edit(i, f)
      PROVE  edits' # edits
    BY <1>4 DEF Edit, MutationInv, Types, StateTypes
<1>5. CASE Gateway
    BY <1>5 DEF Gateway, UseToken, PreparePatch, PrepareFails, ApplyPrepared, CancelPrepared,
       CancelFails, DropToken, FinishApply, FinishRecover, Crash, Reopen, patchVars, disk
<1>6. CASE \E a \in Action : RecoverMutation(a)
    BY <1>6 DEF RecoverMutation, disk
<1>7. CASE Reconcile
    BY <1>7 DEF Reconcile, ReconcileRestart, ReconcileNothing, FinishReconcile, Reconciled, disk
<1> QED
    BY <1>1, <1>2, <1>3, <1>4, <1>5, <1>6, <1>7 DEF MutationNext, Step, Environment

\* No answer contradicts the conclusive answer right before it, NotAttempted is said
\* of an unchanged workspace only, and neither rollback nor recovery removes
\* what somebody else wrote.
THEOREM AnswersStandForever == MutationSpec => AnswersStand
<1>1. ASSUME MutationInv, MutationInv', [MutationNext]_mutationVars, NEW b \in Action
      PROVE  /\ told[b] \in {"Applied", "AlreadyApplied"} =>
                   told'[b] \notin {"Cancelled", "RolledBack", "NotAttempted"}
             /\ told[b] \in {"Cancelled", "RolledBack"} =>
                   told'[b] \notin {"Applied", "AlreadyApplied", "NotAttempted"}
  <2>1. marker[b] \in {"Applied", "RolledBack"} => marker'[b] = marker[b]
    BY <1>1, ReceiptsStay
  <2>2. told[b] # "NotAttempted" /\ told'[b] = "NotAttempted" => marker[b] = "open"
    BY <1>1, NotAttemptedIsOpen
  <2>3. /\ told[b] \in Forward => marker[b] = "Applied"
        /\ told[b] \in {"Cancelled", "RolledBack"} => marker[b] = "RolledBack"
        /\ told'[b] \in Forward => marker'[b] = "Applied"
        /\ told'[b] \in {"Cancelled", "RolledBack"} => marker'[b] = "RolledBack"
    BY <1>1 DEF MutationInv, Receipts
  <2> QED
    BY <2>1, <2>2, <2>3 DEF Forward
<1>2. ASSUME MutationInv, [MutationNext]_mutationVars, NEW b \in Action, Undisturbed, told[b] # "NotAttempted",
             told'[b] = "NotAttempted"
      PROVE  Unchanged
  <2>1. marker[b] = "open" /\ ~txn
    BY <1>2, NotAttemptedIsOpen
  <2>2. ~AnyApplied
    BY <1>2, <2>1 DEF AnyApplied, Undisturbed, Shared
  <2> QED
    BY <1>2, <2>1, <2>2 DEF MutationInv, Control, Phased, UndoEvidence
<1>3. ASSUME MutationInv, [MutationNext]_mutationVars, NEW i \in Op, target[i] = "foreign",
             call.at \in {"remove", "restore", "read", "rmdir"}
      PROVE  target'[i] = "foreign" \/ edits' # edits
  <2>1. target \in [Op -> File] /\ call.at \notin {"backup", "final"}
    BY <1>3 DEF MutationInv, Types, StateTypes
  <2>2. CASE RollbackRemove
    BY <1>3, <2>1, <2>2 DEF RollbackRemove, Removable, IsPre, IsPost, Preimage, Postimage
  <2>3. CASE RollbackRestore
    BY <1>3, <2>1, <2>3 DEF RollbackRestore
  <2> QED
    BY <1>3, <2>1, <2>2, <2>3, TargetsChange
<1>4. MutationInv /\ MutationInv' /\ [MutationNext]_mutationVars =>
        [\A a \in Action :
          /\ told[a] \in {"Applied", "AlreadyApplied"} =>
                told'[a] \notin {"Cancelled", "RolledBack", "NotAttempted"}
          /\ told[a] \in {"Cancelled", "RolledBack"} =>
                told'[a] \notin {"Applied", "AlreadyApplied", "NotAttempted"}]_mutationVars
    BY <1>1
<1>5. MutationInv /\ MutationInv' /\ [MutationNext]_mutationVars =>
        [\A a \in Action :
          /\ Undisturbed
          /\ told[a] # "NotAttempted" /\ told'[a] = "NotAttempted"
          => Unchanged]_mutationVars
    BY <1>2
<1>6. MutationInv /\ MutationInv' /\ [MutationNext]_mutationVars =>
        [\A i \in Op :
          target[i] = "foreign" /\ call.at \in {"remove", "restore", "read", "rmdir"}
             => target'[i] = "foreign" \/ edits' # edits]_mutationVars
    BY <1>3
<1> QED
    BY <1>4, <1>5, <1>6, MutationInvariant, PTL DEF MutationSpec, AnswersStand, OutcomesAgree,
       NotAttemptedTruth, EditsKept
==============================================================================
