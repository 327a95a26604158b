--------------------------- MODULE Orchestrator ---------------------------
(* The E0 delivery orchestrator: one durable aggregate that drives a run   *)
(* through writer, gates, review, fixer, acceptance and kernel, by at most *)
(* one pending directive at a time, and settles its children when the run  *)
(* is cancelled or ends without success                                    *)
(* (crates/orchestration/peritus-orchestrator/src/reducer).                *)
(*                                                                         *)
(* An action is one command accepted by decide(): the fences on sequence,  *)
(* digest and identity are satisfied by construction, a refused command    *)
(* changes nothing.  Candidates are their revision numbers, an observation *)
(* its class; digests and identities that must match are taken to match.   *)
EXTENDS Naturals, FiniteSets

CONSTANTS
    Limit,          \* the independent immutable limit of each counter
    MaxDeliveries,  \* maximum_deliveries of every directive
    None

Counter == {"Revisions", "WriterCycles", "FixerCycles", "GateCycles",
            "ReviewCycles", "Handoffs", "ChildDirectives",
            "RetainedObservations", "CancellationReconciliations"}

ASSUME LimitAssumption ==
    /\ Limit \in [Counter -> Nat \ {0}]
    /\ MaxDeliveries \in Nat \ {0}

Child == {"Agent", "Gates", "Review", "Scheduler", "Collaboration", "Kernel"}
D3 == {"Scheduler", "Collaboration"}

ActivePhase == {"WriterPending", "WriterActive", "GatesPending",
                "GatesActive", "ReviewPending", "ReviewActive",
                "FixerPending", "FixerActive", "RevisionAdvancing",
                "EvaluatingAcceptance", "KernelAcceptancePending"}

HandoffKind == {"Writer", "Reviewer", "Fixer"}

DirectiveKind == {"StartWriter", "StartGates", "StartReview", "StartFixer",
                  "EvaluateAcceptance", "FinalizeChildren",
                  "BeginKernelAcceptance", "EvaluateKernelAcceptance",
                  "PauseChildren", "ResumeChildren", "CancelChildren"}

ExplicitCause == {"ExplicitRejection", "ExplicitFailure",
                  "ExplicitExhaustion"}

TerminalCause ==
    ExplicitCause \cup
    {"KernelAccepted", "KernelNeedsChanges", "WriterFailed", "FixerFailed",
     "GateCandidateFailed", "GateInfrastructureFailed", "ReviewFailed",
     "ReviewNeedsHuman", "CoordinationFailed", "ChildAmbiguous",
     "CancellationReconciled"}

PendingDirective ==
    [kind : DirectiveKind, destination : Child \cup {"QualityEvaluator"},
     acknowledged : BOOLEAN, deliveries : 1..MaxDeliveries]

ASSUME NoneAssumption ==
    /\ None \notin PendingDirective
    /\ None \notin HandoffKind /\ None \notin TerminalCause

VARIABLES
    phase,          \* an active phase, "Cancelling" or "Terminal"
    paused,         \* Paused(phase) rather than Active(phase)
    directive,      \* the pending directive, or None
    active,         \* active_children
    pausedChildren, \* paused_children
    reconciling,    \* paused_reconciliation is retained
    handoff,        \* kind of the open handoff, or None
    revision,       \* revision of the current candidate
    proposed,       \* a checked fixer proposal waits to be installed
    lastGate,       \* latest gate observation: its class and revision
    lastReview,     \* latest review observation: its class and revision
    certificate,    \* revision the acceptance certificate is for, or None
    begun,          \* the kernel's begun event was observed
    terminal,       \* terminal cause, or None
    pendingTerminal,\* cause retained while children settle, or None
    cancellation,   \* a cancellation cause is retained
    count,          \* the independent counters
    started         \* history: children a committed directive may have
                    \* started and no terminal observation has closed

pauseVars == <<pausedChildren, reconciling>>
terminalVars == <<terminal, pendingTerminal, cancellation>>
evidence == <<revision, lastGate, lastReview, certificate, begun>>
vars == <<phase, paused, directive, active, pauseVars, handoff, proposed,
          evidence, terminalVars, count, started>>

---------------------------------------------------------------------------
\* Mutant: the limit is checked before the increment.
RoomOneMore(counter, n) == count[counter] + n - 1 <= Limit[counter]

\* checked addition against the immutable limit of the counter
Room(counter, n) == count[counter] + n <= Limit[counter]

\* the counters after n more of one of them
Counted(counter, n) == [count EXCEPT ![counter] = @ + n]

Active == phase \in ActivePhase /\ ~paused

D3Active == active \cap D3 # {}

\* Children whose effects a committed directive of this kind may have begun.
OwnedBy(kind) ==
    CASE kind \in {"StartWriter", "StartFixer"} -> D3 \cup {"Agent"}
      [] kind = "StartReview" -> D3 \cup {"Review"}
      [] kind = "StartGates" -> {"Gates"}
      [] kind \in {"BeginKernelAcceptance", "EvaluateKernelAcceptance"} ->
            {"Kernel"}
      [] OTHER -> {}

\* Mutant: a directive published but not yet acknowledged is forgotten.
PendingOwnedAcknowledged ==
    IF directive = None THEN {}
    ELSE IF directive.acknowledged THEN OwnedBy(directive.kind) ELSE {}

\* Children the pending directive may have started without E0 knowing.
PendingOwned == IF directive = None THEN {} ELSE OwnedBy(directive.kind)

PendingIs(kind) == directive # None /\ directive.kind = kind

---------------------------------------------------------------------------
(* Whole-state validation of the successor (state/validation.rs).          *)
\* An accepted run carries its certificate and both kernel observations;
\* a terminal run holds nothing open; paused children are active children.
Validate ==
    /\ pausedChildren \subseteq active
    /\ (phase = "Terminal") <=> (terminal # None)
    /\ terminal # None =>
        /\ active = {}  /\ directive = None  /\ handoff = None
        /\ ~proposed  /\ pendingTerminal = None
        /\ ~reconciling  /\ pausedChildren = {}
        /\ (terminal = "CancellationReconciled") <=> cancellation
    /\ pendingTerminal # None => phase = "Cancelling"
    /\ terminal = "KernelAccepted" =>
        certificate = revision /\ begun
            /\ lastGate.revision = certificate
            /\ lastReview.revision = certificate

\* mutation::set_terminal: everything open is dropped with the run
Close(cause) ==
    /\ phase' = "Terminal"  /\ paused' = FALSE
    /\ terminal' = cause  /\ pendingTerminal' = None
    /\ cancellation' = (cancellation /\ cause = "CancellationReconciled")
    /\ directive' = None  /\ handoff' = None  /\ proposed' = FALSE
    /\ pausedChildren' = {}  /\ reconciling' = FALSE

\* set_terminal: an outcome with children still owned waits in Cancelling.
\* The pause bookkeeping is left as it is.
SetTerminal(cause, owned, open) ==
    /\ active' = owned
    /\ IF owned = {}
       THEN Close(cause)
       ELSE /\ phase' = "Cancelling"  /\ paused' = FALSE
            /\ pendingTerminal' = cause  /\ cancellation' = TRUE
            /\ directive' = None  /\ handoff' = open
            /\ UNCHANGED <<terminal, proposed, pauseVars>>

---------------------------------------------------------------------------
(* Directives.                                                             *)
Destinations(kind) ==
    CASE kind \in {"StartWriter", "StartReview", "StartFixer",
                   "FinalizeChildren"} -> {"Collaboration"}
      [] kind = "StartGates" -> {"Gates"}
      [] kind = "EvaluateAcceptance" -> {"QualityEvaluator"}
      [] kind \in {"BeginKernelAcceptance", "EvaluateKernelAcceptance"} ->
            {"Kernel"}
      [] kind = "PauseChildren" -> active \ pausedChildren
      [] kind = "ResumeChildren" -> active \cap pausedChildren
      [] OTHER -> active

\* The one kind of directive the phase permits.
MatchesPhase(kind) ==
    IF Active /\ reconciling THEN kind = "ResumeChildren"
    ELSE IF paused THEN kind = "PauseChildren" /\ reconciling
    ELSE CASE phase = "WriterPending" ->
                kind = "StartWriter" /\ handoff = "Writer"
           [] phase = "GatesPending" -> kind = "StartGates"
           [] phase = "ReviewPending" ->
                kind = "StartReview" /\ handoff = "Reviewer"
           [] phase = "FixerPending" ->
                kind = "StartFixer" /\ handoff = "Fixer"
           [] phase = "EvaluatingAcceptance" ->
                kind = IF D3Active THEN "FinalizeChildren"
                       ELSE "EvaluateAcceptance"
           [] phase = "RevisionAdvancing" ->
                D3Active /\ kind = "FinalizeChildren"
           [] phase = "KernelAcceptancePending" ->
                /\ certificate # None
                /\ kind = IF begun THEN "EvaluateKernelAcceptance"
                          ELSE "BeginKernelAcceptance"
           [] phase = "Cancelling" ->
                kind = "CancelChildren" /\ cancellation
           [] OTHER -> FALSE

\* A new directive commits with its outbox row.
PublishDirective(kind, destination) ==
    /\ directive = None
    /\ MatchesPhase(kind)
    /\ destination \in Destinations(kind)
    /\ Room("ChildDirectives", 1)
    /\ count' = Counted("ChildDirectives", 1)
    /\ directive' = [kind |-> kind, destination |-> destination,
                     acknowledged |-> FALSE, deliveries |-> 1]
    /\ started' = started \cup OwnedBy(kind)
    /\ UNCHANGED <<phase, paused, active, pauseVars, handoff, proposed,
                   evidence, terminalVars>>

\* The exact pending directive may be published again within its bound.
RepublishDirective ==
    /\ directive # None
    /\ paused => directive.kind = "PauseChildren"
    /\ Active /\ reconciling => directive.kind = "ResumeChildren"
    /\ ~directive.acknowledged
    /\ directive.deliveries < MaxDeliveries
    /\ directive' = [directive EXCEPT !.deliveries = @ + 1]
    /\ UNCHANGED <<phase, paused, active, pauseVars, handoff, proposed,
                   evidence, terminalVars, count, started>>

\* Acknowledgement in GatesPending counts a gate cycle and activates the
\* gates whatever the directive is: the test is on the phase alone.
AcknowledgeGates ==
    /\ Active /\ phase = "GatesPending"
    /\ Room("GateCycles", 1)
    /\ count' = Counted("GateCycles", 1)
    /\ active' = active \cup {"Gates"}
    /\ phase' = "GatesActive"
    /\ directive' = [directive EXCEPT !.acknowledged = TRUE]
    /\ UNCHANGED pauseVars

AcknowledgeKernel ==
    /\ Active /\ phase = "KernelAcceptancePending"
    /\ active' = active \cup OwnedBy(directive.kind)
    /\ directive' = [directive EXCEPT !.acknowledged = TRUE]
    /\ UNCHANGED <<phase, pauseVars, count>>

AcknowledgePause ==
    /\ paused /\ directive.kind = "PauseChildren"
    /\ directive.destination \in active \ pausedChildren
    /\ pausedChildren' = pausedChildren \cup {directive.destination}
    /\ directive' = None
    /\ UNCHANGED <<phase, active, reconciling, count>>

AcknowledgeResume ==
    /\ Active /\ phase \notin {"GatesPending", "KernelAcceptancePending"}
    /\ reconciling /\ directive.kind = "ResumeChildren"
    /\ directive.destination \in active \cap pausedChildren
    /\ pausedChildren' = pausedChildren \ {directive.destination}
    /\ reconciling' = (pausedChildren' # {})
    /\ directive' = None
    /\ UNCHANGED <<phase, active, count>>

AcknowledgeOther ==
    /\ ~(Active /\ phase \in {"GatesPending", "KernelAcceptancePending"})
    /\ ~(paused /\ directive.kind = "PauseChildren")
    /\ ~(Active /\ reconciling /\ directive.kind = "ResumeChildren")
    /\ directive' = [directive EXCEPT !.acknowledged = TRUE]
    /\ UNCHANGED <<phase, active, pauseVars, count>>

AcknowledgeDirective ==
    /\ directive # None
    /\ \/ AcknowledgeGates
       \/ AcknowledgeKernel
       \/ AcknowledgePause
       \/ AcknowledgeResume
       \/ AcknowledgeOther
    /\ UNCHANGED <<paused, handoff, proposed, evidence, terminalVars, started>>

---------------------------------------------------------------------------
(* Observations of the children.  While the run resumes, only resume       *)
(* directives, acknowledgements and cancellation are accepted.             *)
Unhindered == Active /\ ~reconciling

StartKind(kind) ==
    CASE kind = "Writer" -> "StartWriter"
      [] kind = "Reviewer" -> "StartReview"
      [] OTHER -> "StartFixer"

\* The D3 children activated the handoff the pending directive asked for.
ObserveHandoffActivation ==
    /\ Unhindered
    /\ handoff # None
    /\ <<handoff, phase>> \in {<<"Writer", "WriterPending">>,
                               <<"Reviewer", "ReviewPending">>,
                               <<"Fixer", "FixerPending">>}
    /\ PendingIs(StartKind(handoff))
    /\ LET cycle == CASE handoff = "Writer" -> "WriterCycles"
                      [] handoff = "Reviewer" -> "ReviewCycles"
                      [] OTHER -> "FixerCycles"
       IN  /\ Room(cycle, 1) /\ Room("RetainedObservations", 1)
           /\ count' = [count EXCEPT ![cycle] = @ + 1,
                                     !["RetainedObservations"] = @ + 1]
    /\ active' = active \cup OwnedBy(directive.kind)
    /\ directive' = None
    /\ phase' = CASE handoff = "Writer" -> "WriterActive"
                  [] handoff = "Reviewer" -> "ReviewActive"
                  [] OTHER -> "FixerActive"
    /\ UNCHANGED <<paused, pauseVars, handoff, proposed, evidence,
                   terminalVars, started>>

ObserveWriter(completed) ==
    /\ Unhindered /\ phase = "WriterActive" /\ handoff = "Writer"
    /\ Room("RetainedObservations", 1)
    /\ count' = Counted("RetainedObservations", 1)
    /\ started' = started \ {"Agent"}
    /\ IF completed
       THEN /\ phase' = "GatesPending"
            /\ active' = active \ {"Agent"}
            /\ handoff' = None
            /\ UNCHANGED <<paused, directive, pauseVars, proposed,
                           terminalVars>>
       ELSE SetTerminal("WriterFailed", (active \ {"Agent"}) \cup PendingOwned,
                        None)
    /\ UNCHANGED evidence

GateCause(class) ==
    CASE class = "CandidateFailed" -> "GateCandidateFailed"
      [] class = "Indeterminate" -> "ChildAmbiguous"
      [] OTHER -> "GateInfrastructureFailed"

\* Mutant: only an indeterminate result stops the candidate.
GatesPassLenient(class) == class # "Indeterminate"

\* The gate run passed.
GatesPass(class) == class = "Passed"

\* Only a pass opens a review handoff for this candidate.
ObserveGates(class) ==
    /\ Unhindered /\ phase = "GatesActive"
    /\ Room("RetainedObservations", 1)
    /\ lastGate' = [class |-> class, revision |-> revision]
    /\ started' = started \ {"Gates"}
    /\ IF GatesPass(class)
       THEN /\ Room("Handoffs", 1)
            /\ count' = [count EXCEPT !["RetainedObservations"] = @ + 1,
                                      !["Handoffs"] = @ + 1]
            /\ active' = active \ {"Gates"}
            /\ directive' = None
            /\ handoff' = "Reviewer"
            /\ phase' = "ReviewPending"
            /\ UNCHANGED <<paused, pauseVars, proposed, terminalVars>>
       ELSE /\ count' = Counted("RetainedObservations", 1)
            /\ SetTerminal(GateCause(class), active \ {"Gates"}, handoff)
    /\ UNCHANGED <<revision, lastReview, certificate, begun>>

\* A review that needs fixes keeps the review child and opens a fixer.
ObserveReview(class) ==
    /\ Unhindered /\ phase = "ReviewActive" /\ handoff = "Reviewer"
    /\ Room("RetainedObservations", 1)
    /\ lastReview' = [class |-> class, revision |-> revision]
    /\ CASE class = "NeedsFix" ->
              /\ Room("Handoffs", 1)
              /\ count' = [count EXCEPT !["RetainedObservations"] = @ + 1,
                                        !["Handoffs"] = @ + 1]
              /\ handoff' = "Fixer"
              /\ directive' = None
              /\ phase' = "FixerPending"
              /\ UNCHANGED <<paused, active, pauseVars, proposed,
                             terminalVars, started>>
         [] class = "Completed" ->
              /\ count' = Counted("RetainedObservations", 1)
              /\ handoff' = None
              /\ directive' = None
              /\ active' = active \ {"Review"}
              /\ started' = started \ {"Review"}
              /\ phase' = "EvaluatingAcceptance"
              /\ UNCHANGED <<paused, pauseVars, proposed, terminalVars>>
         [] OTHER ->
              /\ count' = Counted("RetainedObservations", 1)
              /\ started' = started \ {"Review"}
              /\ SetTerminal(IF class = "NeedsHuman" THEN "ReviewNeedsHuman"
                             ELSE "ReviewFailed",
                             active \ {"Review"}, None)
    /\ UNCHANGED <<revision, lastGate, certificate, begun>>

\* A completed fixer carries its review response: two observations.
ObserveFixer(completed) ==
    /\ Unhindered /\ phase = "FixerActive" /\ handoff = "Fixer"
    /\ LET retained == IF completed THEN 2 ELSE 1
       IN  /\ Room("RetainedObservations", retained)
           /\ count' = Counted("RetainedObservations", retained)
    /\ started' = started \ {"Agent"}
    /\ IF completed
       THEN /\ proposed' = TRUE
            /\ active' = active \ {"Agent"}
            /\ handoff' = None
            /\ phase' = "RevisionAdvancing"
            /\ UNCHANGED <<paused, directive, pauseVars, terminalVars>>
       ELSE SetTerminal("FixerFailed", (active \ {"Agent"}) \cup PendingOwned,
                        None)
    /\ UNCHANGED evidence

\* Both D3 children are terminal, as the finalize directive asked.
ObserveRoleInfrastructure(outcome) ==
    /\ Unhindered
    /\ phase \in {"EvaluatingAcceptance", "RevisionAdvancing"}
    /\ PendingIs("FinalizeChildren") /\ directive.acknowledged
    /\ D3 \subseteq active
    /\ Room("RetainedObservations", 2)
    /\ count' = Counted("RetainedObservations", 2)
    /\ started' = started \ D3
    /\ IF outcome = "Completed"
       THEN /\ active' = active \ D3
            /\ directive' = None
            /\ UNCHANGED <<phase, paused, pauseVars, handoff, proposed,
                           terminalVars>>
       ELSE SetTerminal(IF outcome = "Indeterminate" THEN "ChildAmbiguous"
                        ELSE "CoordinationFailed", active \ D3, handoff)
    /\ UNCHANGED evidence

---------------------------------------------------------------------------
(* Candidates and acceptance.                                              *)
\* The new revision starts over with fresh gates and no certificate.
AdvanceCandidate ==
    /\ Unhindered /\ phase = "RevisionAdvancing"
    /\ proposed
    /\ ~D3Active
    /\ Room("Revisions", 1)
    /\ count' = Counted("Revisions", 1)
    /\ revision' = revision + 1
    /\ proposed' = FALSE
    /\ certificate' = None
    /\ phase' = "GatesPending"
    /\ UNCHANGED <<paused, directive, active, pauseVars, handoff, lastGate,
                   lastReview, begun, terminalVars, started>>

\* The quality evaluator's certificate, for the current candidate and the
\* latest gate and review heads.
RecordAcceptanceCertificate ==
    /\ Unhindered /\ phase = "EvaluatingAcceptance"
    /\ PendingIs("EvaluateAcceptance") /\ directive.acknowledged
    /\ active = {}
    /\ lastGate # None /\ lastReview # None
    /\ directive' = None
    /\ certificate' = revision
    /\ phase' = "KernelAcceptancePending"
    /\ UNCHANGED <<paused, active, pauseVars, handoff, revision, proposed,
                   lastGate, lastReview, begun, terminalVars, count, started>>

\* The kernel's begun event, then its decision, each under its directive.
ObserveKernelAcceptance(result) ==
    /\ Unhindered /\ phase = "KernelAcceptancePending"
    /\ certificate # None
    /\ PendingIs(IF result = "Begun" THEN "BeginKernelAcceptance"
                 ELSE "EvaluateKernelAcceptance")
    /\ directive.acknowledged
    /\ Room("RetainedObservations", 1)
    /\ count' = Counted("RetainedObservations", 1)
    /\ IF result = "Begun"
       THEN /\ begun' = TRUE
            /\ directive' = None
            /\ UNCHANGED <<phase, paused, active, pauseVars, handoff,
                           proposed, terminalVars, started>>
       ELSE /\ SetTerminal(IF result = "Accepted" THEN "KernelAccepted"
                           ELSE "KernelNeedsChanges",
                           active \ {"Kernel"}, handoff)
            /\ started' = started \ {"Kernel"}
            /\ UNCHANGED begun
    /\ UNCHANGED <<revision, lastGate, lastReview, certificate>>

---------------------------------------------------------------------------
(* Pause, cancellation and settlement.                                     *)
\* The heads of the active children are retained; no directive is dropped.
Pause ==
    /\ Unhindered
    /\ pausedChildren' = {}
    /\ reconciling' = TRUE
    /\ paused' = TRUE
    /\ UNCHANGED <<phase, directive, active, handoff, proposed, evidence,
                   terminalVars, count, started>>

\* Resuming keeps the reconciliation until the last child has resumed.
Resume ==
    /\ paused
    /\ pausedChildren = active
    /\ paused' = FALSE
    /\ UNCHANGED <<phase, directive, active, pauseVars, handoff, proposed,
                   evidence, terminalVars, count, started>>

\* Children a pending directive may have started become active children.
Cancel ==
    /\ phase \in ActivePhase
    /\ active' = active \cup PendingOwned
    /\ cancellation' = TRUE
    /\ directive' = None
    /\ reconciling' = FALSE
    /\ pausedChildren' = {}
    /\ phase' = "Cancelling"
    /\ paused' = FALSE
    /\ UNCHANGED <<handoff, proposed, evidence, terminal, pendingTerminal,
                   count, started>>

\* Mutant: an ambiguous child replaces the cause that ended the run.
AmbiguousTerminalOverrides == "ChildAmbiguous"

\* An ambiguous child decides the outcome only when none is retained.
AmbiguousTerminal ==
    IF pendingTerminal = None THEN "ChildAmbiguous" ELSE pendingTerminal

\* One child is terminal, or classified as unreachable or ambiguous.
ReconcileCancellation(child, class) ==
    /\ phase = "Cancelling"
    /\ PendingIs("CancelChildren") /\ directive.acknowledged
    /\ directive.destination = child
    /\ child \in active
    /\ Room("CancellationReconciliations", 1)
    /\ Room("RetainedObservations", 1)
    /\ count' = [count EXCEPT !["CancellationReconciliations"] = @ + 1,
                              !["RetainedObservations"] = @ + 1]
    /\ active' = active \ {child}
    /\ started' = started \ {child}
    /\ directive' = None
    /\ pendingTerminal' = IF class = "Ambiguous" THEN AmbiguousTerminal
                          ELSE pendingTerminal
    /\ UNCHANGED <<phase, paused, pauseVars, handoff, proposed, evidence,
                   terminal, cancellation>>

\* Mutant: an open handoff also keeps the run from ending.
QuiescentNoHandoff == active = {} /\ directive = None /\ handoff = None

\* Nothing is owned and nothing is pending.
Quiescent == active = {} /\ directive = None

Finalize ==
    /\ phase = "Cancelling"
    /\ Quiescent
    /\ Close(IF pendingTerminal = None THEN "CancellationReconciled"
             ELSE pendingTerminal)
    /\ UNCHANGED <<active, evidence, count, started>>

\* Reject, Fail and Exhaust
ExplicitTerminal(cause) ==
    /\ phase \in ActivePhase
    /\ ~(Active /\ reconciling)
    /\ SetTerminal(cause, active \cup PendingOwned, handoff)
    /\ UNCHANGED <<evidence, count, started>>

---------------------------------------------------------------------------
Init ==
    /\ phase = "WriterPending"  /\ paused = FALSE
    /\ directive = None
    /\ active = {}  /\ pausedChildren = {}  /\ reconciling = FALSE
    /\ handoff = "Writer"
    /\ revision = 1  /\ proposed = FALSE
    /\ lastGate = None  /\ lastReview = None
    /\ certificate = None  /\ begun = FALSE
    /\ terminal = None  /\ pendingTerminal = None  /\ cancellation = FALSE
    /\ count = [c \in Counter |->
                    IF c \in {"Revisions", "Handoffs"} THEN 1 ELSE 0]
    /\ started = {}

Publish == \E kind \in DirectiveKind : \E destination \in Destinations(kind) :
                PublishDirective(kind, destination)

Observe ==
    \/ ObserveHandoffActivation
    \/ \E completed \in BOOLEAN :
            ObserveWriter(completed) \/ ObserveFixer(completed)
    \/ \E class \in {"Passed", "CandidateFailed", "InfrastructureFailed",
                     "Indeterminate"} : ObserveGates(class)
    \/ \E class \in {"NeedsFix", "Completed", "NeedsHuman", "Failed"} :
            ObserveReview(class)
    \/ \E outcome \in {"Completed", "Failed", "Indeterminate"} :
            ObserveRoleInfrastructure(outcome)
    \/ \E result \in {"Begun", "Accepted", "NeedsChanges"} :
            ObserveKernelAcceptance(result)

Settle ==
    \/ \E child \in Child, class \in {"Terminal", "Unreachable", "Ambiguous"} :
            ReconcileCancellation(child, class)
    \/ Finalize

\* decide() refuses a command whose successor does not validate.
Decide(command) == command /\ Validate'

Next ==
    \/ Decide(Publish)
    \/ Decide(RepublishDirective)
    \/ Decide(AcknowledgeDirective)
    \/ Decide(Observe)
    \/ Decide(AdvanceCandidate)
    \/ Decide(RecordAcceptanceCertificate)
    \/ Decide(Pause)
    \/ Decide(Resume)
    \/ Decide(Cancel)
    \/ Decide(Settle)
    \/ \E cause \in ExplicitCause : Decide(ExplicitTerminal(cause))

Spec == Init /\ [][Next]_vars

\* The driver publishes what the phase asks for, delivery acknowledges it,
\* children are observed and settled, and a paused run is resumed.
FairSpec ==
    /\ Spec
    /\ WF_vars(Decide(Publish))
    /\ WF_vars(Decide(AcknowledgeDirective))
    /\ WF_vars(Decide(Observe))
    /\ WF_vars(Decide(AdvanceCandidate))
    /\ WF_vars(Decide(RecordAcceptanceCertificate))
    /\ WF_vars(Decide(Resume))
    /\ WF_vars(Decide(Settle))

---------------------------------------------------------------------------
(* Properties.                                                             *)
Observed(classes) ==
    {None} \cup [class : classes, revision : 1..Limit["Revisions"]]

\* Every variable holds a value of its Rust type; counters keep to their
\* limits (state/counters.rs validate).
TypeOK ==
    /\ phase \in ActivePhase \cup {"Cancelling", "Terminal"}
    /\ paused \in BOOLEAN /\ (paused => phase \in ActivePhase)
    /\ directive \in PendingDirective \cup {None}
    /\ active \subseteq Child /\ pausedChildren \subseteq Child
    /\ reconciling \in BOOLEAN
    /\ handoff \in HandoffKind \cup {None}
    /\ revision \in 1..Limit["Revisions"]
    /\ proposed \in BOOLEAN
    /\ lastGate \in Observed({"Passed", "CandidateFailed", "Indeterminate",
                              "InfrastructureFailed"})
    /\ lastReview \in Observed({"NeedsFix", "Completed", "NeedsHuman",
                                "Failed"})
    /\ certificate \in 1..Limit["Revisions"] \cup {None}
    /\ begun \in BOOLEAN
    /\ terminal \in TerminalCause \cup {None}
    /\ pendingTerminal \in TerminalCause \cup {None}
    /\ cancellation \in BOOLEAN
    /\ count \in [Counter -> Nat]
    /\ \A c \in Counter : count[c] <= Limit[c]
    /\ started \subseteq Child

\* An accepted run passed its gates and completed its review for exactly
\* the accepted revision, and no child is left (acceptance.rs, role_cycle.rs:
\* evidence of an earlier revision never reaches acceptance).
AcceptanceTruth ==
    terminal = "KernelAccepted" =>
        /\ lastGate = [class |-> "Passed", revision |-> revision]
        /\ lastReview = [class |-> "Completed", revision |-> revision]
        /\ certificate = revision
        /\ started = {}

\* A child that a committed directive may have started is always owned, as
\* an active child or through the pending directive, until an observation
\* closes it: no interleaving of publication, pause, failure and
\* cancellation loses a running child (normalize_pending_ownership).
NoOrphanedChild ==
    started \subseteq
        active \cup (IF directive = None THEN {} ELSE OwnedBy(directive.kind))

\* Cancelling only ends, never in acceptance, and a cause that was retained
\* is the one reported (reconcile, finalize).
CommittedCauseStands ==
    [][ /\ phase = "Cancelling" =>
            phase' \in {"Cancelling", "Terminal"}
                /\ terminal' # "KernelAccepted"
        /\ pendingTerminal # None => pendingTerminal \in {pendingTerminal', terminal'}
      ]_vars

\* The budgets settlement needs for one more child.
SettlementRoom ==
    /\ Room("ChildDirectives", 1)
    /\ Room("CancellationReconciliations", 1)
    /\ Room("RetainedObservations", 1)

\* A run that began to settle with no child paused reaches its terminal
\* state unless a settlement budget runs out (publish, reconcile, finalize).
CancellingSettles ==
    phase = "Cancelling" /\ pausedChildren = {}
        ~> phase \in IF SettlementRoom THEN {"Terminal"}
                     ELSE {"Terminal", "Cancelling"}

\* Acceptance rests on the gates and the review of the accepted revision, and no
\* child that was started is forgotten.
RunTruth == TypeOK /\ AcceptanceTruth /\ NoOrphanedChild

----------------------------------------------------------------------------
(* Statements of documents and comments that the code does not keep: the     *)
(* README names the instance that refutes each of them.                      *)

\* Rejection, failure and exhaustion settle like cancellation.
CancellingAlwaysSettles ==
    phase = "Cancelling" ~> phase \in IF SettlementRoom THEN {"Terminal"}
                                      ELSE {"Terminal", "Cancelling"}

\* A paused run can be resumed once its children have paused.
PausedRunResumes ==
    paused ~> paused \in IF Room("ChildDirectives", 1) THEN {FALSE} ELSE BOOLEAN

\* A resumed run gets past its resume checkpoint.
ResumedRunContinues ==
    reconciling /\ ~paused
        ~> reconciling \in IF Room("ChildDirectives", 1) THEN {FALSE} ELSE BOOLEAN

\* The gates are active only after a directive started them.
GatesWereStarted == phase = "GatesActive" => "Gates" \in started
===========================================================================
