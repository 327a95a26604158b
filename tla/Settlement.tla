------------------------------ MODULE Settlement ------------------------------
(***************************************************************************)
(* The pure domain of crates/orchestration/peritus-run-settlement: what a  *)
(* candidate is, when evidence about it is current, which stage current    *)
(* evidence supports, and the disposition a run settles with.              *)
(*                                                                         *)
(* Run and workspace identifiers are left out: one run is modelled, so     *)
(* every identity has the same lineage.  Digests are the facts they        *)
(* digest: source content, the repository snapshot and the host execution  *)
(* context, which is NoContext until a gate observed it in this process.   *)
(***************************************************************************)
EXTENDS Integers

NoContext == 0

NoIdentity == [content |-> 0, repository |-> <<0, 0>>, execution |-> NoContext,
               requirements |-> 0, sequence |-> 0]

Missing == [status |-> "Missing", from |-> NoIdentity, ok |-> FALSE]

NoCheckpoint == [stage |-> "None", identity |-> NoIdentity,
                 gates |-> Missing, obligations |-> Missing, review |-> Missing]

Kinds == {"gates", "obligations", "review"}

Stages == {"Observed", "Changed", "SelfChecked", "GatesPassed", "ReviewPending", "Qualified"}

Rank == [Observed |-> 1, Changed |-> 2, SelfChecked |-> 3,
         GatesPassed |-> 4, ReviewPending |-> 5, Qualified |-> 6]

----------------------------------------------------------------------------
(* Identities and evidence.                                                *)

SameContentAndRequirements(a, b) ==
    a.content = b.content /\ a.requirements = b.requirements

\* Mutant: a binding compares the public requirements only.
BindingMatchesAnyContent(kind, from, identity) ==
    /\ from.requirements = identity.requirements
    /\ kind = "gates" => from.execution = identity.execution

\* Gate evidence also depends on the execution context, which has to have
\* been observed on both sides.
BindingMatches(kind, from, identity) ==
    /\ SameContentAndRequirements(from, identity)
    /\ kind = "gates" => /\ from.execution = identity.execution
                         /\ from.execution # NoContext

IsCurrentFor(kind, evidence, identity) ==
    /\ evidence.status \in {"Current", "Failed"}
    /\ BindingMatches(kind, evidence.from, identity)
    /\ evidence.from.sequence <= identity.sequence

\* is_current_and_satisfied
Satisfied(kind, evidence, identity) ==
    evidence.status = "Current" /\ evidence.ok /\ IsCurrentFor(kind, evidence, identity)

\* A matching record of a later checkpoint is refused; here it stays as it
\* is, and Admissible then refuses the checkpoint built from it.
ReconcileFor(kind, evidence, identity) ==
    IF evidence.status = "Missing" THEN evidence
    ELSE IF ~BindingMatches(kind, evidence.from, identity)
    THEN [evidence EXCEPT !.status = "Stale"]
    ELSE [evidence EXCEPT !.status = IF evidence.ok THEN "Current" ELSE "Failed"]

Evidence(kind, identity, ok) ==
    [status |-> IF ok THEN "Current" ELSE "Failed", from |-> identity, ok |-> ok]

----------------------------------------------------------------------------
(* Checkpoints.                                                            *)

SupportedStage(requested, gates, obligations, review) ==
    IF Rank[requested] <= Rank["SelfChecked"] THEN requested
    ELSE IF requested = "Qualified" /\ gates /\ obligations /\ review THEN "Qualified"
    ELSE IF ~gates THEN "SelfChecked"
    ELSE IF requested = "ReviewPending" /\ ~review THEN "ReviewPending"
    ELSE "GatesPassed"

Observe(identity, requested, gates, obligations, review) ==
    LET g == ReconcileFor("gates", gates, identity)
        o == ReconcileFor("obligations", obligations, identity)
        v == ReconcileFor("review", review, identity)
    IN  [stage |-> SupportedStage(requested, Satisfied("gates", g, identity),
                                  Satisfied("obligations", o, identity),
                                  Satisfied("review", v, identity)),
         identity |-> identity, gates |-> g, obligations |-> o, review |-> v]

Reobserve(checkpoint, identity) ==
    Observe(identity,
            IF SameContentAndRequirements(checkpoint.identity, identity)
            THEN checkpoint.stage ELSE "Changed",
            checkpoint.gates, checkpoint.obligations, checkpoint.review)

\* The checks of CandidateCheckpoint::new and of the reducer that admits it
\* after `previous`.
Admissible(previous, checkpoint) ==
    /\ checkpoint.identity.sequence > 0
    /\ \A k \in Kinds :
          /\ checkpoint[k].status \in {"Current", "Failed"} =>
                 IsCurrentFor(k, checkpoint[k], checkpoint.identity)
          /\ checkpoint[k].status = "Stale" =>
                 ~BindingMatches(k, checkpoint[k].from, checkpoint.identity)
    /\ previous # NoCheckpoint =>
           previous.identity.sequence < checkpoint.identity.sequence

IsQualified(checkpoint) ==
    /\ checkpoint.stage = "Qualified"
    /\ \A k \in Kinds : Satisfied(k, checkpoint[k], checkpoint.identity)

----------------------------------------------------------------------------
(* Settlement.  "Provider" stands for every cause that has no rule of its  *)
(* own: Completed apart, a deadline, gate, context, adapter, review,       *)
(* repository or invariant failure.                                        *)

Causes == {"Completed", "NoChangeComplete", "UserWait", "Cancellation", "Recovery", "Provider"}

NoSettlement == [disposition |-> "None", cause |-> "None"]

Decide(checkpoint, cause) ==
    [cause |-> cause,
     disposition |->
        CASE cause = "NoChangeComplete" /\ checkpoint = NoCheckpoint -> "CompletedWithoutCandidate"
          [] cause = "NoChangeComplete" /\ checkpoint # NoCheckpoint -> "CandidateAvailable"
          [] cause = "UserWait" -> "WaitingForUser"
          [] cause = "Cancellation" -> "Cancelled"
          [] cause = "Recovery" -> "RecoveryRequired"
          [] OTHER -> IF IsQualified(checkpoint) THEN "Accepted"
                      ELSE IF checkpoint # NoCheckpoint THEN "CandidateAvailable"
                      ELSE "FailedNoCandidate"]

PhaseOf(disposition) ==
    CASE disposition \in {"Accepted", "CompletedWithoutCandidate"} -> "Complete"
      [] disposition \in {"CandidateAvailable", "FailedNoCandidate"} -> "Failed"
      [] OTHER -> disposition
=============================================================================
