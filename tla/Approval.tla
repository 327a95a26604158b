------------------------------ MODULE Approval ------------------------------
(***************************************************************************)
(* One approval request: the pure aggregate of crates/state/peritus-       *)
(* approval and the journal adapters that make its transitions durable     *)
(* (crates/state/peritus-journal/src/domain/approval.rs, approval_use.rs). *)
(*                                                                         *)
(* The aggregate is a move-only value.  Nothing decodes a durable approval *)
(* row back into one: every holder starts from the checked request         *)
(* (Pending) and reaches a later phase by reducing and by being answered   *)
(* with a committed successor, which an exact retry of a committed command *)
(* gives as well.  A holder plans a transition against the credential      *)
(* registry it last observed and then commits it; the registry may be      *)
(* rotated, another holder may commit, or the acknowledgement may be lost  *)
(* in between.  Signatures, encodings and rendering are left out: a signed *)
(* decision is a record and its digest is the record itself.               *)
(***************************************************************************)
EXTENDS Naturals, FiniteSets, FiniteSetsExt

CONSTANTS
    Holders,           \* the parties that hold an aggregate for the request
    Approvers,         \* the credentials the registry may list
    Independent,       \* the approvers with no independence conflict
    CredentialExpiry,  \* the end of each credential's validity window
    Decisions,         \* the signed decisions: choice, approver, revision, expires
    Uses,              \* the commands that would consume the approval
    NotBefore,         \* the latest start of the request's windows
    RequestExpiry, ScopeExpiry, RequirementExpiry,
    MaxTick,           \* bound: ticks of the authority clock
    MaxRevision,       \* bound: registry revisions
    MaxEpoch,          \* bound: authority epochs, one per start of the process
    MaxRecord,         \* bound: approval-row revisions an idempotent response may add
    None

ASSUME ApprovalAssumption ==
    /\ Independent \subseteq Approvers
    /\ CredentialExpiry \in [Approvers -> Nat]
    /\ Decisions \subseteq [choice : {"Deny", "ApproveOnce", "Amend"},
                            approver : Approvers, revision : Nat, expires : Nat]
    /\ {NotBefore, RequestExpiry, ScopeExpiry, RequirementExpiry, MaxTick} \subseteq Nat
    /\ None \notin [revision : Nat, generation : Nat, enabled : SUBSET Approvers]
    /\ None \notin [decision : Decisions, until : Nat,
                    registry : [revision : Nat, generation : Nat, enabled : SUBSET Approvers]]
    /\ MaxRevision \in Nat \ {0} /\ MaxEpoch \in Nat \ {0} /\ MaxRecord \in Nat

VARIABLES
    now,       \* the tick the authority clock shows
    epoch,     \* the durable authority epoch
    registry,  \* the current credential-registry row
    record,    \* the current approval row: revision, phase, resolution
    commands,  \* the committed command rows: identity, request digest
    effects,   \* how often the action behind the approval was committed
    holder,    \* what each holder has in memory
    told       \* the last answer each holder got

durable == <<epoch, registry, record, commands, effects>>
vars == <<now, durable, holder, told>>

-----------------------------------------------------------------------------

\* The request was challenged in the first epoch, at tick 0.
RequestEpoch == 1

PendingExpiry == Min({RequestExpiry, ScopeExpiry, RequirementExpiry})

Terminal == {"Consumed", "Amended", "Denied", "Expired", "Cancelled"}

Idle == [state |-> "Idle"]

Holding(aggregate, base, seen) ==
    [state |-> "Holding", aggregate |-> aggregate, base |-> base, seen |-> seen]

Committing(plan) == [state |-> "Committing", plan |-> plan]

Answer(h, kind, answer) == told' = [told EXCEPT ![h] = [kind |-> kind, answer |-> answer]]

NoAnswer == [kind |-> "None", answer |-> "None"]

\* validate_observation_time: the epoch is the request's and time does not regress.
ObservationInTime(aggregate) == epoch = RequestEpoch /\ now >= aggregate.floor

\* Mutant: the responder's independence is not checked.
CheckedCredentialConflicted(decision, snapshot) ==
    /\ decision.revision = snapshot.revision
    /\ decision.approver \in snapshot.enabled

\* checked_observation and checked_credential, and the same checks in the verifier.
CheckedCredential(decision, snapshot) ==
    /\ decision.revision = snapshot.revision
    /\ decision.approver \in snapshot.enabled
    /\ decision.approver \in Independent

\* observation_expiry: the earliest of the five bounds.
ObservationExpiry(decision) ==
    Min({PendingExpiry, CredentialExpiry[decision.approver], decision.expires})

\* verify_signed_decision at tick at, then the time checks of resolve_checked.
\* The observation is a value a caller keeps: it may be reduced at a later tick.
Verified(aggregate, decision, snapshot, at) ==
    /\ CheckedCredential(decision, snapshot)
    /\ epoch = RequestEpoch
    /\ at >= aggregate.floor
    /\ at >= NotBefore
    /\ at < ObservationExpiry(decision)

\* Mutant: everything but an approval leaves the request pending.
PhaseForApproval(choice) == IF choice = "ApproveOnce" THEN "ApprovedOnce" ELSE "Pending"

PhaseFor(choice) ==
    CASE choice = "Deny" -> "Denied"
      [] choice = "ApproveOnce" -> "ApprovedOnce"
      [] choice = "Amend" -> "AmendmentAuthorized"

-----------------------------------------------------------------------------
(* Planning.  A plan is the append the adapter builds: the command, the     *)
(* state revision it expects, the registry it is bound to, the value it     *)
(* installs and the successor aggregate the receipt will carry.             *)

\* ApprovalCommitRequest::new: a transition with a resolution is bound to the
\* registry the holder observed, which must be the one that authenticated it.
Bound(resolution, seen) == resolution = None \/ resolution.registry = seen

Plan(kind, command, base, successor, binding, value) ==
    [kind |-> kind, command |-> command, expected |-> base, result |-> successor,
     binding |-> binding, value |-> value]

Propose(h, kind, command, successor) ==
    LET held == holder[h]
        resolution == successor.resolution
        binding == IF resolution = None THEN None ELSE held.seen
        value == [from |-> held.aggregate.phase, to |-> successor.phase,
                  resolution |-> resolution]
    IN  IF Bound(resolution, held.seen)
        THEN /\ holder' = [holder EXCEPT ![h] = Committing(
                   Plan(kind, command, held.base, successor, binding, value))]
             /\ Answer(h, kind, "None")
        ELSE \* the outcome was consumed by the refused request
             /\ holder' = [holder EXCEPT ![h] = Idle]
             /\ Answer(h, kind, "StaleRegistry")

\* ApprovalAggregate::new from the checked request, and a registry observation.
Load(h) ==
    /\ holder[h].state = "Idle"
    /\ holder' = [holder EXCEPT ![h] =
           Holding([phase |-> "Pending", resolution |-> None, floor |-> 0], 0, registry)]
    /\ Answer(h, "None", "None")
    /\ UNCHANGED <<now, durable>>

\* current_credential_registry.
Observe(h) ==
    /\ holder[h].state = "Holding"
    /\ holder[h].seen # registry
    /\ holder' = [holder EXCEPT ![h].seen = registry]
    /\ UNCHANGED <<now, durable, told>>

\* resolve of a pending aggregate: the decision's own command commits it.
Resolve(h, decision, at) ==
    /\ holder[h].state = "Holding"
    /\ holder[h].aggregate.phase = "Pending"
    /\ Verified(holder[h].aggregate, decision, holder[h].seen, at)
    /\ Propose(h, "Resolve", <<"decision", decision>>,
               [phase |-> PhaseFor(decision.choice),
                resolution |-> [decision |-> decision, registry |-> holder[h].seen,
                                until |-> ObservationExpiry(decision)],
                floor |-> at])
    /\ UNCHANGED <<now, durable>>

\* resolve of a resolved aggregate by the same decision changes nothing and looks
\* at no clock; the credential is checked once more.
ResolveAgain(h, decision) ==
    /\ holder[h].state = "Holding"
    /\ holder[h].base < MaxRecord
    /\ holder[h].aggregate.resolution # None
    /\ holder[h].aggregate.resolution.decision = decision
    /\ CheckedCredential(decision, holder[h].seen)
    /\ Propose(h, "Resolve", <<"again", h, holder[h].base>>, holder[h].aggregate)
    /\ UNCHANGED <<now, durable>>

\* cancel, only of a pending aggregate.
Cancel(h) ==
    /\ holder[h].state = "Holding"
    /\ holder[h].aggregate.phase = "Pending"
    /\ Propose(h, "Cancel", <<"cancel", h>>, [holder[h].aggregate EXCEPT !.phase = "Cancelled"])
    /\ UNCHANGED <<now, durable>>

\* The bound expire_checked compares the observation with.
ExpiryOf(aggregate) ==
    IF aggregate.phase = "Pending" THEN PendingExpiry ELSE aggregate.resolution.until

Expire(h) ==
    /\ holder[h].state = "Holding"
    /\ holder[h].aggregate.phase \in {"Pending", "ApprovedOnce", "AmendmentAuthorized"}
    /\ ObservationInTime(holder[h].aggregate)
    /\ now >= ExpiryOf(holder[h].aggregate)
    /\ Propose(h, "Expire", <<"expire", h, holder[h].base>>,
               [holder[h].aggregate EXCEPT !.phase = "Expired", !.floor = now])
    /\ UNCHANGED <<now, durable>>

\* Mutant: an authorized amendment is taken for an approval of the action.
ConsumableEither(aggregate) ==
    /\ aggregate.phase \in {"ApprovedOnce", "AmendmentAuthorized"}
    /\ ObservationInTime(aggregate)
    /\ now < aggregate.resolution.until

\* consume_once_checked: phase, time and the exclusive bound of the resolution.
Consumable(aggregate) ==
    /\ aggregate.phase = "ApprovedOnce"
    /\ ObservationInTime(aggregate)
    /\ now < aggregate.resolution.until

\* consume_once and ApprovalUseCommitRequest::new.  The installed value of a
\* use also holds the authority-time floor; the append also holds the action.
ConsumeOnce(h, use) ==
    LET held == holder[h]
        successor == [held.aggregate EXCEPT !.phase = "Consumed", !.floor = now]
    IN  /\ held.state = "Holding"
        /\ Consumable(held.aggregate)
        /\ IF Bound(held.aggregate.resolution, held.seen)
           THEN /\ holder' = [holder EXCEPT ![h] = Committing(
                      Plan("Use", <<"use", use>>, held.base, successor, held.seen,
                           [to |-> "Consumed", resolution |-> successor.resolution,
                            floor |-> now]))]
                /\ Answer(h, "Use", "None")
           ELSE /\ holder' = [holder EXCEPT ![h] = Idle]
                /\ Answer(h, "Use", "StaleRegistry")
        /\ UNCHANGED <<now, durable>>

\* consume_amendment: no adapter makes it durable.
ConsumeAmendment(h) ==
    /\ holder[h].state = "Holding"
    /\ holder[h].aggregate.phase = "AmendmentAuthorized"
    /\ ObservationInTime(holder[h].aggregate)
    /\ now < holder[h].aggregate.resolution.until
    /\ holder' = [holder EXCEPT ![h].aggregate.phase = "Amended", ![h].aggregate.floor = now]
    /\ UNCHANGED <<now, durable, told>>

-----------------------------------------------------------------------------
(* Committing.                                                              *)

\* What bind_registry_current and bind_domain_state fold into the digest.
RequestDigest(plan) == <<plan.expected, plan.binding, plan.value>>

Stored(plan) == {c \in commands : c.id = plan.command}

\* resolve_command: the same identity and digest.
IsCommitted(plan) == \E c \in Stored(plan) : c.digest = RequestDigest(plan)

RegistryCurrent(plan) == plan.binding = None \/ plan.binding = registry

\* Mutant: the append does not compare the state revision.
PreconditionsRegistryOnly(plan) == RegistryCurrent(plan)

\* verify_registry and verify_state_installs, inside the transaction.
Preconditions(plan) == RegistryCurrent(plan) /\ record.revision = plan.expected

\* apply_rows: the state row, the other rows of a use and the command row.
Install(plan) ==
    /\ record' = [revision |-> plan.expected + 1, phase |-> plan.result.phase,
                  resolution |-> plan.result.resolution]
    /\ commands' = commands \cup {[id |-> plan.command, digest |-> RequestDigest(plan)]}
    /\ effects' = IF plan.kind = "Use" THEN effects + 1 ELSE effects
    /\ UNCHANGED <<epoch, registry>>

Receipt(h, plan) ==
    /\ holder' = [holder EXCEPT ![h] = Holding(plan.result, plan.expected + 1, registry)]
    /\ Answer(h, plan.kind, "Committed")

\* Mutant: a use too compares the registry before it looks its command up.
ResolvedFirstNever(plan) == FALSE

\* A use is resolved by command and digest before anything mutable is read
\* (resolve_approval_use); the other transitions compare the registry first.
ResolvedFirst(plan) == plan.kind = "Use"

Replayed(plan) == IsCommitted(plan) /\ (ResolvedFirst(plan) \/ RegistryCurrent(plan))

\* commit_approval_transition, or commit_atomic_activation's resolve and
\* commit_approval_use: an exact retry is answered with the original result.
Commit(h) ==
    /\ holder[h].state = "Committing"
    /\ LET plan == holder[h].plan
       IN  \/ /\ Replayed(plan)
              /\ Receipt(h, plan)
              /\ UNCHANGED durable
           \/ /\ Stored(plan) = {}
              /\ Preconditions(plan)
              /\ Install(plan)
              /\ Receipt(h, plan)
    /\ UNCHANGED now

\* The transaction commits and the acknowledgement is lost.  The caller keeps
\* the command and its inputs, and may commit the same plan again.
LoseAcknowledgement(h) ==
    /\ holder[h].state = "Committing"
    /\ LET plan == holder[h].plan
       IN  /\ Stored(plan) = {}
           /\ Preconditions(plan)
           /\ Install(plan)
           /\ Answer(h, plan.kind, "Indeterminate")
    /\ UNCHANGED <<now, holder>>

\* StaleRegistry, IdempotencyConflict or a lost state compare-and-swap.
Refusal(plan) ==
    CASE ~RegistryCurrent(plan) /\ (~ResolvedFirst(plan) \/ Stored(plan) = {}) -> "StaleRegistry"
      [] Stored(plan) # {} -> "IdempotencyConflict"
      [] OTHER -> "StaleState"

RefuseCommit(h) ==
    /\ holder[h].state = "Committing"
    /\ LET plan == holder[h].plan
       IN  /\ ~Replayed(plan)
           /\ ~(Stored(plan) = {} /\ Preconditions(plan))
           /\ told[h].answer # Refusal(plan)
           /\ Answer(h, plan.kind, Refusal(plan))
    /\ UNCHANGED <<now, durable, holder>>

\* The caller lets its aggregate or its plan go.
Drop(h) ==
    /\ holder[h].state # "Idle"
    /\ holder' = [holder EXCEPT ![h] = Idle]
    /\ Answer(h, "None", "None")
    /\ UNCHANGED <<now, durable>>

-----------------------------------------------------------------------------
(* The registry, the clock and the process.                                 *)

\* commit_credential_registry: the exact next revision, a larger generation.
Rotate ==
    /\ registry.revision < MaxRevision
    /\ \E enabled \in SUBSET Approvers :
           registry' = [revision |-> registry.revision + 1,
                        generation |-> registry.generation + 1, enabled |-> enabled]
    /\ UNCHANGED <<now, epoch, record, commands, effects, holder, told>>

Tick == now < MaxTick /\ now' = now + 1 /\ UNCHANGED <<durable, holder, told>>

\* The process dies and starts again: memory is gone and the start allocates the
\* next authority epoch, whose clock has its own ticks.
Restart ==
    /\ epoch < MaxEpoch
    /\ epoch' = epoch + 1
    /\ now' = 0
    /\ holder' = [h \in Holders |-> Idle]
    /\ told' = [h \in Holders |-> NoAnswer]
    /\ UNCHANGED <<registry, record, commands, effects>>

Init ==
    /\ now = 0
    /\ epoch = RequestEpoch
    /\ registry = [revision |-> 1, generation |-> 1, enabled |-> Approvers]
    /\ record = [revision |-> 0, phase |-> "Absent", resolution |-> None]
    /\ commands = {}
    /\ effects = 0
    /\ holder = [h \in Holders |-> Idle]
    /\ told = [h \in Holders |-> NoAnswer]

HolderStep(h) ==
    \/ Load(h) \/ Observe(h) \/ Cancel(h) \/ Expire(h) \/ ConsumeAmendment(h)
    \/ \E decision \in Decisions :
           ResolveAgain(h, decision) \/ \E at \in 0..now : Resolve(h, decision, at)
    \/ \E use \in Uses : ConsumeOnce(h, use)
    \/ Commit(h) \/ LoseAcknowledgement(h) \/ RefuseCommit(h) \/ Drop(h)

Next == (\E h \in Holders : HolderStep(h)) \/ Rotate \/ Tick \/ Restart

Spec == Init /\ [][Next]_vars

-----------------------------------------------------------------------------

Resolutions == [decision : Decisions,
                registry : [revision : 1..MaxRevision, generation : 1..MaxRevision,
                            enabled : SUBSET Approvers],
                until : Nat]

\* Every row and every value in memory has its type.
TypeOK ==
    /\ now \in 0..MaxTick /\ epoch \in 1..MaxEpoch
    /\ registry \in [revision : 1..MaxRevision, generation : 1..MaxRevision,
                     enabled : SUBSET Approvers]
    /\ record.revision \in Nat
    /\ record.phase \in Terminal \cup {"Absent", "ApprovedOnce", "AmendmentAuthorized"}
    /\ record.resolution = None \/ record.resolution \in Resolutions
    /\ effects \in Nat
    /\ \A h \in Holders : holder[h].state \in {"Idle", "Holding", "Committing"}

\* One approval is worth one action: whatever the holders retry, lose or race,
\* the action behind the request is committed at most once, and exactly when the
\* durable row says Consumed (commit_approval_use with the row's compare-and-swap).
EffectOnce == effects <= 1 /\ (effects = 1 <=> record.phase = "Consumed")

\* A row that reached a terminal phase never leaves it, and a use is only ever
\* committed over an approved row, by a decision that said so: no stale holder
\* reopens, cancels or expires a settled request (the state CAS of commit_state).
DurableLifecycle ==
    [][/\ record.phase \in Terminal => record'.phase = record.phase
       /\ effects' # effects =>
              /\ record.phase = "ApprovedOnce"
              /\ record.resolution.decision.choice = "ApproveOnce"
              /\ record'.resolution = record.resolution]_vars

\* Authority is judged by the registry in force when the transaction commits, not
\* by the one the holder planned with: the deciding credential is listed, enabled
\* and independent, and the decision was signed for that very revision.
AuthorizedByCurrent ==
    [][(record'.phase # record.phase /\ record'.phase \in {"ApprovedOnce", "AmendmentAuthorized",
                                                          "Denied", "Consumed"})
        => LET decision == record'.resolution.decision
           IN  /\ decision.revision = registry.revision
               /\ decision.approver \in registry.enabled \cap Independent]_vars

\* A holder whose aggregate was committed at the row's current revision has what
\* the row has; only an amendment is consumed in memory alone.
HeldTruth ==
    \A h \in Holders :
        (holder[h].state = "Holding" /\ holder[h].base > 0 /\ holder[h].base = record.revision)
        => /\ holder[h].aggregate.resolution = record.resolution
           /\ \/ holder[h].aggregate.phase = record.phase
              \/ /\ holder[h].aggregate.phase = "Amended"
                 /\ record.phase = "AmendmentAuthorized"

\* Whoever committed a use and lost the answer is never told that the registry
\* moved on: resolve_approval_use finds the committed command first.
UseRetryAnswered ==
    \A h \in Holders :
        (holder[h].state = "Committing" /\ told[h].answer = "StaleRegistry"
            /\ holder[h].plan.kind = "Use")
        => ~IsCommitted(holder[h].plan)

\* One approval has at most one effect, holders believe only what was durable,
\* and a retry of a committed use is told so.
UseTruth == TypeOK /\ EffectOnce /\ HeldTruth /\ UseRetryAnswered

\* The row follows the lifecycle, under the registry that is current at commit.
LifecycleTruth == DurableLifecycle /\ AuthorizedByCurrent

----------------------------------------------------------------------------
(* Statements of documents and comments that the code does not keep: the     *)
(* README names the instance that refutes each of them.                      *)

\* "An exact command/digest match returns the original committed result"
\* (docs/c0-durable-state.md:75), for every approval transition: no holder is told
\* StaleRegistry about a plan that is committed.
RetryAnswered ==
    \A h \in Holders :
        (holder[h].state = "Committing" /\ told[h].answer = "StaleRegistry")
        => ~IsCommitted(holder[h].plan)

\* "Approval resolutions bind the exact current credential-registry revision"
\* (docs/c0-durable-state.md:169): an expiry, which resolves nothing, is not
\* refused for the registry's sake.
ExpiryNeedsNoRegistry ==
    \A h \in Holders : ~(told[h].kind = "Expire" /\ told[h].answer = "StaleRegistry")
=============================================================================
