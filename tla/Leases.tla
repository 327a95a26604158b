------------------------------- MODULE Leases -------------------------------
(***************************************************************************)
(* The exclusive mutation lease of one workspace.  Clients read the        *)
(* durable aggregate, reduce a command over it and submit the successor    *)
(* to a compare-and-swap on its version; another client may commit in      *)
(* between.  Claims are copyable and unprivileged: any other claim than    *)
(* the current one is refused, so a command is modelled with the current   *)
(* claim only, and what is left of staleness is the plan itself.           *)
(* Instants are pairs of a clock epoch and a tick.                         *)
(***************************************************************************)
EXTENDS Naturals, FiniteSets

CONSTANTS
    Holder,         \* actor and session pairs
    Client,         \* planners of commands
    MaxTick,        \* largest representable tick
    MaxEpoch,       \* bound: authority epochs
    MaxVersion,     \* largest representable version
    MaxGeneration,  \* largest representable generation
    NoHolder        \* not a holder

ASSUME LeasesAssumption ==
    /\ MaxTick \in Nat /\ MaxEpoch \in Nat \ {0} /\ MaxGeneration \in Nat \ {0}
    /\ MaxVersion \in Nat /\ MaxVersion > 2
    /\ NoHolder \notin Holder

VARIABLES
    lease,          \* the durable aggregate
    epoch,          \* the authority epoch of the running daemon
    plan,           \* the transition each client has planned and not yet submitted
    uses,           \* history: committed lease uses
    quiet           \* history: generations whose holder was shown quiescent

leaseVars == <<lease, epoch, plan, uses, quiet>>

Phase == {"Absent", "Available", "Active", "Reconciling", "Quarantined", "Retired"}
FenceCause == {"ReleasedWithoutQuiescence", "Expired", "HolderLost",
               "ClockDiscontinuity", "Revoked"}
Disposition == {"SafeToAcquire", "Dirty", "Indeterminate"}
Instant == [epoch : 1..MaxEpoch, tick : 0..MaxTick]

NoActive == [holder |-> NoHolder, claim_version |-> 0, issued |-> 0, expires |-> 0]
NoFence == [generation |-> 0, holder |-> NoHolder, cause |-> "None"]
Absent == [phase |-> "Absent", generation |-> 0, version |-> 0, epoch |-> 0,
           tick |-> 0, active |-> NoActive, fence |-> NoFence]

NoPlan == [expected |-> 0, next |-> Absent, use |-> {}, quiet |-> {}]

LeaseInit ==
    /\ lease = Absent
    /\ epoch = 1
    /\ plan = [c \in Client |-> NoPlan]
    /\ uses = {} /\ quiet = {}

---------------------------------------------------------------------------
(* Reducers: the accepted transition, as a plan over the state just read.  *)

Submit(c, next, use, evidence) ==
    /\ plan[c] = NoPlan
    /\ plan' = [plan EXCEPT ![c] = [expected |-> lease.version, next |-> next,
                                    use |-> use, quiet |-> evidence]]
    /\ UNCHANGED <<lease, epoch, uses, quiet>>

\* A command carries an observation of this or of an earlier authority epoch.
Observed == {t \in Instant : t.epoch <= epoch}

\* validate_observation
Follows(t) == t.epoch = lease.epoch /\ t.tick >= lease.tick

\* Mutant: the deadline itself still counts as valid.
BeforeExpiryInclusive(t) == t.epoch = lease.epoch /\ t.tick <= lease.active.expires

\* ensure_before_expiry: the validity interval is half open
BeforeExpiry(t) == t.epoch = lease.epoch /\ t.tick < lease.active.expires

\* Mutant: the deadline may overflow.
DeadlineFitsAlways(d, t) == d > 0

\* lease_deadline, checked addition
DeadlineFits(d, t) == t.tick + d <= MaxTick

\* next_non_fence_version keeps one version in reserve for the fence
VersionLeft == lease.version < MaxVersion - 1

At(t) == [lease EXCEPT !.version = @ + 1, !.epoch = t.epoch, !.tick = t.tick]

Claim(h, version, d, t) ==
    [holder |-> h, claim_version |-> version, issued |-> t.tick, expires |-> t.tick + d]

Mint(c, t) ==
    /\ lease.phase = "Absent"
    /\ Submit(c, [phase |-> "Available", generation |-> 1, version |-> 1, epoch |-> t.epoch,
                  tick |-> t.tick, active |-> NoActive, fence |-> NoFence], {}, {})

Acquire(c, h, d, t) ==
    /\ lease.phase = "Available" /\ Follows(t)
    /\ DeadlineFits(d, t) /\ VersionLeft
    /\ Submit(c, [At(t) EXCEPT
                    !.phase = "Active", !.active = Claim(h, 1, d, t)], {}, {})

Renew(c, d, t) ==
    /\ lease.phase = "Active" /\ Follows(t) /\ BeforeExpiry(t)
    /\ DeadlineFits(d, t) /\ t.tick + d > lease.active.expires
    /\ VersionLeft
    /\ Submit(c, [At(t) EXCEPT
                    !.active = Claim(lease.active.holder, lease.active.claim_version + 1,
                                     d, t)], {}, {})

\* The capability is one of the same holder, generation and instant, valid then.
AuthorizeUse(c, t) ==
    /\ lease.phase = "Active" /\ Follows(t) /\ BeforeExpiry(t) /\ VersionLeft
    /\ Submit(c, At(t),
              {[generation |-> lease.generation, holder |-> lease.active.holder,
                claim_version |-> lease.active.claim_version,
                version |-> lease.version + 1]}, {})

---------------------------------------------------------------------------
(* Fencing.                                                                *)

\* Mutant: only the very last version is kept back.
SpentLate(version) == version >= MaxVersion

\* a version after which a non-fencing command could strand the aggregate
SpentAt(version) == version >= MaxVersion - 1

\* Mutant: a quiescent release keeps the generation.
SuccessorOnlyIfFenced(cause) ==
    IF cause = "None" THEN lease.generation ELSE lease.generation + 1

\* the generation after a fence
SuccessorGeneration(cause) == lease.generation + 1

Retired(before) ==
    [before EXCEPT !.phase = "Retired", !.active = NoActive, !.fence = NoFence]

Fenced(before, cause) ==
    IF SpentAt(before.version) \/ lease.generation = MaxGeneration
    THEN Retired(before)
    ELSE [phase |-> IF cause = "None" THEN "Available" ELSE "Reconciling",
          generation |-> SuccessorGeneration(cause),
          version |-> before.version, epoch |-> before.epoch, tick |-> before.tick,
          active |-> NoActive,
          fence |-> IF cause = "None" THEN NoFence
                    ELSE [generation |-> lease.generation,
                          holder |-> lease.active.holder, cause |-> cause]]

\* Quiescence evidence is optional; without it the generation is reconciled.
Release(c, t, quiescent) ==
    /\ lease.phase = "Active" /\ Follows(t)
    /\ Submit(c, Fenced(At(t), IF quiescent THEN "None" ELSE "ReleasedWithoutQuiescence"),
              {}, IF quiescent THEN {lease.generation} ELSE {})

Expire(c, t) ==
    /\ lease.phase = "Active" /\ Follows(t) /\ t.tick >= lease.active.expires
    /\ Submit(c, Fenced(At(t), "Expired"), {}, {})

\* on evidence about the current claim
FenceHolderLoss(c, t) ==
    /\ lease.phase = "Active" /\ Follows(t)
    /\ Submit(c, Fenced(At(t), "HolderLost"), {}, {})

Revoke(c, t) ==
    /\ lease.phase = "Active" /\ Follows(t)
    /\ Submit(c, Fenced(At(t), "Revoked"), {}, {})

\* Within the epoch the greatest tick is kept; another epoch replaces the floor.
FenceClockDiscontinuity(c, t) ==
    /\ lease.phase = "Active"
    /\ t.epoch # lease.epoch \/ t.tick < lease.tick
    /\ Submit(c, Fenced(IF t.epoch = lease.epoch
                        THEN [lease EXCEPT !.version = @ + 1] ELSE At(t),
                        "ClockDiscontinuity"), {}, {})

\* Mutant: an indeterminate inspection counts as safe.
SafeUnlessDirty(disposition) == disposition # "Dirty"

Safe(disposition) == disposition = "SafeToAcquire"

\* The observation echoes the fenced generation and its holder.
Reconcile(c, t, disposition) ==
    /\ lease.phase = "Reconciling"
    /\ \/ Follows(t)
       \/ lease.fence.cause = "ClockDiscontinuity" /\ t.epoch # lease.epoch
    /\ VersionLeft
    /\ LET before == At(t)
       IN  Submit(c,
             IF SpentAt(before.version) THEN Retired(before)
             ELSE IF Safe(disposition)
             THEN [before EXCEPT !.phase = "Available", !.fence = NoFence]
             ELSE [before EXCEPT !.phase = "Quarantined"],
             {}, IF disposition = "SafeToAcquire" THEN {lease.fence.generation} ELSE {})

---------------------------------------------------------------------------
(* The state owner.                                                        *)

\* Mutant: a plan is installed over whatever is stored.
ExpectedAny(c) == TRUE

\* the exact version, or absence for a mint
Expected(c) == plan[c].expected = lease.version

Commit(c) ==
    /\ plan[c] # NoPlan
    /\ plan' = [plan EXCEPT ![c] = NoPlan]
    /\ IF Expected(c)
       THEN /\ lease' = plan[c].next
            /\ uses' = uses \cup plan[c].use
            /\ quiet' = quiet \cup plan[c].quiet
       ELSE UNCHANGED <<lease, uses, quiet>>
    /\ UNCHANGED epoch

\* A client stops before it submits.
Abandon(c) ==
    /\ plan[c] # NoPlan
    /\ plan' = [plan EXCEPT ![c] = NoPlan]
    /\ UNCHANGED <<lease, epoch, uses, quiet>>

\* Each start of the daemon allocates an authority epoch.
NewEpoch ==
    /\ epoch < MaxEpoch
    /\ epoch' = epoch + 1
    /\ UNCHANGED <<lease, plan, uses, quiet>>

LeaseNext ==
    \/ \E c \in Client :
         \/ Commit(c)
         \/ Abandon(c)
         \/ \E t \in Observed :
              \/ Mint(c, t)
              \/ \E h \in Holder, d \in 1..MaxTick : Acquire(c, h, d, t)
              \/ \E d \in 1..MaxTick : Renew(c, d, t)
              \/ AuthorizeUse(c, t)
              \/ \E quiescent \in BOOLEAN : Release(c, t, quiescent)
              \/ Expire(c, t)
              \/ FenceHolderLoss(c, t)
              \/ Revoke(c, t)
              \/ FenceClockDiscontinuity(c, t)
              \/ \E disposition \in Disposition : Reconcile(c, t, disposition)
    \/ NewEpoch

LeaseSpec == LeaseInit /\ [][LeaseNext]_leaseVars

---------------------------------------------------------------------------
Active == [holder : Holder \cup {NoHolder}, claim_version : 0..MaxVersion,
           issued : 0..MaxTick, expires : 0..MaxTick]
Fence == [generation : 0..MaxGeneration, holder : Holder \cup {NoHolder},
          cause : FenceCause \cup {"None"}]
Aggregate == [phase : Phase, generation : 0..MaxGeneration, version : 0..MaxVersion,
              epoch : 0..MaxEpoch, tick : 0..MaxTick, active : Active, fence : Fence]
Use == [generation : 1..MaxGeneration, holder : Holder,
        claim_version : 1..MaxVersion, version : 1..MaxVersion]
Plan == [expected : 0..MaxVersion, next : Aggregate,
         use : SUBSET Use, quiet : SUBSET (1..MaxGeneration)]

LeaseTypeOK ==
    /\ lease \in Aggregate
    /\ epoch \in 1..MaxEpoch
    /\ plan \in [Client -> Plan]
    /\ uses \subseteq Use
    /\ quiet \subseteq 1..MaxGeneration

\* Every stored aggregate passes its own replay validation: an active lease is
\* within its interval and a pending fence is of the generation before.
StoredLeaseValidates ==
    /\ lease.phase = "Active" =>
         /\ lease.active.holder # NoHolder
         /\ lease.active.issued <= lease.tick /\ lease.tick < lease.active.expires
         /\ lease.version < MaxVersion
    /\ lease.phase \in {"Reconciling", "Quarantined"} =>
         lease.fence.generation + 1 = lease.generation

\* Nobody holds or may acquire the lease while an earlier holder has not been
\* shown quiescent by release evidence or by a safe reconciliation.
HandoverAfterQuiescence ==
    lease.phase \in {"Available", "Active"} =>
        \A u \in uses : u.generation < lease.generation => u.generation \in quiet

\* Committed uses are exclusive: one holder per generation, and generations in
\* the order of versions, whatever plans were submitted late.
UsesExclusive ==
    \A u, w \in uses :
        /\ u.generation = w.generation => u.holder = w.holder
        /\ u.version < w.version => u.generation <= w.generation
        /\ u.version = w.version => u = w

\* The reserve of the version counter is enough: an active lease can be fenced,
\* an available or reconciling one can take its next step.
NeverStranded ==
    /\ lease.phase \in {"Available", "Reconciling"} => VersionLeft
    /\ lease.phase = "Active" => lease.version < MaxVersion

\* A holder's claim never outlives the lease: leaving Active starts a new
\* generation or retires the aggregate.
LeavingActiveFences ==
    [][lease.phase = "Active" /\ lease'.phase # "Active"
         => \/ lease'.generation = lease.generation + 1
            \/ lease'.phase = "Retired"]_leaseVars

\* The stored lease passes the validation that replay runs, and can always be
\* fenced, up to the last version and generation.
LeaseLoads == LeaseTypeOK /\ StoredLeaseValidates /\ NeverStranded

\* One holder at a time: uses do not overlap, and the workspace changes hands
\* only after the previous holder is known to have stopped.
ExclusiveUse == UsesExclusive /\ HandoverAfterQuiescence

----------------------------------------------------------------------------
(* Statements of documents and comments that the code does not keep: the     *)
(* README names the instance that refutes each of them.                      *)

\* failure.rs, LeasePhase::Available: acquisition may be planned.
AvailableCanBeAcquired == lease.phase = "Available" => lease.epoch = epoch

\* failure.rs, LeaseError::ClaimVersionMismatch: a claim version is superseded by
\* renewal or use.
UseSupersedesClaim ==
    \A u, w \in uses :
        u.generation = w.generation /\ u.claim_version = w.claim_version => u = w
=============================================================================
