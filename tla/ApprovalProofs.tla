---------------------------- MODULE ApprovalProofs ----------------------------
(***************************************************************************)
(* Safety of approvals for any holders, approvers, decisions and uses.  The *)
(* invariant says what a holder's memory is worth: an aggregate or a plan   *)
(* whose revision is the row's was made over that row, an older one can     *)
(* only be refused or answered with what was committed, and every           *)
(* resolution was authenticated by the registry it is bound to.             *)
(***************************************************************************)
EXTENDS Approval, TLAPS

\* The rows a credential registry may have.
Registries == [revision : 1..MaxRevision, generation : 1..MaxRevision,
               enabled : SUBSET Approvers]

\* The phases of an installed row.
Phases == Terminal \cup {"ApprovedOnce", "AmendmentAuthorized"}

Results == [phase : Phases, resolution : Resolutions \cup {None}, floor : Nat]

Aggregates == [phase : Phases \cup {"Pending"}, resolution : Resolutions \cup {None},
               floor : Nat]

HoldingStates == [state : {"Holding"}, aggregate : Aggregates, base : Nat, seen : Registries]

\* A registry somebody observed is the current one or an older one.
Seen(r) == r = registry \/ r.revision < registry.revision

\* A resolution was authenticated by the registry it names.
Authentic(resolution) ==
    /\ resolution \in Resolutions
    /\ CheckedCredential(resolution.decision, resolution.registry)

\* What the phase of a row, of an aggregate or of a plan's result says of its resolution.
Coherent(phase, resolution) ==
    /\ phase = "Pending" => resolution = None
    /\ phase \in {"ApprovedOnce", "AmendmentAuthorized", "Amended", "Denied", "Consumed"}
           => resolution # None
    /\ phase = "ApprovedOnce" => resolution.decision.choice = "ApproveOnce"
    /\ resolution # None => Authentic(resolution)

\* An aggregate is the row, or was made from it by consuming an amendment.
Matches(aggregate) ==
    /\ aggregate.resolution = record.resolution
    /\ \/ aggregate.phase = record.phase
       \/ aggregate.phase = "Amended" /\ record.phase = "AmendmentAuthorized"

\* An aggregate in memory comes from the request, or from a row that was installed.
HeldSound(x) ==
    /\ x \in HoldingStates
    /\ x.base <= record.revision
    /\ Seen(x.seen)
    /\ Coherent(x.aggregate.phase, x.aggregate.resolution)
    /\ x.base = 0 <=> x.aggregate.phase = "Pending"
    /\ x.base > 0 /\ x.base = record.revision => Matches(x.aggregate)

\* A plan describes its result and is bound to the registry that authenticated it.
PlanSound(plan) ==
    /\ plan.expected \in Nat
    /\ plan.expected <= record.revision
    /\ plan.result \in Results
    /\ Coherent(plan.result.phase, plan.result.resolution)
    /\ plan.value.to = plan.result.phase
    /\ plan.value.resolution = plan.result.resolution
    /\ plan.result.resolution = None => plan.binding = None
    /\ plan.result.resolution # None =>
           plan.binding = plan.result.resolution.registry /\ Seen(plan.binding)
    /\ plan.kind = "Use" => plan.result.phase = "Consumed"

\* The change the plan makes to the present row.
PlanOver(kind, result) ==
    /\ record.phase \in Terminal => result.phase = record.phase
    /\ kind = "Use" => record.phase = "ApprovedOnce" /\ result.resolution = record.resolution
    /\ kind # "Use" /\ result.phase = "Consumed" => record.phase = "Consumed"

\* Whoever was refused a use for its registry planned it under one that is gone, so
\* nobody can commit the same request any more.
RefusedForGood(plan) == plan.binding # registry /\ ~IsCommitted(plan)

HolderSound(x, answer) ==
    /\ x.state \in {"Idle", "Holding", "Committing"}
    /\ x.state = "Holding" => HeldSound(x)
    /\ x.state = "Committing" =>
           /\ PlanSound(x.plan)
           /\ x.plan.expected = record.revision => PlanOver(x.plan.kind, x.plan.result)
           /\ answer = "StaleRegistry" /\ x.plan.kind = "Use" => RefusedForGood(x.plan)

HoldersInv ==
    /\ holder = [h \in Holders |-> holder[h]]
    /\ told = [h \in Holders |-> told[h]]
    /\ \A h \in Holders : HolderSound(holder[h], told[h].answer)

\* A committed command is about an earlier row, and the last one about the present.
CommandsInv ==
    \A c \in commands :
        /\ c.digest[1] \in Nat
        /\ c.digest[1] < record.revision
        /\ c.digest[1] + 1 = record.revision =>
               c.digest[3].to = record.phase /\ c.digest[3].resolution = record.resolution

RecordInv ==
    /\ record \in [revision : Nat, phase : Phases \cup {"Absent"},
                   resolution : Resolutions \cup {None}]
    /\ record.revision = 0 <=> record.phase = "Absent"
    /\ record.phase # "Absent" => Coherent(record.phase, record.resolution)

ClockInv ==
    /\ now \in 0..MaxTick /\ epoch \in 1..MaxEpoch
    /\ registry \in Registries /\ registry.generation = registry.revision

ApprovalInv ==
    /\ ClockInv /\ RecordInv /\ CommandsInv /\ HoldersInv
    /\ effects \in Nat /\ EffectOnce

-----------------------------------------------------------------------------
(* Vocabulary                                                               *)

\* The least of three numbers is one of them.
LEMMA LeastOfThree ==
    ASSUME NEW a \in Nat, NEW b \in Nat, NEW c \in Nat
    PROVE  Min({a, b, c}) \in Nat
<1>1. \E x \in {a, b, c} : \A y \in {a, b, c} : x <= y
  OBVIOUS
<1>2. Min({a, b, c}) \in {a, b, c}
  BY <1>1 DEF Min
<1> QED BY <1>2

\* All bounds of a decision are ticks.
LEMMA ExpiryIsTick ==
    PendingExpiry \in Nat /\ \A d \in Decisions : ObservationExpiry(d) \in Nat
<1>1. PendingExpiry \in Nat
  BY LeastOfThree, ApprovalAssumption DEF PendingExpiry
<1>2. ASSUME NEW d \in Decisions PROVE ObservationExpiry(d) \in Nat
  <2>1. CredentialExpiry[d.approver] \in Nat /\ d.expires \in Nat
    BY ApprovalAssumption
  <2> QED BY <1>1, <2>1, LeastOfThree DEF ObservationExpiry
<1> QED BY <1>1, <1>2

\* The absent value is neither a registry nor a resolution.
LEMMA NoneIsNothing == None \notin Registries /\ None \notin Resolutions
<1>1. Registries \subseteq [revision : Nat, generation : Nat, enabled : SUBSET Approvers]
  BY ApprovalAssumption DEF Registries
<1>2. Resolutions \subseteq [decision : Decisions, until : Nat,
           registry : [revision : Nat, generation : Nat, enabled : SUBSET Approvers]]
  BY ApprovalAssumption DEF Resolutions
<1> QED BY <1>1, <1>2, ApprovalAssumption

\* The row an aggregate at the present revision was made from.
LEMMA MadeOverRow ==
    ASSUME ApprovalInv, NEW x, HeldSound(x), x.base = record.revision
    PROVE  /\ x.aggregate.phase = "Pending" => record.phase = "Absent"
           /\ x.aggregate.phase # "Pending" => Matches(x.aggregate)
BY DEF ApprovalInv, RecordInv, HeldSound, HoldingStates

-----------------------------------------------------------------------------
(* Memory: steps of one holder that leave the rows alone                    *)

\* Only the holder's own soundness is at stake.
LEMMA MemoryStep ==
    ASSUME ApprovalInv, NEW h \in Holders, NEW x, NEW y,
           holder' = [holder EXCEPT ![h] = x],
           told' = [told EXCEPT ![h] = y],
           HolderSound(x, y.answer),
           UNCHANGED <<now, durable>>
    PROVE  ApprovalInv'
<1>1. UNCHANGED <<now, epoch, registry, record, commands, effects>>
  BY DEF durable
<1>2. \A a, b : HolderSound(a, b) => HolderSound(a, b)'
  BY <1>1 DEF HolderSound, HeldSound, PlanSound, PlanOver, RefusedForGood, Seen, Matches,
              IsCommitted, Stored
<1>3. /\ holder' = [k \in Holders |-> holder'[k]]
      /\ told' = [k \in Holders |-> told'[k]]
  BY DEF ApprovalInv, HoldersInv
<1>4. \A k \in Holders : HolderSound(holder'[k], told'[k].answer)
  <2>1. holder'[h] = x /\ told'[h] = y
    BY DEF ApprovalInv, HoldersInv
  <2>2. \A k \in Holders \ {h} : holder'[k] = holder[k] /\ told'[k] = told[k]
    BY DEF ApprovalInv, HoldersInv
  <2> QED BY <2>1, <2>2 DEF ApprovalInv, HoldersInv
<1>5. \A k \in Holders : HolderSound(holder[k], told[k].answer)'
  BY <1>2, <1>4
<1> QED
  BY <1>1, <1>3, <1>5
  DEF ApprovalInv, ClockInv, RecordInv, CommandsInv, HoldersInv, EffectOnce

\* A holder that lets everything go.
LEMMA IdleSound == \A answer : HolderSound(Idle, answer)
BY DEF HolderSound, Idle

\* Leaving the aggregate, with any answer.
LEMMA LetGo ==
    ASSUME ApprovalInv, NEW h \in Holders, NEW kind, NEW answer,
           holder' = [holder EXCEPT ![h] = Idle], Answer(h, kind, answer),
           UNCHANGED <<now, durable>>
    PROVE  ApprovalInv'
<1> DEFINE y == [kind |-> kind, answer |-> answer]
<1>1. told' = [told EXCEPT ![h] = y]
  BY DEF Answer
<1>2. HolderSound(Idle, y.answer)
  BY IdleSound
<1> HIDE DEF y
<1> QED BY <1>1, <1>2, MemoryStep

\* A proposal that describes a change of the present row, should its revision be current.
LEMMA ProposeStep ==
    ASSUME ApprovalInv, NEW h \in Holders, holder[h].state = "Holding",
           NEW kind, kind # "Use", NEW command, NEW successor \in Results,
           Coherent(successor.phase, successor.resolution),
           holder[h].base = record.revision => PlanOver(kind, successor),
           Propose(h, kind, command, successor),
           UNCHANGED <<now, durable>>
    PROVE  ApprovalInv'
<1> DEFINE held == holder[h]
           resolution == successor.resolution
           binding == IF resolution = None THEN None ELSE held.seen
           value == [from |-> held.aggregate.phase, to |-> successor.phase,
                     resolution |-> resolution]
           plan == Plan(kind, command, held.base, successor, binding, value)
<1>1. HeldSound(held)
  BY DEF ApprovalInv, HoldersInv, HolderSound
<1>2. CASE Bound(resolution, held.seen)
  <2>1. /\ holder' = [holder EXCEPT ![h] = Committing(plan)]
        /\ told' = [told EXCEPT ![h] = [kind |-> kind, answer |-> "None"]]
    BY <1>2 DEF Propose, Answer
  <2>2. /\ plan.expected = held.base /\ plan.result = successor /\ plan.kind = kind
        /\ plan.binding = binding
        /\ plan.value.to = successor.phase /\ plan.value.resolution = resolution
    BY DEF Plan
  <2>3. /\ held.base \in Nat /\ held.base <= record.revision /\ Seen(held.seen)
    BY <1>1 DEF HeldSound, HoldingStates
  <2>4. resolution # None => binding = resolution.registry /\ Seen(binding)
    BY <1>2, <2>3 DEF Bound
  <2>5. PlanSound(plan)
    <3> HIDE DEF plan, value, held
    <3> QED BY <2>2, <2>3, <2>4 DEF PlanSound
  <2>6. HolderSound(Committing(plan), "None")
    <3>1. /\ Committing(plan).state = "Committing" /\ Committing(plan).plan = plan
      BY DEF Committing
    <3> HIDE DEF plan, held
    <3> QED BY <2>2, <2>5, <3>1 DEF HolderSound, held
  <2>7. [kind |-> kind, answer |-> "None"].answer = "None"
    OBVIOUS
  <2> HIDE DEF plan
  <2> QED BY <2>1, <2>6, <2>7, MemoryStep
<1>3. CASE ~Bound(resolution, held.seen)
  <2>1. holder' = [holder EXCEPT ![h] = Idle] /\ Answer(h, kind, "StaleRegistry")
    BY <1>3 DEF Propose
  <2> QED BY <2>1, LetGo
<1> QED BY <1>2, <1>3

\* Loading starts from the request, under the registry of this moment.
LEMMA LoadStep ==
    ASSUME ApprovalInv, NEW h \in Holders, Load(h)
    PROVE  ApprovalInv'
<1> DEFINE aggregate == [phase |-> "Pending", resolution |-> None, floor |-> 0]
           x == Holding(aggregate, 0, registry)
           y == [kind |-> "None", answer |-> "None"]
<1>1. /\ holder' = [holder EXCEPT ![h] = x] /\ told' = [told EXCEPT ![h] = y]
      /\ UNCHANGED <<now, durable>>
  BY DEF Load, Answer
<1>2. x \in HoldingStates
  BY DEF Holding, HoldingStates, Aggregates, ApprovalInv, ClockInv
<1>3. HeldSound(x)
  <2>1. /\ x.base = 0 /\ x.seen = registry /\ x.aggregate.phase = "Pending"
        /\ x.aggregate.resolution = None
    BY DEF Holding
  <2> HIDE DEF x
  <2> QED BY <1>2, <2>1 DEF HeldSound, Seen, Coherent, ApprovalInv, RecordInv
<1>4. HolderSound(x, y.answer)
  <2>1. x.state = "Holding"
    BY DEF Holding
  <2> HIDE DEF x
  <2> QED BY <1>3, <2>1 DEF HolderSound
<1> HIDE DEF x, y
<1> QED BY <1>1, <1>4, MemoryStep

\* Steps that keep the last answer.
LEMMA QuietStep ==
    ASSUME ApprovalInv, NEW h \in Holders, NEW x, x.state = "Holding", HeldSound(x),
           holder' = [holder EXCEPT ![h] = x],
           UNCHANGED <<now, durable, told>>
    PROVE  ApprovalInv'
<1>1. told' = [told EXCEPT ![h] = told[h]]
  BY DEF ApprovalInv, HoldersInv
<1>2. HolderSound(x, told[h].answer)
  BY DEF HolderSound
<1> QED BY <1>1, <1>2, MemoryStep

LEMMA ObserveStep ==
    ASSUME ApprovalInv, NEW h \in Holders, Observe(h)
    PROVE  ApprovalInv'
<1> DEFINE x == [holder[h] EXCEPT !.seen = registry]
<1>1. HeldSound(holder[h])
  BY DEF Observe, ApprovalInv, HoldersInv, HolderSound
<1>2. /\ x \in HoldingStates /\ x.base = holder[h].base /\ x.seen = registry
      /\ x.aggregate = holder[h].aggregate /\ x.state = "Holding"
  BY <1>1 DEF HeldSound, HoldingStates, ApprovalInv, ClockInv
<1>3. HeldSound(x)
  <2> HIDE DEF x
  <2> QED BY <1>1, <1>2 DEF HeldSound, Seen
<1>4. holder' = [holder EXCEPT ![h] = x] /\ UNCHANGED <<now, durable, told>>
  BY DEF Observe
<1> HIDE DEF x
<1> QED BY <1>2, <1>3, <1>4, QuietStep

LEMMA ConsumeAmendmentStep ==
    ASSUME ApprovalInv, NEW h \in Holders, ConsumeAmendment(h)
    PROVE  ApprovalInv'
<1> DEFINE x == [holder[h] EXCEPT !.aggregate.phase = "Amended", !.aggregate.floor = now]
<1>1. HeldSound(holder[h]) /\ holder[h].aggregate.phase = "AmendmentAuthorized"
  BY DEF ConsumeAmendment, ApprovalInv, HoldersInv, HolderSound
<1>2. now \in Nat
  BY DEF ApprovalInv, ClockInv
<1>3. /\ x \in HoldingStates /\ x.base = holder[h].base /\ x.seen = holder[h].seen
      /\ x.aggregate.phase = "Amended" /\ x.state = "Holding"
      /\ x.aggregate.resolution = holder[h].aggregate.resolution
  BY <1>1, <1>2 DEF HeldSound, HoldingStates, Aggregates, Phases, Terminal
<1>4. HeldSound(x)
  <2> HIDE DEF x
  <2>1. Coherent("Amended", x.aggregate.resolution)
    BY <1>1, <1>3 DEF HeldSound, Coherent
  <2>2. x.base > 0 /\ x.base = record.revision => Matches(x.aggregate)
    BY <1>1, <1>3 DEF HeldSound, Matches
  <2> QED BY <1>1, <1>3, <2>1, <2>2 DEF HeldSound
<1>5. holder' = [holder EXCEPT ![h] = x] /\ UNCHANGED <<now, durable, told>>
  BY <1>1 DEF ConsumeAmendment, HeldSound, HoldingStates
<1> HIDE DEF x
<1> QED BY <1>3, <1>4, <1>5, QuietStep

\* A decision is the first change of the row.
LEMMA ResolveStep ==
    ASSUME ApprovalInv, NEW h \in Holders, NEW decision \in Decisions, NEW at \in 0..now,
           Resolve(h, decision, at)
    PROVE  ApprovalInv'
<1> DEFINE resolution == [decision |-> decision, registry |-> holder[h].seen,
                          until |-> ObservationExpiry(decision)]
           successor == [phase |-> PhaseFor(decision.choice), resolution |-> resolution,
                         floor |-> at]
<1>1. HeldSound(holder[h]) /\ holder[h].state = "Holding" /\ holder[h].aggregate.phase = "Pending"
  BY DEF Resolve, ApprovalInv, HoldersInv, HolderSound
<1>2. resolution \in Resolutions
  BY <1>1, ExpiryIsTick DEF Resolutions, HeldSound, HoldingStates, Registries
<1>3. Authentic(resolution)
  BY <1>2 DEF Authentic, Resolve, Verified
<1>4. /\ PhaseFor(decision.choice) \in {"Denied", "ApprovedOnce", "AmendmentAuthorized"}
      /\ PhaseFor(decision.choice) = "ApprovedOnce" => decision.choice = "ApproveOnce"
  <2>1. decision.choice \in {"Deny", "ApproveOnce", "Amend"}
    BY ApprovalAssumption
  <2> QED BY <2>1 DEF PhaseFor
<1>5. successor \in Results
  <2>1. at \in Nat
    BY DEF ApprovalInv, ClockInv
  <2> HIDE DEF resolution
  <2> QED BY <1>2, <1>4, <2>1 DEF Results, Phases, Terminal
<1>6. Coherent(successor.phase, successor.resolution)
  <2>1. resolution.decision = decision
    OBVIOUS
  <2> HIDE DEF resolution
  <2> QED BY <1>2, <1>3, <1>4, <2>1, NoneIsNothing DEF Coherent
<1>7. holder[h].base = record.revision => PlanOver("Resolve", successor)
  BY <1>1, <1>4, MadeOverRow DEF PlanOver, Terminal
<1>8. Propose(h, "Resolve", <<"decision", decision>>, successor) /\ UNCHANGED <<now, durable>>
  BY DEF Resolve
<1> HIDE DEF successor
<1> QED BY <1>1, <1>5, <1>6, <1>7, <1>8, ProposeStep

\* The same decision again installs what the row already says.
LEMMA ResolveAgainStep ==
    ASSUME ApprovalInv, NEW h \in Holders, NEW decision \in Decisions,
           ResolveAgain(h, decision)
    PROVE  ApprovalInv'
<1> DEFINE successor == holder[h].aggregate
<1>1. HeldSound(holder[h]) /\ holder[h].state = "Holding"
  BY DEF ResolveAgain, ApprovalInv, HoldersInv, HolderSound
<1>2. Coherent(successor.phase, successor.resolution) /\ successor.phase # "Pending"
  BY <1>1 DEF HeldSound, Coherent, ResolveAgain
<1>3. successor \in Results
  BY <1>1, <1>2 DEF HeldSound, HoldingStates, Aggregates, Results
<1>4. holder[h].base = record.revision => PlanOver("Resolve", successor)
  BY <1>1, <1>2, MadeOverRow DEF PlanOver, Matches, Terminal
<1>5. /\ Propose(h, "Resolve", <<"again", h, holder[h].base>>, successor)
      /\ UNCHANGED <<now, durable>>
  BY DEF ResolveAgain
<1> HIDE DEF successor
<1> QED BY <1>1, <1>2, <1>3, <1>4, <1>5, ProposeStep

\* Only a request without a row is cancelled.
LEMMA CancelStep ==
    ASSUME ApprovalInv, NEW h \in Holders, Cancel(h)
    PROVE  ApprovalInv'
<1> DEFINE successor == [holder[h].aggregate EXCEPT !.phase = "Cancelled"]
<1>1. HeldSound(holder[h]) /\ holder[h].state = "Holding" /\ holder[h].aggregate.phase = "Pending"
  BY DEF Cancel, ApprovalInv, HoldersInv, HolderSound
<1>2. /\ successor \in Results /\ successor.phase = "Cancelled"
      /\ successor.resolution = holder[h].aggregate.resolution
  BY <1>1 DEF HeldSound, HoldingStates, Aggregates, Results, Phases, Terminal
<1>3. Propose(h, "Cancel", <<"cancel", h>>, successor) /\ UNCHANGED <<now, durable>>
  BY DEF Cancel
<1> HIDE DEF successor
<1>4. Coherent(successor.phase, successor.resolution)
  BY <1>1, <1>2 DEF HeldSound, Coherent
<1>5. holder[h].base = record.revision => PlanOver("Cancel", successor)
  BY <1>1, <1>2, MadeOverRow DEF PlanOver, Terminal
<1> QED BY <1>1, <1>2, <1>3, <1>4, <1>5, ProposeStep

\* Only a request without a row or with an open one expires.
LEMMA ExpireStep ==
    ASSUME ApprovalInv, NEW h \in Holders, Expire(h)
    PROVE  ApprovalInv'
<1> DEFINE successor == [holder[h].aggregate EXCEPT !.phase = "Expired", !.floor = now]
<1>1. /\ HeldSound(holder[h]) /\ holder[h].state = "Holding"
      /\ holder[h].aggregate.phase \in {"Pending", "ApprovedOnce", "AmendmentAuthorized"}
  BY DEF Expire, ApprovalInv, HoldersInv, HolderSound
<1>2. now \in Nat
  BY DEF ApprovalInv, ClockInv
<1>3. /\ successor \in Results /\ successor.phase = "Expired"
      /\ successor.resolution = holder[h].aggregate.resolution
  BY <1>1, <1>2 DEF HeldSound, HoldingStates, Aggregates, Results, Phases, Terminal
<1>4. /\ Propose(h, "Expire", <<"expire", h, holder[h].base>>, successor)
      /\ UNCHANGED <<now, durable>>
  BY DEF Expire
<1> HIDE DEF successor
<1>5. Coherent(successor.phase, successor.resolution)
  BY <1>1, <1>3 DEF HeldSound, Coherent
<1>6. holder[h].base = record.revision => PlanOver("Expire", successor)
  BY <1>1, <1>3, MadeOverRow DEF PlanOver, Matches, Terminal
<1> QED BY <1>1, <1>3, <1>4, <1>5, <1>6, ProposeStep

\* A use is planned over an approved row, if the row is still the one it knows.
LEMMA ConsumeOnceStep ==
    ASSUME ApprovalInv, NEW h \in Holders, NEW use, ConsumeOnce(h, use)
    PROVE  ApprovalInv'
<1> DEFINE held == holder[h]
           successor == [held.aggregate EXCEPT !.phase = "Consumed", !.floor = now]
           plan == Plan("Use", <<"use", use>>, held.base, successor, held.seen,
                        [to |-> "Consumed", resolution |-> successor.resolution,
                         floor |-> now])
<1>1. HeldSound(held) /\ held.aggregate.phase = "ApprovedOnce"
  BY DEF ConsumeOnce, Consumable, ApprovalInv, HoldersInv, HolderSound
<1>2. now \in Nat
  BY DEF ApprovalInv, ClockInv
<1>3. /\ successor \in Results /\ successor.phase = "Consumed"
      /\ successor.resolution = held.aggregate.resolution
  BY <1>1, <1>2 DEF HeldSound, HoldingStates, Aggregates, Results, Phases, Terminal
<1>4. Coherent("Consumed", held.aggregate.resolution) /\ held.aggregate.resolution # None
  BY <1>1 DEF HeldSound, Coherent
<1>5. CASE Bound(held.aggregate.resolution, held.seen)
  <2>1. /\ holder' = [holder EXCEPT ![h] = Committing(plan)]
        /\ told' = [told EXCEPT ![h] = [kind |-> "Use", answer |-> "None"]]
        /\ UNCHANGED <<now, durable>>
    BY <1>5 DEF ConsumeOnce, Answer
  <2>2. /\ plan.expected = held.base /\ plan.result = successor /\ plan.kind = "Use"
        /\ plan.binding = held.seen
        /\ plan.value.to = "Consumed" /\ plan.value.resolution = successor.resolution
    BY DEF Plan
  <2>3. held.base \in Nat /\ held.base <= record.revision /\ Seen(held.seen)
    BY <1>1 DEF HeldSound, HoldingStates
  <2>4. held.seen = held.aggregate.resolution.registry
    BY <1>4, <1>5 DEF Bound
  <2>5. held.base = record.revision => PlanOver("Use", successor)
    BY <1>1, <1>3, MadeOverRow DEF PlanOver, Matches, Terminal
  <2> HIDE DEF plan, successor, held
  <2>6. PlanSound(plan)
    BY <1>3, <1>4, <2>2, <2>3, <2>4 DEF PlanSound
  <2>7. HolderSound(Committing(plan), "None")
    <3>1. Committing(plan).state = "Committing" /\ Committing(plan).plan = plan
      BY DEF Committing
    <3> QED BY <2>2, <2>5, <2>6, <3>1 DEF HolderSound
  <2>8. [kind |-> "Use", answer |-> "None"].answer = "None"
    OBVIOUS
  <2> QED BY <2>1, <2>7, <2>8, MemoryStep
<1>6. CASE ~Bound(held.aggregate.resolution, held.seen)
  <2>1. /\ holder' = [holder EXCEPT ![h] = Idle] /\ Answer(h, "Use", "StaleRegistry")
        /\ UNCHANGED <<now, durable>>
    BY <1>6 DEF ConsumeOnce
  <2> QED BY <2>1, LetGo
<1> QED BY <1>5, <1>6

-----------------------------------------------------------------------------
(* Rows                                                                     *)

\* A committed request is about a row that was installed.
LEMMA CommittedFacts ==
    ASSUME ApprovalInv, NEW plan, PlanSound(plan), IsCommitted(plan)
    PROVE  /\ plan.expected < record.revision
           /\ plan.expected + 1 = record.revision =>
                  plan.result.phase = record.phase /\ plan.result.resolution = record.resolution
<1>1. PICK c \in commands : c.digest = <<plan.expected, plan.binding, plan.value>>
  BY DEF IsCommitted, Stored, RequestDigest
<1>2. c.digest[1] = plan.expected /\ c.digest[3] = plan.value
  BY <1>1
<1> QED BY <1>2 DEF ApprovalInv, CommandsInv, PlanSound

\* The aggregate of a receipt is the row it installed.
LEMMA ReceiptSound ==
    ASSUME ApprovalInv, NEW plan, PlanSound(plan), IsCommitted(plan)
    PROVE  HeldSound(Holding(plan.result, plan.expected + 1, registry))
<1> DEFINE x == Holding(plan.result, plan.expected + 1, registry)
<1>1. /\ plan.expected < record.revision
      /\ plan.expected + 1 = record.revision =>
             plan.result.phase = record.phase /\ plan.result.resolution = record.resolution
  BY CommittedFacts
<1>2. /\ plan.expected \in Nat /\ plan.result \in Results
      /\ Coherent(plan.result.phase, plan.result.resolution)
      /\ registry \in Registries /\ record.revision \in Nat
  BY DEF PlanSound, ApprovalInv, ClockInv, RecordInv
<1>3. x \in HoldingStates
  BY <1>2 DEF Holding, HoldingStates, Aggregates, Results
<1>4. x.aggregate = plan.result /\ x.base = plan.expected + 1 /\ x.seen = registry
  BY DEF Holding
<1>5. plan.result.phase # "Pending"
  BY <1>2 DEF Results, Phases, Terminal
<1> HIDE DEF x
<1>6. x.base > 0 /\ x.base = record.revision => Matches(x.aggregate)
  BY <1>1, <1>4 DEF Matches
<1>7. x.base <= record.revision /\ x.base # 0
  BY <1>1, <1>2, <1>4
<1> QED BY <1>2, <1>3, <1>4, <1>5, <1>6, <1>7 DEF HeldSound, Seen, x

\* An installed plan is committed, keeps the invariant of the rows, and leaves what
\* others hold sound: it is about older revisions now.
LEMMA Installed ==
    ASSUME ApprovalInv, NEW plan, PlanSound(plan), PlanOver(plan.kind, plan.result),
           Preconditions(plan), Install(plan), UNCHANGED now
    PROVE  /\ (ClockInv /\ RecordInv /\ CommandsInv /\ EffectOnce)' /\ effects' \in Nat
           /\ PlanSound(plan)' /\ IsCommitted(plan)'
           /\ record'.revision = plan.expected + 1
           /\ \A x, answer : HolderSound(x, answer) => HolderSound(x, answer)'
<1> USE DEF ApprovalInv
<1>1. /\ record' = [revision |-> plan.expected + 1, phase |-> plan.result.phase,
                    resolution |-> plan.result.resolution]
      /\ commands' = commands \cup {[id |-> plan.command, digest |-> RequestDigest(plan)]}
      /\ effects' = IF plan.kind = "Use" THEN effects + 1 ELSE effects
      /\ UNCHANGED <<epoch, registry>>
  BY DEF Install
<1>2. /\ plan.expected = record.revision /\ plan.expected \in Nat
      /\ plan.result \in Results
      /\ plan.binding = None \/ plan.binding = registry
      /\ Coherent(plan.result.phase, plan.result.resolution)
  BY DEF Preconditions, RegistryCurrent, PlanSound
<1>3. /\ record'.revision = record.revision + 1 /\ record'.revision = plan.expected + 1
      /\ record'.phase = plan.result.phase /\ record'.resolution = plan.result.resolution
  BY <1>1, <1>2
<1>4. ClockInv'
  BY <1>1 DEF ClockInv
<1>5. RecordInv'
  <2>1. record' \in [revision : Nat, phase : Phases \cup {"Absent"},
                     resolution : Resolutions \cup {None}]
    BY <1>1, <1>2 DEF Results
  <2>2. record'.phase # "Absent"
    BY <1>2, <1>3 DEF Results, Phases, Terminal
  <2> QED BY <1>2, <1>3, <2>1, <2>2 DEF RecordInv
<1>6. CommandsInv'
  <2> SUFFICES ASSUME NEW c \in commands'
               PROVE  /\ c.digest[1] \in Nat
                      /\ c.digest[1] < record'.revision
                      /\ c.digest[1] + 1 = record'.revision =>
                             c.digest[3].to = record'.phase /\ c.digest[3].resolution = record'.resolution
    BY DEF CommandsInv
  <2>1. CASE c \in commands
    BY <2>1, <1>2, <1>3 DEF CommandsInv
  <2>2. CASE c = [id |-> plan.command, digest |-> RequestDigest(plan)]
    <3>1. c.digest = <<plan.expected, plan.binding, plan.value>>
      BY <2>2 DEF RequestDigest
    <3>2. c.digest[1] = plan.expected /\ c.digest[3] = plan.value
      BY <3>1
    <3> QED BY <1>2, <1>3, <3>2 DEF PlanSound
  <2> QED BY <1>1, <2>1, <2>2
<1>7. effects' \in Nat /\ EffectOnce'
  <2>1. CASE plan.kind = "Use"
    <3>1. record.phase = "ApprovedOnce" /\ plan.result.phase = "Consumed"
      BY <2>1 DEF PlanOver, PlanSound
    <3> QED BY <1>1, <1>3, <2>1, <3>1 DEF EffectOnce
  <2>2. CASE plan.kind # "Use"
    <3>1. plan.result.phase = "Consumed" <=> record.phase = "Consumed"
      BY <2>2 DEF PlanOver, Terminal
    <3> QED BY <1>1, <1>3, <2>2, <3>1 DEF EffectOnce
  <2> QED BY <2>1, <2>2
<1>8. IsCommitted(plan)'
  <2>1. [id |-> plan.command, digest |-> RequestDigest(plan)] \in commands'
    BY <1>1
  <2> QED BY <2>1 DEF IsCommitted, Stored, RequestDigest
<1>9. \A p : PlanSound(p) => PlanSound(p)'
  BY <1>1, <1>2, <1>3 DEF PlanSound, Seen
<1>10. \A p : PlanSound(p) => p.expected # record'.revision
  BY <1>2, <1>3 DEF PlanSound
<1>11. \A x : HeldSound(x) => HeldSound(x)'
  BY <1>1, <1>2, <1>3 DEF HeldSound, HoldingStates, Seen
<1>12. ASSUME NEW p, PlanSound(p), p.kind = "Use", RefusedForGood(p)
       PROVE  RefusedForGood(p)'
  <2>1. p.binding # None
    BY <1>12, NoneIsNothing DEF PlanSound, Coherent, Authentic, Resolutions, Registries
  <2>2. RequestDigest(p) # RequestDigest(plan)
    <3>1. p.binding # plan.binding
      BY <1>2, <1>12, <2>1 DEF RefusedForGood
    <3> QED BY <3>1 DEF RequestDigest
  <2>3. ~IsCommitted(p)'
    BY <1>1, <1>12, <2>2 DEF RefusedForGood, IsCommitted, Stored, RequestDigest
  <2> QED BY <1>1, <1>12, <2>3 DEF RefusedForGood
<1>13. ASSUME NEW x, NEW answer, HolderSound(x, answer)
       PROVE  HolderSound(x, answer)'
  BY <1>9, <1>10, <1>11, <1>12, <1>13 DEF HolderSound
<1> QED BY <1>3, <1>4, <1>5, <1>6, <1>7, <1>8, <1>9, <1>13

\* What a holder that commits relies on.
LEMMA CommitterSound ==
    ASSUME ApprovalInv, NEW h \in Holders, holder[h].state = "Committing"
    PROVE  /\ PlanSound(holder[h].plan)
           /\ holder[h].plan.expected = record.revision =>
                  PlanOver(holder[h].plan.kind, holder[h].plan.result)
BY DEF ApprovalInv, HoldersInv, HolderSound

\* A holder that is answered with what was committed holds the committed successor.
LEMMA ReplayStep ==
    ASSUME ApprovalInv, NEW h \in Holders, holder[h].state = "Committing",
           NEW plan, plan = holder[h].plan, IsCommitted(plan), Receipt(h, plan),
           UNCHANGED <<now, durable>>
    PROVE  ApprovalInv'
<1> DEFINE x == Holding(plan.result, plan.expected + 1, registry)
           y == [kind |-> plan.kind, answer |-> "Committed"]
<1>1. holder' = [holder EXCEPT ![h] = x] /\ told' = [told EXCEPT ![h] = y]
  BY DEF Receipt, Answer
<1>2. HeldSound(x) /\ x.state = "Holding"
  BY CommitterSound, ReceiptSound DEF Holding
<1> HIDE DEF x, y
<1>3. HolderSound(x, y.answer)
  BY <1>2 DEF HolderSound
<1> QED BY <1>1, <1>3, MemoryStep

\* A first commit installs the plan; the holder has the successor, or has lost the
\* answer and keeps the plan.
LEMMA InstallStep ==
    ASSUME ApprovalInv, NEW h \in Holders, holder[h].state = "Committing",
           NEW plan, plan = holder[h].plan, Preconditions(plan), Install(plan),
           \/ Receipt(h, plan)
           \/ Answer(h, plan.kind, "Indeterminate") /\ UNCHANGED holder,
           UNCHANGED now
    PROVE  ApprovalInv'
<1>1. PlanSound(plan) /\ PlanOver(plan.kind, plan.result)
  BY CommitterSound DEF Preconditions
<1>2. /\ (ClockInv /\ RecordInv /\ CommandsInv /\ EffectOnce)' /\ effects' \in Nat
      /\ PlanSound(plan)' /\ IsCommitted(plan)'
      /\ record'.revision = plan.expected + 1
      /\ \A x, answer : HolderSound(x, answer) => HolderSound(x, answer)'
  BY <1>1, Installed
<1>3. UNCHANGED registry
  BY DEF Install
<1>4. /\ holder = [k \in Holders |-> holder[k]]
      /\ told = [k \in Holders |-> told[k]]
      /\ \A k \in Holders : HolderSound(holder[k], told[k].answer)
  BY DEF ApprovalInv, HoldersInv
<1>5. HoldersInv'
  <2>1. CASE Receipt(h, plan)
    <3>0. PICK x : x = Holding(plan.result, plan.expected + 1, registry)
      OBVIOUS
    <3>1. /\ holder' = [holder EXCEPT ![h] = x]
          /\ told' = [told EXCEPT ![h] = [kind |-> plan.kind, answer |-> "Committed"]]
      BY <2>1, <3>0 DEF Receipt, Answer
    <3>2. HeldSound(x)'
      <4>1. /\ plan.expected \in Nat /\ plan.result \in Results
            /\ Coherent(plan.result.phase, plan.result.resolution)
            /\ registry \in Registries
        BY <1>1 DEF PlanSound, ApprovalInv, ClockInv
      <4>2. x \in HoldingStates
        BY <3>0, <4>1 DEF Holding, HoldingStates, Aggregates, Results
      <4>3. x.aggregate = plan.result /\ x.base = plan.expected + 1 /\ x.seen = registry
        BY <3>0 DEF Holding
      <4>4. plan.result.phase # "Pending"
        BY <4>1 DEF Results, Phases, Terminal
      <4>5. record'.phase = plan.result.phase /\ record'.resolution = plan.result.resolution
        BY DEF Install
      <4> QED BY <1>2, <1>3, <4>1, <4>2, <4>3, <4>4, <4>5 DEF HeldSound, Seen, Matches
    <3>3. x.state = "Holding"
      BY <3>0 DEF Holding
    <3>4. \A k \in Holders : HolderSound(holder[k], told[k].answer)'
      <4> SUFFICES ASSUME NEW k \in Holders
                   PROVE  HolderSound(holder[k], told[k].answer)'
        OBVIOUS
      <4>1. CASE k = h
        <5>1. holder'[k] = x
          BY <1>4, <3>1, <4>1
        <5> QED BY <3>2, <3>3, <5>1 DEF HolderSound
      <4>2. CASE k # h
        <5>1. holder'[k] = holder[k] /\ told'[k] = told[k]
          BY <1>4, <3>1, <4>2
        <5> QED BY <1>2, <1>4, <5>1
      <4> QED BY <4>1, <4>2
    <3> QED BY <1>4, <3>1, <3>4 DEF HoldersInv
  <2>2. CASE Answer(h, plan.kind, "Indeterminate") /\ UNCHANGED holder
    <3> DEFINE y == [kind |-> plan.kind, answer |-> "Indeterminate"]
    <3>1. told' = [told EXCEPT ![h] = y] /\ y.answer = "Indeterminate"
      BY <2>2 DEF Answer
    <3> HIDE DEF y
    <3>2. \A k \in Holders : HolderSound(holder[k], told'[k].answer)
      <4> SUFFICES ASSUME NEW k \in Holders PROVE HolderSound(holder[k], told'[k].answer)
        OBVIOUS
      <4>1. CASE k = h
        <5>1. told'[k].answer = "Indeterminate"
          BY <1>4, <3>1, <4>1
        <5> QED BY <1>4, <5>1 DEF HolderSound
      <4>2. CASE k # h
        BY <1>4, <3>1, <4>2
      <4> QED BY <4>1, <4>2
    <3>3. \A k \in Holders : HolderSound(holder[k], told[k].answer)'
      BY <1>2, <2>2, <3>2
    <3> QED BY <1>4, <2>2, <3>1, <3>3 DEF HoldersInv
  <2> QED BY <2>1, <2>2
<1> QED BY <1>2, <1>5 DEF ApprovalInv

\* A refusal changes the answer only, and a use is refused for its registry only when
\* its command is not stored.
LEMMA RefuseStep ==
    ASSUME ApprovalInv, NEW h \in Holders, RefuseCommit(h)
    PROVE  ApprovalInv'
<1>0. PICK plan : plan = holder[h].plan
  OBVIOUS
<1> DEFINE y == [kind |-> plan.kind, answer |-> Refusal(plan)]
<1>1. /\ holder[h].state = "Committing" /\ told' = [told EXCEPT ![h] = y]
      /\ UNCHANGED <<now, durable, holder>>
  BY <1>0 DEF RefuseCommit, Answer
<1>2. holder' = [holder EXCEPT ![h] = holder[h]]
  BY <1>1 DEF ApprovalInv, HoldersInv
<1>3. plan.kind = "Use" /\ Refusal(plan) = "StaleRegistry" => RefusedForGood(plan)
  BY DEF Refusal, ResolvedFirst, RegistryCurrent, RefusedForGood, IsCommitted
<1>4. HolderSound(holder[h], y.answer)
  BY <1>0, <1>1, <1>3 DEF ApprovalInv, HoldersInv, HolderSound
<1> HIDE DEF y
<1> QED BY <1>1, <1>2, <1>4, MemoryStep

\* Commit, with or without its acknowledgement.
LEMMA CommitStep ==
    ASSUME ApprovalInv, NEW h \in Holders, Commit(h) \/ LoseAcknowledgement(h)
    PROVE  ApprovalInv'
<1>0. PICK plan : plan = holder[h].plan
  OBVIOUS
<1>1. holder[h].state = "Committing" /\ UNCHANGED now
  BY DEF Commit, LoseAcknowledgement
<1>2. CASE Replayed(plan) /\ Receipt(h, plan) /\ UNCHANGED durable
  BY <1>0, <1>1, <1>2, ReplayStep DEF Replayed
<1>3. CASE /\ Preconditions(plan) /\ Install(plan)
           /\ \/ Receipt(h, plan)
              \/ Answer(h, plan.kind, "Indeterminate") /\ UNCHANGED holder
  BY <1>0, <1>1, <1>3, InstallStep
<1> QED BY <1>0, <1>2, <1>3 DEF Commit, LoseAcknowledgement

\* A rotation makes what was observed older, and no refused use possible again.
LEMMA RotateStep ==
    ASSUME ApprovalInv, Rotate
    PROVE  ApprovalInv'
<1> USE DEF ApprovalInv
<1>1. PICK enabled \in SUBSET Approvers :
          registry' = [revision |-> registry.revision + 1,
                       generation |-> registry.generation + 1, enabled |-> enabled]
  BY DEF Rotate
<1>2. UNCHANGED <<now, epoch, record, commands, effects, holder, told>>
  BY DEF Rotate
<1>3. /\ registry' \in Registries /\ registry'.generation = registry'.revision
      /\ registry'.revision = registry.revision + 1
  BY <1>1, ApprovalAssumption DEF Rotate, ClockInv, Registries
<1>4. registry.revision \in Nat
  BY ApprovalAssumption DEF ClockInv, Registries
<1>5. \A r \in Registries : Seen(r) => Seen(r)'
  BY <1>3, <1>4, ApprovalAssumption DEF Seen, Registries
<1>6. \A r \in Registries : Seen(r) => r # registry'
  BY <1>3, <1>4, ApprovalAssumption DEF Seen, Registries
<1>7. ASSUME NEW x, NEW answer, HolderSound(x, answer)
      PROVE  HolderSound(x, answer)'
  <2>1. x.state = "Holding" => HeldSound(x)'
    BY <1>2, <1>5, <1>7 DEF HolderSound, HeldSound, HoldingStates, Matches
  <2>2. ASSUME x.state = "Committing"
        PROVE  /\ PlanSound(x.plan)'
               /\ x.plan.expected = record'.revision => PlanOver(x.plan.kind, x.plan.result)'
               /\ answer = "StaleRegistry" /\ x.plan.kind = "Use" => RefusedForGood(x.plan)'
    <3>1. PlanSound(x.plan)
      BY <1>7, <2>2 DEF HolderSound
    <3>2. x.plan.result.resolution # None => x.plan.binding \in Registries
      BY <3>1 DEF PlanSound, Coherent, Authentic, Resolutions, Registries
    <3>3. PlanSound(x.plan)'
      BY <1>2, <1>5, <3>1, <3>2 DEF PlanSound
    <3>4. x.plan.expected = record'.revision => PlanOver(x.plan.kind, x.plan.result)'
      BY <1>2, <1>7, <2>2 DEF HolderSound, PlanOver
    <3>5. ASSUME answer = "StaleRegistry", x.plan.kind = "Use"
          PROVE  RefusedForGood(x.plan)'
      <4>1. x.plan.result.resolution # None /\ Seen(x.plan.binding)
        BY <3>1, <3>5 DEF PlanSound, Coherent
      <4>2. x.plan.binding # registry'
        BY <1>6, <3>2, <4>1
      <4>3. ~IsCommitted(x.plan)'
        BY <1>2, <1>7, <2>2, <3>5 DEF HolderSound, RefusedForGood, IsCommitted, Stored, RequestDigest
      <4> QED BY <4>2, <4>3 DEF RefusedForGood
    <3> QED BY <3>3, <3>4, <3>5
  <2> QED BY <1>7, <2>1, <2>2 DEF HolderSound
<1>8. HoldersInv'
  BY <1>2, <1>7 DEF HoldersInv
<1> QED BY <1>2, <1>3, <1>8 DEF ClockInv, RecordInv, CommandsInv, EffectOnce

\* Time passes.
LEMMA TickStep ==
    ASSUME ApprovalInv, Tick
    PROVE  ApprovalInv'
<1>1. /\ UNCHANGED <<epoch, registry, record, commands, effects, holder, told>>
      /\ now < MaxTick /\ now' = now + 1
  BY DEF Tick, durable
<1>2. \A x, answer : HolderSound(x, answer) => HolderSound(x, answer)'
  BY <1>1 DEF HolderSound, HeldSound, PlanSound, PlanOver, RefusedForGood, Seen, Matches,
              IsCommitted, Stored
<1> QED
  BY <1>1, <1>2, ApprovalAssumption
  DEF ApprovalInv, ClockInv, RecordInv, CommandsInv, HoldersInv, EffectOnce

\* A restart forgets what was held.
LEMMA RestartStep ==
    ASSUME ApprovalInv, Restart
    PROVE  ApprovalInv'
<1>1. /\ holder' = [h \in Holders |-> Idle] /\ told' = [h \in Holders |-> NoAnswer]
      /\ UNCHANGED <<registry, record, commands, effects>>
      /\ epoch < MaxEpoch /\ epoch' = epoch + 1 /\ now' = 0
  BY DEF Restart
<1>2. \A h \in Holders : HolderSound(holder[h], told[h].answer)'
  BY <1>1 DEF HolderSound, Idle
<1> QED
  BY <1>1, <1>2, ApprovalAssumption
  DEF ApprovalInv, ClockInv, RecordInv, CommandsInv, HoldersInv, EffectOnce

\* The initial state.
LEMMA InitApproval == Init => ApprovalInv
<1> SUFFICES ASSUME Init PROVE ApprovalInv
  OBVIOUS
<1>1. ClockInv
  BY ApprovalAssumption DEF Init, ClockInv, Registries, RequestEpoch
<1>2. RecordInv /\ CommandsInv /\ effects \in Nat /\ EffectOnce
  BY DEF Init, RecordInv, CommandsInv, EffectOnce
<1>3. HoldersInv
  BY DEF Init, HoldersInv, HolderSound, Idle
<1> QED BY <1>1, <1>2, <1>3 DEF ApprovalInv

\* Every step keeps the invariant.
LEMMA ApprovalStep == ApprovalInv /\ [Next]_vars => ApprovalInv'
<1> SUFFICES ASSUME ApprovalInv, [Next]_vars PROVE ApprovalInv'
  OBVIOUS
<1>1. ASSUME NEW h \in Holders, HolderStep(h) PROVE ApprovalInv'
  <2>1. CASE Load(h)
    BY <2>1, LoadStep
  <2>2. CASE Observe(h)
    BY <2>2, ObserveStep
  <2>3. CASE Cancel(h)
    BY <2>3, CancelStep
  <2>4. CASE Expire(h)
    BY <2>4, ExpireStep
  <2>5. CASE ConsumeAmendment(h)
    BY <2>5, ConsumeAmendmentStep
  <2>6. ASSUME NEW decision \in Decisions, ResolveAgain(h, decision) PROVE ApprovalInv'
    BY <2>6, ResolveAgainStep
  <2>7. ASSUME NEW decision \in Decisions, NEW at \in 0..now, Resolve(h, decision, at)
        PROVE  ApprovalInv'
    BY <2>7, ResolveStep
  <2>8. ASSUME NEW use \in Uses, ConsumeOnce(h, use) PROVE ApprovalInv'
    BY <2>8, ConsumeOnceStep
  <2>9. CASE Commit(h) \/ LoseAcknowledgement(h)
    BY <2>9, CommitStep
  <2>10. CASE RefuseCommit(h)
    BY <2>10, RefuseStep
  <2>11. CASE Drop(h)
    BY <2>11, LetGo DEF Drop
  <2> QED
    BY <1>1, <2>1, <2>2, <2>3, <2>4, <2>5, <2>6, <2>7, <2>8, <2>9, <2>10, <2>11 DEF HolderStep
<1>2. CASE Rotate
  BY <1>2, RotateStep
<1>3. CASE Tick
  BY <1>3, TickStep
<1>4. CASE Restart
  BY <1>4, RestartStep
<1>5. CASE UNCHANGED vars
  <2>1. UNCHANGED <<now, epoch, registry, record, commands, effects, holder, told>>
    BY <1>5 DEF vars, durable
  <2>2. \A x, answer : HolderSound(x, answer) => HolderSound(x, answer)'
    BY <2>1 DEF HolderSound, HeldSound, PlanSound, PlanOver, RefusedForGood, Seen, Matches,
                IsCommitted, Stored
  <2> QED
    BY <2>1, <2>2 DEF ApprovalInv, ClockInv, RecordInv, CommandsInv, HoldersInv, EffectOnce
<1> QED BY <1>1, <1>2, <1>3, <1>4, <1>5 DEF Next

-----------------------------------------------------------------------------
(* Theorems                                                                 *)

\* The inductive invariant.
THEOREM ApprovalInvariant == Spec => []ApprovalInv
BY InitApproval, ApprovalStep, PTL DEF Spec

\* One approval is worth one action, holders believe only what was durable, and the
\* retry of a committed use is told so, whatever is raced, lost or restarted
\* (domain/approval_use.rs commit_approval_use, resolve_approval_use).
THEOREM UsesAreTruthful == Spec => []UseTruth
<1>1. ApprovalInv => UseTruth
  <2> SUFFICES ASSUME ApprovalInv PROVE UseTruth
    OBVIOUS
  <2>1. TypeOK
    BY DEF ApprovalInv, ClockInv, RecordInv, HoldersInv, HolderSound, TypeOK, Registries, Phases
  <2>2. HeldTruth
    BY DEF ApprovalInv, HoldersInv, HolderSound, HeldSound, Matches, HeldTruth
  <2>3. UseRetryAnswered
    BY DEF ApprovalInv, HoldersInv, HolderSound, RefusedForGood, UseRetryAnswered
  <2> QED BY <2>1, <2>2, <2>3 DEF ApprovalInv, UseTruth
<1> QED BY <1>1, ApprovalInvariant, PTL

\* A change of the row is the installation of a sound plan over it.
LEMMA RowChange ==
    ASSUME ApprovalInv, Next, record' # record \/ effects' # effects
    PROVE  \E plan : /\ PlanSound(plan) /\ PlanOver(plan.kind, plan.result)
                     /\ Preconditions(plan) /\ Install(plan)
<1>1. PICK h \in Holders : HolderStep(h)
  BY DEF Next, Rotate, Tick, Restart, durable
<1>2. UNCHANGED durable => FALSE
  BY DEF durable
<1>3. Commit(h) \/ LoseAcknowledgement(h)
  BY <1>1, <1>2
  DEF HolderStep, Load, Observe, Cancel, Expire, ConsumeAmendment, ResolveAgain, Resolve,
      ConsumeOnce, RefuseCommit, Drop
<1>4. PICK plan : plan = holder[h].plan
  OBVIOUS
<1>5. Preconditions(plan) /\ Install(plan) /\ holder[h].state = "Committing"
  BY <1>2, <1>3, <1>4 DEF Commit, LoseAcknowledgement
<1>6. PlanSound(plan) /\ PlanOver(plan.kind, plan.result)
  BY <1>4, <1>5, CommitterSound DEF Preconditions
<1> QED BY <1>5, <1>6

\* A settled row stays, a use is committed over an approved row only, and authority is
\* judged by the registry in force at the commit (domain/approval.rs commit_state).
THEOREM LifecycleIsKept == Spec => LifecycleTruth
<1>1. ApprovalInv /\ [Next]_vars =>
        [/\ record.phase \in Terminal => record'.phase = record.phase
         /\ effects' # effects =>
                /\ record.phase = "ApprovedOnce"
                /\ record.resolution.decision.choice = "ApproveOnce"
                /\ record'.resolution = record.resolution]_vars
  <2> SUFFICES ASSUME ApprovalInv, Next, record' # record \/ effects' # effects
               PROVE  /\ record.phase \in Terminal => record'.phase = record.phase
                      /\ effects' # effects =>
                             /\ record.phase = "ApprovedOnce"
                             /\ record.resolution.decision.choice = "ApproveOnce"
                             /\ record'.resolution = record.resolution
    OBVIOUS
  <2>1. PICK plan : /\ PlanSound(plan) /\ PlanOver(plan.kind, plan.result)
                    /\ Preconditions(plan) /\ Install(plan)
    BY RowChange
  <2>2. /\ record'.phase = plan.result.phase /\ record'.resolution = plan.result.resolution
        /\ effects' # effects => plan.kind = "Use"
    BY <2>1 DEF Install
  <2>3. record.phase = "ApprovedOnce" => record.resolution.decision.choice = "ApproveOnce"
    BY DEF ApprovalInv, RecordInv, Coherent
  <2> QED BY <2>1, <2>2, <2>3 DEF PlanOver
<1>2. ApprovalInv /\ [Next]_vars =>
        [(record'.phase # record.phase /\ record'.phase \in {"ApprovedOnce", "AmendmentAuthorized",
                                                            "Denied", "Consumed"})
          => LET decision == record'.resolution.decision
             IN  /\ decision.revision = registry.revision
                 /\ decision.approver \in registry.enabled \cap Independent]_vars
  <2> SUFFICES ASSUME ApprovalInv, Next, record'.phase # record.phase,
                      record'.phase \in {"ApprovedOnce", "AmendmentAuthorized",
                                         "Denied", "Consumed"}
               PROVE  /\ record'.resolution.decision.revision = registry.revision
                      /\ record'.resolution.decision.approver \in registry.enabled \cap Independent
    OBVIOUS
  <2>1. PICK plan : /\ PlanSound(plan) /\ PlanOver(plan.kind, plan.result)
                    /\ Preconditions(plan) /\ Install(plan)
    BY RowChange
  <2>2. record'.phase = plan.result.phase /\ record'.resolution = plan.result.resolution
    BY <2>1 DEF Install
  <2>3. plan.result.resolution # None /\ Authentic(plan.result.resolution)
    BY <2>1, <2>2 DEF PlanSound, Coherent
  <2>4. plan.binding = plan.result.resolution.registry
    BY <2>1, <2>3 DEF PlanSound
  <2>5. plan.binding = registry
    <3>1. plan.binding # None
      BY <2>3, <2>4, NoneIsNothing DEF Authentic, Resolutions, Registries
    <3> QED BY <2>1, <3>1 DEF Preconditions, RegistryCurrent
  <2> QED BY <2>2, <2>3, <2>4, <2>5 DEF Authentic, CheckedCredential
<1> QED
  BY <1>1, <1>2, ApprovalInvariant, PTL
  DEF Spec, LifecycleTruth, DurableLifecycle, AuthorizedByCurrent
=============================================================================
