------------------------- MODULE CoordinationProofs -------------------------
(***************************************************************************)
(* Theorems about the aggregates agents coordinate through: the exclusive   *)
(* lease of a workspace (Leases) and the delegation tree (Collaboration).   *)
(*                                                                          *)
(* The stored lease always loads, its uses are exclusive, and the workspace *)
(* changes hands only after quiescence, for any number of clients and       *)
(* holders and any bounds of the counters.                                  *)
(*                                                                          *)
(* The collaboration theorems hold for every set of tasks, actors and       *)
(* messages and every limit.  The tree is reasoned about through three      *)
(* facts about Ancestry: it holds the task, it is closed under parents, and *)
(* it is the least such set.                                                *)
(***************************************************************************)
EXTENDS Leases, Collaboration, RecursionTheorems, TLAPS

------------------------------------------------------------------------------
(* Leases: the inductive invariant.                                        *)

\* What replay demands of an aggregate, and the reserve of its version.
Loadable(a) ==
    /\ a \in Aggregate
    /\ a.phase # "Absent" => a.generation >= 1
    /\ a.phase = "Active" =>
         /\ a.active.holder \in Holder
         /\ a.active.claim_version \in 1..a.version
         /\ a.active.issued <= a.tick /\ a.tick < a.active.expires
         /\ a.version < MaxVersion
    /\ a.phase \in {"Reconciling", "Quarantined"} =>
         a.fence.generation >= 1 /\ a.fence.generation + 1 = a.generation
    /\ a.phase \in {"Available", "Reconciling"} => a.version < MaxVersion - 1

\* The step of the aggregate that plan p takes, when it is made over the stored
\* lease: who may be using the workspace before and after it.
Mints(p) ==
    lease.phase = "Absent" /\ p.next.phase = "Available" /\ p.use = {} /\ p.next.generation = 1

Holds(p) ==
    /\ p.next.phase = "Active" /\ p.next.generation = lease.generation
    /\ \/ lease.phase = "Available" /\ p.use = {}
       \/ /\ lease.phase = "Active"
          /\ p.next.active.holder = lease.active.holder
          /\ \A u \in p.use : /\ u.generation = lease.generation
                              /\ u.holder = lease.active.holder
                              /\ u.version = lease.version + 1
          /\ \A u, w \in p.use : u = w

Retires(p) ==
    /\ p.next.phase = "Retired" /\ p.use = {}
    /\ p.next.generation = lease.generation

Frees(p) ==
    /\ lease.phase = "Active" /\ p.next.phase = "Available" /\ p.use = {}
    /\ p.next.generation = lease.generation + 1 /\ lease.generation \in p.quiet

Fences(p) ==
    /\ lease.phase = "Active" /\ p.next.phase = "Reconciling" /\ p.use = {}
    /\ p.next.generation = lease.generation + 1

Clears(p) ==
    /\ lease.phase = "Reconciling" /\ p.next.phase = "Available" /\ p.use = {}
    /\ p.next.generation = lease.generation /\ lease.fence.generation \in p.quiet

Quarantines(p) ==
    /\ lease.phase = "Reconciling" /\ p.next.phase = "Quarantined" /\ p.use = {}
    /\ p.next.generation = lease.generation

Prepared(p) ==
    /\ Loadable(p.next)
    /\ \/ Mints(p) \/ Holds(p) \/ Retires(p) \/ Frees(p)
       \/ Fences(p) \/ Clears(p) \/ Quarantines(p)

\* A plan is never ahead of the store, and one whose expected version is stored
\* was made over the stored lease.
PlansPrepared ==
    \A c \in Client :
        plan[c] # NoPlan =>
            /\ plan[c].expected <= lease.version
            /\ plan[c].next.version = plan[c].expected + 1
            /\ plan[c].expected = lease.version => Prepared(plan[c])

\* Uses lie behind the stored version, and the present generation has been used
\* by its holder only, or by nobody when it has none yet.
UsesBehind ==
    /\ \A u \in uses : u.version <= lease.version /\ u.generation <= lease.generation
    /\ lease.phase \in {"Absent", "Available", "Reconciling", "Quarantined"} =>
         \A u \in uses : u.generation # lease.generation
    /\ lease.phase = "Active" =>
         \A u \in uses : u.generation = lease.generation => u.holder = lease.active.holder

\* While a fence is pending, only its own generation may still be in use.
FencePending ==
    lease.phase \in {"Reconciling", "Quarantined"} =>
        \A u \in uses : u.generation < lease.generation =>
            u.generation \in quiet \/ u.generation = lease.fence.generation

LeaseInv ==
    /\ LeaseTypeOK /\ Loadable(lease) /\ (lease.phase = "Absent" => lease = Absent)
    /\ PlansPrepared
    /\ UsesBehind /\ UsesExclusive
    /\ HandoverAfterQuiescence /\ FencePending

----------------------------------------------------------------------------
(* A command leaves a plan that is prepared.                               *)

LEMMA InitLease == LeaseInit => LeaseInv
<1> SUFFICES ASSUME LeaseInit PROVE LeaseInv
  OBVIOUS
<1> USE LeasesAssumption
<1>1. Absent \in Aggregate
  BY DEF Absent, Aggregate, NoActive, NoFence, Active, Fence, Phase
<1>2. NoPlan \in Plan
  BY <1>1 DEF NoPlan, Plan
<1>3. LeaseTypeOK
  BY <1>1, <1>2 DEF LeaseInit, LeaseTypeOK
<1>4. Loadable(lease)
  BY <1>1 DEF LeaseInit, Loadable, Absent
<1> QED
  BY <1>3, <1>4
  DEF LeaseInit, LeaseInv, PlansPrepared, UsesBehind, UsesExclusive, HandoverAfterQuiescence,
      FencePending

\* A submitted plan that is prepared keeps the invariant: the store is as it was.
LEMMA SubmitInv ==
  ASSUME LeaseInv, NEW c \in Client, NEW next \in Aggregate, NEW use \in SUBSET Use,
         NEW evidence \in SUBSET (1..MaxGeneration),
         Submit(c, next, use, evidence), next.version = lease.version + 1,
         Prepared([expected |-> lease.version, next |-> next, use |-> use,
                   quiet |-> evidence])
  PROVE  LeaseInv'
<1> DEFINE p == [expected |-> lease.version, next |-> next, use |-> use, quiet |-> evidence]
<1>1. UNCHANGED <<lease, epoch, uses, quiet>>
  BY DEF Submit
<1>2. p \in Plan /\ plan' = [plan EXCEPT ![c] = p]
  BY DEF Submit, Plan, LeaseInv, LeaseTypeOK, Aggregate
<1>3. LeaseTypeOK'
  BY <1>1, <1>2 DEF LeaseInv, LeaseTypeOK
<1>4. ASSUME NEW d \in Client, plan'[d] # NoPlan
      PROVE  /\ plan'[d].expected <= lease.version
             /\ plan'[d].next.version = plan'[d].expected + 1
             /\ plan'[d].expected = lease.version => Prepared(plan'[d])
  <2>1. CASE d = c
    <3>1. plan'[d] = p
      BY <1>2, <2>1 DEF LeaseInv, LeaseTypeOK
    <3> QED BY <3>1 DEF LeaseInv, LeaseTypeOK, Aggregate
  <2>2. CASE d # c
    <3>1. plan'[d] = plan[d]
      BY <1>2, <2>2 DEF LeaseInv, LeaseTypeOK
    <3> QED BY <1>4, <3>1 DEF LeaseInv, PlansPrepared
  <2> QED BY <2>1, <2>2
<1>5. PlansPrepared'
  BY <1>1, <1>4
  DEF PlansPrepared, Prepared, Mints, Holds, Retires, Frees, Fences, Clears, Quarantines
<1> QED
  BY <1>1, <1>3, <1>5
  DEF LeaseInv, UsesBehind, UsesExclusive, HandoverAfterQuiescence, FencePending

\* The provers see a chain of updates one update at a time.
LEMMA Updated ==
  ASSUME NEW a \in Aggregate
  PROVE  /\ a = [phase |-> a.phase, generation |-> a.generation, version |-> a.version,
                 epoch |-> a.epoch, tick |-> a.tick, active |-> a.active, fence |-> a.fence]
         /\ \A ph, active :
              [a EXCEPT !.phase = ph, !.active = active]
                = [phase |-> ph, generation |-> a.generation, version |-> a.version,
                   epoch |-> a.epoch, tick |-> a.tick, active |-> active, fence |-> a.fence]
         /\ \A ph, fence :
              [a EXCEPT !.phase = ph, !.fence = fence]
                = [phase |-> ph, generation |-> a.generation, version |-> a.version,
                   epoch |-> a.epoch, tick |-> a.tick, active |-> a.active, fence |-> fence]
<1>1. a = [phase |-> a.phase, generation |-> a.generation, version |-> a.version,
           epoch |-> a.epoch, tick |-> a.tick, active |-> a.active, fence |-> a.fence]
  BY DEF Aggregate
<1>2. ASSUME NEW ph, NEW x, NEW b,
             b = [a EXCEPT !.phase = ph]
      PROVE  /\ [b EXCEPT !.active = x]
                  = [phase |-> ph, generation |-> a.generation, version |-> a.version,
                     epoch |-> a.epoch, tick |-> a.tick, active |-> x, fence |-> a.fence]
             /\ [b EXCEPT !.fence = x]
                  = [phase |-> ph, generation |-> a.generation, version |-> a.version,
                     epoch |-> a.epoch, tick |-> a.tick, active |-> a.active, fence |-> x]
  <2>1. b = [phase |-> ph, generation |-> a.generation, version |-> a.version,
             epoch |-> a.epoch, tick |-> a.tick, active |-> a.active, fence |-> a.fence]
    BY <1>1, <1>2
  <2> QED BY <2>1
<1> QED BY <1>1, <1>2, Zenon

\* What a reducer does to the stored lease besides its own fields.
LEMMA AtType ==
  ASSUME LeaseInv, NEW t \in Instant, lease.version < MaxVersion
  PROVE  /\ At(t) \in Aggregate
         /\ At(t) = [phase |-> lease.phase, generation |-> lease.generation,
                     version |-> lease.version + 1, epoch |-> t.epoch, tick |-> t.tick,
                     active |-> lease.active, fence |-> lease.fence]
<1> USE LeasesAssumption
<1>1. lease \in Aggregate
  BY DEF LeaseInv, LeaseTypeOK
<1>2. ASSUME NEW b, b = [lease EXCEPT !.version = @ + 1]
      PROVE  b = [phase |-> lease.phase, generation |-> lease.generation,
                  version |-> lease.version + 1, epoch |-> lease.epoch, tick |-> lease.tick,
                  active |-> lease.active, fence |-> lease.fence]
  BY <1>1, <1>2 DEF Aggregate
<1>3. ASSUME NEW b, b = [phase |-> lease.phase, generation |-> lease.generation,
                  version |-> lease.version + 1, epoch |-> lease.epoch, tick |-> lease.tick,
                  active |-> lease.active, fence |-> lease.fence], NEW d, d = [b EXCEPT !.epoch = t.epoch]
      PROVE  d = [phase |-> lease.phase, generation |-> lease.generation,
                  version |-> lease.version + 1, epoch |-> t.epoch, tick |-> lease.tick,
                  active |-> lease.active, fence |-> lease.fence]
  BY <1>3
<1>4. ASSUME NEW b, b = [phase |-> lease.phase, generation |-> lease.generation,
                  version |-> lease.version + 1, epoch |-> t.epoch, tick |-> lease.tick,
                  active |-> lease.active, fence |-> lease.fence]
      PROVE  [b EXCEPT !.tick = t.tick] = [phase |-> lease.phase, generation |-> lease.generation,
                  version |-> lease.version + 1, epoch |-> t.epoch, tick |-> t.tick,
                  active |-> lease.active, fence |-> lease.fence]
  BY <1>4
<1>5. At(t) = [phase |-> lease.phase, generation |-> lease.generation,
               version |-> lease.version + 1, epoch |-> t.epoch, tick |-> t.tick,
               active |-> lease.active, fence |-> lease.fence]
  BY <1>2, <1>3, <1>4, Zenon DEF At
<1> QED
  BY <1>1, <1>5 DEF Aggregate, Instant

LEMMA MintInv ==
  ASSUME LeaseInv, NEW c \in Client, NEW t \in Instant, Mint(c, t)
  PROVE  LeaseInv'
<1> DEFINE next == [phase |-> "Available", generation |-> 1, version |-> 1,
                    epoch |-> t.epoch, tick |-> t.tick,
                    active |-> NoActive, fence |-> NoFence]
<1> USE LeasesAssumption
<1>1. lease = Absent
  BY DEF Mint, LeaseInv
<1>2. next \in Aggregate
  BY DEF Aggregate, NoActive, NoFence, Active, Fence, Phase, Instant
<1>3. next.version = lease.version + 1
  BY <1>1 DEF Absent
<1>4. Prepared([expected |-> lease.version, next |-> next, use |-> {}, quiet |-> {}])
  BY <1>2 DEF Mint, Prepared, Mints, Loadable
<1>5. Submit(c, next, {}, {})
  BY DEF Mint
<1> HIDE DEF next
<1> QED
  BY <1>2, <1>3, <1>4, <1>5, SubmitInv

LEMMA AcquireInv ==
  ASSUME LeaseInv, NEW c \in Client, NEW t \in Instant, NEW h \in Holder,
         NEW d \in 1..MaxTick, Acquire(c, h, d, t)
  PROVE  LeaseInv'
<1> DEFINE active == Claim(h, 1, d, t)
           next == [At(t) EXCEPT !.phase = "Active", !.active = active]
<1> USE LeasesAssumption
<1>1. lease \in Aggregate /\ lease.version < MaxVersion - 1 /\ lease.phase = "Available"
  BY DEF LeaseInv, LeaseTypeOK, Acquire, VersionLeft
<1>2. active \in Active /\ active.holder = h /\ active.claim_version = 1
      /\ active.issued = t.tick /\ active.expires = t.tick + d
  BY DEF Claim, Acquire, DeadlineFits, Active, Instant
<1> HIDE DEF active
<1>3. next = [phase |-> "Active", generation |-> lease.generation,
              version |-> lease.version + 1, epoch |-> t.epoch, tick |-> t.tick,
              active |-> active, fence |-> lease.fence]
  <2>1. lease.version < MaxVersion
    BY <1>1 DEF Aggregate
  <2>2. /\ At(t).generation = lease.generation /\ At(t).version = lease.version + 1
        /\ At(t).epoch = t.epoch /\ At(t).tick = t.tick /\ At(t).fence = lease.fence
    BY <2>1, AtType
  <2>3. next = [phase |-> "Active", generation |-> At(t).generation,
                version |-> At(t).version, epoch |-> At(t).epoch, tick |-> At(t).tick,
                active |-> active, fence |-> At(t).fence]
    <3>1. At(t) \in Aggregate
      BY <2>1, AtType
    <3>2. \A a \in Aggregate : \A ph, x :
            [a EXCEPT !.phase = ph, !.active = x]
              = [phase |-> ph, generation |-> a.generation, version |-> a.version,
                 epoch |-> a.epoch, tick |-> a.tick, active |-> x, fence |-> a.fence]
      BY Updated, Zenon
    <3> QED BY <3>1, <3>2, Zenon
  <2> QED BY <2>2, <2>3, Zenon
<1>4. Submit(c, next, {}, {})
  BY DEF Acquire, active
<1> HIDE DEF next
<1>5. next \in Aggregate
  BY <1>1, <1>2, <1>3 DEF Aggregate, Instant, Phase
<1>6. Loadable(next)
  BY <1>1, <1>2, <1>3, <1>5 DEF Loadable, LeaseInv, Aggregate, Instant
<1>7. Prepared([expected |-> lease.version, next |-> next, use |-> {}, quiet |-> {}])
  BY <1>1, <1>3, <1>6 DEF Prepared, Holds
<1>8. next.version = lease.version + 1
  BY <1>3
<1> QED
  BY <1>4, <1>5, <1>7, <1>8, SubmitInv

LEMMA RenewInv ==
  ASSUME LeaseInv, NEW c \in Client, NEW t \in Instant, NEW d \in 1..MaxTick, Renew(c, d, t)
  PROVE  LeaseInv'
<1> DEFINE active == Claim(lease.active.holder, lease.active.claim_version + 1, d, t)
           next == [At(t) EXCEPT !.active = active]
<1> USE LeasesAssumption
<1>1. lease \in Aggregate /\ lease.version < MaxVersion - 1 /\ lease.phase = "Active"
  BY DEF LeaseInv, LeaseTypeOK, Renew, VersionLeft
<1>2. /\ active \in Active /\ active.holder = lease.active.holder
      /\ active.claim_version = lease.active.claim_version + 1
      /\ active.issued = t.tick /\ active.expires = t.tick + d
  BY <1>1 DEF Claim, Renew, DeadlineFits, Active, Instant, LeaseInv, Loadable, Aggregate
<1>3. lease.active.holder \in Holder /\ lease.active.claim_version \in 1..lease.version
  BY <1>1 DEF LeaseInv, Loadable
<1>4. Submit(c, next, {}, {})
  BY DEF Renew
<1> HIDE DEF active
<1>5. next = [phase |-> "Active", generation |-> lease.generation,
              version |-> lease.version + 1, epoch |-> t.epoch, tick |-> t.tick,
              active |-> active, fence |-> lease.fence]
  <2>1. lease.version < MaxVersion
    BY <1>1 DEF Aggregate
  <2> QED BY <1>1, <2>1, AtType
<1> HIDE DEF next
<1>6. next \in Aggregate
  BY <1>1, <1>2, <1>5 DEF Aggregate, Instant
<1>7. Loadable(next)
  BY <1>1, <1>2, <1>3, <1>5, <1>6 DEF Loadable, LeaseInv, Aggregate, Instant
<1>8. Prepared([expected |-> lease.version, next |-> next, use |-> {}, quiet |-> {}])
  BY <1>1, <1>2, <1>5, <1>7 DEF Prepared, Holds
<1>9. next.version = lease.version + 1
  BY <1>5
<1> QED
  BY <1>4, <1>6, <1>8, <1>9, SubmitInv

LEMMA AuthorizeUseInv ==
  ASSUME LeaseInv, NEW c \in Client, NEW t \in Instant, AuthorizeUse(c, t)
  PROVE  LeaseInv'
<1> DEFINE use == [generation |-> lease.generation, holder |-> lease.active.holder,
                   claim_version |-> lease.active.claim_version,
                   version |-> lease.version + 1]
<1> USE LeasesAssumption
<1>1. lease \in Aggregate /\ lease.version < MaxVersion - 1 /\ lease.phase = "Active"
  BY DEF LeaseInv, LeaseTypeOK, AuthorizeUse, VersionLeft
<1>2. /\ At(t) \in Aggregate
      /\ At(t) = [phase |-> "Active", generation |-> lease.generation,
                  version |-> lease.version + 1, epoch |-> t.epoch, tick |-> t.tick,
                  active |-> lease.active, fence |-> lease.fence]
  <2>1. lease.version < MaxVersion
    BY <1>1 DEF Aggregate
  <2> QED BY <1>1, <2>1, AtType
<1>3. Loadable(At(t))
  BY <1>1, <1>2
  DEF Loadable, LeaseInv, Aggregate, Active, Instant, AuthorizeUse, Follows, BeforeExpiry
<1>4. {use} \in SUBSET Use
  BY <1>1 DEF Use, LeaseInv, Loadable, Aggregate, Active
<1>5. Prepared([expected |-> lease.version, next |-> At(t), use |-> {use}, quiet |-> {}])
  BY <1>1, <1>2, <1>3 DEF Prepared, Holds
<1>6. Submit(c, At(t), {use}, {})
  BY DEF AuthorizeUse
<1>7. At(t).version = lease.version + 1
  BY <1>2
<1> HIDE DEF use
<1>8. At(t) \in Aggregate
  BY <1>2
<1> QED
  BY <1>4, <1>5, <1>6, <1>7, <1>8, SubmitInv

\* Leaving Active either retires the aggregate or starts the next generation.
LEMMA RetiredType ==
  ASSUME NEW before \in Aggregate
  PROVE  /\ Retired(before) \in Aggregate
         /\ Retired(before) = [phase |-> "Retired", generation |-> before.generation,
                               version |-> before.version, epoch |-> before.epoch,
                               tick |-> before.tick, active |-> NoActive,
                               fence |-> NoFence]
<1> USE LeasesAssumption
<1>1. ASSUME NEW b, b = [phase |-> "Retired", generation |-> before.generation,
                         version |-> before.version, epoch |-> before.epoch,
                         tick |-> before.tick, active |-> NoActive,
                         fence |-> before.fence]
      PROVE  [b EXCEPT !.fence = NoFence]
               = [phase |-> "Retired", generation |-> before.generation,
                  version |-> before.version, epoch |-> before.epoch,
                  tick |-> before.tick, active |-> NoActive, fence |-> NoFence]
  BY <1>1
<1>2. [before EXCEPT !.phase = "Retired", !.active = NoActive]
        = [phase |-> "Retired", generation |-> before.generation,
           version |-> before.version, epoch |-> before.epoch,
           tick |-> before.tick, active |-> NoActive, fence |-> before.fence]
  BY Updated, Zenon
<1>3. Retired(before) = [phase |-> "Retired", generation |-> before.generation,
                         version |-> before.version, epoch |-> before.epoch,
                         tick |-> before.tick, active |-> NoActive, fence |-> NoFence]
  BY <1>1, <1>2, Zenon DEF Retired
<1> QED
  BY <1>3 DEF Aggregate, NoActive, NoFence, Active, Fence, Phase

LEMMA FencedPrepared ==
  ASSUME LeaseInv, lease.phase = "Active", NEW before \in Aggregate,
         before.version = lease.version + 1, before.generation = lease.generation,
         NEW cause \in FenceCause \cup {"None"}, NEW evidence,
         cause = "None" => lease.generation \in evidence
  PROVE  /\ Fenced(before, cause) \in Aggregate
         /\ Fenced(before, cause).version = lease.version + 1
         /\ Prepared([expected |-> lease.version, next |-> Fenced(before, cause),
                      use |-> {}, quiet |-> evidence])
<1> DEFINE next == Fenced(before, cause)
           p == [expected |-> lease.version, next |-> next, use |-> {}, quiet |-> evidence]
<1> USE LeasesAssumption
<1>1. lease \in Aggregate /\ lease.generation >= 1 /\ lease.active.holder \in Holder
  BY DEF LeaseInv, LeaseTypeOK, Loadable
<1>2. CASE SpentAt(before.version) \/ lease.generation = MaxGeneration
  <2>1. next = Retired(before)
    BY <1>2 DEF Fenced
  <2>2. /\ next \in Aggregate /\ next.phase = "Retired"
        /\ next.generation = lease.generation /\ next.version = lease.version + 1
    BY <2>1, RetiredType
  <2> HIDE DEF next
  <2>3. Loadable(next)
    BY <1>1, <2>2 DEF Loadable
  <2>4. Retires(p)
    BY <2>2 DEF Retires
  <2> QED BY <2>2, <2>3, <2>4 DEF Prepared, next
<1>3. CASE ~(SpentAt(before.version) \/ lease.generation = MaxGeneration)
  <2> DEFINE fence == IF cause = "None" THEN NoFence
                      ELSE [generation |-> lease.generation,
                            holder |-> lease.active.holder, cause |-> cause]
             ph == IF cause = "None" THEN "Available" ELSE "Reconciling"
  <2>1. next = [phase |-> ph, generation |-> lease.generation + 1,
                version |-> before.version, epoch |-> before.epoch, tick |-> before.tick,
                active |-> NoActive, fence |-> fence]
    BY <1>3 DEF Fenced, SuccessorGeneration
  <2>2. fence \in Fence /\ (cause # "None" => fence.generation = lease.generation)
    BY <1>1 DEF Fence, NoFence, FenceCause, Aggregate
  <2>3. ph \in Phase /\ ph = (IF cause = "None" THEN "Available" ELSE "Reconciling")
    BY DEF Phase
  <2>4. before.version < MaxVersion - 1 /\ lease.generation < MaxGeneration
    BY <1>1, <1>3 DEF SpentAt, Aggregate
  <2> HIDE DEF next, fence, ph
  <2>5. next \in Aggregate
    BY <1>1, <2>1, <2>2, <2>3, <2>4 DEF Aggregate, Active, NoActive
  <2>6. Loadable(next)
    BY <1>1, <2>1, <2>2, <2>3, <2>4, <2>5 DEF Loadable, Aggregate
  <2>7. Frees(p) \/ Fences(p)
    BY <2>1, <2>3 DEF Frees, Fences
  <2> QED BY <2>1, <2>5, <2>6, <2>7 DEF Prepared, next
<1> QED
  BY <1>2, <1>3

LEMMA FencedInv ==
  ASSUME LeaseInv, NEW c \in Client, lease.phase = "Active", NEW before \in Aggregate,
         before.version = lease.version + 1, before.generation = lease.generation,
         NEW cause \in FenceCause \cup {"None"}, NEW evidence \in SUBSET (1..MaxGeneration),
         cause = "None" => lease.generation \in evidence,
         Submit(c, Fenced(before, cause), {}, evidence)
  PROVE  LeaseInv'
<1> DEFINE next == Fenced(before, cause)
<1>1. /\ next \in Aggregate /\ next.version = lease.version + 1
      /\ Prepared([expected |-> lease.version, next |-> next, use |-> {},
                   quiet |-> evidence])
  BY FencedPrepared
<1>2. Submit(c, next, {}, evidence)
  OBVIOUS
<1> HIDE DEF next
<1> QED
  BY <1>1, <1>2, SubmitInv

LEMMA ReleaseInv ==
  ASSUME LeaseInv, NEW c \in Client, NEW t \in Instant, NEW quiescent \in BOOLEAN,
         Release(c, t, quiescent)
  PROVE  LeaseInv'
<1>1. /\ lease \in Aggregate /\ lease.phase = "Active" /\ lease.version < MaxVersion
      /\ lease.generation \in 1..MaxGeneration
  BY DEF LeaseInv, LeaseTypeOK, Loadable, Aggregate, Release
<1>2. /\ At(t) \in Aggregate /\ At(t).version = lease.version + 1
      /\ At(t).generation = lease.generation
  BY <1>1, AtType
<1> DEFINE cause == IF quiescent THEN "None" ELSE "ReleasedWithoutQuiescence"
           evidence == IF quiescent THEN {lease.generation} ELSE {}
<1>3. /\ cause \in FenceCause \cup {"None"} /\ evidence \in SUBSET (1..MaxGeneration)
      /\ cause = "None" => lease.generation \in evidence
  BY <1>1 DEF FenceCause
<1>4. Submit(c, Fenced(At(t), cause), {}, evidence)
  BY DEF Release
<1> HIDE DEF cause, evidence
<1> QED
  BY <1>1, <1>2, <1>3, <1>4, FencedInv

LEMMA ExpireInv ==
  ASSUME LeaseInv, NEW c \in Client, NEW t \in Instant, Expire(c, t)
  PROVE  LeaseInv'
<1>1. /\ lease \in Aggregate /\ lease.phase = "Active" /\ lease.version < MaxVersion
      /\ lease.generation \in 1..MaxGeneration
  BY DEF LeaseInv, LeaseTypeOK, Loadable, Aggregate, Expire
<1>2. /\ At(t) \in Aggregate /\ At(t).version = lease.version + 1
      /\ At(t).generation = lease.generation
  BY <1>1, AtType
<1>3. Submit(c, Fenced(At(t), "Expired"), {}, {})
  BY DEF Expire
<1> QED
  BY <1>1, <1>2, <1>3, FencedInv DEF FenceCause

LEMMA FenceHolderLossInv ==
  ASSUME LeaseInv, NEW c \in Client, NEW t \in Instant, FenceHolderLoss(c, t)
  PROVE  LeaseInv'
<1>1. /\ lease \in Aggregate /\ lease.phase = "Active" /\ lease.version < MaxVersion
      /\ lease.generation \in 1..MaxGeneration
  BY DEF LeaseInv, LeaseTypeOK, Loadable, Aggregate, FenceHolderLoss
<1>2. /\ At(t) \in Aggregate /\ At(t).version = lease.version + 1
      /\ At(t).generation = lease.generation
  BY <1>1, AtType
<1>3. Submit(c, Fenced(At(t), "HolderLost"), {}, {})
  BY DEF FenceHolderLoss
<1> QED
  BY <1>1, <1>2, <1>3, FencedInv DEF FenceCause

LEMMA RevokeInv ==
  ASSUME LeaseInv, NEW c \in Client, NEW t \in Instant, Revoke(c, t)
  PROVE  LeaseInv'
<1>1. /\ lease \in Aggregate /\ lease.phase = "Active" /\ lease.version < MaxVersion
      /\ lease.generation \in 1..MaxGeneration
  BY DEF LeaseInv, LeaseTypeOK, Loadable, Aggregate, Revoke
<1>2. /\ At(t) \in Aggregate /\ At(t).version = lease.version + 1
      /\ At(t).generation = lease.generation
  BY <1>1, AtType
<1>3. Submit(c, Fenced(At(t), "Revoked"), {}, {})
  BY DEF Revoke
<1> QED
  BY <1>1, <1>2, <1>3, FencedInv DEF FenceCause

LEMMA FenceClockDiscontinuityInv ==
  ASSUME LeaseInv, NEW c \in Client, NEW t \in Instant, FenceClockDiscontinuity(c, t)
  PROVE  LeaseInv'
<1> DEFINE before == IF t.epoch = lease.epoch THEN [lease EXCEPT !.version = @ + 1] ELSE At(t)
<1>1. /\ lease \in Aggregate /\ lease.phase = "Active" /\ lease.version < MaxVersion
  BY DEF LeaseInv, LeaseTypeOK, Loadable, FenceClockDiscontinuity
<1>2. /\ before \in Aggregate /\ before.version = lease.version + 1
      /\ before.generation = lease.generation
  <2>1. CASE t.epoch = lease.epoch
    BY <1>1, <2>1, LeasesAssumption DEF Aggregate
  <2>2. CASE t.epoch # lease.epoch
    BY <1>1, <2>2, AtType
  <2> QED BY <2>1, <2>2
<1>3. Submit(c, Fenced(before, "ClockDiscontinuity"), {}, {})
  BY DEF FenceClockDiscontinuity
<1> HIDE DEF before
<1> QED
  BY <1>1, <1>2, <1>3, FencedInv DEF FenceCause

LEMMA ReconcileInv ==
  ASSUME LeaseInv, NEW c \in Client, NEW t \in Instant, NEW disposition \in Disposition,
         Reconcile(c, t, disposition)
  PROVE  LeaseInv'
<1> DEFINE before == At(t)
           next == IF SpentAt(before.version) THEN Retired(before)
                   ELSE IF Safe(disposition)
                   THEN [before EXCEPT !.phase = "Available", !.fence = NoFence]
                   ELSE [before EXCEPT !.phase = "Quarantined"]
           evidence == IF disposition = "SafeToAcquire" THEN {lease.fence.generation} ELSE {}
           p == [expected |-> lease.version, next |-> next, use |-> {}, quiet |-> evidence]
<1> USE LeasesAssumption
<1>1. /\ lease \in Aggregate /\ lease.phase = "Reconciling"
      /\ lease.version < MaxVersion - 1 /\ lease.version < MaxVersion
      /\ lease.fence.generation \in 1..MaxGeneration
      /\ lease.fence.generation + 1 = lease.generation
  BY DEF LeaseInv, LeaseTypeOK, Loadable, Reconcile, VersionLeft, Aggregate, Fence
<1>2. /\ before \in Aggregate
      /\ before.phase = lease.phase /\ before.generation = lease.generation
      /\ before.version = lease.version + 1 /\ before.fence = lease.fence
  BY <1>1, AtType
<1>3. Submit(c, next, {}, evidence)
  BY DEF Reconcile
<1>4. evidence \in SUBSET (1..MaxGeneration)
  BY <1>1
<1> HIDE DEF before
<1>5. CASE SpentAt(before.version)
  <2>1. next = Retired(before)
    BY <1>5
  <2> HIDE DEF next
  <2>2. /\ next \in Aggregate /\ next.phase = "Retired"
        /\ next.generation = lease.generation /\ next.version = lease.version + 1
    BY <1>2, <2>1, RetiredType
  <2>3. Loadable(next)
    BY <1>1, <2>2 DEF Loadable, Aggregate
  <2>4. Retires(p)
    BY <2>2 DEF Retires
  <2> QED BY <1>3, <1>4, <2>2, <2>3, <2>4, SubmitInv DEF Prepared
<1>6. CASE ~SpentAt(before.version) /\ Safe(disposition)
  <2>1. next = [phase |-> "Available", generation |-> before.generation,
                version |-> before.version, epoch |-> before.epoch, tick |-> before.tick,
                active |-> before.active, fence |-> NoFence]
    <3>1. next = [before EXCEPT !.phase = "Available", !.fence = NoFence]
      BY <1>6
    <3>2. \A ph, x :
            [before EXCEPT !.phase = ph, !.fence = x]
              = [phase |-> ph, generation |-> before.generation,
                 version |-> before.version, epoch |-> before.epoch,
                 tick |-> before.tick, active |-> before.active, fence |-> x]
      BY <1>2, Updated, Zenon
    <3> QED BY <3>1, <3>2, Zenon
  <2>2. lease.fence.generation \in evidence
    BY <1>6 DEF Safe
  <2>3. before.version < MaxVersion - 1
    BY <1>1, <1>2, <1>6 DEF SpentAt, Aggregate
  <2> HIDE DEF next, evidence
  <2>4. next \in Aggregate
    BY <1>2, <2>1 DEF Aggregate, NoFence, Fence, Phase
  <2>5. Loadable(next)
    BY <1>1, <1>2, <2>1, <2>3, <2>4 DEF Loadable, Aggregate, Fence
  <2>6. Clears(p)
    BY <1>1, <1>2, <2>1, <2>2 DEF Clears
  <2>7. next.version = lease.version + 1
    BY <1>2, <2>1
  <2> QED BY <1>3, <1>4, <2>4, <2>5, <2>6, <2>7, SubmitInv DEF Prepared
<1>7. CASE ~SpentAt(before.version) /\ ~Safe(disposition)
  <2>1. next = [before EXCEPT !.phase = "Quarantined"]
    BY <1>7
  <2>2. /\ next \in Aggregate /\ next.phase = "Quarantined"
        /\ next.generation = lease.generation /\ next.version = lease.version + 1
        /\ next.fence = lease.fence
    BY <1>2, <2>1 DEF Aggregate, Phase
  <2> HIDE DEF next, evidence
  <2>3. Loadable(next)
    BY <1>1, <2>2 DEF Loadable, Aggregate, Fence
  <2>4. Quarantines(p)
    BY <1>1, <2>2 DEF Quarantines
  <2> QED BY <1>3, <1>4, <2>2, <2>3, <2>4, SubmitInv DEF Prepared
<1> QED
  BY <1>5, <1>6, <1>7

----------------------------------------------------------------------------
(* A commit installs a prepared step.                                      *)

\* What a prepared step does to the uses of the workspace.
LEMMA InstallUses ==
  ASSUME LeaseInv, NEW p \in Plan, Prepared(p), p.next.version = lease.version + 1,
         lease' = p.next, uses' = uses \cup p.use, quiet' = quiet \cup p.quiet
  PROVE  UsesBehind' /\ UsesExclusive' /\ HandoverAfterQuiescence' /\ FencePending'
<1>1. /\ lease.generation \in Nat /\ lease.version \in Nat
      /\ p.next.generation \in Nat /\ p.next.phase # "Absent"
      /\ \A u \in uses : u.generation \in Nat /\ u.version \in Nat
      /\ lease.fence.generation \in Nat /\ p.next.fence.generation \in Nat
  BY LeasesAssumption
  DEF LeaseInv, LeaseTypeOK, Aggregate, Fence, Use, Plan, Prepared, Mints, Holds, Retires, Frees,
      Fences, Clears, Quarantines
<1> USE <1>1 DEF LeaseInv, UsesBehind, UsesExclusive, HandoverAfterQuiescence, FencePending
<1>2. CASE Mints(p)
  BY <1>2 DEF Mints, Absent
<1>3. CASE Holds(p)
  BY <1>3 DEF Holds
<1>4. CASE Retires(p)
  BY <1>4 DEF Retires
<1>5. CASE Frees(p)
  BY <1>5 DEF Frees
<1>6. CASE Fences(p)
  BY <1>6 DEF Fences, Prepared, Loadable
<1>7. CASE Clears(p)
  BY <1>7 DEF Clears
<1>8. CASE Quarantines(p)
  BY <1>8 DEF Quarantines, Prepared, Loadable
<1> QED
  BY <1>2, <1>3, <1>4, <1>5, <1>6, <1>7, <1>8 DEF Prepared

\* A version increases with every commit, so the plans left behind are stale.
LEMMA CommitInv ==
  ASSUME LeaseInv, NEW c \in Client, Commit(c)
  PROVE  LeaseInv'
<1>1. /\ plan \in [Client -> Plan] /\ plan[c] \in Plan /\ plan[c] # NoPlan
      /\ plan' = [plan EXCEPT ![c] = NoPlan] /\ NoPlan \in Plan
  BY LeasesAssumption
  DEF LeaseInv, LeaseTypeOK, Commit, NoPlan, Plan, Absent, Aggregate, NoActive, NoFence, Active,
      Fence, Phase
<1>2. \A d \in Client : plan'[d] # NoPlan => plan'[d] = plan[d]
  BY <1>1
<1>3. CASE Expected(c)
  <2>1. /\ lease' = plan[c].next /\ uses' = uses \cup plan[c].use
        /\ quiet' = quiet \cup plan[c].quiet /\ epoch' = epoch
    BY <1>3 DEF Commit
  <2>2. Prepared(plan[c]) /\ plan[c].next.version = lease.version + 1
    BY <1>1, <1>3 DEF Expected, LeaseInv, PlansPrepared
  <2>3. UsesBehind' /\ UsesExclusive' /\ HandoverAfterQuiescence' /\ FencePending'
    BY <1>1, <2>1, <2>2, InstallUses
  <2>4. LeaseTypeOK'
    <3>1. /\ lease' \in Aggregate /\ plan[c].use \in SUBSET Use
          /\ plan[c].quiet \in SUBSET (1..MaxGeneration)
      BY <1>1, <2>1 DEF Plan
    <3> QED BY <1>1, <2>1, <3>1 DEF LeaseInv, LeaseTypeOK
  <2>5. Loadable(lease)' /\ lease'.phase # "Absent"
    BY <2>1, <2>2
    DEF Prepared, Loadable, Mints, Holds, Retires, Frees, Fences, Clears, Quarantines
  <2>6. PlansPrepared'
    <3>1. lease.version \in Nat /\ lease'.version = lease.version + 1
      BY <2>1, <2>2, LeasesAssumption DEF LeaseInv, LeaseTypeOK, Aggregate
    <3>2. \A d \in Client : plan[d].expected \in Nat
      BY <1>1, LeasesAssumption DEF Plan
    <3>3. \A d \in Client : plan'[d] # NoPlan =>
            /\ plan'[d].expected <= lease.version
            /\ plan'[d].next.version = plan'[d].expected + 1
      BY <1>2 DEF LeaseInv, PlansPrepared
    <3>4. \A d \in Client : plan'[d] # NoPlan =>
            /\ plan'[d].expected <= lease'.version
            /\ plan'[d].expected # lease'.version
      BY <1>2, <3>1, <3>2, <3>3
    <3> QED BY <3>3, <3>4 DEF PlansPrepared
  <2> QED BY <2>3, <2>4, <2>5, <2>6 DEF LeaseInv
<1>4. CASE ~Expected(c)
  <2>1. UNCHANGED <<lease, uses, quiet, epoch>>
    BY <1>4 DEF Commit
  <2> QED
    BY <1>1, <1>2, <2>1
    DEF LeaseInv, LeaseTypeOK, PlansPrepared, Prepared, Mints, Holds, Retires, Frees, Fences,
        Clears, Quarantines, UsesBehind, UsesExclusive, HandoverAfterQuiescence, FencePending
<1> QED
  BY <1>3, <1>4

LEMMA AbandonInv ==
  ASSUME LeaseInv, NEW c \in Client, Abandon(c)
  PROVE  LeaseInv'
<1>1. /\ plan \in [Client -> Plan] /\ plan' = [plan EXCEPT ![c] = NoPlan] /\ NoPlan \in Plan
  BY LeasesAssumption
  DEF LeaseInv, LeaseTypeOK, Abandon, NoPlan, Plan, Absent, Aggregate, NoActive, NoFence, Active,
      Fence, Phase
<1>2. \A d \in Client : plan'[d] # NoPlan => plan'[d] = plan[d]
  BY <1>1
<1>3. UNCHANGED <<lease, uses, quiet, epoch>>
  BY DEF Abandon
<1> QED
  BY <1>1, <1>2, <1>3
  DEF LeaseInv, LeaseTypeOK, PlansPrepared, Prepared, Mints, Holds, Retires, Frees, Fences,
      Clears, Quarantines, UsesBehind, UsesExclusive, HandoverAfterQuiescence, FencePending

LEMMA StepInv == LeaseInv /\ [LeaseNext]_leaseVars => LeaseInv'
<1> SUFFICES ASSUME LeaseInv, [LeaseNext]_leaseVars PROVE LeaseInv'
  OBVIOUS
<1>1. ASSUME NEW c \in Client, Commit(c) PROVE LeaseInv'
  BY <1>1, CommitInv
<1>2. ASSUME NEW c \in Client, Abandon(c) PROVE LeaseInv'
  BY <1>2, AbandonInv
<1>3. ASSUME NEW c \in Client, NEW t \in Observed,
             \/ Mint(c, t)
             \/ \E h \in Holder, d \in 1..MaxTick : Acquire(c, h, d, t)
             \/ \E d \in 1..MaxTick : Renew(c, d, t)
             \/ AuthorizeUse(c, t)
             \/ \E quiescent \in BOOLEAN : Release(c, t, quiescent)
             \/ Expire(c, t)
             \/ FenceHolderLoss(c, t)
             \/ Revoke(c, t)
             \/ FenceClockDiscontinuity(c, t)
             \/ \E disposition \in Disposition : Reconcile(c, t, disposition)
      PROVE  LeaseInv'
  <2>1. t \in Instant
    BY DEF Observed
  <2> QED
    BY <1>3, <2>1, MintInv, AcquireInv, RenewInv, AuthorizeUseInv, ReleaseInv, ExpireInv,
       FenceHolderLossInv, RevokeInv, FenceClockDiscontinuityInv, ReconcileInv, Zenon
<1>4. CASE NewEpoch
  <2>1. UNCHANGED <<lease, plan, uses, quiet>> /\ epoch' \in 1..MaxEpoch
    BY <1>4, LeasesAssumption DEF NewEpoch, LeaseInv, LeaseTypeOK
  <2> QED
    BY <2>1
    DEF LeaseInv, LeaseTypeOK, PlansPrepared, Prepared, Mints, Holds, Retires, Frees, Fences,
        Clears, Quarantines, UsesBehind, UsesExclusive, HandoverAfterQuiescence, FencePending
<1>5. CASE UNCHANGED leaseVars
  BY <1>5
  DEF leaseVars, LeaseInv, LeaseTypeOK, PlansPrepared, Prepared, Mints, Holds, Retires, Frees, Fences,
      Clears, Quarantines, UsesBehind, UsesExclusive, HandoverAfterQuiescence, FencePending
<1> QED
  BY <1>1, <1>2, <1>3, <1>4, <1>5, Zenon DEF LeaseNext

THEOREM LeaseInvariant == LeaseSpec => []LeaseInv
  BY InitLease, StepInv, PTL DEF LeaseSpec

----------------------------------------------------------------------------
(* What the invariant says to the users of the lease.                      *)

\* Every stored aggregate passes the validation that replay runs, and keeps enough
\* of its version counter to be fenced, whatever plans are submitted late.
THEOREM LeaseAlwaysLoads == LeaseSpec => []LeaseLoads
<1>1. LeaseInv => LeaseLoads
  <2> SUFFICES ASSUME LeaseInv PROVE LeaseLoads
    OBVIOUS
  <2>1. LeaseTypeOK /\ StoredLeaseValidates /\ NeverStranded
    BY LeasesAssumption
    DEF LeaseInv, LeaseTypeOK, Loadable, StoredLeaseValidates, NeverStranded, VersionLeft
  <2> QED BY <2>1 DEF LeaseLoads
<1> QED BY <1>1, LeaseInvariant, PTL

\* One holder uses the workspace at a time, and it changes hands only after the
\* holder before has been shown quiescent.
THEOREM UseIsExclusive == LeaseSpec => []ExclusiveUse
<1>1. LeaseInv => ExclusiveUse
  BY DEF LeaseInv, ExclusiveUse
<1> QED BY <1>1, LeaseInvariant, PTL

\* Whoever held the lease holds nothing once it has left Active: only a prepared
\* step is ever installed.
THEOREM ClaimsEndWithLease == LeaseSpec => LeavingActiveFences
<1> DEFINE Left == lease.phase = "Active" /\ lease'.phase # "Active"
                     => \/ lease'.generation = lease.generation + 1
                        \/ lease'.phase = "Retired"
<1>1. LeaseInv /\ [LeaseNext]_leaseVars => [Left]_leaseVars
  <2> SUFFICES ASSUME LeaseInv, LeaseNext PROVE Left \/ UNCHANGED leaseVars
    BY DEF leaseVars
  <2>1. CASE \E c \in Client : Commit(c)
    <3>1. PICK c \in Client : Commit(c)
      BY <2>1
    <3>2. CASE Expected(c)
      <4>1. lease' = plan[c].next /\ Prepared(plan[c])
        BY <3>1, <3>2 DEF Commit, Expected, LeaseInv, PlansPrepared
      <4> QED
        BY <4>1
        DEF Prepared, Mints, Holds, Retires, Frees, Fences, Clears, Quarantines
    <3>3. CASE ~Expected(c)
      BY <3>1, <3>3 DEF Commit
    <3> QED BY <3>2, <3>3
  <2>2. CASE ~\E c \in Client : Commit(c)
    <3>1. ASSUME NEW c, NEW next, NEW use, NEW evidence, Submit(c, next, use, evidence)
          PROVE  UNCHANGED lease
      BY <3>1 DEF Submit
    <3>2. ASSUME NEW c \in Client, NEW t \in Observed,
                 \/ Mint(c, t)
                 \/ \E h \in Holder, d \in 1..MaxTick : Acquire(c, h, d, t)
                 \/ \E d \in 1..MaxTick : Renew(c, d, t)
                 \/ AuthorizeUse(c, t)
                 \/ \E quiescent \in BOOLEAN : Release(c, t, quiescent)
          PROVE  UNCHANGED lease
      BY <3>1, <3>2, Zenon DEF Mint, Acquire, Renew, AuthorizeUse, Release
    <3>3. ASSUME NEW c \in Client, NEW t \in Observed,
                 \/ Expire(c, t)
                 \/ FenceHolderLoss(c, t)
                 \/ Revoke(c, t)
                 \/ FenceClockDiscontinuity(c, t)
                 \/ \E disposition \in Disposition : Reconcile(c, t, disposition)
          PROVE  UNCHANGED lease
      BY <3>1, <3>3, Zenon
      DEF Expire, FenceHolderLoss, Revoke, FenceClockDiscontinuity, Reconcile
    <3>4. ASSUME NEW c \in Client, Abandon(c) PROVE UNCHANGED lease
      BY <3>4 DEF Abandon
    <3>5. NewEpoch => UNCHANGED lease
      BY DEF NewEpoch
    <3>6. UNCHANGED lease
      BY <2>2, <3>2, <3>3, <3>4, <3>5, Zenon DEF LeaseNext
    <3> QED BY <3>6
  <2> QED BY <2>1, <2>2
<1> QED
  BY <1>1, LeaseInvariant, PTL DEF LeaseSpec, LeavingActiveFences

------------------------------------------------------------------------------
(* Ancestry, as a function of the assignment A and the retained tasks T *)

AncestryOf(A, t) ==
  LET up[k \in 0 .. MaxDepth] ==
          IF k = 0 THEN t
          ELSE IF up[k - 1] = NoTask THEN NoTask
               ELSE A[up[k - 1]].parent
  IN  {up[k] : k \in 0 .. MaxDepth} \ {NoTask}

\* g climbs from t along the parents in A, over the steps of D.
IsUp(g, A, t, D) ==
  g = [k \in D |-> IF k = 0 THEN t
                   ELSE IF g[k - 1] = NoTask THEN NoTask ELSE A[g[k - 1]].parent]

LEMMA UpExists ==
  ASSUME NEW A, NEW t, NEW n \in Nat
  PROVE  \E g : IsUp(g, A, t, 0 .. n)
  <1> DEFINE Bad == {m \in Nat : ~ \E g : IsUp(g, A, t, 0 .. m)}
  <1>1. Bad = {}
    <2> SUFFICES ASSUME Bad # {}
                 PROVE  FALSE
      OBVIOUS
    <2>1. PICK m \in Bad : \A k \in Bad : m <= k
      BY LeastNatural
    <2>2. CASE m = 0
      <3>1. IsUp([k \in 0 .. 0 |-> t], A, t, 0 .. 0)
        BY DEF IsUp
      <3>2. QED
        BY <2>1, <2>2, <3>1
    <2>3. CASE m # 0
      <3>1. m \in Nat /\ m - 1 \in Nat /\ m - 1 \notin Bad
        BY <2>1, <2>3
      <3>2. PICK h : IsUp(h, A, t, 0 .. m - 1)
        BY <3>1
      <3> DEFINE g == [k \in 0 .. m |->
                         IF k = 0 THEN t
                         ELSE IF h[k - 1] = NoTask THEN NoTask ELSE A[h[k - 1]].parent]
      <3>3. \A k \in 0 .. m - 1 :
              h[k] = IF k = 0 THEN t
                     ELSE IF h[k - 1] = NoTask THEN NoTask ELSE A[h[k - 1]].parent
        BY <3>2 DEF IsUp
      <3>4. \A k \in 0 .. m - 1 : h[k] = g[k]
        BY <3>1, <3>3
      <3>5. \A k \in 0 .. m :
              g[k] = IF k = 0 THEN t
                     ELSE IF g[k - 1] = NoTask THEN NoTask ELSE A[g[k - 1]].parent
        <4> SUFFICES ASSUME NEW k \in 0 .. m, k # 0
                     PROVE  h[k - 1] = g[k - 1]
          OBVIOUS
        <4>1. k - 1 \in 0 .. m - 1
          BY <3>1
        <4> HIDE DEF g
        <4>2. QED
          BY <3>4, <4>1
      <3>6. IsUp(g, A, t, 0 .. m)
        BY <3>5 DEF IsUp
      <3>7. QED
        BY <2>1, <3>6
    <2>4. QED
      BY <2>2, <2>3
  <1>2. QED
    BY <1>1

LEMMA AncestryIsUp ==
  ASSUME NEW A, NEW t
  PROVE  \E g : /\ IsUp(g, A, t, 0 .. MaxDepth)
                /\ AncestryOf(A, t) = {g[k] : k \in 0 .. MaxDepth} \ {NoTask}
  <1> DEFINE g == CHOOSE h : IsUp(h, A, t, 0 .. MaxDepth)
  <1>1. MaxDepth \in Nat
    BY LimitAssumption
  <1>2. AncestryOf(A, t) = {g[k] : k \in 0 .. MaxDepth} \ {NoTask}
    BY DEF AncestryOf, IsUp
  <1>3. IsUp(g, A, t, 0 .. MaxDepth)
    BY <1>1, UpExists, Zenon
  <1>4. QED
    BY <1>2, <1>3

\* The ancestry in the current and in the next state.
LEMMA AncestryNow ==
  /\ \A t : Ancestry(t) = AncestryOf(assignment, t)
  /\ \A t : Ancestry(t)' = AncestryOf(assignment', t)
  BY DEF Ancestry, AncestryOf

\* The tasks T form a tree of bounded depth under A: every parent is in T, one
\* level up.
TreeShape(A, T) ==
  /\ NoTask \notin T
  /\ \A t \in T : /\ A[t].depth \in 0 .. MaxDepth
                  /\ A[t].parent # NoTask =>
                       /\ A[t].parent \in T
                       /\ A[t].depth = A[A[t].parent].depth + 1

ClosedUp(A, S) == \A a \in S : A[a].parent # NoTask => A[a].parent \in S

\* The climb meets tasks one level higher at every step, until it is over.
LEMMA UpDepth ==
  ASSUME NEW A, NEW T, TreeShape(A, T), NEW t \in T, NEW g, IsUp(g, A, t, 0 .. MaxDepth)
  PROVE  \A k \in 0 .. MaxDepth : \/ g[k] = NoTask
                                  \/ g[k] \in T /\ A[g[k]].depth = A[t].depth - k
  <1> DEFINE Bad == {k \in 0 .. MaxDepth :
                       ~ (\/ g[k] = NoTask
                          \/ g[k] \in T /\ A[g[k]].depth = A[t].depth - k)}
  <1>1. MaxDepth \in Nat
    BY LimitAssumption
  <1>2. \A k \in 0 .. MaxDepth :
          g[k] = IF k = 0 THEN t
                 ELSE IF g[k - 1] = NoTask THEN NoTask ELSE A[g[k - 1]].parent
    BY DEF IsUp
  <1>3. \A u \in T : A[u].depth \in Int
    BY <1>1 DEF TreeShape
  <1>4. Bad = {}
    <2> SUFFICES ASSUME Bad # {}
                 PROVE  FALSE
      OBVIOUS
    <2>0. Bad \subseteq Nat
      BY <1>1
    <2>1. PICK k \in Bad : \A j \in Bad : k <= j
      BY <2>0, LeastNatural
    <2>2. k # 0
      BY <1>2, <1>3, <2>1
    <2>3. k - 1 \in 0 .. MaxDepth /\ k - 1 \notin Bad
      BY <1>1, <2>1, <2>2
    <2>4. \/ g[k - 1] = NoTask
          \/ g[k - 1] \in T /\ A[g[k - 1]].depth = A[t].depth - (k - 1)
      BY <2>3
    <2>5. g[k] = IF g[k - 1] = NoTask THEN NoTask ELSE A[g[k - 1]].parent
      BY <1>2, <2>1, <2>2
    <2>6. g[k] # NoTask /\ ~ (g[k] \in T /\ A[g[k]].depth = A[t].depth - k)
      BY <2>1
    <2> DEFINE u == g[k - 1]
    <2>7. u \in T /\ A[u].depth = A[t].depth - (k - 1) /\ g[k] = A[u].parent
      BY <2>4, <2>5, <2>6
    <2>8. g[k] \in T /\ A[u].depth = A[g[k]].depth + 1
      BY <2>6, <2>7 DEF TreeShape
    <2>9. A[u].depth \in Int /\ A[g[k]].depth \in Int /\ A[t].depth \in Int /\ k \in Int
      BY <1>1, <1>3, <2>1, <2>7, <2>8
    <2> HIDE DEF u
    <2>10. A[g[k]].depth = A[t].depth - k
      <3>1. \A x, y, z, n \in Int : x = z - (n - 1) /\ x = y + 1 => y = z - n
        OBVIOUS
      <3>2. QED
        BY <2>7, <2>8, <2>9, <3>1
    <2>11. QED
      BY <2>6, <2>8, <2>10
  <1>5. QED
    BY <1>4

\* The ancestry of a task is the least set that holds it and is closed under
\* parents.
LEMMA AncestryLeast ==
  ASSUME NEW A, NEW T, TreeShape(A, T), NEW t \in T
  PROVE  /\ t \in AncestryOf(A, t)
         /\ AncestryOf(A, t) \subseteq T
         /\ ClosedUp(A, AncestryOf(A, t))
         /\ \A S : t \in S /\ NoTask \notin S /\ ClosedUp(A, S) => AncestryOf(A, t) \subseteq S
  <1>1. MaxDepth \in Nat
    BY LimitAssumption
  <1>2a. PICK g : /\ IsUp(g, A, t, 0 .. MaxDepth)
                  /\ AncestryOf(A, t) = {g[k] : k \in 0 .. MaxDepth} \ {NoTask}
    BY AncestryIsUp
  <1>2b. IsUp(g, A, t, 0 .. MaxDepth)
    BY <1>2a
  <1>2. AncestryOf(A, t) = {g[k] : k \in 0 .. MaxDepth} \ {NoTask}
    BY <1>2a
  <1>3. \A k \in 0 .. MaxDepth :
          g[k] = IF k = 0 THEN t
                 ELSE IF g[k - 1] = NoTask THEN NoTask ELSE A[g[k - 1]].parent
    BY <1>2b DEF IsUp
  <1>4. \A k \in 0 .. MaxDepth : \/ g[k] = NoTask
                                 \/ g[k] \in T /\ A[g[k]].depth = A[t].depth - k
    BY <1>2b, UpDepth
  <1>5. t \in AncestryOf(A, t)
    <2>1. 0 \in 0 .. MaxDepth /\ g[0] = t
      BY <1>1, <1>3
    <2>2. QED
      BY <1>2, <2>1 DEF TreeShape
  <1>6. AncestryOf(A, t) \subseteq T
    BY <1>2, <1>4
  <1>7. ASSUME NEW a \in AncestryOf(A, t), A[a].parent # NoTask
        PROVE  A[a].parent \in AncestryOf(A, t)
    <2>1. PICK k \in 0 .. MaxDepth : g[k] = a
      BY <1>2
    <2>2. a \in T /\ a # NoTask /\ A[a].depth = A[t].depth - k
      BY <1>2, <1>4, <2>1
    <2>3. /\ A[t].depth \in 0 .. MaxDepth
          /\ A[A[a].parent].depth \in 0 .. MaxDepth
          /\ A[a].depth = A[A[a].parent].depth + 1
      BY <1>7, <2>2 DEF TreeShape
    <2>4. k + 1 \in 0 .. MaxDepth
      BY <1>1, <2>2, <2>3
    <2>5. g[k + 1] = A[a].parent
      <3>1. k + 1 # 0 /\ (k + 1) - 1 = k
        BY <1>1
      <3>2. QED
        BY <1>3, <2>1, <2>2, <2>4, <3>1
    <2>6. QED
      BY <1>2, <1>7, <2>4, <2>5
  <1>8. ASSUME NEW S, t \in S, NoTask \notin S, ClosedUp(A, S)
        PROVE  AncestryOf(A, t) \subseteq S
    <2> DEFINE Bad == {k \in 0 .. MaxDepth : g[k] \notin S \cup {NoTask}}
    <2>1. Bad = {}
      <3> SUFFICES ASSUME Bad # {}
                   PROVE  FALSE
        OBVIOUS
      <3>0. Bad \subseteq Nat
        BY <1>1
      <3>1. PICK k \in Bad : \A j \in Bad : k <= j
        BY <3>0, LeastNatural
      <3>2. k # 0
        BY <1>3, <1>8, <3>1
      <3>3. k - 1 \in 0 .. MaxDepth /\ k - 1 \notin Bad
        BY <1>1, <3>1, <3>2
      <3>4. g[k] = IF g[k - 1] = NoTask THEN NoTask ELSE A[g[k - 1]].parent
        BY <1>3, <3>1, <3>2
      <3>5. QED
        BY <1>8, <3>1, <3>3, <3>4 DEF ClosedUp
    <2>2. QED
      BY <1>2, <2>1
  <1>9. QED
    BY <1>5, <1>6, <1>7, <1>8 DEF ClosedUp

------------------------------------------------------------------------------
(* The tree *)

TreeTypes ==
  /\ assignment \in [Tasks -> Delegation \cup {NoTask}]
  /\ taskPhase \in [Tasks -> TaskPhase]
  /\ outcome \in [Tasks -> TaskTerminalKind \cup {"None"}]
  /\ reserved \subseteq Tasks
  /\ handoff \subseteq Tasks

\* A retained task hangs below its parent, within the limits, with a work
\* identity of its own.
Placed(t) ==
  /\ assignment[t] \in Delegation
  /\ \A other \in Retained \ {t} : assignment[other].work # assignment[t].work
  /\ t # Root => /\ assignment[t].parent \in Retained
                 /\ assignment[t].depth = assignment[assignment[t].parent].depth + 1
                 /\ assignment[t].parentOwner = assignment[assignment[t].parent].owner
                 /\ Cardinality(Children(assignment[t].parent)) <= FanOut

\* Its reservation, its outcome and its handoff agree with its phase.
PhaseTruth(t) ==
  /\ taskPhase[t] \in {"Active", "Cancelling"} => t \in reserved
  /\ taskPhase[t] \in {"Offered", "Accepted"} => t \notin reserved
  /\ (taskPhase[t] = "Terminal") = (outcome[t] # "None")
  /\ t \in handoff => taskPhase[t] = "Terminal"

\* A task that is not retained has left no trace.
Untouched(t) == t \notin reserved /\ t \notin handoff /\ outcome[t] = "None"

TreeInv ==
  /\ TreeTypes
  /\ Root \in Retained
  /\ assignment[Root].parent = NoTask
  /\ Cardinality(Retained) <= MaxTasks
  /\ \A t \in Retained : Placed(t) /\ PhaseTruth(t)
  /\ \A t \in Tasks \ Retained : Untouched(t)
  /\ JoinTruth
  /\ CancellationClosed

Closed(p) == p \in {"Cancelling", "Terminal"}

Cancelled(t) == taskPhase[t] = "Cancelling" \/ outcome[t] = "Cancelled"

LEMMA RetainedFinite ==
  /\ Retained \subseteq Tasks
  /\ IsFiniteSet(Retained)
  /\ \A t : Children(t) \subseteq Retained /\ IsFiniteSet(Children(t))
  <1>1. Retained \subseteq Tasks
    BY DEF Retained
  <1>2. IsFiniteSet(Retained)
    BY <1>1, FiniteAssumption, FS_Subset
  <1>3. \A t : Children(t) \subseteq Retained
    BY DEF Children
  <1>4. QED
    BY <1>1, <1>2, <1>3, FS_Subset

LEMMA TreeShapeNow == TreeInv => TreeShape(assignment, Retained)
  <1> SUFFICES ASSUME TreeInv, NEW t \in Retained
               PROVE  /\ assignment[t].depth \in 0 .. MaxDepth
                      /\ assignment[t].parent # NoTask =>
                           /\ assignment[t].parent \in Retained
                           /\ assignment[t].depth = assignment[assignment[t].parent].depth + 1
    BY IdentityAssumption, RetainedFinite DEF TreeShape
  <1>1. Placed(t)
    BY DEF TreeInv
  <1>2. assignment[t].depth \in 0 .. MaxDepth
    BY <1>1 DEF Placed, Delegation
  <1>3. CASE t = Root
    BY <1>2, <1>3 DEF TreeInv
  <1>4. CASE t # Root
    BY <1>1, <1>2, <1>4 DEF Placed
  <1>5. QED
    BY <1>3, <1>4

\* What the proofs use of Ancestry.
LEMMA AncestryFacts ==
  ASSUME TreeInv, NEW t \in Retained
  PROVE  /\ t \in Ancestry(t)
         /\ Ancestry(t) \subseteq Retained
         /\ ClosedUp(assignment, Ancestry(t))
         /\ \A a \in Ancestry(t) : Ancestry(a) \subseteq Ancestry(t)
  <1>1. TreeShape(assignment, Retained)
    BY TreeShapeNow
  <1>2. /\ t \in Ancestry(t)
        /\ Ancestry(t) \subseteq Retained
        /\ ClosedUp(assignment, Ancestry(t))
    <2>1. /\ t \in AncestryOf(assignment, t)
          /\ AncestryOf(assignment, t) \subseteq Retained
          /\ ClosedUp(assignment, AncestryOf(assignment, t))
      BY <1>1, AncestryLeast
    <2>2. QED
      BY <2>1, AncestryNow
  <1>3. ASSUME NEW a \in Ancestry(t)
        PROVE  Ancestry(a) \subseteq Ancestry(t)
    <2>1. a \in Retained /\ NoTask \notin Ancestry(t)
      BY <1>2, RetainedFinite, IdentityAssumption
    <2>2. AncestryOf(assignment, a) \subseteq Ancestry(t)
      BY <1>1, <1>2, <2>1, AncestryLeast
    <2>3. QED
      BY <2>2, AncestryNow
  <1>4. QED
    BY <1>2, <1>3

------------------------------------------------------------------------------
(* Steps that leave the tree's shape alone *)

\* What a command other than an offer may do to one task.
TaskMoves(t) ==
  \/ /\ taskPhase'[t] = taskPhase[t] /\ outcome'[t] = outcome[t]
     /\ t \in reserved' <=> t \in reserved
  \/ /\ taskPhase[t] = "Offered" /\ taskPhase'[t] = "Accepted"
     /\ outcome'[t] = outcome[t]
     /\ t \in reserved' <=> t \in reserved
  \/ /\ taskPhase[t] = "Accepted" /\ taskPhase'[t] = "Active"
     /\ outcome'[t] = outcome[t] /\ t \in reserved'
  \/ /\ taskPhase[t] \in {"Active", "Cancelling"} /\ taskPhase'[t] = "Cancelling"
     /\ outcome'[t] = outcome[t]
     /\ t \in reserved' <=> t \in reserved
  \/ /\ taskPhase[t] \notin {"Absent", "Terminal"} /\ taskPhase'[t] = "Terminal"
     /\ outcome'[t] # "None"
     /\ t \in reserved' <=> t \in reserved

\* A new success comes from active work whose join is satisfied.
SuccessEarned(t) ==
  outcome'[t] = "Succeeded" /\ outcome[t] # "Succeeded"
    => t \in Retained /\ taskPhase[t] = "Active" /\ JoinSatisfied(t)

\* A new cancellation closes the whole subtree.
CancelSpreads(t) ==
  Cancelled(t)' /\ ~ Cancelled(t)
    => \A d \in Retained : IsDescendantOf(d, t) => Closed(taskPhase'[d])

TreeMoves ==
  /\ assignment' = assignment
  /\ TreeTypes'
  /\ \A t \in Tasks : TaskMoves(t) /\ SuccessEarned(t)
  /\ \A t \in Retained : CancelSpreads(t)
  /\ handoff \subseteq handoff'
  /\ \A t \in handoff' \ handoff : t \in Retained /\ taskPhase'[t] = "Terminal"

\* Retained tasks stay retained, ended tasks keep their end.
LEMMA MoveFacts ==
  ASSUME TreeInv, TreeMoves
  PROVE  /\ Retained' = Retained
         /\ \A t : Children(t)' = Children(t)
         /\ \A t : Ancestry(t)' = Ancestry(t)
         /\ \A d, t : IsDescendantOf(d, t)' <=> IsDescendantOf(d, t)
         /\ \A t \in Tasks : Closed(taskPhase[t]) => Closed(taskPhase'[t])
         /\ \A t \in Retained : outcome[t] # "None" =>
               taskPhase'[t] = "Terminal" /\ outcome'[t] = outcome[t]
  <1>1. \A t \in Tasks : TaskMoves(t)
    BY DEF TreeMoves
  <1>2. \A t \in Tasks : taskPhase'[t] # "Absent" <=> taskPhase[t] # "Absent"
    BY <1>1 DEF TaskMoves
  <1>3. Retained' = Retained
    BY <1>2 DEF Retained
  <1>4. assignment' = assignment
    BY DEF TreeMoves
  <1>5. \A t : Children(t)' = Children(t)
    BY <1>3, <1>4 DEF Children
  <1>6. \A t : Ancestry(t)' = Ancestry(t)
    BY <1>4, AncestryNow
  <1>7. \A d, t : IsDescendantOf(d, t)' <=> IsDescendantOf(d, t)
    BY <1>6 DEF IsDescendantOf
  <1>8. \A t \in Tasks : Closed(taskPhase[t]) => Closed(taskPhase'[t])
    BY <1>1 DEF TaskMoves, Closed
  <1>9. \A t \in Retained : outcome[t] # "None" =>
          taskPhase'[t] = "Terminal" /\ outcome'[t] = outcome[t]
    <2> SUFFICES ASSUME NEW t \in Retained, outcome[t] # "None"
                 PROVE  taskPhase'[t] = "Terminal" /\ outcome'[t] = outcome[t]
      OBVIOUS
    <2>1. taskPhase[t] = "Terminal"
      BY DEF TreeInv, PhaseTruth
    <2>2. TaskMoves(t)
      BY <1>1, RetainedFinite
    <2>3. QED
      BY <2>1, <2>2 DEF TaskMoves
  <1>10. QED
    BY <1>3, <1>5, <1>6, <1>7, <1>8, <1>9

\* A satisfied join stays satisfied: successes stand.
LEMMA JoinStands ==
  ASSUME TreeInv, TreeMoves, NEW t \in Retained, JoinSatisfied(t)
  PROVE  JoinSatisfied(t)'
  <1>1. assignment' = assignment /\ Children(t)' = Children(t)
    BY MoveFacts DEF TreeMoves
  <1>2. Children(t) \subseteq Retained
    BY RetainedFinite
  <1>3. \A c \in Children(t) : outcome[c] = "Succeeded" => outcome'[c] = "Succeeded"
    BY <1>2, MoveFacts
  <1>4. assignment[t].join \in JoinPolicy
    BY DEF TreeInv, Placed, Delegation
  <1>5. QED
    BY <1>1, <1>3, <1>4 DEF JoinSatisfied, Succeeded, JoinPolicy

LEMMA MovesKeepTree ==
  ASSUME TreeInv, TreeMoves
  PROVE  TreeInv'
  <1>1. /\ Retained' = Retained
        /\ assignment' = assignment
        /\ TreeTypes'
        /\ Retained \subseteq Tasks
    BY MoveFacts, RetainedFinite DEF TreeMoves
  <1>2. /\ Root \in Retained'
        /\ assignment'[Root].parent = NoTask
        /\ Cardinality(Retained') <= MaxTasks
    BY <1>1 DEF TreeInv
  <1>3. ASSUME NEW t \in Retained
        PROVE  Placed(t)'
    <2>1. Placed(t) /\ \A u : Children(u)' = Children(u)
      BY MoveFacts DEF TreeInv
    <2>2. QED
      BY <1>1, <2>1 DEF Placed
  <1>4. ASSUME NEW t \in Retained
        PROVE  PhaseTruth(t)'
    <2>1. PhaseTruth(t) /\ TaskMoves(t)
      BY <1>1 DEF TreeInv, TreeMoves
    <2>2. t \in handoff' => t \in handoff \/ taskPhase'[t] = "Terminal"
      BY DEF TreeMoves
    <2>3. QED
      BY <2>1, <2>2 DEF PhaseTruth, TaskMoves
  <1>5. ASSUME NEW t \in Tasks \ Retained
        PROVE  Untouched(t)'
    <2>1. Untouched(t) /\ TaskMoves(t) /\ taskPhase[t] = "Absent"
      BY DEF TreeInv, TreeMoves, Retained
    <2>2. t \notin handoff'
      BY <2>1 DEF Untouched, TreeMoves
    <2>3. QED
      BY <2>1, <2>2 DEF Untouched, TaskMoves
  <1>6. JoinTruth'
    <2> SUFFICES ASSUME NEW t \in Retained, outcome'[t] = "Succeeded"
                 PROVE  JoinSatisfied(t)'
      BY <1>1 DEF JoinTruth, Succeeded
    <2>1. CASE outcome[t] = "Succeeded"
      <3>1. JoinSatisfied(t)
        BY <2>1 DEF TreeInv, JoinTruth, Succeeded
      <3>2. QED
        BY <3>1, JoinStands
    <2>2. CASE outcome[t] # "Succeeded"
      <3>1. JoinSatisfied(t)
        BY <1>1, <2>2 DEF TreeMoves, SuccessEarned
      <3>2. QED
        BY <3>1, JoinStands
    <2>3. QED
      BY <2>1, <2>2
  <1>7. CancellationClosed'
    <2> SUFFICES ASSUME NEW t \in Retained, NEW d \in Retained,
                        Cancelled(t)', IsDescendantOf(d, t)'
                 PROVE  Closed(taskPhase'[d])
      BY <1>1, Zenon DEF CancellationClosed, Cancelled, Closed
    <2>1. IsDescendantOf(d, t)
      BY MoveFacts
    <2>2. CASE Cancelled(t)
      <3>1. Closed(taskPhase[d])
        BY <2>1, <2>2 DEF TreeInv, CancellationClosed, Cancelled, Closed
      <3>2. QED
        BY <1>1, <3>1, MoveFacts
    <2>3. CASE ~ Cancelled(t)
      BY <2>1, <2>3 DEF TreeMoves, CancelSpreads
    <2>4. QED
      BY <2>2, <2>3
  <1>8. QED
    BY <1>1, <1>2, <1>3, <1>4, <1>5, <1>6, <1>7 DEF TreeInv

------------------------------------------------------------------------------
(* An offer grows the tree by one leaf *)

\* What an offer leaves of a new task t below p.
Grows(t, p) ==
  /\ t \in Tasks \ Retained
  /\ p \in Retained
  /\ Cardinality(Retained) < MaxTasks
  /\ taskPhase[p] = "Active"
  /\ Cardinality(Children(p)) < FanOut
  /\ assignment' \in [Tasks -> Delegation \cup {NoTask}]
  /\ \A u \in Tasks \ {t} : assignment'[u] = assignment[u]
  /\ assignment'[t] \in Delegation
  /\ assignment'[t].parent = p
  /\ assignment'[t].depth = assignment[p].depth + 1
  /\ assignment'[t].parentOwner = assignment[p].owner
  /\ \A other \in Retained : assignment[other].work # assignment'[t].work
  /\ taskPhase' = [taskPhase EXCEPT ![t] = "Offered"]
  /\ UNCHANGED <<reserved, outcome, handoff>>

LEMMA OfferGrows ==
  ASSUME TreeInv, NEW t \in Tasks \ Retained, NEW parent \in Retained,
         NEW actor \in Actors, NEW owner \in Actors, NEW work \in Works,
         NEW required \in BOOLEAN, NEW join \in JoinPolicy,
         OfferDelegation(t, parent, actor, owner, work, required, join)
  PROVE  Grows(t, parent)
  <1> DEFINE new == [parent |-> parent, depth |-> assignment[parent].depth + 1,
                     owner |-> owner, parentOwner |-> actor, work |-> work,
                     required |-> required, join |-> join]
  <1>1. /\ taskPhase[parent] = "Active"
        /\ assignment[parent].owner = actor
        /\ assignment[parent].depth + 1 <= MaxDepth
        /\ Cardinality(Children(parent)) < FanOut
    BY DEF OfferDelegation, MayDelegate
  <1>2. parent \in Tasks /\ assignment[parent] \in Delegation
    BY RetainedFinite DEF TreeInv, Placed
  <1>3. assignment[parent].depth + 1 \in 0 .. MaxDepth
    BY <1>1, <1>2, LimitAssumption DEF Delegation
  <1>4. new \in Delegation
    BY <1>2, <1>3 DEF Delegation
  <1>5. assignment' = [assignment EXCEPT ![t] = new]
    BY DEF OfferDelegation
  <1>6. assignment'[t] = new /\ \A u \in Tasks \ {t} : assignment'[u] = assignment[u]
    BY <1>5 DEF TreeInv, TreeTypes
  <1>7. assignment' \in [Tasks -> Delegation \cup {NoTask}]
    BY <1>4, <1>5 DEF TreeInv, TreeTypes
  <1>8. /\ new.parent = parent /\ new.depth = assignment[parent].depth + 1
        /\ new.parentOwner = actor /\ new.work = work
    OBVIOUS
  <1>9. /\ Cardinality(Retained) < MaxTasks
        /\ \A other \in Retained : assignment[other].work # work
        /\ taskPhase' = [taskPhase EXCEPT ![t] = "Offered"]
        /\ UNCHANGED <<reserved, outcome, handoff>>
    BY DEF OfferDelegation
  <1> HIDE DEF new
  <1>10. QED
    BY <1>1, <1>4, <1>6, <1>7, <1>8, <1>9 DEF Grows

\* The other tasks keep their place; the new one stands below p.
LEMMA GrowthFacts ==
  ASSUME TreeInv, NEW t, NEW p, Grows(t, p)
  PROVE  /\ Retained' = Retained \cup {t}
         /\ t \notin Retained
         /\ \A u \in Retained : assignment'[u] = assignment[u] /\ taskPhase'[u] = taskPhase[u]
         /\ \A u \in Tasks \ {p} : Children(u)' = Children(u)
         /\ Children(p)' = Children(p) \cup {t}
         /\ TreeShape(assignment', Retained')
  <1>1. t \in Tasks \ Retained /\ p \in Retained /\ Retained \subseteq Tasks
    BY RetainedFinite DEF Grows
  <1>2. /\ taskPhase'[t] = "Offered"
        /\ \A u \in Tasks \ {t} : taskPhase'[u] = taskPhase[u]
    BY <1>1 DEF Grows, TreeInv, TreeTypes
  <1>3. Retained' = Retained \cup {t}
    BY <1>1, <1>2 DEF Retained
  <1>4. \A u \in Retained : assignment'[u] = assignment[u] /\ taskPhase'[u] = taskPhase[u]
    BY <1>1, <1>2 DEF Grows
  <1>5. assignment'[t].parent = p
    BY DEF Grows
  <1>6. \A u \in Tasks \ {p} : Children(u)' = Children(u)
    BY <1>3, <1>4, <1>5 DEF Children
  <1>7. Children(p)' = Children(p) \cup {t}
    BY <1>3, <1>4, <1>5 DEF Children
  <1>8. TreeShape(assignment', Retained')
    <2>0. TreeShape(assignment, Retained)
      BY TreeShapeNow
    <2>1. assignment'[t].depth \in 0 .. MaxDepth
      BY DEF Grows, Delegation
    <2>2. assignment'[t].depth = assignment'[p].depth + 1
      BY <1>1, <1>4 DEF Grows
    <2>3. QED
      BY <1>1, <1>3, <1>4, <1>5, <2>0, <2>1, <2>2, IdentityAssumption DEF TreeShape
  <1>9. QED
    BY <1>1, <1>3, <1>4, <1>6, <1>7, <1>8

\* Nobody gets a new ancestor, and those of the new task are p and p's.
LEMMA GrowthAncestry ==
  ASSUME TreeInv, NEW t, NEW p, Grows(t, p)
  PROVE  /\ \A u \in Retained : Ancestry(u)' = Ancestry(u)
         /\ Ancestry(t)' \subseteq {t} \cup Ancestry(p)
  <1>1. /\ Retained' = Retained \cup {t} /\ t \notin Retained
        /\ \A u \in Retained : assignment'[u] = assignment[u]
        /\ TreeShape(assignment, Retained)
        /\ TreeShape(assignment', Retained')
        /\ NoTask \notin Retained'
    BY GrowthFacts, TreeShapeNow DEF TreeShape
  <1>2. p \in Retained /\ assignment'[t].parent = p
    BY DEF Grows
  <1>3. ASSUME NEW u \in Retained
        PROVE  Ancestry(u)' = Ancestry(u)
    <2> DEFINE old == AncestryOf(assignment, u)
    <2> DEFINE new == AncestryOf(assignment', u)
    <2>1. /\ u \in old /\ old \subseteq Retained /\ ClosedUp(assignment, old)
          /\ \A S : u \in S /\ NoTask \notin S /\ ClosedUp(assignment, S) => old \subseteq S
      BY <1>1, AncestryLeast
    <2>2. /\ u \in new /\ new \subseteq Retained' /\ ClosedUp(assignment', new)
          /\ \A S : u \in S /\ NoTask \notin S /\ ClosedUp(assignment', S) => new \subseteq S
      <3>1. u \in Retained'
        BY <1>1
      <3>2. QED
        BY <1>1, <3>1, AncestryLeast
    <2> HIDE DEF old, new
    <2>3. ClosedUp(assignment', old)
      BY <1>1, <2>1 DEF ClosedUp
    <2>4. new \subseteq old
      BY <1>1, <2>1, <2>2, <2>3
    <2>5. ClosedUp(assignment, new)
      BY <1>1, <2>1, <2>2, <2>4 DEF ClosedUp
    <2>6. old \subseteq new
      BY <1>1, <2>1, <2>2, <2>5
    <2>7. new = old
      BY <2>4, <2>6
    <2>8. QED
      BY <2>7, AncestryNow DEF old, new
  <1>4. Ancestry(t)' \subseteq {t} \cup Ancestry(p)
    <2> DEFINE S == {t} \cup Ancestry(p)
    <2>1. p \in Ancestry(p) /\ Ancestry(p) \subseteq Retained
          /\ ClosedUp(assignment, Ancestry(p))
      BY <1>2, AncestryFacts
    <2>2. t \in S /\ NoTask \notin S
      BY <1>1, <2>1
    <2>3. ClosedUp(assignment', S)
      <3> SUFFICES ASSUME NEW a \in S, assignment'[a].parent # NoTask
                   PROVE  assignment'[a].parent \in S
        BY DEF ClosedUp
      <3>1. CASE a = t
        BY <1>2, <2>1, <3>1
      <3>2. CASE a # t
        BY <1>1, <2>1, <3>2 DEF ClosedUp
      <3>3. QED
        BY <3>1, <3>2
    <2>4. AncestryOf(assignment', t) \subseteq S
      <3>1. t \in Retained'
        BY <1>1
      <3> HIDE DEF S
      <3>2. QED
        BY <1>1, <2>2, <2>3, <3>1, AncestryLeast
    <2>5. QED
      BY <2>4, AncestryNow
  <1>5. QED
    BY <1>3, <1>4

LEMMA GrowthKeepsTree ==
  ASSUME TreeInv, NEW t, NEW p, Grows(t, p)
  PROVE  TreeInv'
  <1>1. /\ Retained' = Retained \cup {t} /\ t \notin Retained /\ t \in Tasks
        /\ p \in Retained /\ Retained \subseteq Tasks
    BY GrowthFacts, RetainedFinite DEF Grows
  <1>2. \A u \in Retained : assignment'[u] = assignment[u] /\ taskPhase'[u] = taskPhase[u]
    BY GrowthFacts
  <1>3. UNCHANGED <<reserved, outcome, handoff>> /\ taskPhase'[t] = "Offered"
    BY <1>1 DEF Grows, TreeInv, TreeTypes
  <1>4. /\ \A u \in Tasks \ {p} : Children(u)' = Children(u)
        /\ Children(p)' = Children(p) \cup {t}
    BY GrowthFacts
  <1>5. TreeTypes'
    <2>1. taskPhase' \in [Tasks -> TaskPhase]
      BY DEF Grows, TreeInv, TreeTypes, TaskPhase
    <2>2. QED
      BY <1>3, <2>1 DEF Grows, TreeInv, TreeTypes
  <1>6. /\ Root \in Retained' /\ assignment'[Root].parent = NoTask
        /\ Cardinality(Retained') <= MaxTasks
    <2>1. Cardinality(Retained') = Cardinality(Retained) + 1 /\ Cardinality(Retained) \in Nat
      BY <1>1, RetainedFinite, FS_AddElement, FS_CardinalityType
    <2>2. Cardinality(Retained) < MaxTasks /\ MaxTasks \in Nat
      BY LimitAssumption DEF Grows
    <2>3. QED
      BY <1>1, <1>2, <2>1, <2>2 DEF TreeInv
  <1>7. ASSUME NEW u \in Retained'
        PROVE  Placed(u)'
    <2>1. assignment'[u] \in Delegation
      BY <1>1, <1>2 DEF Grows, TreeInv, Placed
    <2>2. \A other \in Retained' \ {u} : assignment'[other].work # assignment'[u].work
      BY <1>1, <1>2 DEF Grows, TreeInv, Placed
    <2>3. Cardinality(Children(p)') <= FanOut
      <3>1. t \notin Children(p)
        BY <1>1, RetainedFinite
      <3>2. /\ Cardinality(Children(p)') = Cardinality(Children(p)) + 1
            /\ Cardinality(Children(p)) \in Nat
        BY <1>4, <3>1, RetainedFinite, FS_AddElement, FS_CardinalityType
      <3>3. Cardinality(Children(p)) < FanOut /\ FanOut \in Nat
        BY LimitAssumption DEF Grows
      <3>4. QED
        BY <3>2, <3>3
    <2>4. CASE u = t
      <3>1. /\ assignment'[u].parent = p
            /\ assignment'[u].depth = assignment'[p].depth + 1
            /\ assignment'[u].parentOwner = assignment'[p].owner
        BY <1>1, <1>2, <2>4 DEF Grows
      <3>2. Children(assignment[u].parent)' = Children(p)'
        BY <3>1 DEF Children
      <3>3. QED
        BY <1>1, <2>1, <2>2, <2>3, <3>1, <3>2 DEF Placed
    <2>5. CASE u # t
      <3>1. Placed(u) /\ u \in Retained /\ assignment'[u] = assignment[u]
        BY <1>1, <1>2, <2>5 DEF TreeInv
      <3>2. ASSUME u # Root
            PROVE  /\ assignment'[u].parent \in Retained'
                   /\ assignment'[u].depth = assignment'[assignment'[u].parent].depth + 1
                   /\ assignment'[u].parentOwner = assignment'[assignment'[u].parent].owner
                   /\ Cardinality(Children(assignment[u].parent)') <= FanOut
        <4> DEFINE q == assignment[u].parent
        <4>1. /\ q \in Retained /\ assignment[u].depth = assignment[q].depth + 1
              /\ assignment[u].parentOwner = assignment[q].owner
              /\ Cardinality(Children(q)) <= FanOut
          BY <3>1, <3>2 DEF Placed
        <4>2. assignment'[q] = assignment[q] /\ assignment'[u].parent = q
          BY <1>2, <3>1, <4>1
        <4>3. Children(assignment[u].parent)' = IF q = p THEN Children(p)' ELSE Children(q)
          <5>1. Children(assignment[u].parent)' = {c \in Retained' : assignment'[c].parent = q}
            BY <4>2 DEF Children
          <5>2. q # p => {c \in Retained' : assignment'[c].parent = q} = Children(q)
            BY <1>1, <1>2 DEF Children, Grows
          <5>3. q = p => {c \in Retained' : assignment'[c].parent = q} = Children(p)'
            BY DEF Children, Grows
          <5>4. QED
            BY <5>1, <5>2, <5>3
        <4>4. Cardinality(Children(assignment[u].parent)') <= FanOut
          BY <2>3, <4>1, <4>3
        <4>5. QED
          BY <1>1, <3>1, <4>1, <4>2, <4>4
      <3>3. QED
        BY <2>1, <2>2, <3>2 DEF Placed
    <2>6. QED
      BY <2>4, <2>5
  <1>8. ASSUME NEW u \in Retained'
        PROVE  PhaseTruth(u)'
    <2>1. CASE u = t
      BY <1>1, <1>3, <2>1 DEF TreeInv, Untouched, PhaseTruth
    <2>2. CASE u # t
      <3>1. PhaseTruth(u) /\ taskPhase'[u] = taskPhase[u]
        BY <1>1, <1>2, <2>2 DEF TreeInv
      <3>2. QED
        BY <1>3, <3>1 DEF PhaseTruth
    <2>3. QED
      BY <2>1, <2>2
  <1>9. ASSUME NEW u \in Tasks \ Retained'
        PROVE  Untouched(u)'
    <2>1. Untouched(u)
      BY <1>1 DEF TreeInv
    <2>2. QED
      BY <1>3, <2>1 DEF Untouched
  <1>10. PhaseTruth(p) /\ taskPhase[p] = "Active"
    BY <1>1 DEF TreeInv, Grows
  <1>11. JoinTruth'
    <2> SUFFICES ASSUME NEW u \in Retained', outcome'[u] = "Succeeded"
                 PROVE  JoinSatisfied(u)'
      BY DEF JoinTruth, Succeeded
    <2>1. u \in Retained /\ outcome[u] = "Succeeded"
      BY <1>1, <1>3 DEF TreeInv, Untouched
    <2>2. u # p
      BY <1>10, <2>1 DEF PhaseTruth
    <2>3. Children(u)' = Children(u) /\ assignment'[u] = assignment[u]
      BY <1>1, <1>2, <1>4, <2>1, <2>2
    <2>4. \A c \in Children(u) : assignment'[c] = assignment[c]
      BY <1>2, RetainedFinite
    <2>5. JoinSatisfied(u)
      BY <2>1 DEF TreeInv, JoinTruth, Succeeded
    <2>6. assignment[u].join \in JoinPolicy
      BY <2>1 DEF TreeInv, Placed, Delegation
    <2>7. QED
      BY <1>3, <2>3, <2>4, <2>5, <2>6 DEF JoinSatisfied, Succeeded, JoinPolicy
  <1>12. CancellationClosed'
    <2> SUFFICES ASSUME NEW u \in Retained', NEW d \in Retained',
                        Cancelled(u)', IsDescendantOf(d, u)'
                 PROVE  Closed(taskPhase'[d])
      BY Zenon DEF CancellationClosed, Cancelled, Closed
    <2>1. u # t
      BY <1>1, <1>3 DEF Cancelled, TreeInv, Untouched
    <2>2. u \in Retained /\ Cancelled(u)
      BY <1>1, <1>2, <1>3, <2>1 DEF Cancelled
    <2>3. d # u /\ u \in Ancestry(d)'
      BY DEF IsDescendantOf
    <2>4. CASE d = t
      <3>1. u \in Ancestry(p)
        BY <2>1, <2>3, <2>4, GrowthAncestry
      <3>2. u # p
        BY <1>10, <2>2 DEF Cancelled, PhaseTruth
      <3>3. Closed(taskPhase[p])
        BY <1>1, <2>2, <3>1, <3>2
           DEF TreeInv, CancellationClosed, IsDescendantOf, Cancelled, Closed
      <3>4. QED
        BY <1>10, <3>3 DEF Closed
    <2>5. CASE d # t
      <3>1. d \in Retained /\ u \in Ancestry(d)
        BY <1>1, <2>3, <2>5, GrowthAncestry
      <3>2. Closed(taskPhase[d])
        BY <2>2, <2>3, <3>1
           DEF TreeInv, CancellationClosed, IsDescendantOf, Cancelled, Closed
      <3>3. QED
        BY <1>2, <3>1, <3>2
    <2>6. QED
      BY <2>4, <2>5
  <1>13. QED
    BY <1>5, <1>6, <1>7, <1>8, <1>9, <1>11, <1>12 DEF TreeInv

------------------------------------------------------------------------------
(* Commands as steps of the tree *)

\* A command that leaves the tree alone.
LEMMA TreeStill ==
  ASSUME TreeInv, UNCHANGED taskVars
  PROVE  TreeMoves
  <1>1. /\ assignment' = assignment /\ taskPhase' = taskPhase /\ reserved' = reserved
        /\ outcome' = outcome /\ handoff' = handoff
    BY DEF taskVars
  <1>2. TreeTypes'
    BY <1>1 DEF TreeInv, TreeTypes
  <1>3. \A t \in Tasks : TaskMoves(t)
    BY <1>1 DEF TaskMoves
  <1>4. \A t \in Tasks : SuccessEarned(t)
    BY <1>1 DEF SuccessEarned
  <1>5. \A t \in Retained : CancelSpreads(t)
    BY <1>1 DEF CancelSpreads, Cancelled
  <1>6. QED
    BY <1>1, <1>2, <1>3, <1>4, <1>5 DEF TreeMoves

\* A command on one task t that does not cancel it for the first time.
LEMMA OneMoves ==
  ASSUME TreeInv, TreeTypes', NEW t \in Retained,
         TaskMoves(t), SuccessEarned(t), Cancelled(t)' => Cancelled(t),
         assignment' = assignment,
         \A u \in Tasks \ {t} : /\ taskPhase'[u] = taskPhase[u]
                                /\ outcome'[u] = outcome[u]
                                /\ u \in reserved' <=> u \in reserved,
         handoff' = handoff \/ (handoff' = handoff \cup {t} /\ taskPhase'[t] = "Terminal")
  PROVE  TreeMoves
  <1>1. \A u \in Tasks : TaskMoves(u)
    BY DEF TaskMoves
  <1>2. \A u \in Tasks : SuccessEarned(u)
    BY DEF SuccessEarned
  <1>3. \A u \in Retained : CancelSpreads(u)
    BY RetainedFinite DEF CancelSpreads, Cancelled
  <1>4. QED
    BY <1>1, <1>2, <1>3 DEF TreeMoves

\* The end of one open task.
LEMMA TerminateMoves ==
  ASSUME TreeInv, NEW t \in Retained, taskPhase[t] # "Terminal",
         NEW kind \in TaskTerminalKind, Terminate({t}, kind),
         UNCHANGED <<assignment, reserved>>,
         kind = "Succeeded" => taskPhase[t] = "Active" /\ JoinSatisfied(t),
         kind = "Cancelled" => taskPhase[t] = "Cancelling",
         handoff' = handoff \/ handoff' = handoff \cup {t}
  PROVE  TreeMoves
  <1>1. t \in Tasks /\ taskPhase[t] \notin {"Absent", "Terminal"}
    BY DEF Retained
  <1>2. /\ taskPhase'[t] = "Terminal" /\ outcome'[t] = kind
        /\ \A u \in Tasks \ {t} : taskPhase'[u] = taskPhase[u] /\ outcome'[u] = outcome[u]
    BY <1>1 DEF Terminate
  <1>3. TreeTypes'
    <2>1. taskPhase' \in [Tasks -> TaskPhase]
      BY DEF Terminate, TreeInv, TreeTypes, TaskPhase
    <2>2. outcome' \in [Tasks -> TaskTerminalKind \cup {"None"}]
      BY DEF Terminate, TreeInv, TreeTypes
    <2>3. QED
      BY <1>1, <2>1, <2>2 DEF TreeInv, TreeTypes
  <1>4. TaskMoves(t)
    BY <1>1, <1>2 DEF TaskMoves, TaskTerminalKind
  <1>5. SuccessEarned(t)
    BY <1>2 DEF SuccessEarned
  <1>6. Cancelled(t)' => Cancelled(t)
    BY <1>2 DEF Cancelled
  <1>7. QED
    BY <1>2, <1>3, <1>4, <1>5, <1>6, OneMoves

LEMMA AcceptMoves ==
  ASSUME TreeInv, NEW t \in Tasks, NEW actor, AcceptDelegation(t, actor)
  PROVE  TreeMoves
  <1>1. /\ t \in Retained /\ taskPhase[t] = "Offered"
        /\ taskPhase' = [taskPhase EXCEPT ![t] = "Accepted"]
        /\ UNCHANGED <<assignment, reserved, outcome, handoff>>
    BY DEF AcceptDelegation, OwnedTask
  <1>2. /\ taskPhase'[t] = "Accepted"
        /\ \A u \in Tasks \ {t} : taskPhase'[u] = taskPhase[u]
    BY <1>1 DEF TreeInv, TreeTypes
  <1>3. TreeTypes'
    BY <1>1 DEF TreeInv, TreeTypes, TaskPhase
  <1>4. TaskMoves(t) /\ SuccessEarned(t) /\ (Cancelled(t)' => Cancelled(t))
    BY <1>1, <1>2 DEF TaskMoves, SuccessEarned, Cancelled
  <1>5. QED
    BY <1>1, <1>2, <1>3, <1>4, OneMoves

LEMMA ActivateMoves ==
  ASSUME TreeInv, NEW t \in Tasks, NEW work, NEW owner, ActivateTask(t, work, owner)
  PROVE  TreeMoves
  <1>1. /\ t \in Retained /\ taskPhase[t] = "Accepted"
        /\ taskPhase' = [taskPhase EXCEPT ![t] = "Active"]
        /\ reserved' = reserved \cup {t}
        /\ UNCHANGED <<assignment, outcome, handoff>>
    BY DEF ActivateTask
  <1>2. /\ taskPhase'[t] = "Active"
        /\ \A u \in Tasks \ {t} : taskPhase'[u] = taskPhase[u]
    BY <1>1 DEF TreeInv, TreeTypes
  <1>3. TreeTypes'
    BY <1>1 DEF TreeInv, TreeTypes, TaskPhase
  <1>4. TaskMoves(t) /\ SuccessEarned(t) /\ (Cancelled(t)' => Cancelled(t))
    BY <1>1, <1>2 DEF TaskMoves, SuccessEarned, Cancelled
  <1>5. QED
    BY <1>1, <1>2, <1>3, <1>4, OneMoves

LEMMA CancelMoves ==
  ASSUME TreeInv, NEW t \in Tasks, NEW actor, CancelTask(t, actor)
  PROVE  TreeMoves
  <1> DEFINE started == {d \in OpenSubtree(t) : taskPhase[d] \in {"Active", "Cancelling"}}
             idle    == OpenSubtree(t) \ started
  <1>1. /\ t \in Retained
        /\ taskPhase' = [d \in Tasks |-> IF d \in started THEN "Cancelling"
                                         ELSE IF d \in idle THEN "Terminal"
                                         ELSE taskPhase[d]]
        /\ outcome' = [d \in Tasks |-> IF d \in idle THEN "Cancelled" ELSE outcome[d]]
        /\ UNCHANGED <<assignment, reserved, handoff>>
    BY DEF CancelTask
  <1>2. \A d \in OpenSubtree(t) : d \in Retained /\ taskPhase[d] # "Terminal"
    BY DEF OpenSubtree
  <1>3. TreeTypes'
    BY <1>1 DEF TreeInv, TreeTypes, TaskPhase, TaskTerminalKind
  <1>4. \A d \in Tasks : TaskMoves(d)
    BY <1>1, <1>2 DEF TaskMoves, Retained
  <1>5. \A d \in Tasks : SuccessEarned(d)
    BY <1>1 DEF SuccessEarned
  <1>6. ASSUME NEW u \in Retained, Cancelled(u)', ~ Cancelled(u),
               NEW d \in Retained, IsDescendantOf(d, u)
        PROVE  Closed(taskPhase'[d])
    <2>1. u \in OpenSubtree(t) /\ u \in Tasks /\ d \in Tasks
      BY <1>1, <1>6, RetainedFinite DEF Cancelled
    <2>2. t \in Ancestry(u)
      BY <2>1, AncestryFacts DEF OpenSubtree, IsDescendantOf
    <2>3. t \in Ancestry(d)
      BY <1>6, <2>2, AncestryFacts DEF IsDescendantOf
    <2>4. d \in OpenSubtree(t) \/ taskPhase[d] = "Terminal"
      BY <2>3 DEF OpenSubtree, IsDescendantOf
    <2>5. QED
      BY <1>1, <1>2, <2>1, <2>4 DEF Closed
  <1>7. \A u \in Retained : CancelSpreads(u)
    BY <1>6 DEF CancelSpreads
  <1>8. QED
    BY <1>1, <1>3, <1>4, <1>5, <1>7 DEF TreeMoves

\* A command on the tasks that offers nothing moves them.
LEMMA CommandMoves ==
  ASSUME TreeInv,
         \/ \E t \in Tasks, actor \in Actors : AcceptDelegation(t, actor)
         \/ \E t \in Tasks, actor \in Actors : RejectDelegation(t, actor)
         \/ \E t \in Tasks, work \in Works, actor \in Actors : ActivateTask(t, work, actor)
         \/ \E t \in Tasks, actor \in Actors, kind \in {"Succeeded", "Failed"},
               withHandoff \in BOOLEAN : CompleteTask(t, actor, kind, withHandoff)
         \/ \E t \in Tasks, actor \in Actors : AbandonTask(t, actor)
         \/ \E t \in Tasks, actor \in Actors : CancelTask(t, actor)
         \/ \E t \in Tasks, actor \in Actors : AcknowledgeCancellation(t, actor)
  PROVE  TreeMoves
  <1>1. ASSUME NEW t \in Tasks, NEW actor \in Actors, RejectDelegation(t, actor)
        PROVE  TreeMoves
    <2>1. /\ t \in Retained /\ taskPhase[t] # "Terminal" /\ Terminate({t}, "Rejected")
          /\ UNCHANGED <<assignment, reserved, handoff>> /\ "Rejected" \in TaskTerminalKind
      BY <1>1 DEF RejectDelegation, OwnedTask, TaskTerminalKind
    <2>2. QED
      BY <2>1, TerminateMoves
  <1>2. ASSUME NEW t \in Tasks, NEW actor \in Actors, NEW kind \in {"Succeeded", "Failed"},
               NEW withHandoff \in BOOLEAN, CompleteTask(t, actor, kind, withHandoff)
        PROVE  TreeMoves
    <2>1. /\ t \in Retained /\ taskPhase[t] = "Active" /\ Terminate({t}, kind)
          /\ UNCHANGED <<assignment, reserved>> /\ kind \in TaskTerminalKind
          /\ kind = "Succeeded" => JoinSatisfied(t)
          /\ kind # "Cancelled" /\ taskPhase[t] # "Terminal"
          /\ handoff' = handoff \/ handoff' = handoff \cup {t}
      BY <1>2 DEF CompleteTask, MayComplete, OwnedTask, TaskTerminalKind
    <2>2. QED
      BY <2>1, TerminateMoves
  <1>3. ASSUME NEW t \in Tasks, NEW actor \in Actors, AbandonTask(t, actor)
        PROVE  TreeMoves
    <2>1. /\ t \in Retained /\ taskPhase[t] # "Terminal" /\ Terminate({t}, "Abandoned")
          /\ UNCHANGED <<assignment, reserved, handoff>> /\ "Abandoned" \in TaskTerminalKind
      BY <1>3 DEF AbandonTask, OwnedTask, TaskTerminalKind
    <2>2. QED
      BY <2>1, TerminateMoves
  <1>4. ASSUME NEW t \in Tasks, NEW actor \in Actors, AcknowledgeCancellation(t, actor)
        PROVE  TreeMoves
    <2>1. /\ t \in Retained /\ taskPhase[t] = "Cancelling" /\ Terminate({t}, "Cancelled")
          /\ UNCHANGED <<assignment, reserved, handoff>> /\ "Cancelled" \in TaskTerminalKind
          /\ taskPhase[t] # "Terminal"
      BY <1>4 DEF AcknowledgeCancellation, OwnedTask, TaskTerminalKind
    <2>2. QED
      BY <2>1, TerminateMoves
  <1>5. QED
    BY <1>1, <1>2, <1>3, <1>4, AcceptMoves, ActivateMoves, CancelMoves

\* Every step of the aggregate grows the tree by one task or moves its tasks.
LEMMA StepTree ==
  ASSUME TreeInv, [Next]_vars
  PROVE  TreeMoves \/ \E t, p : Grows(t, p)
  <1>1. ASSUME NEW t \in Tasks \ Retained, NEW parent \in Retained,
               NEW actor \in Actors, NEW owner \in Actors, NEW work \in Works,
               NEW required \in BOOLEAN, NEW join \in JoinPolicy,
               OfferDelegation(t, parent, actor, owner, work, required, join)
        PROVE  \E u, p : Grows(u, p)
    BY <1>1, OfferGrows
  <1>2. CASE UNCHANGED taskVars
    BY <1>2, TreeStill
  <1>3. CASE \E m \in Messages, t \in Retained : \E content \in Contents(t) :
               SendMessage(m, content)
    BY <1>2, <1>3 DEF SendMessage
  <1>4. CASE \E m \in Messages, actor \in Actors : AcknowledgeMessage(m, actor)
    BY <1>2, <1>4 DEF AcknowledgeMessage
  <1>5. CASE \/ \E actor \in Actors : Pause(actor)
             \/ \E actor \in Actors : Resume(actor)
             \/ Finalize
    BY <1>2, <1>5 DEF Pause, Resume, Finalize
  <1>6. CASE UNCHANGED vars
    BY <1>2, <1>6 DEF vars, taskVars
  <1>7. QED
    BY <1>1, <1>3, <1>4, <1>5, <1>6,
       CommandMoves DEF Next

LEMMA StepTreeInv == TreeInv /\ [Next]_vars => TreeInv'
  BY StepTree, MovesKeepTree, GrowthKeepsTree

LEMMA InitTree == Init => TreeInv
  <1> SUFFICES ASSUME Init
               PROVE  TreeInv
    OBVIOUS
  <1>1. PICK owner \in Actors, work \in Works, join \in JoinPolicy :
          assignment = [t \in Tasks |-> IF t # Root THEN NoTask ELSE
              [parent |-> NoTask, depth |-> 0, owner |-> owner,
               parentOwner |-> owner, work |-> work, required |-> TRUE,
               join |-> join]]
    BY DEF Init
  <1> DEFINE root == [parent |-> NoTask, depth |-> 0, owner |-> owner,
                      parentOwner |-> owner, work |-> work, required |-> TRUE,
                      join |-> join]
  <1>2. root \in Delegation /\ root.parent = NoTask
    BY LimitAssumption DEF Delegation
  <1>3. assignment = [t \in Tasks |-> IF t # Root THEN NoTask ELSE root]
    BY <1>1
  <1> HIDE DEF root
  <1>4. /\ taskPhase = [t \in Tasks |-> IF t = Root THEN "Accepted" ELSE "Absent"]
        /\ reserved = {} /\ outcome = [t \in Tasks |-> "None"] /\ handoff = {}
        /\ Root \in Tasks
    BY IdentityAssumption DEF Init
  <1>5. Retained = {Root}
    BY <1>4 DEF Retained
  <1>6. TreeTypes
    BY <1>2, <1>3, <1>4 DEF TreeTypes, TaskPhase, TaskTerminalKind
  <1>7. Cardinality(Retained) = 1 /\ 1 <= MaxTasks
    <2>1. MaxTasks \in Nat \ {0}
      BY LimitAssumption
    <2>2. Cardinality({Root}) = 1
      BY FS_Singleton
    <2>3. QED
      BY <1>5, <2>1, <2>2
  <1>8. \A t \in Retained : Placed(t) /\ PhaseTruth(t)
    BY <1>2, <1>3, <1>4, <1>5 DEF Placed, PhaseTruth
  <1>9. \A t \in Tasks \ Retained : Untouched(t)
    BY <1>4 DEF Untouched
  <1>10. JoinTruth /\ CancellationClosed
    BY <1>4, <1>5 DEF JoinTruth, CancellationClosed, Succeeded
  <1>11. QED
    BY <1>2, <1>3, <1>4, <1>5, <1>6, <1>7, <1>8, <1>9, <1>10 DEF TreeInv

------------------------------------------------------------------------------
(* Messages *)

\* The messages of t form one chain, and its artifacts stay within the bound.
Chained(t) ==
  /\ {message[m].ordinal : m \in TaskMessages(t)} = 1 .. Cardinality(TaskMessages(t))
  /\ \A m \in TaskMessages(t) :
        IF message[m].ordinal = 1 THEN message[m].predecessor = NoMessage
        ELSE /\ message[m].predecessor \in TaskMessages(t)
             /\ message[message[m].predecessor].ordinal + 1 = message[m].ordinal

Handed(t) == IF t \in handoff THEN 1 ELSE 0

Bounded(t) == Cardinality(ArtifactReferences(t)) + Handed(t) <= MaxArtifacts

MessageInv ==
  /\ message \in [Messages -> Message \cup {NoMessage}]
  /\ acknowledged \subseteq Messages
  /\ Cardinality(messages) <= MaxMessages
  /\ \A m \in messages : message[m].task \in Retained
  /\ \A t \in Retained : Chained(t) /\ Bounded(t)

LEMMA MessagesFinite ==
  /\ messages \subseteq Messages /\ IsFiniteSet(messages)
  /\ \A t : /\ TaskMessages(t) \subseteq messages /\ IsFiniteSet(TaskMessages(t))
            /\ ArtifactReferences(t) \subseteq TaskMessages(t)
            /\ IsFiniteSet(ArtifactReferences(t))
  <1>1. messages \subseteq Messages /\ IsFiniteSet(messages)
    BY FiniteAssumption, FS_Subset DEF messages
  <1>2. \A t : TaskMessages(t) \subseteq messages /\ ArtifactReferences(t) \subseteq TaskMessages(t)
    BY DEF TaskMessages, ArtifactReferences
  <1>3. QED
    BY <1>1, <1>2, FS_Subset

\* A command that sends nothing: the tree may have grown, and the completion of
\* a task may hand over one artifact it had room for.
LEMMA MessagesStand ==
  ASSUME TreeInv, MessageInv, message' = message,
         acknowledged' \subseteq Messages, Retained \subseteq Retained', Retained' \subseteq Tasks,
         \A t \in handoff' \ handoff : ArtifactRoom(t)
  PROVE  MessageInv'
  <1>1. messages' = messages
    BY DEF messages
  <1>2. \A t : TaskMessages(t)' = TaskMessages(t) /\ ArtifactReferences(t)' = ArtifactReferences(t)
    BY <1>1 DEF TaskMessages, ArtifactReferences
  <1>3. \A m \in messages' : message'[m].task \in Retained'
    BY <1>1 DEF MessageInv
  <1>4. ASSUME NEW t \in Retained'
        PROVE  Chained(t)'
    <2>1. CASE t \in Retained
      <3>1. Chained(t)
        BY <2>1 DEF MessageInv
      <3>2. QED
        BY <1>2, <3>1 DEF Chained
    <2>2. CASE t \notin Retained
      <3>1. TaskMessages(t) = {}
        BY <2>2 DEF TaskMessages, MessageInv
      <3>2. Cardinality({}) = 0
        BY FS_EmptySet
      <3>3. 1 .. 0 = {}
        OBVIOUS
      <3>4. QED
        BY <1>2, <3>1, <3>2, <3>3 DEF Chained
    <2>3. QED
      BY <2>1, <2>2
  <1>5. ASSUME NEW t \in Retained'
        PROVE  Bounded(t)'
    <2>1. /\ Cardinality(ArtifactReferences(t)) \in Nat /\ MaxArtifacts \in Nat
          /\ ArtifactReferences(t)' = ArtifactReferences(t)
      BY <1>2, MessagesFinite, FS_CardinalityType, LimitAssumption
    <2>2. CASE t \in handoff' \ handoff
      <3>1. Cardinality(ArtifactReferences(t)) < MaxArtifacts
        BY <2>2 DEF ArtifactRoom
      <3>2. QED
        BY <2>1, <2>2, <3>1 DEF Bounded, Handed
    <2>3. CASE t \notin handoff' \ handoff
      <3>1. Handed(t)' <= Handed(t) /\ Handed(t) \in Nat /\ Handed(t)' \in Nat
        BY <2>3 DEF Handed
      <3>2. Cardinality(ArtifactReferences(t)) + Handed(t) <= MaxArtifacts
        <4>1. CASE t \in Retained
          BY <4>1 DEF MessageInv, Bounded
        <4>2. CASE t \notin Retained
          <5>1. ArtifactReferences(t) = {}
            BY <4>2 DEF ArtifactReferences, TaskMessages, MessageInv
          <5>2. Cardinality({}) = 0
            BY FS_EmptySet
          <5>3. Handed(t) = 0
            BY <4>2 DEF TreeInv, Untouched, Handed
          <5>4. QED
            BY <2>1, <5>1, <5>2, <5>3
        <4>3. QED
          BY <4>1, <4>2
      <3>3. QED
        BY <2>1, <3>1, <3>2 DEF Bounded
    <2>4. QED
      BY <2>2, <2>3
  <1>6. QED
    BY <1>1, <1>3, <1>4, <1>5 DEF MessageInv

\* The message of the highest ordinal ends the chain.
LEMMA ChainEnd ==
  ASSUME MessageInv, NEW t \in Retained, TaskMessages(t) # {}
  PROVE  /\ Predecessor(t) \in TaskMessages(t)
         /\ message[Predecessor(t)].ordinal = Cardinality(TaskMessages(t))
  <1> DEFINE n == Cardinality(TaskMessages(t))
  <1>1. n \in Nat /\ n # 0
    BY MessagesFinite, FS_CardinalityType, FS_EmptySet
  <1>2. {message[m].ordinal : m \in TaskMessages(t)} = 1 .. n
    BY DEF MessageInv, Chained
  <1> HIDE DEF n
  <1>3. PICK last \in TaskMessages(t) : message[last].ordinal = n
    BY <1>1, <1>2
  <1>4. \A m \in TaskMessages(t) : message[m].ordinal \in 1 .. n
    BY <1>2
  <1>5. \A m \in TaskMessages(t) : message[m].ordinal <= message[last].ordinal
    BY <1>1, <1>3, <1>4
  <1>6. /\ Predecessor(t) \in TaskMessages(t)
        /\ \A m \in TaskMessages(t) : message[m].ordinal <= message[Predecessor(t)].ordinal
    BY <1>5, Zenon DEF Predecessor
  <1>7. message[Predecessor(t)].ordinal \in 1 .. n /\ n <= message[Predecessor(t)].ordinal
    BY <1>3, <1>4, <1>6
  <1>8. message[Predecessor(t)].ordinal = n
    BY <1>1, <1>7
  <1>9. QED
    BY <1>6, <1>8 DEF n

LEMMA SendKeepsMessages ==
  ASSUME TreeInv, MessageInv, NEW m \in Messages, NEW t \in Retained,
         NEW content \in Contents(t), SendMessage(m, content)
  PROVE  /\ MessageInv'
         /\ messages' = messages \cup {m} /\ m \notin messages
  <1>1. /\ content.task = t /\ content.sender \in Actors /\ content.receiver \in Actors
        /\ content.ordinal = NextOrdinal(t) /\ content.predecessor = Predecessor(t)
        /\ content.artifact \in BOOLEAN
        /\ content = [task |-> t, sender |-> content.sender, receiver |-> content.receiver,
                      ordinal |-> NextOrdinal(t), predecessor |-> Predecessor(t),
                      artifact |-> content.artifact]
    BY DEF Contents
  <1>2. /\ Cardinality(messages) < MaxMessages /\ m \notin messages
        /\ taskPhase[t] = "Active"
        /\ content.artifact => ArtifactRoom(t)
        /\ message' = [message EXCEPT ![m] = content]
        /\ UNCHANGED <<assignment, taskPhase, reserved, outcome, handoff, acknowledged>>
    BY <1>1 DEF SendMessage, taskVars
  <1> DEFINE n == Cardinality(TaskMessages(t))
  <1>3. n \in Nat /\ NextOrdinal(t) = n + 1 /\ n + 1 \in Nat
    BY MessagesFinite, FS_CardinalityType DEF NextOrdinal
  <1> HIDE DEF n
  <1>4. Predecessor(t) \in Messages \cup {NoMessage}
    <2>1. CASE TaskMessages(t) = {}
      BY <2>1 DEF Predecessor
    <2>2. CASE TaskMessages(t) # {}
      BY <2>2, ChainEnd, MessagesFinite
    <2>3. QED
      BY <2>1, <2>2
  <1>5. content \in Message
    BY <1>1, <1>3, <1>4, RetainedFinite DEF Message
  <1>6. message' \in [Messages -> Message \cup {NoMessage}]
    BY <1>2, <1>5 DEF MessageInv
  <1>7. message'[m] = content /\ \A o \in Messages \ {m} : message'[o] = message[o]
    BY <1>2 DEF MessageInv
  <1>8. messages' = messages \cup {m}
    BY <1>5, <1>7, AbsenceAssumption DEF messages
  <1>9. Retained' = Retained
    BY <1>2 DEF Retained
  <1>10. \A o \in messages : message'[o] = message[o]
    BY <1>2, <1>7, MessagesFinite
  <1>11. \A u : u # t => /\ TaskMessages(u)' = TaskMessages(u)
                         /\ ArtifactReferences(u)' = ArtifactReferences(u)
    BY <1>1, <1>7, <1>8, <1>10 DEF TaskMessages, ArtifactReferences
  <1>12. TaskMessages(t)' = TaskMessages(t) \cup {m} /\ m \notin TaskMessages(t)
    BY <1>1, <1>2, <1>7, <1>8, <1>10 DEF TaskMessages
  <1>13. ArtifactReferences(t)' =
           IF content.artifact THEN ArtifactReferences(t) \cup {m} ELSE ArtifactReferences(t)
    BY <1>7, <1>10, <1>12, MessagesFinite DEF ArtifactReferences
  <1>14. Cardinality(messages') <= MaxMessages
    <2>1. Cardinality(messages') = Cardinality(messages) + 1 /\ Cardinality(messages) \in Nat
      BY <1>2, <1>8, MessagesFinite, FS_AddElement, FS_CardinalityType
    <2>2. MaxMessages \in Nat
      BY LimitAssumption
    <2>3. QED
      BY <1>2, <2>1, <2>2
  <1>15. \A o \in messages' : message'[o].task \in Retained'
    BY <1>1, <1>7, <1>8, <1>9, <1>10 DEF MessageInv
  <1>16. Chained(t)'
    <2>1. /\ {message[o].ordinal : o \in TaskMessages(t)} = 1 .. n
          /\ \A o \in TaskMessages(t) :
               IF message[o].ordinal = 1 THEN message[o].predecessor = NoMessage
               ELSE /\ message[o].predecessor \in TaskMessages(t)
                    /\ message[message[o].predecessor].ordinal + 1 = message[o].ordinal
      BY DEF MessageInv, Chained, n
    <2>2. Cardinality(TaskMessages(t)') = n + 1
      BY <1>12, MessagesFinite, FS_AddElement DEF n
    <2>3. \A o \in TaskMessages(t) : message'[o] = message[o]
      BY <1>10, MessagesFinite
    <2>4. message'[m].ordinal = n + 1 /\ message'[m].predecessor = Predecessor(t)
      BY <1>1, <1>3, <1>7
    <2>5. {message'[o].ordinal : o \in TaskMessages(t)'} = 1 .. n + 1
      <3>1. {message'[o].ordinal : o \in TaskMessages(t)'}
              = {message[o].ordinal : o \in TaskMessages(t)} \cup {n + 1}
        BY <1>12, <2>3, <2>4
      <3>2. (1 .. n) \cup {n + 1} = 1 .. n + 1
        BY <1>3
      <3>3. QED
        BY <2>1, <3>1, <3>2
    <2>6. IF message'[m].ordinal = 1 THEN message'[m].predecessor = NoMessage
          ELSE /\ message'[m].predecessor \in TaskMessages(t)
               /\ message'[message'[m].predecessor].ordinal + 1 = message'[m].ordinal
      <3>1. CASE TaskMessages(t) = {}
        <4>1. n = 0
          BY <3>1, FS_EmptySet DEF n
        <4>2. Predecessor(t) = NoMessage
          BY <3>1 DEF Predecessor
        <4>3. QED
          BY <2>4, <4>1, <4>2
      <3>2. CASE TaskMessages(t) # {}
        <4>1. Predecessor(t) \in TaskMessages(t) /\ message[Predecessor(t)].ordinal = n
          BY <3>2, ChainEnd DEF n
        <4>2. message'[Predecessor(t)].ordinal = n
          BY <2>3, <4>1
        <4>3. n # 0
          BY <3>2, MessagesFinite, FS_EmptySet DEF n
        <4>4. n + 1 # 1
          BY <1>3, <4>3
        <4>5. QED
          BY <2>4, <4>1, <4>2, <4>4
      <3>3. QED
        BY <3>1, <3>2
    <2>7. \A o \in TaskMessages(t)' :
            IF message'[o].ordinal = 1 THEN message'[o].predecessor = NoMessage
            ELSE /\ message'[o].predecessor \in TaskMessages(t)'
                 /\ message'[message'[o].predecessor].ordinal + 1 = message'[o].ordinal
      <3> SUFFICES ASSUME NEW o \in TaskMessages(t)'
                   PROVE  IF message'[o].ordinal = 1 THEN message'[o].predecessor = NoMessage
                          ELSE /\ message'[o].predecessor \in TaskMessages(t)'
                               /\ message'[message'[o].predecessor].ordinal + 1
                                    = message'[o].ordinal
        OBVIOUS
      <3>1. CASE o = m
        BY <1>12, <2>6, <3>1
      <3>2. CASE o # m
        BY <1>12, <2>1, <2>3, <3>2
      <3>3. QED
        BY <3>1, <3>2
    <2>8. QED
      BY <2>2, <2>5, <2>7 DEF Chained
  <1>17. Bounded(t)'
    <2>1. t \notin handoff /\ handoff' = handoff
      BY <1>2 DEF TreeInv, PhaseTruth
    <2>2. Handed(t)' = 0 /\ Handed(t) = 0
      BY <2>1 DEF Handed
    <2>3. Cardinality(ArtifactReferences(t)) \in Nat /\ MaxArtifacts \in Nat
      BY MessagesFinite, FS_CardinalityType, LimitAssumption
    <2>4. CASE content.artifact
      <3>1. Cardinality(ArtifactReferences(t)) < MaxArtifacts
        BY <1>2, <2>4 DEF ArtifactRoom
      <3>2. m \notin ArtifactReferences(t)
        BY <1>12, MessagesFinite
      <3>3. Cardinality(ArtifactReferences(t)') = Cardinality(ArtifactReferences(t)) + 1
        BY <1>13, <2>4, <3>2, MessagesFinite, FS_AddElement
      <3>4. QED
        BY <2>2, <2>3, <3>1, <3>3 DEF Bounded
    <2>5. CASE ~ content.artifact
      <3>1. Bounded(t)
        BY DEF MessageInv
      <3>2. QED
        BY <1>13, <2>2, <2>5, <3>1 DEF Bounded
    <2>6. QED
      BY <2>4, <2>5
  <1>18. ASSUME NEW u \in Retained, u # t
         PROVE  Chained(u)' /\ Bounded(u)'
    <2>1. Chained(u) /\ Bounded(u)
      BY DEF MessageInv
    <2>2. /\ TaskMessages(u)' = TaskMessages(u)
          /\ ArtifactReferences(u)' = ArtifactReferences(u)
          /\ Handed(u)' = Handed(u)
      BY <1>2, <1>11, <1>18 DEF Handed
    <2>3. \A o \in TaskMessages(u) : message'[o] = message[o]
      BY <1>10, MessagesFinite
    <2>4. Chained(u)'
      BY <2>1, <2>2, <2>3 DEF Chained
    <2>5. Bounded(u)'
      BY <2>1, <2>2 DEF Bounded
    <2>6. QED
      BY <2>4, <2>5
  <1>19. MessageInv'
    <2>1. \A u \in Retained' : Chained(u)' /\ Bounded(u)'
      BY <1>9, <1>16, <1>17, <1>18
    <2>2. acknowledged' \subseteq Messages
      BY <1>2 DEF MessageInv
    <2>3. QED
      BY <1>6, <1>14, <1>15, <2>1, <2>2 DEF MessageInv
  <1>20. QED
    BY <1>2, <1>8, <1>19

------------------------------------------------------------------------------
(* The aggregate phase, the terminal and the byte bound *)

ClosingInv ==
  /\ phase \in {"Active", "Paused", "Terminal"}
  /\ sequence \in Nat \ {0}
  /\ terminal \in [kind : CollaborationTerminalKind \cup {"None"}, blocking : SUBSET Tasks]
  /\ (phase = "Terminal") = (terminal.kind # "None")
  /\ TerminalTruth
  /\ EstimatedEncodedBytes - CommandBytes <= StateBytes

\* A command that leaves the aggregate open.
Continues(added) ==
  /\ Decide(added)
  /\ phase' \in {"Active", "Paused"}
  /\ terminal' = terminal

\* The estimate of the next state is what Decide held against the bound, and
\* the identity of the command.
LEMMA BytesKept ==
  ASSUME sequence \in Nat, NEW added \in Nat, Decide(added),
         NEW newTasks \in Nat, NEW newMessages \in Nat,
         added = TaskBytes * newTasks + MessageBytes * newMessages,
         Cardinality(Retained') = Cardinality(Retained) + newTasks,
         Cardinality(messages') = Cardinality(messages) + newMessages
  PROVE  EstimatedEncodedBytes' - CommandBytes <= StateBytes
  <1>1. {TaskBytes, MessageBytes, CommandBytes, StateBytes} \subseteq Nat
    BY LimitAssumption
  <1>2. Cardinality(Retained) \in Nat /\ Cardinality(messages) \in Nat
    BY RetainedFinite, MessagesFinite, FS_CardinalityType
  <1>3. \A a, b, c \in Nat : a * (b + c) = a * b + a * c
    OBVIOUS
  <1> DEFINE r == Cardinality(Retained)  m == Cardinality(messages)
  <1>4. TaskBytes * Cardinality(Retained') = TaskBytes * r + TaskBytes * newTasks
    BY <1>1, <1>2, <1>3
  <1>5. MessageBytes * Cardinality(messages') = MessageBytes * m + MessageBytes * newMessages
    BY <1>1, <1>2, <1>3
  <1>6. CommandBytes * sequence' = CommandBytes * sequence + CommandBytes
    <2>1. sequence' = sequence + 1
      BY DEF Decide
    <2>2. CommandBytes * (sequence + 1) = CommandBytes * sequence + CommandBytes * 1
      BY <1>1, <1>3
    <2>3. QED
      BY <1>1, <2>1, <2>2
  <1>7. \A a, b \in Nat : a * b \in Nat
    OBVIOUS
  <1>8. /\ TaskBytes * r \in Nat /\ MessageBytes * m \in Nat /\ CommandBytes * sequence \in Nat
        /\ TaskBytes * newTasks \in Nat /\ MessageBytes * newMessages \in Nat
    BY <1>1, <1>2, <1>7
  <1> HIDE DEF r, m
  <1>9. EstimatedEncodedBytes = TaskBytes * r + MessageBytes * m + CommandBytes * sequence
    BY DEF EstimatedEncodedBytes, r, m
  <1>10. EstimatedEncodedBytes'
           = (TaskBytes * r + TaskBytes * newTasks)
               + (MessageBytes * m + MessageBytes * newMessages)
               + (CommandBytes * sequence + CommandBytes)
    BY <1>4, <1>5, <1>6 DEF EstimatedEncodedBytes
  <1>11. EstimatedEncodedBytes + added <= StateBytes
    BY DEF Decide
  <1> DEFINE tb == TaskBytes * r  nt == TaskBytes * newTasks
             mb == MessageBytes * m  nm == MessageBytes * newMessages
             cb == CommandBytes * sequence
  <1>12. tb \in Nat /\ nt \in Nat /\ mb \in Nat /\ nm \in Nat /\ cb \in Nat
    BY <1>8
  <1>13. /\ EstimatedEncodedBytes = tb + mb + cb
         /\ EstimatedEncodedBytes' = (tb + nt) + (mb + nm) + (cb + CommandBytes)
         /\ added = nt + nm
    BY <1>9, <1>10
  <1> HIDE DEF tb, nt, mb, nm, cb
  <1>14. QED
    BY <1>1, <1>11, <1>12, <1>13

LEMMA ContinuesKeepsClosing ==
  ASSUME ClosingInv, NEW added \in Nat, Continues(added),
         NEW newTasks \in Nat, NEW newMessages \in Nat,
         added = TaskBytes * newTasks + MessageBytes * newMessages,
         Cardinality(Retained') = Cardinality(Retained) + newTasks,
         Cardinality(messages') = Cardinality(messages) + newMessages
  PROVE  ClosingInv'
  <1>1. sequence \in Nat /\ Decide(added)
    BY DEF ClosingInv, Continues
  <1>2. EstimatedEncodedBytes' - CommandBytes <= StateBytes
    BY <1>1, BytesKept
  <1>3. phase # "Terminal" /\ sequence' = sequence + 1
    BY <1>1 DEF Decide
  <1>4. QED
    BY <1>2, <1>3 DEF ClosingInv, Continues, TerminalTruth

\* A command that adds no task and no message.
LEMMA ContinuesStill ==
  ASSUME ClosingInv, Continues(0), Retained' = Retained, messages' = messages
  PROVE  ClosingInv'
  <1>1. /\ Cardinality(Retained) \in Nat /\ Cardinality(messages) \in Nat
        /\ TaskBytes \in Nat /\ MessageBytes \in Nat
    BY RetainedFinite, MessagesFinite, FS_CardinalityType, LimitAssumption
  <1>2. /\ 0 = TaskBytes * 0 + MessageBytes * 0
        /\ Cardinality(Retained') = Cardinality(Retained) + 0
        /\ Cardinality(messages') = Cardinality(messages) + 0
    BY <1>1
  <1>3. 0 \in Nat
    OBVIOUS
  <1>4. QED
    BY <1>2, <1>3, ContinuesKeepsClosing

LEMMA OfferKeepsClosing ==
  ASSUME ClosingInv, Continues(TaskBytes), messages' = messages,
         NEW t, Retained' = Retained \cup {t}, t \notin Retained
  PROVE  ClosingInv'
  <1>1. /\ Cardinality(messages) \in Nat /\ TaskBytes \in Nat /\ MessageBytes \in Nat
    BY MessagesFinite, FS_CardinalityType, LimitAssumption
  <1>2. Cardinality(Retained') = Cardinality(Retained) + 1
    BY RetainedFinite, FS_AddElement
  <1>3. /\ TaskBytes = TaskBytes * 1 + MessageBytes * 0
        /\ Cardinality(messages') = Cardinality(messages) + 0
        /\ 0 \in Nat /\ 1 \in Nat
    BY <1>1
  <1>4. QED
    BY <1>1, <1>2, <1>3, ContinuesKeepsClosing

LEMMA SendKeepsClosing ==
  ASSUME ClosingInv, Continues(MessageBytes), Retained' = Retained,
         NEW m, messages' = messages \cup {m}, m \notin messages
  PROVE  ClosingInv'
  <1>1. /\ Cardinality(Retained) \in Nat /\ TaskBytes \in Nat /\ MessageBytes \in Nat
    BY RetainedFinite, FS_CardinalityType, LimitAssumption
  <1>2. Cardinality(messages') = Cardinality(messages) + 1
    BY MessagesFinite, FS_AddElement
  <1>3. /\ MessageBytes = TaskBytes * 0 + MessageBytes * 1
        /\ Cardinality(Retained') = Cardinality(Retained) + 0
        /\ 0 \in Nat /\ 1 \in Nat
    BY <1>1
  <1>4. QED
    BY <1>1, <1>2, <1>3, ContinuesKeepsClosing

\* The summary is written from ended tasks and acknowledged messages; a root
\* that succeeded kept its join, so no summary speaks of an unsatisfied one.
LEMMA FinalizeKeepsClosing ==
  ASSUME TreeInv, MessageInv, ClosingInv, Finalize
  PROVE  ClosingInv'
  <1>1. /\ messages = acknowledged
        /\ \A t \in Retained : taskPhase[t] = "Terminal"
        /\ phase' = "Terminal"
        /\ terminal' = [kind |-> TerminalKind,
                        blocking |-> IF TerminalKind = "Completed" THEN {}
                                     ELSE {t \in Retained : ~Succeeded(t)}]
        /\ UNCHANGED <<taskVars, messageVars>>
        /\ Decide(0)
    BY DEF Finalize, HasPendingDirectives
  <1>2. /\ Retained' = Retained /\ messages' = messages /\ acknowledged' = acknowledged
        /\ outcome' = outcome /\ taskPhase' = taskPhase
    BY <1>1 DEF taskVars, messageVars, Retained, messages
  <1>3. Root \in Retained /\ outcome[Root] \in TaskTerminalKind
    BY <1>1, RetainedFinite DEF TreeInv, TreeTypes, PhaseTruth
  <1>4. outcome[Root] = "Succeeded" => JoinSatisfied(Root)
    BY <1>3 DEF TreeInv, JoinTruth, Succeeded
  <1>5. /\ TerminalKind \in CollaborationTerminalKind
        /\ TerminalKind # "UnsatisfiedJoin"
        /\ (TerminalKind = "Completed") = (outcome[Root] = "Succeeded")
    <2>1. CASE outcome[Root] = "Succeeded"
      BY <1>4, <2>1 DEF TerminalKind, CollaborationTerminalKind
    <2>2. CASE outcome[Root] = "Failed" \/ outcome[Root] = "Rejected"
      BY <2>2 DEF TerminalKind, CollaborationTerminalKind
    <2>3. CASE outcome[Root] = "Cancelled"
      BY <2>3 DEF TerminalKind, CollaborationTerminalKind
    <2>4. CASE outcome[Root] = "Abandoned"
      BY <2>4 DEF TerminalKind, CollaborationTerminalKind
    <2>5. QED
      BY <1>3, <2>1, <2>2, <2>3, <2>4 DEF TaskTerminalKind
  <1>6. /\ terminal'.kind = TerminalKind
        /\ terminal'.kind # "Completed" => terminal'.blocking = {t \in Retained : ~Succeeded(t)}
        /\ terminal' \in [kind : CollaborationTerminalKind \cup {"None"}, blocking : SUBSET Tasks]
    BY <1>1, <1>5, RetainedFinite
  <1>7. {t \in Retained' : ~Succeeded(t)'} = {t \in Retained : ~Succeeded(t)}
    BY <1>2 DEF Succeeded
  <1>8. TerminalTruth'
    BY <1>1, <1>2, <1>5, <1>6, <1>7 DEF TerminalTruth, Succeeded
  <1>9. EstimatedEncodedBytes' - CommandBytes <= StateBytes
    <2>1. /\ Cardinality(Retained) \in Nat /\ Cardinality(messages) \in Nat
          /\ TaskBytes \in Nat /\ MessageBytes \in Nat
      BY RetainedFinite, MessagesFinite, FS_CardinalityType, LimitAssumption
    <2>2. /\ 0 = TaskBytes * 0 + MessageBytes * 0 /\ 0 \in Nat
          /\ Cardinality(Retained') = Cardinality(Retained) + 0
          /\ Cardinality(messages') = Cardinality(messages) + 0
      BY <1>2, <2>1
    <2>3. sequence \in Nat
      BY DEF ClosingInv
    <2>4. QED
      BY <1>1, <2>2, <2>3, BytesKept
  <1>10. terminal'.kind # "None" /\ sequence' \in Nat \ {0}
    BY <1>1, <1>5, <1>6 DEF CollaborationTerminalKind, Decide, ClosingInv
  <1>11. QED
    BY <1>1, <1>6, <1>8, <1>9, <1>10 DEF ClosingInv

------------------------------------------------------------------------------
(* The inductive invariant *)

CollaborationInv == TreeInv /\ MessageInv /\ ClosingInv

LEMMA StepRetains ==
  ASSUME TreeInv, [Next]_vars
  PROVE  Retained \subseteq Retained' /\ Retained' \subseteq Tasks
  <1>1. CASE TreeMoves
    BY <1>1, MoveFacts, RetainedFinite
  <1>2. ASSUME NEW t, NEW p, Grows(t, p)
        PROVE  Retained \subseteq Retained' /\ Retained' \subseteq Tasks
    <2>1. Retained' = Retained \cup {t} /\ t \in Tasks
      <3>1. Retained' = Retained \cup {t}
        BY <1>2, GrowthFacts
      <3>2. QED
        BY <1>2, <3>1 DEF Grows
    <2>2. QED
      BY <2>1, RetainedFinite
  <1>3. QED
    BY <1>1, <1>2, StepTree

LEMMA StepMessages ==
  ASSUME TreeInv, MessageInv, [Next]_vars
  PROVE  MessageInv'
  <1>1. CASE \E m \in Messages, t \in Retained : \E content \in Contents(t) :
               SendMessage(m, content)
    BY <1>1, SendKeepsMessages
  <1>2. CASE /\ message' = message /\ acknowledged' \subseteq Messages
             /\ \A t \in handoff' \ handoff : ArtifactRoom(t)
    BY <1>2, StepRetains, MessagesStand
  <1>3. acknowledged \subseteq Messages
    BY DEF MessageInv
  <1>4. ASSUME UNCHANGED <<handoff, messageVars>>
        PROVE  /\ message' = message /\ acknowledged' \subseteq Messages
               /\ \A t \in handoff' \ handoff : ArtifactRoom(t)
    BY <1>3, <1>4 DEF messageVars
  <1>5. ASSUME NEW m \in Messages, NEW actor \in Actors, AcknowledgeMessage(m, actor)
        PROVE  /\ message' = message /\ acknowledged' \subseteq Messages
               /\ \A t \in handoff' \ handoff : ArtifactRoom(t)
    BY <1>3, <1>5 DEF AcknowledgeMessage, taskVars
  <1>6. ASSUME NEW t \in Tasks, NEW actor \in Actors, NEW kind \in {"Succeeded", "Failed"},
               NEW withHandoff \in BOOLEAN, CompleteTask(t, actor, kind, withHandoff)
        PROVE  /\ message' = message /\ acknowledged' \subseteq Messages
               /\ \A u \in handoff' \ handoff : ArtifactRoom(u)
    BY <1>3, <1>6 DEF CompleteTask, messageVars
  <1>7. CASE \/ \E t \in Tasks \ Retained, parent \in Retained, actor, owner \in Actors,
                   work \in Works, required \in BOOLEAN, join \in JoinPolicy :
                    OfferDelegation(t, parent, actor, owner, work, required, join)
             \/ \E t \in Tasks, actor \in Actors : AcceptDelegation(t, actor)
             \/ \E t \in Tasks, actor \in Actors : RejectDelegation(t, actor)
             \/ \E t \in Tasks, work \in Works, actor \in Actors : ActivateTask(t, work, actor)
             \/ \E t \in Tasks, actor \in Actors : AbandonTask(t, actor)
             \/ \E t \in Tasks, actor \in Actors : CancelTask(t, actor)
             \/ \E t \in Tasks, actor \in Actors : AcknowledgeCancellation(t, actor)
    <2>1. UNCHANGED <<handoff, messageVars>>
      BY <1>7 DEF OfferDelegation, AcceptDelegation, RejectDelegation, ActivateTask,
                  AbandonTask, CancelTask, AcknowledgeCancellation
    <2>2. QED
      BY <1>2, <1>4, <2>1
  <1>8. CASE \/ \E actor \in Actors : Pause(actor)
             \/ \E actor \in Actors : Resume(actor)
             \/ Finalize
             \/ UNCHANGED vars
    <2>1. UNCHANGED <<handoff, messageVars>>
      BY <1>8 DEF Pause, Resume, Finalize, vars, taskVars, messageVars
    <2>2. QED
      BY <1>2, <1>4, <2>1
  <1>9. QED
    BY <1>1, <1>2, <1>5, <1>6, <1>7, <1>8 DEF Next

LEMMA StepClosing ==
  ASSUME CollaborationInv, [Next]_vars
  PROVE  ClosingInv'
  <1> USE DEF CollaborationInv
  <1>0. phase # "Terminal" => phase \in {"Active", "Paused"}
    BY DEF ClosingInv
  <1>1. CASE /\ Continues(0)
             /\ messages' = messages
             /\ TreeMoves
    <2>1. Retained' = Retained
      BY <1>1, MoveFacts
    <2>2. QED
      BY <1>1, <2>1, ContinuesStill
  <1>2. ASSUME NEW t \in Tasks \ Retained, NEW parent \in Retained,
               NEW actor \in Actors, NEW owner \in Actors, NEW work \in Works,
               NEW required \in BOOLEAN, NEW join \in JoinPolicy,
               OfferDelegation(t, parent, actor, owner, work, required, join)
        PROVE  ClosingInv'
    <2>1. Grows(t, parent)
      BY <1>2, OfferGrows
    <2>2. Retained' = Retained \cup {t} /\ t \notin Retained
      BY <2>1, GrowthFacts
    <2>3. Continues(TaskBytes) /\ messages' = messages
      BY <1>0, <1>2 DEF OfferDelegation, Continues, Decide, messageVars, messages
    <2>4. QED
      BY <2>2, <2>3, OfferKeepsClosing
  <1>3. ASSUME NEW m \in Messages, NEW t \in Retained, NEW content \in Contents(t),
               SendMessage(m, content)
        PROVE  ClosingInv'
    <2>1. messages' = messages \cup {m} /\ m \notin messages
      BY <1>3, SendKeepsMessages
    <2>2. Continues(MessageBytes) /\ Retained' = Retained
      BY <1>0, <1>3 DEF SendMessage, Continues, Decide, taskVars, Retained
    <2>3. QED
      BY <2>1, <2>2, SendKeepsClosing
  <1>4. ASSUME NEW m \in Messages, NEW actor \in Actors, AcknowledgeMessage(m, actor)
        PROVE  ClosingInv'
    <2>1. Continues(0) /\ messages' = messages /\ Retained' = Retained
      BY <1>0, <1>4 DEF AcknowledgeMessage, Continues, Decide, taskVars, messages, Retained
    <2>2. QED
      BY <2>1, ContinuesStill
  <1>5. CASE \/ \E t \in Tasks, actor \in Actors : AcceptDelegation(t, actor)
             \/ \E t \in Tasks, actor \in Actors : RejectDelegation(t, actor)
             \/ \E t \in Tasks, work \in Works, actor \in Actors : ActivateTask(t, work, actor)
             \/ \E t \in Tasks, actor \in Actors, kind \in {"Succeeded", "Failed"},
                   withHandoff \in BOOLEAN : CompleteTask(t, actor, kind, withHandoff)
             \/ \E t \in Tasks, actor \in Actors : AbandonTask(t, actor)
             \/ \E t \in Tasks, actor \in Actors : CancelTask(t, actor)
             \/ \E t \in Tasks, actor \in Actors : AcknowledgeCancellation(t, actor)
    <2>1. Decide(0) /\ UNCHANGED <<phase, assignment, messageVars, terminal>>
      BY <1>5 DEF AcceptDelegation, RejectDelegation, ActivateTask, CompleteTask,
                  AbandonTask, CancelTask, AcknowledgeCancellation
    <2>2. Continues(0) /\ messages' = messages
      BY <1>0, <2>1 DEF Continues, Decide, messageVars, messages
    <2>3. TreeMoves
      BY <1>5, CommandMoves
    <2>4. QED
      BY <1>1, <2>2, <2>3
  <1>6. CASE (\E actor \in Actors : Pause(actor)) \/ (\E actor \in Actors : Resume(actor))
    <2>1. Continues(0) /\ messages' = messages /\ Retained' = Retained
      BY <1>6 DEF Pause, Resume, Continues, Decide, taskVars, messageVars, messages, Retained
    <2>2. QED
      BY <2>1, ContinuesStill
  <1>7. CASE Finalize
    BY <1>7, FinalizeKeepsClosing
  <1>8. CASE UNCHANGED vars
    <2>1. /\ EstimatedEncodedBytes' = EstimatedEncodedBytes
          /\ TerminalTruth' = TerminalTruth
          /\ UNCHANGED <<phase, sequence, terminal>>
      BY <1>8 DEF vars, EstimatedEncodedBytes, TerminalTruth, Retained, messages, Succeeded
    <2>2. QED
      BY <2>1 DEF ClosingInv
  <1>9. QED
    BY <1>2, <1>3, <1>4, <1>5, <1>6, <1>7, <1>8 DEF Next

LEMMA InitCollaboration == Init => CollaborationInv
  <1> SUFFICES ASSUME Init
               PROVE  CollaborationInv
    OBVIOUS
  <1>1. TreeInv
    BY InitTree
  <1>2. /\ message = [m \in Messages |-> NoMessage] /\ acknowledged = {} /\ handoff = {}
        /\ phase = "Active" /\ sequence = 1 /\ terminal = [kind |-> "None", blocking |-> {}]
        /\ EstimatedEncodedBytes <= StateBytes
    BY DEF Init
  <1>3. messages = {} /\ \A t : TaskMessages(t) = {} /\ ArtifactReferences(t) = {}
    BY <1>2 DEF messages, TaskMessages, ArtifactReferences
  <1>4. Cardinality({}) = 0 /\ MaxMessages \in Nat /\ MaxArtifacts \in Nat
    BY FS_EmptySet, LimitAssumption
  <1>5. MessageInv
    <2>1. \A t \in Retained : Chained(t)
      BY <1>3, <1>4 DEF Chained
    <2>2. \A t \in Retained : Bounded(t)
      BY <1>2, <1>3, <1>4 DEF Bounded, Handed
    <2>3. Cardinality(messages) <= MaxMessages
      BY <1>3, <1>4
    <2>4. QED
      BY <1>2, <1>3, <2>1, <2>2, <2>3 DEF MessageInv
  <1>6. ClosingInv
    <2>1. CommandBytes \in Nat /\ StateBytes \in Nat /\ TaskBytes \in Nat /\ MessageBytes \in Nat
      BY LimitAssumption
    <2>2. EstimatedEncodedBytes \in Int
      <3>1. Cardinality(Retained) \in Nat /\ Cardinality(messages) \in Nat
        BY RetainedFinite, MessagesFinite, FS_CardinalityType
      <3>2. \A a, b \in Nat : a * b \in Nat
        OBVIOUS
      <3>3. /\ TaskBytes * Cardinality(Retained) \in Nat
            /\ MessageBytes * Cardinality(messages) \in Nat
            /\ CommandBytes * sequence \in Nat
        BY <1>2, <2>1, <3>1, <3>2
      <3>4. QED
        BY <3>3 DEF EstimatedEncodedBytes
    <2>3. EstimatedEncodedBytes - CommandBytes <= StateBytes
      BY <1>2, <2>1, <2>2
    <2>4. QED
      BY <1>2, <2>3 DEF ClosingInv, TerminalTruth
  <1>7. QED
    BY <1>1, <1>5, <1>6 DEF CollaborationInv

\* Every command of the reducer keeps the tree, the messages and the summary.
THEOREM CollaborationInvariant == Spec => []CollaborationInv
  <1>1. Init => CollaborationInv
    BY InitCollaboration
  <1>2. CollaborationInv /\ [Next]_vars => CollaborationInv'
    BY StepTreeInv, StepMessages, StepClosing DEF CollaborationInv
  <1>3. QED
    BY <1>1, <1>2, PTL DEF Spec

\* Every state the reducer commits passes the validation recovery runs on it,
\* but for the bytes of the newest command identity (reducer.rs decide,
\* state/validation.rs).
THEOREM StateAlwaysLoads == Spec => []StateLoads
  <1>1. CollaborationInv => StateLoads
    <2> SUFFICES ASSUME CollaborationInv
                 PROVE  StateLoads
      OBVIOUS
    <2> USE DEF CollaborationInv
    <2>1. TypeOK
      BY DEF TypeOK, TreeInv, TreeTypes, MessageInv, ClosingInv
    <2>2. MessageChain
      BY DEF MessageChain, MessageInv, Chained
    <2>3. ArtifactsWithinBound
      BY DEF ArtifactsWithinBound, MessageInv, Bounded, Handed
    <2>4. CheckpointLoads
      <3>1. Cardinality(Retained) \in 1 .. MaxTasks
        <4>1. Cardinality(Retained) \in Nat /\ Cardinality(Retained) # 0
          BY RetainedFinite, FS_CardinalityType, FS_EmptySet DEF TreeInv
        <4>2. MaxTasks \in Nat
          BY LimitAssumption
        <4>3. QED
          BY <4>1, <4>2 DEF TreeInv
      <3>2. ASSUME NEW t \in Retained
            PROVE  /\ assignment[t].depth <= MaxDepth
                   /\ \A other \in Retained \ {t} : assignment[other].work # assignment[t].work
                   /\ t # Root =>
                        /\ assignment[t].parent \in Retained
                        /\ assignment[t].depth = assignment[assignment[t].parent].depth + 1
                        /\ assignment[t].parentOwner = assignment[assignment[t].parent].owner
                        /\ Cardinality(Children(assignment[t].parent)) <= FanOut
                   /\ taskPhase[t] \in {"Active", "Cancelling"} => t \in reserved
                   /\ taskPhase[t] \in {"Offered", "Accepted"} => t \notin reserved
                   /\ (taskPhase[t] = "Terminal") = (outcome[t] # "None")
        <4>1. Placed(t) /\ PhaseTruth(t)
          BY DEF TreeInv
        <4>2. assignment[t].depth \in 0 .. MaxDepth
          BY <4>1 DEF Placed, Delegation
        <4>3. assignment[t].depth <= MaxDepth
          BY <4>2, LimitAssumption
        <4>4. QED
          BY <4>1, <4>3 DEF Placed, PhaseTruth
      <3>3. ASSUME NEW m \in messages
            PROVE  /\ message[m].task \in Retained
                   /\ message[m].predecessor # NoMessage =>
                        /\ message[m].predecessor \in TaskMessages(message[m].task)
                        /\ message[message[m].predecessor].ordinal + 1 = message[m].ordinal
        <4>1. message[m].task \in Retained /\ m \in TaskMessages(message[m].task)
          BY DEF MessageInv, TaskMessages
        <4>2. QED
          BY <4>1 DEF MessageInv, Chained
      <3>4. /\ Cardinality(messages) <= MaxMessages
            /\ EstimatedEncodedBytes - CommandBytes <= StateBytes
            /\ assignment[Root].parent = NoTask
            /\ (phase = "Terminal") = (terminal.kind # "None")
        BY DEF TreeInv, MessageInv, ClosingInv
      <3>5. QED
        BY <3>1, <3>2, <3>3, <3>4 DEF CheckpointLoads
    <2>5. QED
      BY <2>1, <2>2, <2>3, <2>4 DEF StateLoads
  <1>2. QED
    BY <1>1, CollaborationInvariant, PTL

\* Joins stand behind reported successes, cancellation closes whole subtrees and
\* the final summary hides nothing (terminal.rs complete, cancel, finalize).
THEOREM TreeIsTruthful == Spec => []TreeTruth
  <1>1. CollaborationInv => TreeTruth
    BY DEF CollaborationInv, TreeInv, ClosingInv, TreeTruth
  <1>2. QED
    BY <1>1, CollaborationInvariant, PTL

\* No outcome is replaced, and no success is reported from a cancelled branch
\* (terminal.rs complete, cancel).
THEOREM OutcomesAreKept == Spec => OutcomesStand
  <1>1. ASSUME CollaborationInv, [Next]_vars
        PROVE  [\A t \in Tasks : outcome'[t] = "Succeeded" /\ outcome[t] = "None"
                  => \A a \in Ancestry(t) :
                        taskPhase[a] # "Cancelling" /\ outcome[a] # "Cancelled"]_vars
    <2> SUFFICES ASSUME NEW t \in Tasks, outcome'[t] = "Succeeded", outcome[t] = "None",
                        NEW a \in Ancestry(t)
                 PROVE  taskPhase[a] # "Cancelling" /\ outcome[a] # "Cancelled"
      OBVIOUS
    <2>0. TreeInv
      BY <1>1 DEF CollaborationInv
    <2>1. TreeMoves
      <3>1. \A u, p : Grows(u, p) => outcome' = outcome
        BY DEF Grows
      <3>2. QED
        BY <1>1, <2>0, <3>1, StepTree
    <2>2. t \in Retained /\ taskPhase[t] = "Active"
      BY <2>1 DEF TreeMoves, SuccessEarned
    <2>3. a \in Retained
      BY <2>0, <2>2, AncestryFacts
    <2>4. CASE a = t
      BY <2>2, <2>4
    <2>5. CASE a # t
      <3>1. IsDescendantOf(t, a)
        BY <2>5 DEF IsDescendantOf
      <3>2. taskPhase[t] \notin {"Cancelling", "Terminal"}
        BY <2>2
      <3>3. QED
        BY <2>0, <2>2, <2>3, <3>1, <3>2 DEF TreeInv, CancellationClosed
    <2>6. QED
      BY <2>4, <2>5
  <1>2. ASSUME CollaborationInv, [Next]_vars
        PROVE  [\A t \in Tasks : outcome[t] # "None"
                  => outcome'[t] = outcome[t] /\ taskPhase'[t] = "Terminal"]_vars
    <2> SUFFICES ASSUME NEW t \in Tasks, outcome[t] # "None"
                 PROVE  outcome'[t] = outcome[t] /\ taskPhase'[t] = "Terminal"
      OBVIOUS
    <2>0. TreeInv
      BY <1>2 DEF CollaborationInv
    <2>1. t \in Retained /\ taskPhase[t] = "Terminal"
      BY <2>0 DEF TreeInv, Untouched, PhaseTruth
    <2>2. CASE TreeMoves
      BY <2>0, <2>1, <2>2, MoveFacts
    <2>3. ASSUME NEW u, NEW p, Grows(u, p)
          PROVE  outcome'[t] = outcome[t] /\ taskPhase'[t] = "Terminal"
      <3>1. taskPhase'[t] = taskPhase[t]
        BY <2>0, <2>1, <2>3, GrowthFacts
      <3>2. QED
        BY <2>1, <2>3, <3>1 DEF Grows
    <2>4. QED
      BY <1>2, <2>0, <2>2, <2>3, StepTree
  <1>3. QED
    BY <1>1, <1>2, CollaborationInvariant, PTL
       DEF Spec, OutcomesStand, LateSuccessRefused, OutcomeImmutable
==============================================================================
