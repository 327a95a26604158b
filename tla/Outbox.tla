------------------------------- MODULE Outbox -------------------------------
(***************************************************************************)
(* The journal's transactional outbox and the daemon task that drains it.  *)
(* A row is inserted with the event that produces it, claimed under a      *)
(* growing fence and a lease, delivered, and settled under that fence.     *)
(* A child directive is settled by its owner in the transaction of its     *)
(* acknowledgement event; any other row by the claimant itself.  The       *)
(* daemon may crash between any two transactions.  Rows are numbers, their *)
(* order is the order of outbox identities.                                *)
(***************************************************************************)
EXTENDS Naturals, FiniteSets

CONSTANTS
    Row,            \* outbox identities
    Child,          \* the rows whose owner settles them
    Claimant,       \* claim loops sharing the journal; the daemon runs one
    MaxAttempts,    \* max_attempts of each row
    Lease,          \* LEASE_SECONDS, in ticks
    Window,         \* EPOCH_WIDTH, in ticks
    MaxEpoch        \* bound: restarts

ASSUME OutboxAssumption ==
    /\ Row \subseteq Nat /\ IsFiniteSet(Row)
    /\ Child \subseteq Row
    /\ MaxAttempts \in [Row -> Nat \ {0}]
    /\ Lease \in Nat \ {0} /\ Window \in Nat /\ Lease < Window
    /\ MaxEpoch \in Nat

VARIABLES
    row,            \* the durable outbox table
    head,           \* journal position of the last producing append
    moved,          \* rows whose owner has committed an event past the publication
    effect,         \* rows whose effect is durable at the destination
    lifecycle,      \* "ready", "readOnly" or "down"
    pump,           \* what each claim loop is doing
    claim,          \* the message each claim loop holds
    epoch,          \* authority epoch of this process
    elapsed,        \* ticks since the process started
    surfaced        \* history: rows whose failure put the daemon in read-only

outboxVars == <<row, head, moved, effect, lifecycle, pump, claim, epoch, elapsed,
          surfaced>>
durable == <<row, head, moved, effect>>

OutboxState == {"Absent", "Pending", "Claimed", "Acknowledged", "Exhausted"}
NoClaim == [id |-> 0, fence |-> 0, attempts |-> 0, lease_until |-> 0]

now == epoch * Window + elapsed

OutboxInit ==
    /\ row = [r \in Row |-> [state |-> "Absent", position |-> 0, attempts |-> 0,
                             fence |-> 0, lease_until |-> 0]]
    /\ head = 0
    /\ moved = {} /\ effect = {} /\ surfaced = {}
    /\ lifecycle = "ready"
    /\ pump = [p \in Claimant |-> "idle"]
    /\ claim = [p \in Claimant |-> NoClaim]
    /\ epoch = 0 /\ elapsed = 0

---------------------------------------------------------------------------
(* The table.                                                              *)

\* Rows of one append share its position.
Publish(S) ==
    /\ lifecycle = "ready"
    /\ S # {} /\ \A r \in S : row[r].state = "Absent"
    /\ head' = head + 1
    /\ row' = [r \in Row |->
                 IF r \in S THEN [row[r] EXCEPT !.state = "Pending", !.position = head']
                            ELSE row[r]]
    /\ UNCHANGED <<moved, effect, lifecycle, pump, claim, epoch, elapsed, surfaced>>

\* Mutant: a live claim may be taken over.
AvailableAnyLease(r) == row[r].state \in {"Pending", "Claimed"}

\* Mutant: an expired claim is never taken up again.
AvailablePending(r) == row[r].state = "Pending"

Available(r) ==
    \/ row[r].state = "Pending"
    \/ row[r].state = "Claimed" /\ row[r].lease_until <= now

\* Mutant: a row is spent as soon as its last attempt is claimed.
SpentAtOnce(r) ==
    row[r].attempts >= MaxAttempts[r] /\ row[r].state \in {"Pending", "Claimed"}

Spent(r) == row[r].attempts >= MaxAttempts[r] /\ Available(r)

Swept ==
    [r \in Row |-> IF Spent(r)
                   THEN [row[r] EXCEPT !.state = "Exhausted", !.lease_until = 0]
                   ELSE row[r]]

\* Mutant: rows are served in the order of their identities.
FirstIdentity(S) == CHOOSE r \in S : \A s \in S : r <= s

\* ORDER BY producing_position, outbox_id LIMIT 1
First(S) ==
    CHOOSE r \in S : \A s \in S \ {r} :
        \/ row[r].position < row[s].position
        \/ row[r].position = row[s].position /\ r < s

Claimable == {r \in Row : Available(r) /\ row[r].attempts < MaxAttempts[r]}

\* Mutant: an acknowledged row keeps its lease.
SettledRowLeased(r) == [row EXCEPT ![r].state = "Acknowledged"]

SettledRow(r) ==
    [row EXCEPT ![r] = [@ EXCEPT !.state = "Acknowledged", !.lease_until = 0]]

\* Mutant: any claim of the row settles it.
HeldUnderAny(c) == row[c.id].state = "Claimed"

\* the exact claimed fence
HeldUnder(c) == row[c.id].state = "Claimed" /\ row[c.id].fence = c.fence

---------------------------------------------------------------------------
(* The claim loop.                                                         *)

\* Mutant: the lease may reach past the window of the epoch.
LeaseFitsAlways == TRUE

\* OutboxClock::lease
LeaseFits == elapsed <= Window /\ Lease < Window - elapsed

Become(p, step, c) ==
    /\ pump' = [pump EXCEPT ![p] = step]
    /\ claim' = [claim EXCEPT ![p] = c]

ClaimOutbox(p) ==
    /\ pump[p] = "idle" /\ lifecycle = "ready" /\ LeaseFits
    /\ IF Claimable = {}
       THEN row' = Swept /\ UNCHANGED <<pump, claim>>
       ELSE LET r == First(Claimable)
                c == [id |-> r, fence |-> row[r].fence + 1,
                      attempts |-> row[r].attempts + 1, lease_until |-> now + Lease]
            IN  /\ row' = [Swept EXCEPT ![r] =
                             [@ EXCEPT !.state = "Claimed", !.attempts = c.attempts,
                                       !.fence = c.fence, !.lease_until = c.lease_until]]
                /\ Become(p, "delivering", c)
    /\ UNCHANGED <<head, moved, effect, lifecycle, epoch, elapsed, surfaced>>

\* A storage error, a daemon that refuses mutation and an exhausted clock window
\* each end the loop.
ClaimFails(p) ==
    /\ pump[p] = "idle" /\ lifecycle # "down"
    /\ Become(p, "ended", NoClaim)
    /\ UNCHANGED <<durable, lifecycle, epoch, elapsed, surfaced>>

\* The error branch of the loop; the row keeps its claim.
DeliveryError(p, terminal) ==
    IF terminal \/ claim[p].attempts >= MaxAttempts[claim[p].id]
    THEN /\ lifecycle' = "readOnly"
         /\ surfaced' = surfaced \cup {claim[p].id}
         /\ Become(p, "ended", NoClaim)
    ELSE /\ Become(p, "idle", NoClaim)
         /\ UNCHANGED <<lifecycle, surfaced>>

\* The attempt fails before its effect: Retry or Reconcile (not terminal),
\* CorrectRequest, ReadOnly or Operator (terminal).
DeliveryFails(p, terminal) ==
    /\ pump[p] = "delivering" /\ lifecycle # "down"
    /\ DeliveryError(p, terminal)
    /\ UNCHANGED <<durable, epoch, elapsed>>

\* Child admission and settlement are two transactions of one authority message.
\* Settlement is built on the state at publication, so a later event of the
\* owner refuses it as an integrity error; so does a claim that another
\* claimant settled.  A claim taken over by another claimant is retryable.
DeliverChild(p) ==
    LET c == claim[p] IN
    /\ pump[p] = "delivering" /\ lifecycle = "ready" /\ c.id \in Child
    /\ effect' = effect \cup {c.id}
    /\ IF c.id \notin moved /\ HeldUnder(c)
       THEN /\ row' = SettledRow(c.id)
            /\ moved' = moved \cup {c.id}
            /\ Become(p, "idle", NoClaim)
            /\ UNCHANGED <<lifecycle, surfaced>>
       ELSE /\ DeliveryError(p, c.id \in moved)
            /\ UNCHANGED <<row, moved>>
    /\ UNCHANGED <<head, epoch, elapsed>>

\* A handler that leaves settlement to the loop.
DeliverEffect(p) ==
    /\ pump[p] = "delivering" /\ lifecycle # "down" /\ claim[p].id \notin Child
    /\ effect' = effect \cup {claim[p].id}
    /\ Become(p, "settling", claim[p])
    /\ UNCHANGED <<row, head, moved, lifecycle, epoch, elapsed, surfaced>>

\* acknowledge_outbox: idempotent once acknowledged; a stale fence is an error,
\* which ends the loop.  It is not gated by the lifecycle.
AcknowledgeOutbox(p) ==
    LET c == claim[p] IN
    /\ pump[p] = "settling" /\ lifecycle # "down"
    /\ row' = IF HeldUnder(c) THEN SettledRow(c.id) ELSE row
    /\ Become(p, IF HeldUnder(c) \/ row[c.id].state = "Acknowledged"
                 THEN "idle" ELSE "ended", NoClaim)
    /\ UNCHANGED <<head, moved, effect, lifecycle, epoch, elapsed, surfaced>>

---------------------------------------------------------------------------
(* The rest of the daemon.                                                 *)

\* The owner of a published directive commits another event (a cancel, a pause,
\* an explicit terminal) before the directive is settled.
OwnerAdvances(r) ==
    /\ lifecycle = "ready" /\ r \in Child \ moved /\ row[r].state # "Absent"
    /\ moved' = moved \cup {r}
    /\ UNCHANGED <<row, head, effect, lifecycle, pump, claim, epoch, elapsed, surfaced>>

Down ==
    /\ lifecycle' = "down"
    /\ pump' = [p \in Claimant |-> "ended"]
    /\ claim' = [p \in Claimant |-> NoClaim]

\* A kill, or an ordered shutdown: the loop is stopped or aborted and
\* acknowledges nothing more.
Crash ==
    /\ lifecycle # "down"
    /\ Down
    /\ UNCHANGED <<durable, epoch, elapsed, surfaced>>

\* Mutant: the directive is settled before the child is admitted.
DurableFirstSettles(c) ==
    row' = (IF HeldUnder(c) THEN SettledRow(c.id) ELSE row) /\ UNCHANGED effect

\* what the first of the two transactions of a child delivery leaves
DurableFirst(c) == effect' = effect \cup {c.id} /\ UNCHANGED row

\* A crash after the child is admitted and before the directive is settled.
CrashMidDelivery(p) ==
    /\ pump[p] = "delivering" /\ lifecycle = "ready" /\ claim[p].id \in Child
    /\ DurableFirst(claim[p])
    /\ Down
    /\ UNCHANGED <<head, moved, epoch, elapsed, surfaced>>

\* Each start allocates a larger authority epoch; a startup that finds
\* indeterminate processes is read-only and starts no claim loop.
RestartPump(to) ==
    /\ lifecycle = "down" /\ epoch < MaxEpoch
    /\ epoch' = epoch + 1 /\ elapsed' = 0
    /\ lifecycle' = to
    /\ pump' = [p \in Claimant |-> IF to = "ready" THEN "idle" ELSE "ended"]
    /\ claim' = [p \in Claimant |-> NoClaim]
    /\ UNCHANGED <<durable, surfaced>>

\* Time is observed only through leases, so it passes while one is running.
Tick ==
    /\ lifecycle # "down" /\ elapsed < Window
    /\ \E r \in Row : row[r].state = "Claimed" /\ row[r].lease_until > now
    /\ elapsed' = elapsed + 1
    /\ UNCHANGED <<durable, lifecycle, pump, claim, epoch, surfaced>>

OutboxNext ==
    \/ \E S \in SUBSET Row : Publish(S)
    \/ \E r \in Row : OwnerAdvances(r)
    \/ \E p \in Claimant :
         \/ ClaimOutbox(p)
         \/ ClaimFails(p)
         \/ \E terminal \in BOOLEAN : DeliveryFails(p, terminal)
         \/ DeliverChild(p)
         \/ DeliverEffect(p)
         \/ AcknowledgeOutbox(p)
         \/ CrashMidDelivery(p)
    \/ Crash
    \/ \E to \in {"ready", "readOnly"} : RestartPump(to)
    \/ Tick

OutboxSpec == OutboxInit /\ [][OutboxNext]_outboxVars

\* The loop always makes its next claim, or ends when no lease fits into the
\* window any more, and time passes; nothing makes a delivery
\* succeed, an owner act or the daemon restart.
Fairness ==
    /\ WF_outboxVars(Tick)
    /\ \A p \in Claimant :
         /\ WF_outboxVars(ClaimOutbox(p) \/ (~LeaseFits /\ ClaimFails(p)))
         /\ WF_outboxVars(\/ DeliverChild(p) \/ DeliverEffect(p) \/ AcknowledgeOutbox(p)
                    \/ \E terminal \in BOOLEAN : DeliveryFails(p, terminal))

OutboxFairSpec == OutboxSpec /\ Fairness

---------------------------------------------------------------------------
\* The types, and the field agreement outbox_message demands of a stored row.
OutboxTypeOK ==
    /\ row \in [Row -> [state : OutboxState, position : Nat, attempts : Nat,
                        fence : Nat, lease_until : Nat]]
    /\ \A r \in Row :
         /\ row[r].attempts <= MaxAttempts[r]
         /\ row[r].state = "Claimed" <=> row[r].lease_until > 0
         /\ row[r].state = "Claimed" => row[r].attempts > 0 /\ row[r].fence > 0
         /\ row[r].state = "Absent" <=> row[r].position = 0
    /\ head \in Nat
    /\ moved \subseteq Child /\ effect \subseteq Row /\ surfaced \subseteq Row
    /\ lifecycle \in {"ready", "readOnly", "down"}
    /\ pump \in [Claimant -> {"idle", "delivering", "settling", "ended"}]
    /\ claim \in [Claimant -> [id : Row \cup {0}, fence : Nat, attempts : Nat,
                               lease_until : Nat]]
    /\ epoch \in 0..MaxEpoch /\ elapsed \in 0..Window

Holds(p, r) == pump[p] \in {"delivering", "settling"} /\ claim[p].id = r

\* Settlement is never ahead of delivery: an acknowledged row has its effect at
\* the destination, whatever crash fell between the two transactions.
SettledAfterEffect ==
    \A r \in Row : row[r].state = "Acknowledged" => r \in effect

\* Two claim loops never hold unexpired claims of one row.
OneLiveClaim ==
    \A r \in Row, p, q \in Claimant :
        p # q /\ Holds(p, r) /\ Holds(q, r)
            => claim[p].lease_until <= now \/ claim[q].lease_until <= now

\* No lease reaches the next authority epoch, so a restart may reclaim every
\* row a dead process held.
LeaseDiesWithEpoch ==
    \A r \in Row : row[r].lease_until < (epoch + 1) * Window

\* First attempts are made in the order of publication.
FirstAttemptsInOrder ==
    \A r, s \in Row :
        /\ row[r].state # "Absent" /\ row[s].attempts > 0
        /\ \/ row[r].position < row[s].position
           \/ row[r].position = row[s].position /\ r < s
        => row[r].attempts > 0

\* Only the latest claim of a row settles it: a loop whose claim was taken over
\* cannot acknowledge the newer one.
LatestClaimSettles ==
    [][\A r \in Row :
         row'[r].state = "Acknowledged" /\ row[r].state # "Acknowledged"
           => \E p \in Claimant :
                /\ Holds(p, r) /\ ~Holds(p, r)'
                /\ \A q \in Claimant : Holds(q, r) => claim[q].fence <= claim[p].fence]_outboxVars

\* The final attempt keeps its claim while its lease runs: a row is exhausted
\* only when no claim of it is live.
FinalClaimStands ==
    [][\A r \in Row :
         row'[r].state = "Exhausted" /\ row[r].state # "Exhausted"
           => \A p \in Claimant : Holds(p, r) => claim[p].lease_until <= now]_outboxVars

\* Every published row is settled or exhausted unless the daemon leaves service:
\* a failed or abandoned claim is taken up again after its lease.
Serving == lifecycle = "ready" /\ \E p \in Claimant : pump[p] # "ended"
Finished(r) == row[r].state \in {"Acknowledged", "Exhausted"}
RowsFinish ==
    \A r \in Row : row[r].state = "Pending" ~> (Finished(r) \/ ~Serving)

\* Rows tell the truth about deliveries: one live claim, settled only after the
\* effect, first attempts in order, no lease past its epoch.
RowTruth ==
    /\ OutboxTypeOK
    /\ OneLiveClaim
    /\ SettledAfterEffect
    /\ FirstAttemptsInOrder
    /\ LeaseDiesWithEpoch

\* Claims stand: only the latest settles, and the final one is not cut short.
ClaimsStand == LatestClaimSettles /\ FinalClaimStands

----------------------------------------------------------------------------
(* Statements of documents and comments that the code does not keep: the     *)
(* README names the instance that refutes each of them.                      *)

\* docs/g0-recovery-runbook.md: an exhausted retry enters read-only rather than
\* skipping the row.
ExhaustionSurfaced ==
    \A r \in Row : row[r].state = "Exhausted" => r \in surfaced
=============================================================================
