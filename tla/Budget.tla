------------------------------- MODULE Budget -------------------------------
(***************************************************************************)
(* The hierarchical budget ledger: a tree of accounts whose limits bound   *)
(* what is consumed, reserved for running operations and delegated to      *)
(* children, and one reservation per attempt of an action.  The ledger is  *)
(* one value; a command is applied to it whole or refused whole.           *)
(*                                                                         *)
(* A reservation is named by its position.  All accounts of a ledger carry *)
(* the revision of its root and an action keeps its first digest, so       *)
(* commands with another binding are refused and are left out.  Token,     *)
(* cost and time amounts are the members of Resource; all arithmetic stays *)
(* below an account's limits, which are machine integers.                  *)
(***************************************************************************)
EXTENDS Integers, Sequences, FiniteSets, Functions

CONSTANTS
    Account, Root,
    Resource,           \* the metered dimensions
    Limits,             \* limits a client asks for
    Request,            \* [now, ceiling]: what an attempt spends and reserves
    Action,
    Evidence,           \* digests of evidence
    MaxUsage,           \* bound: largest usage reported in one dimension
    MaxReservations,    \* bound: attempts begun
    None                \* neither an account nor evidence

Dimension == Resource \cup {"Attempts", "Retries"}
Amounts == [Dimension -> Nat]

ASSUME BudgetAssumption ==
    /\ Root \in Account
    /\ None \notin Account \cup Evidence \cup {"Interim", "Final"}
    /\ IsFiniteSet(Account) /\ IsFiniteSet(Dimension)
    /\ {"Attempts", "Retries"} \cap Resource = {}
    /\ Limits \subseteq Amounts
    /\ Request \subseteq [now : [Resource -> Nat], ceiling : [Resource -> Nat]]
    /\ MaxUsage \in Nat /\ MaxReservations \in Nat

VARIABLES accounts, reservations

ledger == <<accounts, reservations>>

AccountPhase == {"Absent", "Open", "Draining", "Faulted", "Closed"}
ReservationPhase == {"Held", "Active", "SettledExact", "SettledFinal",
                     "CancelledHeld", "SettledAmbiguous", "OverrunFaulted"}

Zero == [d \in Dimension |-> 0]
Metered(usage) == [d \in Dimension |-> IF d \in Resource THEN usage[d] ELSE 0]
Plus(a, b) == [d \in Dimension |-> a[d] + b[d]]
Minus(a, b) == [d \in Dimension |-> a[d] - b[d]]
FitsWithin(a, b) == \A d \in Dimension : a[d] <= b[d]

NewAccount(parent, lineage, limits) ==
    [phase |-> "Open", parent |-> parent, lineage |-> lineage, limits |-> limits,
     consumed |-> Zero, operation_reserved |-> Zero, child_delegated_remaining |-> Zero]

NoAccount == [NewAccount(None, {}, Zero) EXCEPT !.phase = "Absent"]

Init ==
    /\ \E limits \in Limits :
         accounts = [a \in Account |->
                       IF a = Root THEN NewAccount(None, {Root}, limits) ELSE NoAccount]
    /\ reservations = <<>>

---------------------------------------------------------------------------
(* Accounting primitives.  Parents never change, so the chain of parents   *)
(* that the code walks is kept with the account.                           *)

Available(a) ==
    LET x == accounts[a]
    IN  Minus(Minus(Minus(x.limits, x.consumed), x.operation_reserved),
              x.child_delegated_remaining)

\* Mutant: only the account itself is looked at.
OpenAlone(a) == accounts[a].phase = "Open"

\* require_open_lineage
OpenLineage(a) ==
    /\ accounts[a].phase = "Open"
    /\ \A b \in accounts[a].lineage : accounts[b].phase = "Open"

\* the checked subtractions of charge_lineage
Chargeable(a, amount) ==
    \A b \in accounts[a].lineage \ {a} :
        FitsWithin(amount, accounts[b].child_delegated_remaining)

\* charge_lineage: each ancestor pays out of what it delegated
Charged(accts, a, amount) ==
    [b \in Account |->
        IF b = a THEN [accts[b] EXCEPT !.consumed = Plus(@, amount)]
        ELSE IF b \in accts[a].lineage
        THEN [accts[b] EXCEPT !.consumed = Plus(@, amount),
                              !.child_delegated_remaining = Minus(@, amount)]
        ELSE accts[b]]

\* release_operation_reservation and its variants
Released(accts, a, amount) ==
    [accts EXCEPT ![a].operation_reserved = Minus(@, amount)]

\* fault_lineage
FaultedLineage(accts, a) ==
    [b \in Account |-> IF b \in accts[a].lineage
                       THEN [accts[b] EXCEPT !.phase = "Faulted"] ELSE accts[b]]

Live(r) == r.phase \in {"Held", "Active"}
Outstanding(r) == IF Live(r) THEN Minus(r.reserve, r.observed) ELSE Zero

\* Mutant: open children do not count.
HasLiveWorkOwn(a) ==
    \E i \in DOMAIN reservations :
        reservations[i].budget = a /\ Live(reservations[i])

HasLiveWork(a) ==
    \/ \E i \in DOMAIN reservations :
         reservations[i].budget = a /\ Live(reservations[i])
    \/ \E b \in Account : accounts[b].parent = a /\ accounts[b].phase # "Closed"

---------------------------------------------------------------------------
(* Accounts.                                                               *)

AllocateChild(child, parent, limits) ==
    /\ accounts[child].phase = "Absent"
    /\ OpenLineage(parent)
    /\ FitsWithin(limits, Available(parent))
    /\ accounts' = [accounts EXCEPT
                      ![parent].child_delegated_remaining = Plus(@, limits),
                      ![child] = NewAccount(parent, accounts[parent].lineage \cup {child},
                                            limits)]
    /\ UNCHANGED reservations

\* Mutant: a faulted account may be sealed too.
SealableAny(a) == accounts[a].phase \in {"Open", "Faulted"}

Sealable(a) == accounts[a].phase = "Open"

\* Another phase is left as it is.
Seal(a) ==
    /\ Sealable(a)
    /\ accounts' = [accounts EXCEPT ![a].phase = "Draining"]
    /\ UNCHANGED reservations

Unused(a) == Minus(accounts[a].limits, accounts[a].consumed)

Close(a) ==
    LET parent == accounts[a].parent
        closed == [accounts EXCEPT ![a].phase = "Closed"]
    IN  /\ accounts[a].phase \in {"Draining", "Faulted"}
        /\ ~HasLiveWork(a)
        /\ parent # None =>
             FitsWithin(Unused(a), accounts[parent].child_delegated_remaining)
        /\ accounts' = IF parent = None THEN closed
                       ELSE [closed EXCEPT ![parent].child_delegated_remaining =
                                               Minus(@, Unused(a))]
        /\ UNCHANGED reservations

---------------------------------------------------------------------------
(* Attempts.                                                               *)

Prior(action) == {i \in DOMAIN reservations : reservations[i].action = action}

\* Mutant: a running attempt does not hold back the next.
ResolvedAlways(action) == action \in Action

\* retry_required: an earlier attempt that is still live blocks the next
Resolved(action) == \A i \in Prior(action) : ~Live(reservations[i])

\* validate_attempt_charge against the history
RetryTruth(action, retry) == retry = (Prior(action) # {})

AttemptCharge(retry) ==
    [d \in Dimension |-> IF d = "Attempts" \/ (d = "Retries" /\ retry) THEN 1 ELSE 0]

NewReservation(a, action, consume_now, reserve) ==
    [budget |-> a, action |-> action, consume_now |-> consume_now,
     reserve |-> reserve, observed |-> Zero,
     phase |-> IF reserve = Zero THEN "SettledExact" ELSE "Held",
     activation_evidence |-> None, observation_evidence |-> None,
     final_evidence |-> None, final_reported |-> None, finality |-> None]

Begin(a, action, request, retry) ==
    LET consume_now == Plus(Metered(request.now), AttemptCharge(retry))
        reserve == Metered(request.ceiling)
    IN  /\ Len(reservations) < MaxReservations
        /\ OpenLineage(a)
        /\ Resolved(action)
        /\ RetryTruth(action, retry)
        /\ FitsWithin(Plus(consume_now, reserve), Available(a))
        /\ Chargeable(a, consume_now)
        /\ accounts' = [Charged(accounts, a, consume_now) EXCEPT
                          ![a].operation_reserved = Plus(@, reserve)]
        /\ reservations' = Append(reservations, NewReservation(a, action, consume_now, reserve))

\* The exact request again.
BeginReplay(i) == i \in DOMAIN reservations /\ UNCHANGED ledger

\* Mutant: an activation is repeated whatever became of the attempt.
RepeatsAny(i, evidence) == reservations[i].activation_evidence = evidence

Repeats(i, evidence) ==
    /\ reservations[i].phase = "Active"
    /\ reservations[i].activation_evidence = evidence

\* Again with the same evidence, the reservation stays as it is.
Activate(i, evidence) ==
    /\ \/ /\ reservations[i].phase = "Held"
          /\ reservations' = [reservations EXCEPT
                ![i] = [@ EXCEPT !.phase = "Active", !.activation_evidence = evidence]]
       \/ Repeats(i, evidence) /\ UNCHANGED reservations
    /\ UNCHANGED accounts

---------------------------------------------------------------------------
(* Usage.  Reports are cumulative and may be repeated, late or corrected.  *)

\* Mutant: a report below the high-water mark is accepted.
AcceptableAny(i, cumulative, evidence) == reservations[i].phase = "Active"

\* the refusals of observe_validated
Acceptable(i, cumulative, evidence) ==
    /\ reservations[i].phase = "Active"
    /\ FitsWithin(reservations[i].observed, cumulative)
    /\ reservations[i].observed = cumulative =>
         reservations[i].observation_evidence \in {None, evidence}

\* Mutant: the reported total is charged again with every report.
DeltaTotal(i, cumulative) == cumulative

Delta(i, cumulative) == Minus(cumulative, reservations[i].observed)

ObserveInterim(i, cumulative, evidence) ==
    LET a == reservations[i].budget
        delta == Delta(i, cumulative)
    IN  /\ Acceptable(i, cumulative, evidence)
        /\ FitsWithin(cumulative, reservations[i].reserve)
        /\ Chargeable(a, delta)
        /\ accounts' = Charged(Released(accounts, a, delta), a, delta)
        /\ reservations' = [reservations EXCEPT
             ![i] = [@ EXCEPT !.observed = cumulative, !.observation_evidence = evidence]]

ObserveFinal(i, cumulative, evidence) ==
    LET a == reservations[i].budget
        delta == Delta(i, cumulative)
        unspent == Minus(reservations[i].reserve, cumulative)
    IN  /\ Acceptable(i, cumulative, evidence)
        /\ FitsWithin(cumulative, reservations[i].reserve)
        /\ Chargeable(a, delta)
        /\ accounts' = Released(Charged(Released(accounts, a, delta), a, delta), a, unspent)
        /\ reservations' = [reservations EXCEPT
             ![i] = [@ EXCEPT !.observed = cumulative, !.observation_evidence = evidence,
                              !.phase = "SettledFinal", !.final_evidence = evidence,
                              !.final_reported = cumulative, !.finality = "Final"]]

\* apply_overrun_validated: the whole ceiling is spent and nothing above it
ObserveOverrun(i, cumulative, evidence, finality) ==
    LET a == reservations[i].budget
        remaining == Outstanding(reservations[i])
    IN  /\ Acceptable(i, cumulative, evidence)
        /\ ~FitsWithin(cumulative, reservations[i].reserve)
        /\ Chargeable(a, remaining)
        /\ accounts' = FaultedLineage(Charged(Released(accounts, a, remaining), a, remaining), a)
        /\ reservations' = [reservations EXCEPT
             ![i] = [@ EXCEPT !.observed = reservations[i].reserve,
                              !.observation_evidence = evidence,
                              !.phase = "OverrunFaulted", !.final_evidence = evidence,
                              !.final_reported = cumulative, !.finality = finality]]

\* replay_final_observation_validated
ObserveReplay(i, cumulative, evidence, finality) ==
    /\ reservations[i].phase \in {"SettledFinal", "OverrunFaulted"}
    /\ reservations[i].final_reported = cumulative
    /\ reservations[i].final_evidence = evidence
    /\ reservations[i].finality = finality
    /\ UNCHANGED ledger

Observe(i, cumulative, evidence, finality) ==
    \/ finality = "Interim" /\ ObserveInterim(i, cumulative, evidence)
    \/ finality = "Final" /\ ObserveFinal(i, cumulative, evidence)
    \/ ObserveOverrun(i, cumulative, evidence, finality)
    \/ ObserveReplay(i, cumulative, evidence, finality)

\* finalize_full_ceiling: settle_exact and finalize_ambiguous
Finalize(i, evidence, phase) ==
    LET a == reservations[i].budget
        remaining == Outstanding(reservations[i])
    IN  \/ /\ reservations[i].phase = phase
           /\ reservations[i].final_evidence = evidence
           /\ UNCHANGED ledger
        \/ /\ reservations[i].phase = "Active"
           /\ Chargeable(a, remaining)
           /\ accounts' = Charged(Released(accounts, a, remaining), a, remaining)
           /\ reservations' = [reservations EXCEPT
                ![i] = [@ EXCEPT !.observed = reservations[i].reserve,
                                 !.phase = phase, !.final_evidence = evidence]]

SettleExact(i, evidence) == Finalize(i, evidence, "SettledExact")
FinalizeAmbiguous(i, evidence) == Finalize(i, evidence, "SettledAmbiguous")

CancelHeld(i, evidence) ==
    \/ /\ reservations[i].phase = "CancelledHeld"
       /\ reservations[i].final_evidence = evidence
       /\ UNCHANGED ledger
    \/ /\ reservations[i].phase = "Held"
       /\ accounts' = Released(accounts, reservations[i].budget, reservations[i].reserve)
       /\ reservations' = [reservations EXCEPT
            ![i] = [@ EXCEPT !.phase = "CancelledHeld", !.final_evidence = evidence]]

Usage == {Metered(u) : u \in [Resource -> 0..MaxUsage]}

\* Commands that no reservation handle issues.
Administer ==
    \/ \E child, parent \in Account, limits \in Limits : AllocateChild(child, parent, limits)
    \/ \E a \in Account : Seal(a) \/ Close(a)
    \/ \E i \in DOMAIN reservations, e \in Evidence : SettleExact(i, e)

Operate ==
    \/ \E a \in Account, action \in Action, request \in Request, retry \in BOOLEAN :
         Begin(a, action, request, retry)
    \/ \E i \in DOMAIN reservations, e \in Evidence :
         \/ Activate(i, e) \/ FinalizeAmbiguous(i, e) \/ CancelHeld(i, e)
         \/ \E u \in Usage, finality \in {"Interim", "Final"} : Observe(i, u, e, finality)

Next == Administer \/ Operate

Spec == Init /\ [][Next]_ledger

---------------------------------------------------------------------------
(* What the ledger promises.                                               *)

\* Every account and reservation has its shape.  No amount is negative: the
\* checked subtractions of the reducers never fail.
TypeOK ==
    /\ \A a \in Account :
         /\ accounts[a].phase \in AccountPhase
         /\ accounts[a].parent \in Account \cup {None}
         /\ accounts[a].lineage \subseteq Account
         /\ accounts[a].limits \in Amounts /\ accounts[a].consumed \in Amounts
         /\ accounts[a].operation_reserved \in Amounts
         /\ accounts[a].child_delegated_remaining \in Amounts
    /\ \A i \in DOMAIN reservations :
         LET r == reservations[i]
         IN  /\ r.budget \in Account /\ r.action \in Action
             /\ r.consume_now \in Amounts /\ r.reserve \in Amounts /\ r.observed \in Amounts
             /\ r.phase \in ReservationPhase
             /\ {r.activation_evidence, r.observation_evidence, r.final_evidence}
                  \subseteq Evidence \cup {None}

\* The sum of the amounts of f, one for each element of its domain.
Total(f) == [d \in Dimension |-> SumFunction([x \in DOMAIN f |-> f[x][d]])]

AccountsValidate ==
    \A a \in Account :
        LET x == accounts[a]
            children == {b \in Account : accounts[b].parent = a /\ accounts[b].phase # "Closed"}
            work == {i \in DOMAIN reservations : reservations[i].budget = a}
            remaining == [b \in children |-> Minus(accounts[b].limits, accounts[b].consumed)]
            held == [i \in work |-> Outstanding(reservations[i])]
        IN  x.phase # "Absent" =>
              /\ FitsWithin(Plus(Plus(x.consumed, x.operation_reserved),
                                 x.child_delegated_remaining), x.limits)
              /\ x.child_delegated_remaining = Total(remaining)
              /\ x.operation_reserved = Total(held)
              /\ x.phase = "Closed" => ~HasLiveWork(a)

RecordValidates(r) ==
    /\ FitsWithin(r.observed, r.reserve)
    /\ CASE r.phase = "Held" ->
              /\ r.observed = Zero
              /\ {r.activation_evidence, r.observation_evidence, r.final_evidence} = {None}
         [] r.phase = "Active" ->
              /\ r.activation_evidence # None
              /\ r.observed = Zero \/ r.observation_evidence # None
              /\ r.final_evidence = None
         [] r.phase = "SettledExact" ->
              /\ r.observed = r.reserve /\ r.finality = None
              /\ r.reserve = Zero \/ r.final_evidence # None
         [] r.phase = "SettledFinal" ->
              /\ r.activation_evidence # None /\ r.final_evidence # None
              /\ r.observation_evidence = r.final_evidence
              /\ r.final_reported = r.observed /\ r.finality = "Final"
         [] r.phase = "CancelledHeld" ->
              /\ r.observed = Zero /\ r.activation_evidence = None
              /\ r.observation_evidence = None /\ r.final_evidence # None
         [] r.phase = "SettledAmbiguous" ->
              /\ r.activation_evidence # None /\ r.final_evidence # None
              /\ r.observed = r.reserve /\ r.finality = None
         [] r.phase = "OverrunFaulted" ->
              /\ r.activation_evidence # None /\ r.final_evidence # None
              /\ r.observation_evidence = r.final_evidence
              /\ r.observed = r.reserve /\ r.finality # None
              /\ ~FitsWithin(r.final_reported, r.reserve)

\* Whatever the order of commands, a ledger the reducers produce passes the
\* crate's own validate(): the stored sums are the sums over the tree and over
\* the reservations, nothing exceeds its limit and every record fits its phase.
\* Otherwise every later command of the ledger would be refused as corrupt.
LedgerValidates ==
    /\ AccountsValidate
    /\ \A i \in DOMAIN reservations : RecordValidates(reservations[i])

\* What an account has consumed is exactly what the attempts in its subtree
\* spent at once and were observed to use, each once: repeated reports, retries,
\* overruns and closed children neither lose a charge nor count it twice.
ConsumedIsUsage ==
    \A a \in Account :
        LET below == {i \in DOMAIN reservations :
                        a \in accounts[reservations[i].budget].lineage}
            spent == [i \in below |-> Plus(reservations[i].consume_now,
                                           reservations[i].observed)]
        IN  accounts[a].consumed = Total(spent)

\* The ceiling of a live attempt can always be paid: no ancestor has given away
\* or closed under it the capacity that its settlement will charge.
CeilingPayable ==
    \A i \in DOMAIN reservations :
        Live(reservations[i]) =>
          LET r == reservations[i]
          IN  /\ accounts[r.budget].phase \in {"Open", "Draining", "Faulted"}
              /\ FitsWithin(Outstanding(r), accounts[r.budget].operation_reserved)
              /\ \A b \in accounts[r.budget].lineage \ {r.budget} :
                   /\ accounts[b].phase \in {"Open", "Draining", "Faulted"}
                   /\ FitsWithin(Outstanding(r), accounts[b].child_delegated_remaining)

\* An overrun shuts its account and every ancestor for good; sealing and closing
\* afterwards never turn the fault into an orderly end of a still open account.
OverrunShutsLineage ==
    \A i \in DOMAIN reservations :
        reservations[i].phase = "OverrunFaulted" =>
          \A b \in accounts[reservations[i].budget].lineage :
              accounts[b].phase \in {"Faulted", "Closed"}

\* Of one action at most one attempt is live, in whichever account it runs, and
\* every attempt after the first was charged as a retry.
OneAttemptAtATime ==
    \A action \in Action :
        LET tries == {i \in DOMAIN reservations : reservations[i].action = action}
            now == [i \in tries |-> reservations[i].consume_now]
        IN  /\ Cardinality({i \in tries : Live(reservations[i])}) <= 1
            /\ tries # {} => Total(now)["Retries"] = Cardinality(tries) - 1

\* No new work anywhere below a sealed, faulted or closed account, and what the
\* account has spent, reserved and delegated never grows again.
ShutDrains ==
    [][\A a \in Account :
         accounts[a].phase \in {"Draining", "Faulted", "Closed"} =>
           LET committed == Plus(Plus(accounts[a].consumed, accounts[a].operation_reserved),
                                 accounts[a].child_delegated_remaining)
           IN  /\ accounts'[a].phase \notin {"Open", "Absent"}
               /\ FitsWithin(Plus(Plus(accounts'[a].consumed, accounts'[a].operation_reserved),
                                  accounts'[a].child_delegated_remaining), committed)
               /\ \A i \in DOMAIN reservations' \ DOMAIN reservations :
                    a \notin accounts[reservations'[i].budget].lineage]_ledger

\* validate_refinement: consumption and observations never decrease, requests
\* never change, and what a child consumes in a step its parent consumes too.
Refines ==
    [][/\ \A a \in Account :
            /\ FitsWithin(accounts[a].consumed, accounts'[a].consumed)
            /\ accounts[a].phase # "Absent" =>
                 /\ accounts'[a].parent = accounts[a].parent
                 /\ accounts'[a].limits = accounts[a].limits
            /\ accounts[a].parent # None /\ accounts'[a].consumed # accounts[a].consumed =>
                 Minus(accounts'[a].consumed, accounts[a].consumed) =
                   Minus(accounts'[accounts[a].parent].consumed,
                         accounts[accounts[a].parent].consumed)
       /\ \A i \in DOMAIN reservations :
            /\ FitsWithin(reservations[i].observed, reservations'[i].observed)
            /\ reservations'[i].consume_now = reservations[i].consume_now
            /\ reservations'[i].reserve = reservations[i].reserve]_ledger
=============================================================================
