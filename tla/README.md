# TLA+ models of Project Peritus

Peritus runs coding agents under a durable, event-sourced control plane. Every
decision is a pure reduction `decide(state, command)`, every accepted command is
one immutable event plus one complete checkpoint in a SQLite journal, and effects
are derived from committed state only. These modules model the control of that
plane: the aggregates that schedule, delegate and deliver work, the ledgers and
leases that bound it, the journal and the daemon between them, the file
transactions at the bottom, and the product run at the top.

## The system

### Parts, state and interaction

| Layer (`src/crates/`) | Crates | State | Role |
|---|---|---|---|
| foundation | kernel, policy, **budget**, spec, protocol, codec, ... | run lifecycles, budget ledger | verified pure cores and canonical encodings |
| state | **journal**, **leases**, **approval**, artifact-store, evidence, ... | event journal, application ledger, heads, checkpoints, outbox | everything durable |
| runtime | **patch**, **workspace**, process, git, sandbox*, network, ... | file transactions, processes | effects on the machine |
| tools, model | tool-router, tools-*, provider-* | in-flight calls | effects on tools and model providers |
| orchestration | **scheduler**, **collaboration**, **orchestrator**, **run-settlement**, *agent*, *obligations*, *run-knowledge*, review, gates, ... | one aggregate per run and family | pure reducers and their durability |
| app | **daemon**, *product-runner*, app-protocol, cli, tui, web, ... | connections, lifecycle, run records | composition and clients |
| observe, analysis, extensions | trace, telemetry, debugger, eval, evolution, mcp | traces | offline and bridge code |

Bold crates have a module here, crates in italics are modelled in part.

How a command travels: a connection task of the daemon runs `submit()`. It sends
messages to the single **authority owner**, which holds the one journal
connection and handles one message at a time: *admit* (insert or classify the row
of the request in `app_commands`), *dispatch* (the handler of the command's family
loads its aggregate, decides, and appends event, head and checkpoint in one
transaction), *settle*, or *reconcile* (look the command up in the journal and
settle accordingly). The task awaits each answer, so messages of different tasks
interleave. An append may carry outbox rows; the daemon's **pump** claims them
under leases and delivers them, a child directive by admitting it to its owner's
aggregate. Leases, approvals and budgets are aggregates of the same kind whose
successors are committed by compare-and-swap. The **product runner** drives one
developer request through writing, gates and review; the daemon keeps a record of
the run and retries from it. Edits reach the workspace through the **gateway**,
which consumes an authorized action once and applies its **patch transaction**.

### What is hard, and what correct means

| Component | Hard behaviour | Correct means |
|---|---|---|
| scheduler | two dozen commands from clients, workers and operators in any order; lost workers, late acknowledgements, limits | one owner per attempt, resources released once, final outcomes, dependency phases never behind, no starvation past the bypass bound, a truthful summary |
| submission | ledger and journal are separate transactions; clients submit again, acknowledgements get lost, the daemon dies anywhere | one effect, one retained true answer, recovery finishes |
| session | cached state, an observation taken before it, other writers | a reused cache is a full replay; an append extends what it was decided from |
| collaboration | trees, joins, messages and cancellation in any order, bounds on the whole state | joins stay true, cancelled subtrees stay closed, what is committed loads again, wind-down is never stuck |
| orchestrator | pause, failure and cancellation around directives that may have started a child; evidence of several revisions | no started child is lost, acceptance rests on the accepted revision, settling ends |
| outbox | slow deliveries, takeovers, crashes between effect and settlement, the end of a clock epoch | one live claim, settlement after the effect, order, every row finishes |
| leases | plans submitted late, several ways out of Active, counters that run out | one user at a time, handover only after quiescence, never stranded |
| budget | cumulative repeated reports, overruns, closing over running work, lost receipts | conserved sums, each use charged once, ceilings payable |
| workspace | a crash or failure between any two file operations, foreign edits | evidence or a receipt at all times, receipts that are true, edits kept |
| approval | revocation and rotation between planning and commit, lost acknowledgements, two holders | at most one effect, by a decision valid when committed |
| product run | messages, edits, crashes and retries between a check and its use | acceptance only for what was checked, no record that startup cannot handle |

`PROJECT.json` lists every component, modelled or not, and every hazard with its
line and the properties that watch it.

## Modules

Common conventions. A reducer's command is one action; a command the reducer
refuses changes nothing and is no step, so a guard is the conjunction of the
handler's rejections, and the effect is everything behind the acceptance,
refreshes included. Bytes, digests, signatures and identifiers that merely have to
match are abstracted to the facts they stand for. Definitions whose name extends
another's and whose comment begins with "Mutant" are faulty variants: putting
one in the place of the original must break the property it is listed with.
Properties are named parts joined into one definition per question.

### `Scheduler` — crates/orchestration/peritus-scheduler

One variable per collection of `SchedulerState`; one action per command of
`SchedulerCommandKind` (`StartScheduler` is `Init`). `Decide(W, R, K)` is the
`refresh()` behind every command: it propagates dependencies and recomputes worker
phases. Rounds of propagation and of the parent closure are least fixed points,
stated as the intersection of all closed sets. Abstracted away: `state_bytes` and
the 16-bit counters, bounded by limits far below overflow. A definition is fixed
per work identity, because retained work is immutable.

### `CommandLedger`, `CommandOutcome` — command submission

`submit()` (`daemon/command/service.rs`), the ledger transactions
(`journal/application/command_store.rs`), the handlers as seen from there
(`Dispatch`: append, refuse, or fail before or after the append became durable),
`reconcile_command()`, `reconcile_application()`, restart and draining. A request
stands for its digest; `KeyOf` and `CommandOf` let requests collide. `CommandOutcome`
is what submission promises a client: an outcome is decided at most once, never
changes, and is what the client is told. `PromiseKept` is the refinement.

### `SchedulerSession` — replay cache and fenced append

`SchedulerSession::state/commit`, `ReplayObservation`, `commit_transition` and
`append_observed`, one action per SQL statement or transaction, with commits of
other connections and owner messages between them. An aggregate is the sequence
of commands it accepted; a generation is an address that may be reused once
nobody holds it.

### `Collaboration` — crates/orchestration/peritus-collaboration

The tree of delegated tasks: offer, accept, reject, activate, message, deliver,
acknowledge, complete, fail, cancel through the subtree, abandon, pause, resume,
finalize. `Decide` is the fence and the bound on the successor state. The last
step of a task is possible in every state (`WindDownOpen`, stated with ENABLED):
the code has no scheduler of its own that would justify fairness of clients.

### `Orchestrator` — crates/orchestration/peritus-orchestrator

The E0 aggregate of one run: role cycle, directives with delivery counts,
observations of child results, pause and resume, cancellation and explicit
terminals. `Decide(A)` conjoins the whole-state validation of the successor, which
in the code can refuse what a handler did. `started` is a history variable: the
children a committed directive may have started.

### `Outbox` — journal outbox and daemon pump

The table (`sqlite/outbox_store.rs`), the pump (`daemon/outbox/`), child delivery
in two transactions and its acknowledgement, the clock whose epochs are windows of
one number line, crash and restart.

### `Leases` — crates/state/peritus-leases

The aggregate with acquire, renew, use, release, expiry, loss, revocation, clock
discontinuity, reconciliation, quarantine and retirement. Clients plan over what
they read and submit later; versions and generations end.

### `Budget`, `AgentBudget` — crates/foundation/peritus-budget, peritus-agent/runtime/budget.rs

`Budget` is the ledger: open, delegate, begin, activate, observe, settle, cancel,
reconcile, seal, close. `AgentBudget` adds the agent's handle on a reservation,
whose receipts may be lost, beside other clients of the same ledger. `Refines` is
the crate's own `validate_refinement`.

### `PatchTransaction`, `WorkspaceMutation` — crates/runtime/peritus-patch, peritus-workspace

`PatchTransaction` has every disk effect of apply, rollback, recovery and cleanup
as a step: staging, the manifest's phases, backups, installation, directory
creation and removal, receipts, quarantine. `WorkspaceMutation` adds the gateway:
consumption markers, the token held outside its lock, cancellation, recovery of an
action, restart reconciliation, and the process that stops anywhere. A rename is
atomic with respect to a crash, the staging of all finals is one step (nothing
outside the transaction directory depends on its middle), and the consumption
marker is written atomically. The gap between the last observation of a target and
its rename is one step: the code does not promise to detect an edit made there. A
cancellation seen before the transaction directory exists records its receipt and has
nothing to clean up (`withdraw`); the cancellation of a token that was never applied may
fail to make its receipt durable (`CancelFails`) or meet a contrary one.

### `Approval` — crates/state/peritus-approval, journal/domain/approval*.rs

The aggregate with resolution, amendment, use, expiry and cancellation, and the two
durable adapters with the credential registry. The code never decodes an aggregate
from its row; a holder starts from the checked request and replays, so `holder`
is volatile and `record` durable. A verified observation may be reduced later than
it was verified. Amendments have no durable adapter in the code.

### `Settlement`, `ProductRun` — crates/orchestration/peritus-run-settlement, app/peritus-product-runner, daemon/product_run

`Settlement` is the pure domain: identities, evidence bindings, stages, admission
of a successor checkpoint, dispositions. `ProductRun` is the loop of
`run_until_terminal`, the candidate recorder, finalization, the daemon's record,
retry, cancellation while waiting, commit of a deliverable, load and reconciliation.
A managed workspace only, with a design always present; "Provider" stands for all
causes without a rule of their own. Turns, gate runs and reviews are two steps each,
with edits, messages and crashes between; the two records at the end of a review
are one step, and a review looks at the diff captured when the gates ended.
Reconciliation is part of `Restart`; in the code it runs at the first selection after
it, before the record is used. `passed`, `failed`, `kept` and `fresh` are history: the
checks that passed, those whose latest result is negative, both of them at the last
settlement, and whether gates passed in this process. An attempt that crashes or ends on
a fatal error leaves no trace of what it checked, in the code as in `passed` and `failed`,
which return to `kept`.

The error paths of the daemon's record are choices of a scope with `faults`.
Finalization may be unable to observe the candidate: it settles it as it was last
recorded, and Completed becomes the error of the observation. finish() may store a
settlement without handing the candidate over (`NotHandedOver`): the goal cannot be
settled or the task baseline cannot be retained (phase RecoveryRequired), or no
deliverable can be projected (an accepted run is then Failed). Startup may be unable to
validate the workspace, its digests or a discard receipt: mark_unavailable() keeps phase,
settlement and deliverable and only takes the candidate off the offer. So **a settlement
may stay Accepted over a restart**: of a record without a deliverable, which startup
skips and delivery_settlement() does not report, or of a candidate that is marked
unavailable. What a restart ensures is `RestartWithdraws`: no uncommitted candidate is
open to acceptance, export, commit or discard afterwards (`Offered` is what
validate_exact_candidate() asks of the record), as
src/docs/daily-driving-limiters-audit.md:1121 says of candidate facts that cannot be
read. Not modelled here: a repeated commit whose retained attempt still matches the source
(validate_retry) reconciles the candidate with its retained execution context even while
it is marked unavailable; a commit that fails after Git moved; a failing record at
`Qualify` or at the end of a review, which ends the attempt like `Interrupt`; and texts
that do not fit a snapshot.

### Proof modules

`AgentBudgetProofs`, `ApprovalProofs` and `ProductRunProofs` hold the theorems about the
module of their name, `SchedulerProofs` those about `Scheduler` and `SchedulerSession`,
`JournalProofs` those about `CommandLedger` and `Outbox`, `CoordinationProofs` those about
`Leases` and `Collaboration`, `ExecutionProofs` those about `Orchestrator` and
`WorkspaceMutation`. As these four extend two components, the specifications of the
session, the outbox, the leases and the workspace have names of their own (`SessionSpec`,
`OutboxSpec`, `LeaseSpec`, `MutationSpec`).
`RecursionTheorems` holds what the proofs share: the least number principle and the laws
of a sum over a finite set. The `MC*` modules hold the instances.

## Runs

| run | instance | properties and their parts |
|---|---|---|
| `scheduler` | 3 items (retry-safe root with 2 attempts, dependent child, competitor that needs a whole worker), 2 workers, 3 dispatches, bypass bound 1 | `DispatchTruth` (ownership one to one, starts match phases), `CapacityTruth` (fits, worker phases, attempts accounted), `QueueTruth` (dependency phases, waiting work can start), `TerminalTruth`, `NothingUndone` (final outcomes, started cancellations stick, released once), `AgedWorkForcedAhead` |
| `scheduler_session` | 2 aggregates, 3 commands, 4 generations | `CacheTruth`, `CommandOnce`, `ExtendsDecided` |
| `ledger` | 1 connection, 3 colliding requests, 2 restarts | `SubmissionTruth` (one dispatcher, answers retained), `SettledTruth`, `RejectsOnlyAbsent`, `PromiseKept`, `RecoveryCompletes` |
| `ledger_race` | 2 connections, so that a resubmission overlaps the first submission | violates `SettledTruth`: see below |
| `collaboration` | trees of 3 tasks and 2 owners, or 2 tasks and 2 messages: the byte bound leaves room for either | `StateLoads` (checkpoint validation, message chains, artifact bound), `TreeTruth` (joins, closed cancellations, terminal), `WindDownOpen`, `OutcomesStand` (late success refused, outcomes immutable) |
| `orchestrator` | 2 revisions, 1 fixer cycle, budgets for one pause | `RunTruth` (acceptance, no orphaned child), `CommittedCauseStands`, `CancellingSettles` |
| `outbox` | 2 claim loops, a row and its child, 2 attempts, 2 restarts, window of 4 ticks | `RowTruth` (one live claim, settled after the effect, order, leases end with their epoch), `ClaimsStand` (latest settles, final one not cut short), `RowsFinish` |
| `leases` | 2 holders, 2 planners, 2 epochs, 8 versions, 2 generations | `LeaseLoads` (replay validation, never stranded), `ExclusiveUse` (uses exclusive, handover after quiescence), `LeavingActiveFences` |
| `budget` | root and sub-account, 2 actions, 2 attempts, usage up to 2 | `LedgerTruth` (validate(), consumption is usage), `AttemptTruth` (ceiling payable, overruns shut the lineage, one attempt at a time, handle never ahead), `NoLateWork` (shut accounts drain, only live work is activated), `Refines` |
| `workspace_mutation` | create in two new directories, replace, delete; 2 crashes, 2 failing calls, 1 foreign edit | `CrashSafe` (recoverable, evidence or receipt), `ReceiptTruth` (applied, rolled back, clean), `AnswersStand` (outcomes agree, not-attempted is true, edits kept), `Concludes` |
| `approval` | 2 holders, 2 approvers (one not independent), 5 decisions over 2 registry revisions, 2 uses, 2 epochs | `UseTruth` (one effect, held approvals true, retries of a use answered), `LifecycleTruth` (durable lifecycle, authorized by the current registry) |
| `product_run` | 7 scopes: restarts and commits; three contents; messages and investigations; continuations for another request in another process; external effects; retries that end on a fatal error; observations, handovers and validations that fail | `CandidateTruth` (accepted only on passed checks, negatives revoke), `RecordTruth` (no checkpoint refused, startup can reconcile), `SettlementsObserve` (restart withdraws, finalize observes or says that it could not, no-change is true) |

Bounds are the smallest at which the interesting cases occur: two attempts so that
the last differs from the first; two workers so that one is lost while the other
works; two requests on one key and two on one command identity; a second restart
so that something recovered is recovered again; one generation more than can be
held at once; enough versions to reach the reserve of the counter through every
phase; a window that a second lease no longer fits in; three kinds of file operation,
so that rollback meets each of them half done. `DispatchHistory`, `MaxRestarts`, `MaxDeliveries`,
`MaxEpoch`, `MaxTick`, `MaxUsage`, `MaxReservations`, `MaxEdits`, `MaxFaults`,
`MaxCrashes`, `MaxRecord` and the bounds of a scope make the instances finite; the
others are limits of the code. Seven scopes of `ProductRun` share one run through a
rigid variable; their product is out of reach: external effects are explored without
crashes, and failing observations, handovers and validations with restarts and
investigations but one context. `ledger` has one task, so a resubmission that overlaps
the first submission is explored by `ledger_race` only; of the properties that hold
then, `SubmissionTruth` and `RejectsOnlyAbsent` are proved for any number of tasks. Chains
of dependencies longer than one are covered by the proof of `QueueTruth`, which holds for
every graph. Symmetry is used for interchangeable identities only and not with liveness.
Collaboration's event sequence is outside the view: with `CommandBytes = 0` no guard
depends on it.

Deadlock is not checked where a component really stops (terminal aggregates, a
spent budget of faults, a daemon that stays down).

Conditions in properties, which are as much a part of the result as the formulas:
`Undisturbed` in `WorkspaceMutation` (nobody else wrote a target, no restart
reconciliation resolved the transaction without a receipt, one action per patch)
limits `Recoverable`, `EvidenceOrReceipt` and `NotAttemptedTruth`;
`CancellingSettles` starts from runs with no paused child and allows a run whose
budgets are spent to stay; `AcceptedTruth` is checked and proved for edits outside a
running gate run or review (`EditsOutsideChecks`); `NegativeRevokes` and the effects in
`AcceptedTruth` speak of attempts that were settled and of the live one. The last section
shows what happens without each of them.

### Fairness

Safety is checked without fairness. Weak fairness is assumed

* of `Recovery` in `CommandLedger`: the startup loop runs before any connection is
  accepted (`RecoveryCompletes`);
* of the driver of an orchestrated run (publish, acknowledge, observe, advance,
  record, resume, settle), which the daemon repeats while a run is not terminal; not
  of pause, failure or cancellation (`CancellingSettles`);
* of the clock, of each claim loop and of each delivery (`RowsFinish`); a claim that
  would overrun the epoch fails and ends the loop, which the property allows for;
* of the running call and of its finish, of reopening the workspace after a stop,
  of the worker that holds a token and of the host that asks again until the answer
  is conclusive (`Concludes`).

Crashes are bounded in each instance: a process killed in every startup never opens.

## Proofs

TLAPS proves the following for every value of the constants, under the named
assumptions of the modules: identities are ordered like their bytes, sentinels such as
`None`, `NoTask` and `NoHolder` are none of the values they stand beside, limits are
positive, the sets of work items, accounts, dimensions, tasks and messages are finite
(the code bounds each of them), and definitions are the ones the constructors accept.

* **Scheduler**: `DispatchTruthful`, `QueueTruthful`, `CapacityTruthful`,
  `TruthfulSummary`, `NothingIsUndone`, `AgedWorkFirst`, which are all the properties
  of its run. The inductive invariant is `SchedulerInv /\ CapacityInv`. `SchedulerInv`
  joins types, ownership, start agreement, attempts and dependency truth with
  `OutcomeOf`, which ties a terminal outcome to the terminal phase. It is needed as a
  whole: releasing an attempt keeps dependency truth only because owned work is not
  terminal; requeueing keeps attempts only because the reservation's attempt is the
  current one. `DecideInv` shows that the refresh preserves the invariant of whatever
  a handler applied, given that dependents of failures are closed; one lemma per kind
  of handler shows that the handler applied something of that kind. `CapacityInv` adds
  the sums of what a worker and the whole aggregate have given away, and that an attempt
  number and a dispatch identity are spent together. `TruthfulSummary` adds
  `GravestKind`: the maximum of the precedence is `Completed` only if everything
  succeeded.
* **CommandLedger**: `SubmissionTruthful`, `TruthfulRejection`, for any number of
  tasks, requests and restarts. `LedgerInv` adds that a task that dispatches or
  settles has its row, that a result carried by a task agrees with the journal, and
  that journalled commands have rows. `SettledTruthful` has the hypothesis
  `OneConnection` (at most one connection exists), which is what keeps a reconciliation
  from overtaking a dispatch: `Exclusive` says that a row somebody still dispatches
  belongs to the only task there is. The run `ledger_race` shows that two connections
  refute the property. Under the same hypothesis `SubmissionKeepsPromise` proves the
  refinement `PromiseKept`: each step is `Promised` for one request, which means that
  the client sees nothing of it, sees the one decision, or is told the outcome again.
  An append decides only the row of its own command because command identities have
  one row (`OneRow`), and that row was open because settled rows are true.
* **SchedulerSession**: `SessionTypeCorrect`, `ReuseIsReplay`, `EffectOnce`,
  `NoLostUpdate`. `SessionInv` adds that an observation is never from the future and
  that a current observation vouches for the decided state.
* **Leases**: `LeaseAlwaysLoads`, `UseIsExclusive`, `ClaimsEndWithLease`, for any
  clients, holders and counters that end. The invariant `LeaseInv` speaks of plans,
  because a plan is submitted long after it was made: a plan whose expected version is
  the stored one was made over the stored lease (`PlansPrepared`), so committing it is
  one of eight prepared changes, and uses are recorded for the present generation or for
  one that is quiet or awaits its reconciliation (`UsesBehind`, `FencePending`).
* **Collaboration**: `StateAlwaysLoads`, `TreeIsTruthful`, `OutcomesAreKept`, for any
  tree within the limits. `Ancestry` is a recursive walk of bounded depth; the proof
  uses that it contains the task, is closed under parents and is the least such set,
  which `AncestryFacts` derives by the least number principle, and that a new task is
  nobody's ancestor, so growth keeps all old ancestries. `CollaborationInv` joins the
  tree, the messages and the closing of the aggregate.
* **AgentBudget** (with `Budget`): `SumsStayTrue`, `AttemptsStaySettleable`,
  `ShutMeansShut`, `EveryStepRefines`, for any tree of accounts, any dimensions and any
  number of attempts; these are all the properties of its run. The invariant adds to
  the sums that accounts form a tree in which each keeps its whole chain (`Tree`), that
  they close bottom up (`Lifecycles`), and that each attempt after the first of an
  action was charged as a retry (`Attempts`). All commands but delegation, sealing and
  closing are a `Charge`: one account and its ancestors are charged, one attempt changes
  what it holds. That the sums survive is therefore proved once, with the laws of
  `RecursionTheorems`, one dimension at a time.

* **Outbox**: `RowsAreTruthful`, `ClaimsAreRespected`, for any rows, loops, attempts and
  clocks. The invariant `OutboxInv` adds fences: a claim under an older fence than its
  row's has run out, and the present fence is held by one loop at most, so an
  acknowledgement that the fence admits comes from the latest claim. A row was tried
  exactly when it left `Pending`, and the choice of the next row is the least by
  position and then identity (by `LeastNatural`), which is what orders first attempts.
* **Orchestrator**: `RunIsTruthful`, `CausesStand`, for any limits of the counters; all
  the safety properties of its run. `RunInv` adds to them the successor's own validation and
  what the phase says: the directives that may be pending in it (`DirectiveFits`), that
  the gates and the review it rests on are of the present revision (`EvidenceFits`), and
  that the kernel is the only child while it decides (`KernelOwned`). A child is not
  lost when a directive is dropped because every step that drops one either knows, from
  the phase, that it starts nothing or takes over what it may have started. Acceptance
  leaves nothing running because the decision is observed only under an acknowledged
  directive outside pause and resume, where `KernelOwned` makes the kernel the one child.
* **Approval**: `UsesAreTruthful`, `LifecycleIsKept`, for any holders, approvers,
  decisions and uses; these are all the properties of its run. `ApprovalInv` says what
  memory is worth: an aggregate or a plan that expects the row's revision was made over
  that row, an older one can only be refused or be answered with what was committed, and
  a resolution was authenticated by the registry it names (`HeldSound`, `PlanSound`).
* **ProductRun** (with `Settlement`): `CandidateIsTruthful`, `RecordsStaySound`,
  `SettlementsAreObservations`, for any scopes and bounds; these are all the properties of
  its run. `RunInv` says that the recorder, the record and its continuation hold
  checkpoints that are `Sound`: of no later sequence than their recorder, with evidence
  that is current exactly when its binding matches. `RecordedAs` is what one call of
  record() does, in terms of what the new checkpoint inherits and what it acquires; every
  action that records is shown to be one `RecordedAs`, the two records at the end of a
  review together. Soundness needs no more than that sequences grow, so `RunInv` holds in
  every scope, those with failing observations, handovers and validations included.
  A restart offers no candidate because one with an open deliverable has a continuation
  and is therefore reconciled or marked unavailable, and because a qualified checkpoint
  has an execution context, which a restart takes away. `EvidenceInv` adds what evidence
  is worth: a positive result, stale ones included, because they count again when source,
  request and context return, is a check that passed and has not failed since (`Backed`),
  by `passed` and `failed` for the live attempt and by `kept` for the record. It has the
  hypothesis `EditsOutsideChecks`: no scope lets the source be edited between the start of
  a check and the moment its result is bound to the source, which is what
  `EvidenceFromCandidate` below fails without.
* **WorkspaceMutation** (with `PatchTransaction`): `TransactionsAreCrashSafe`,
  `ReceiptsAreTrue`, `AnswersStandForever`, for every plan, any number of actions that
  carry it, and any number of crashes, failing calls and foreign edits; these are all
  the safety properties of its run. A call walks through the operations of the plan,
  forwards to install and backwards to undo, and may stop at any of them. The invariant
  does not tie what the disk holds to the prefix of the plan that was walked, but says
  what a target may look like at any position, and ties to the position only the few
  facts that the next step relies on; that everything is back, or everything installed,
  the code itself establishes by looking (`VerifyPreimages`, `VerifyPostimages`,
  `Classify`). The parts of `MutationInv` differ in the condition they need. None:
  `Control` (who is where, the phase of the manifest there, what a call may end with)
  and `Receipts` (the receipt precedes the removal of evidence, and a caller is told
  what the receipt says). Nobody else writes a target: `Unedited` (an Applied receipt is
  over installed postimages, and nothing that changes a target runs after it). Nor do
  two actions carry the patch: `Untouched` (until the first change the workspace is as
  the plan expects it), `Undone` (a call that ends without the patch has put everything
  back, directories included) and `CleanTruth`. Nor did restart reconciliation resolve
  the transaction: `UndoEvidence` (a target that is gone has its backup, or an Applied
  receipt is durable). Every step is described twice, by what it does to the disk and by
  where it moves the call (the lemmas named for the actions, `...Effect` and
  `...Moves`); each part is then preserved by one lemma with a case per action.

Induction. The theorems of the library that take an operator parameter cannot be
instantiated, but `LeastNatural` states the principle over a set: the set of sizes, or
of depths, at which a statement fails has no least element, so it is empty. Sums and
the walk up a tree are reasoned about this way.

Only model-checked:

* liveness (`RecoveryCompletes`, `CancellingSettles`, `RowsFinish`, `Concludes`) and
  `WindDownOpen`, which is stated with ENABLED: out of the prover's reach;
* `QueueWithinBounds` and the other statements of the last section, which the code
  breaks.

## What is left

The proof of `QueueWithinBounds` for schema 1 of the scheduler, which the code keeps and
no run checks.

## Not modelled

Encodings and digests, vendor adapters, operating system sandboxes, user interfaces,
offline analysis, build and release tooling (most of the repository's lines): data
transformations or I/O without state that TLC could explore. The agent's turn
reducer, review and gate families, the tool router, artifact storage, subscriptions
and shutdown of the daemon have control worth modelling and are left out; the models
above see them through their results. Within modelled components: goals, the
workbench, export, discard and acceptance by the user of a deliverable, Git rollback
and snapshots of a workspace, foreign bindings a ledger refuses, and the load of a run
cancelled by the user are left out.

## Disagreements found while modelling

Statements of documents, comments and checks that the code does not keep. Each is a
definition of its module, in its last section unless a condition there makes it one
of the properties above; checked in place of the properties of the named instance,
TLC finds a behaviour of the code that violates it. One of them, `ledger_race`, is a
run of the project.

* `CancellationSticks` (`MCScheduler.cfg`;
  crates/orchestration/peritus-scheduler/src/state/mutation/reservation_command.rs:27).
  AcknowledgeStart tests only that the reservation has not started, not that the work is
  still Reserved, and sets the phase to Running: a start that arrives after CancelWork
  turns Cancelling work back into Running work, its cancel directive disappears
  (runtime.rs:41-50), and CompleteWork then ends it as Succeeded.
  src/docs/d3-scheduler-collaboration.md:96-97 says "active descendants become
  cancelling until their owner acknowledges termination. Late success cannot resurrect a
  cancelled branch."
* `QueueWithinBounds` (`MCScheduler.cfg` with `Semantics = "StrictRecoveryQueueV2"` and
  `QueuedWork = 1`; crates/orchestration/peritus-scheduler/src/state/queue.rs:21). Schema 2
  counts Reserved and Running attempts that may be retried but not Cancelling ones. A
  cancellation frees a slot, AdmitWork takes it, and a late AcknowledgeStart makes the
  cancelled work Running again: the measure exceeds queued_work and validation.rs:18
  refuses the checkpoint that was just written.
  src/docs/d3-scheduler-collaboration.md:114 says "schema-2 recovery pressure stays
  within `queued_work`".
* `AttemptLimitRespected` (`MCScheduler.cfg` with `AttemptsPerWork = 1`;
  crates/orchestration/peritus-scheduler/src/wire/command.rs:221). AdmitWork is decoded
  with production_limits() and admission never compares maximum_attempts with the
  attempts_per_work of the binding, so work beyond that limit is admitted and committed.
  The decoder of the checkpoint checks it,
  src/crates/orchestration/peritus-scheduler/src/state/validation.rs:88-96: "decoded
  work record violates revision, attempt, bypass, or phase invariants", so the aggregate
  cannot be loaded again, against src/docs/d3-scheduler-collaboration.md:129-130 "a
  crash after commit exposes the same directive for idempotent redelivery".
* `SettledTruth` (the run `ledger_race`;
  crates/app/peritus-daemon/src/command/service.rs:54). A resubmission that finds a
  Pending row reconciles it at once, although the task that inserted the row may still
  be dispatching. The journal does not hold the command yet, so the row is settled as
  rejected; the dispatch then commits, its settlement conflicts, and the ledger keeps a
  rejection of a committed command. src/.design/g0-daemon.md:515 says "Append once. On
  success, settle the application row with exact positions." and
  src/.design/g0-daemon.md:293-294 "produces exactly one command effect and the retained
  A3 result".
* `CancellationDominates` (`MCCollaboration.cfg`;
  crates/orchestration/peritus-collaboration/src/verified/executable.rs:69).
  cancellation_dominates demands that every descendant of a cancelling task is
  cancelling or ended without success, but cancel() rightly leaves finished tasks alone:
  a child that succeeded before its parent was cancelled makes the predicate false in a
  legal state. Its comment claims only "Returns whether cancellation-pending tasks and
  descendants cannot claim new success."
  (src/crates/orchestration/peritus-collaboration/src/verified/executable.rs:51), and
  src/crates/orchestration/peritus-collaboration/src/verified.rs:1 calls it one of the
  "Executable collaboration invariants". What the comment says does hold
  (LateSuccessRefused).
* `CheckpointWithinBound` (`MCCollaboration.cfg` with `CommandBytes = 1` and without its
  VIEW; crates/orchestration/peritus-collaboration/src/reducer.rs:82). decide() checks the
  byte bound of the successor before advance_cursor() adds the identity of the command,
  so an accepted command can leave a state beyond state_bytes. The decoder of the
  checkpoint checks the bound again and refuses what was just written:
  src/crates/orchestration/peritus-collaboration/src/state/validation.rs:60 "decoded
  collaboration state exceeds limits or contains noncanonical identities".
* `PausedRunResumes` (`MCOrchestrator.cfg`;
  crates/orchestration/peritus-orchestrator/src/reducer/apply/directives.rs:28). pause()
  keeps the pending directive, and publish() refuses a PauseChildren directive while
  another is pending. A run paused in ReviewPending, GatesPending or GatesActive with
  its start directive pending therefore cannot pause its active children, resume()
  refuses it for good, and only cancellation or an explicit terminal is left. The doc
  says "Pause records the resumable phase before preventing new directives."
  (src/docs/e0-actor-orchestrator.md:106).
* `ResumedRunContinues` (`MCOrchestrator.cfg`;
  crates/orchestration/peritus-orchestrator/src/reducer/apply/acceptance.rs:178).
  resume() leaves paused_reconciliation set; only the acknowledgement of the last
  ResumeChildren directive clears it. A run paused with no active child (WriterPending,
  or between acceptance stages) has no child to resume, so apply() refuses every command
  but cancellation from then on. The doc says "Pause records the resumable phase before
  preventing new directives." (src/docs/e0-actor-orchestrator.md:106).
* `CancellingAlwaysSettles` (`MCOrchestrator.cfg`;
  crates/orchestration/peritus-orchestrator/src/state/mutation.rs:175). Reject, Fail and
  Exhaust of a paused run move it to Cancelling without clearing paused_children, as
  cancel() does. Reconciling a paused child then removes it from active_children only,
  the successor fails validate() (paused children must be active), and the run stays in
  Cancelling for good. The doc says "Rejection, failure, exhaustion, and needs-human
  causes use the same settling path while retaining their own truthful terminal
  classification." (src/docs/e0-actor-orchestrator.md:113, quoted across two lines).
* `GatesWereStarted` (`MCOrchestrator.cfg`;
  crates/orchestration/peritus-orchestrator/src/reducer/apply/directives.rs:57).
  acknowledge() tests the phase before the directive kind: in a run paused and resumed
  in GatesPending the acknowledgement of ResumeChildren counts a gate cycle, marks the
  gates active and moves to GatesActive although no StartGates was published; the
  resumed child stays paused. The doc says "At most one directive is pending for an E0
  aggregate" and, of the driver order, "publish only the committed directive; durably
  acknowledge delivery; and later consume the matching checked child result."
  (src/docs/e0-actor-orchestrator.md:96).
* `ExhaustionSurfaced` (`MCOutbox.cfg`;
  crates/state/peritus-journal/src/sqlite/outbox_store.rs:89). When the daemon dies
  during a row's last attempt, the first claim after the restart marks the row Exhausted
  in passing: the daemon stays ready, no error is reported and the row is never
  delivered again. The runbook says "A destination mismatch, malformed payload,
  exhausted retry, or changed child binding enters read-only/operator recovery rather
  than skipping the row." (src/docs/g0-recovery-runbook.md:86).
* `AvailableCanBeAcquired` (`MCLeases.cfg`;
  crates/state/peritus-leases/src/transition/lifecycle.rs:46). acquire() demands the
  stored clock epoch, and only an Active lease (or one reconciling after a
  discontinuity) can move to another epoch: an Available lease, or one reconciling after
  expiry, release, loss or revocation, refuses every command of a later authority epoch.
  The enum says of Available "No current holder exists and acquisition may be planned."
  (src/crates/state/peritus-leases/src/failure.rs:10).
* `UseSupersedesClaim` (`MCLeases.cfg`;
  crates/state/peritus-leases/src/transition/authority.rs:56). authorize_use() installs
  the active lease unchanged, so the same claim authorizes any number of uses. The error
  says "A claim version was superseded by renewal or use."
  (src/crates/state/peritus-leases/src/failure.rs:99), and the claim calls it "the
  renewal/use-sensitive claim version"
  (src/crates/state/peritus-leases/src/claim.rs:46).
* `NotAttemptedTruth` (`MCWorkspaceMutation.cfg`, with `~reconciled` dropped from the
  condition; crates/runtime/peritus-workspace/src/reconcile.rs:309). reconcile_restart()
  resolves every transaction directory with recover_transaction(), which has no
  completion callback: a patch found installed is cleaned up without a receipt, and
  recover_mutation() of its action then finds an open marker and no directory and
  answers NotAttempted although every postimage is in the workspace. The outcome is
  documented as "The action was consumed but no patch transaction was ever published."
  (src/crates/runtime/peritus-workspace/src/mutation.rs:17).
* `DirtyTruth` (`MCWorkspaceMutation.cfg`;
  crates/runtime/peritus-patch/src/transaction/recover.rs:308). When the Installed
  manifest is renamed into place and the directory sync fails, apply rolls the workspace
  back and leaves the manifest Installed; after a crash before the receipt,
  classify_transaction() finds Installed without all postimages and reports Dirty over
  exact preimages, for good. The outcome is documented as "Current targets disagree with
  both the exact preimage and postimage."
  (src/crates/runtime/peritus-workspace/src/mutation.rs:23).
* `EvidenceOrReceipt` (two actions with one patch, with `~Shared` dropped;
  crates/runtime/peritus-workspace/src/mutation/recovery.rs:158). The transaction
  directory is named after the patch, not the action: recover_recorded_rollback() of an
  action that was cancelled finds the directory of a later action with the same patch,
  resolves it without a callback and removes it; the patch stays installed and no
  receipt says so. The doc of recover_mutation says "It records a conclusive transaction
  result in the existing action marker before recovery removes transaction files."
  (src/crates/runtime/peritus-workspace/src/mutation/recovery.rs:22).
* `CleanTruth` (two actions with one patch, with `~Shared` dropped;
  crates/runtime/peritus-workspace/src/mutation/recovery.rs:180).
  recover_recorded_rollback() sets the condition Clean whatever it was: dispatching a
  cancelled action again after another action has patched the workspace turns Dirty into
  Clean, and the next patch is authorized over a tree that is not the snapshot. Clean is
  documented as "Exact durable snapshot and complete Git/filesystem observations agree."
  (src/crates/runtime/peritus-workspace/src/state.rs:13).
* `RetryAnswered` (`MCApproval.cfg`;
  crates/state/peritus-journal/src/domain/approval.rs:124). commit_approval_transition()
  compares the credential registry before append() can recognise the command, so an
  exact retry of a committed resolution is refused as StaleRegistry after a rotation.
  The durable-state document says "An exact command/digest match returns the original
  committed result" (src/docs/c0-durable-state.md:75).
* `ExpiryNeedsNoRegistry` (`MCApproval.cfg`;
  crates/state/peritus-journal/src/domain/approval.rs:148). validate_registry() binds
  every transition of an aggregate that has a resolution, the Expired one too: after a
  rotation an approved request can be neither used nor durably expired, and the row
  stays ApprovedOnce. The document binds resolutions only: "Approval resolutions bind
  the exact current credential-registry revision" (src/docs/c0-durable-state.md:169),
  and expire() "Expires a pending or unconsumed authorization at its exact earliest
  bound." (src/crates/state/peritus-approval/src/state/lifecycle.rs:36).
* `EvidenceFromCandidate` (`MCProductRun.cfg` with "Gates" in `editedAt`;
  crates/app/peritus-product-runner/src/execution/cycle.rs:280). inspect_gates() runs
  the gates and only then records them; record() observes the source at that moment and
  observed() binds the result to it. An edit made while the gates run gives the edited
  source a passing gate result it never had, and the qualification follows. The record
  is documented as "Typed evidence value and the exact candidate checkpoint that
  produced it." (src/crates/orchestration/peritus-run-settlement/src/evidence.rs:81).
* `RestartReacquiresGates` (`MCProductRun.cfg`;
  crates/app/peritus-daemon/src/product_run/persistence/record.rs:161). The daemon loads
  continuations with decode_durable_retained(), which keeps the execution context, and
  startup reconciles only records with an open deliverable. A retry clears the
  deliverable, so after a crash during a retry the old context and gate evidence survive
  and a failed retry settles as accepted in the new process. The recorder says "Durable
  decode clears the context before it reaches this recorder, so a real process restart
  still reacquires effectful gate evidence."
  (src/crates/app/peritus-product-runner/src/execution/checkpoint.rs:86).
* `RecordSurvives` (`MCProductRun.cfg`;
  crates/app/peritus-daemon/src/product_run/persistence/record.rs:167). The Finalizing
  update of a retry makes observe() persist the new checkpoint beside the continuation
  of the attempt before; a crash before finish() leaves a record whose continuation
  names another checkpoint, into_record refuses it as InvalidMessage and the run is
  quarantined. An interrupted run is to be retried: "Daemon restart interrupted this
  run; explicit retry is required to avoid replaying an indeterminate effect"
  (src/crates/app/peritus-daemon/src/product_run/persistence/record.rs:153).
* `ObligationsOfRequest` (`MCProductRun.cfg`;
  crates/app/peritus-product-runner/src/execution/state.rs:42). The obligation ledger is
  captured once, in ExecutionContext::prepare(). A message that a turn incorporates
  raises the revision candidates are bound to, but the ledger that qualifies them is
  still that of the older request. It is documented as "Exact public requirement ledger
  used by every qualifying phase."
  (src/crates/app/peritus-product-runner/src/execution/obligations.rs:17).
* `SettlementObserves` (`MCProductRun.cfg`;
  crates/app/peritus-product-runner/src/execution/settlement.rs:39).
  from_initial_error() settles the checkpoint of the continuation without observing the
  workspace, and decide() accepts a qualified checkpoint for an ordinary error: a retry
  that cannot start settles edited source as accepted. finalize() does the same, with the
  error as cause, when its own refresh fails. The testing document says "Every
  material tool, command, verification, review and settlement boundary still observes
  its candidate" (src/docs/testing/execution-efficiency-i6-freshness.md:16).
* `ResumesAtFirstStale` (`MCProductRun.cfg`;
  crates/app/peritus-product-runner/src/execution/settlement.rs:142). finalize()
  refreshes the candidate for the present request but keeps the phase the loop ended in.
  A message between acceptance and settlement makes the evidence stale, yet the
  continuation says Finalizing and a retry in the same process settles again without any
  check. next_phase() is documented as "First phase that was stale or incomplete when
  the run stopped." (src/crates/app/peritus-product-runner/src/execution/resume.rs:111).
* `ContinuationExact` (the scope `Errors` of `MCProductRun`;
  crates/app/peritus-daemon/src/product_run/execution.rs:253). When an attempt ends on a
  fatal error, finish() keeps the continuation of the attempt before, also if the failed
  attempt found that its evidence is wrong: gates that passed are retained by an
  interruption during the review, the gates of the retry fail on the same source, the
  fixer undoes the change and the next gate run has no candidate (a fatal error), and the
  second retry, over the same source again, resumes at the review with the gates that
  passed and is accepted. resume.checkpoint() is documented as "Exact candidate checkpoint
  at the interruption boundary."
  (src/crates/app/peritus-product-runner/src/execution/resume.rs:101), and observe() says
  "A fresh negative result may revoke an earlier qualification even when the workspace
  snapshot has not changed."
  (src/crates/orchestration/peritus-run-settlement/src/observation.rs:12, quoted across
  two lines).
