------------------------------ MODULE Scheduler ------------------------------
(***************************************************************************)
(* The scheduler aggregate of crates/orchestration/peritus-scheduler: the   *)
(* pure reducer decide(state, command) that admits work, reserves it on     *)
(* workers, follows each dispatch to a terminal outcome and finalizes the   *)
(* run.                                                                     *)
(*                                                                          *)
(* One action is one accepted command: the guard is the conjunction of the  *)
(* rejections of the command's handler, the primed values are the state     *)
(* after apply() AND after the refresh() that decide() runs behind every    *)
(* command (reducer.rs:71-72).  A rejected command leaves the state alone,   *)
(* so it is no step here.  The cursor, the digests and the command history  *)
(* fence commands against stale heads; they carry no scheduling state.      *)
(***************************************************************************)
EXTENDS Integers, FiniteSets, Functions

CONSTANTS
  WorkId,            \* work identities; numbers, because byte order breaks ties
  WorkerId,          \* worker identities, ordered the same way
  DispatchId,        \* identities clients may give to DispatchNext
  ResourceKind,      \* resource dimensions
  Actor,             \* owners of work and workers
  ExecutionClass,    \* execution classes
  WorkSpec,          \* WorkSpec[w]: the immutable definition admitted as w
  Descriptor,        \* Descriptor[k]: the descriptor worker k registers with
  Capacity,          \* global capacity of the binding
  Revision,          \* revision of the binding
  Semantics,         \* queue accounting of the aggregate's schema version
  QueuedWork, RetainedWork, MaxWorkers, ActiveReservations,
  AttemptsPerWork, BypassCount,      \* SchedulerLimits of the binding
  DispatchHistory    \* compiled bound on retained dispatch identities

Quantities == [ResourceKind -> Nat]

\* Work definitions as WorkSpec::new admits them.  A parent is a set with at
\* most one member.
WorkDefinition ==
  [owner : Actor, class : ExecutionClass, revision : Nat, priority : Nat,
   request : Quantities, dependencies : SUBSET WorkId, parent : SUBSET WorkId,
   maximumAttempts : Nat \ {0}, recovery : {"RetrySafe", "Ambiguous", "Fail"}]

WorkerDefinition ==
  [owner : Actor, classes : SUBSET ExecutionClass, capacity : Quantities,
   concurrency : Nat \ {0}]

\* Identities have a fixed width.
ASSUME IdentityAssumption ==
  WorkId \subseteq Nat /\ WorkerId \subseteq Nat /\ IsFiniteSet(WorkId)

ASSUME DefinitionAssumption ==
  /\ WorkSpec \in [WorkId -> WorkDefinition]
  /\ \A w \in WorkId : w \notin WorkSpec[w].dependencies \cup WorkSpec[w].parent
  /\ Descriptor \in [WorkerId -> WorkerDefinition]
  /\ Capacity \in Quantities

ASSUME LimitAssumption ==
  /\ {QueuedWork, RetainedWork, MaxWorkers, ActiveReservations,
      AttemptsPerWork, BypassCount, DispatchHistory} \subseteq Nat \ {0}
  /\ Semantics \in {"LegacyQueueV1", "StrictRecoveryQueueV2"}

VARIABLES
  phase,             \* lifecycle of the aggregate
  workers,           \* workers[k]: phase of worker k
  work,              \* work[w]: lifecycle record of w
  reservations,      \* live reservations
  usedDispatches,    \* dispatch identities ever used
  enqueueOrdinal,    \* admissions so far
  terminal           \* final summary

vars == <<phase, workers, work, reservations, usedDispatches, enqueueOrdinal,
          terminal>>

------------------------------------------------------------------------------
(* State *)

SchedulerPhase == {"Active", "Paused", "Draining", "DrainingPaused", "Terminal"}

WorkerPhase == {"Unregistered", "Available", "Busy", "Draining", "Lost", "Removed"}

WaitingPhase == {"WaitingDependencies", "Queued", "RetryPending"}

OwnedPhase == {"Reserved", "Running", "Cancelling"}

WorkPhase == {"Absent", "Terminal"} \cup WaitingPhase \cup OwnedPhase

Failure == {"Failed", "DependencyFailed", "Ambiguous", "Exhausted", "Cancelled",
            "Abandoned"}

WorkTerminal == {"None", "Succeeded"} \cup Failure

WorkRecord == [phase : WorkPhase, ordinal : Nat, bypasses : Nat, attempts : Nat,
               terminal : WorkTerminal]

\* Owner, revision, resources and token of a reservation are those of its work.
Reservation == [dispatch : DispatchId, work : WorkId, worker : WorkerId,
                attempt : Nat, started : BOOLEAN]

TerminalKind == {"Completed", "Cancelled", "Failed", "DependencyFailed",
                 "Exhausted", "Ambiguous"}

NotFinal == [kind |-> "None", nonSuccessful |-> {}]

Init ==
  /\ phase = "Active"
  /\ workers = [k \in WorkerId |-> "Unregistered"]
  /\ work = [w \in WorkId |-> [phase |-> "Absent", ordinal |-> 0, bypasses |-> 0,
                               attempts |-> 0, terminal |-> "None"]]
  /\ reservations = {}
  /\ usedDispatches = {}
  /\ enqueueOrdinal = 0
  /\ terminal = NotFinal

Retained == {w \in WorkId : work[w].phase # "Absent"}

Registered == {k \in WorkerId : workers[k] # "Unregistered"}

Owned(w) == \E r \in reservations : r.work = w

\* Whether a lost or failed attempt of w may be followed by another one.
AttemptsLeft(w) == work[w].attempts < WorkSpec[w].maximumAttempts

SetPhase(record, p) == [record EXCEPT !.phase = p]

Terminalize(record, t) == [record EXCEPT !.phase = "Terminal", !.terminal = t]

------------------------------------------------------------------------------
(* decide(): the fence before and the refresh behind every command *)

Pending(W) == {w \in WorkId : W[w].phase \in {"WaitingDependencies", "Queued"}}

\* T contains the pending work that has a failed dependency, or one in T.
ClosedUnderFailure(W, T) ==
  \A w \in Pending(W) :
    (\E d \in WorkSpec[w].dependencies : W[d].terminal \in Failure \/ d \in T)
      => w \in T

\* Mutant: only a failed dependency counts, not a cancelled or ambiguous one.
DependencyFailuresFailedOnly(W) ==
  {w \in Pending(W) : \E d \in WorkSpec[w].dependencies : W[d].terminal = "Failed"}

\* The rounds of propagate_dependencies() stop at the least such set.
DependencyFailures(W) ==
  {w \in Pending(W) : \A T \in SUBSET Pending(W) : ClosedUnderFailure(W, T) => w \in T}

DependenciesSucceeded(W, w) ==
  \A d \in WorkSpec[w].dependencies : W[d].terminal = "Succeeded"

PropagateDependencies(W) ==
  LET failures == DependencyFailures(W) IN
  [w \in WorkId |->
     IF w \in failures THEN Terminalize(W[w], "DependencyFailed")
     ELSE IF W[w].phase = "WaitingDependencies" /\ DependenciesSucceeded(W, w)
          THEN SetPhase(W[w], "Queued")
          ELSE W[w]]

WorkerReservations(R, k) == {r \in R : r.worker = k}

\* Mutant: Busy one reservation too late.
RefreshWorkerPhasesLate(K, R) ==
  [k \in WorkerId |->
     IF K[k] \notin {"Available", "Busy"} THEN K[k]
     ELSE IF Cardinality(WorkerReservations(R, k)) > Descriptor[k].concurrency
          THEN "Busy" ELSE "Available"]

\* A worker between commands is Busy exactly when its concurrency is used up.
RefreshWorkerPhases(K, R) ==
  [k \in WorkerId |->
     IF K[k] \notin {"Available", "Busy"} THEN K[k]
     ELSE IF Cardinality(WorkerReservations(R, k)) >= Descriptor[k].concurrency
          THEN "Busy" ELSE "Available"]

\* decide(): a terminal aggregate rejects every command; otherwise the applied
\* work W, reservations R and workers K are installed after the refresh.
Decide(W, R, K) ==
  /\ phase # "Terminal"
  /\ work' = PropagateDependencies(W)
  /\ reservations' = R
  /\ workers' = RefreshWorkerPhases(K, R)

------------------------------------------------------------------------------
(* Workers *)

FitsWithin(request, capacity) == \A x \in ResourceKind : request[x] <= capacity[x]

RegisterWorker(k) ==
  /\ phase \notin {"Draining", "DrainingPaused"}
  /\ Cardinality(Registered) < MaxWorkers
  /\ workers[k] = "Unregistered"
  /\ FitsWithin(Descriptor[k].capacity, Capacity)
  /\ Decide(work, reservations, [workers EXCEPT ![k] = "Available"])
  /\ UNCHANGED <<phase, usedDispatches, enqueueOrdinal, terminal>>

\* Mutant: a draining worker counts as quiescent while it still runs work.
QuiescentUnchecked(k) == workers[k] \in {"Draining", "Lost"}

Quiescent(k) ==
  workers[k] \in {"Draining", "Lost"} /\ WorkerReservations(reservations, k) = {}

SetWorkerAvailable(k) ==
  /\ Quiescent(k)
  /\ Decide(work, reservations, [workers EXCEPT ![k] = "Available"])
  /\ UNCHANGED <<phase, usedDispatches, enqueueOrdinal, terminal>>

DrainWorker(k) ==
  /\ workers[k] \in {"Available", "Busy"}
  /\ Decide(work, reservations, [workers EXCEPT ![k] = "Draining"])
  /\ UNCHANGED <<phase, usedDispatches, enqueueOrdinal, terminal>>

RemoveWorker(k) ==
  /\ Quiescent(k)
  /\ Decide(work, reservations, [workers EXCEPT ![k] = "Removed"])
  /\ UNCHANGED <<phase, usedDispatches, enqueueOrdinal, terminal>>

\* Mutant: retry-safe work is requeued after its last attempt.
AfterLossUnbounded(w) ==
  IF work[w].phase = "Cancelling" THEN Terminalize(work[w], "Cancelled")
  ELSE IF WorkSpec[w].recovery = "RetrySafe" THEN SetPhase(work[w], "Queued")
  ELSE Terminalize(work[w], "Ambiguous")

\* Outcome of an attempt whose worker disappeared.
AfterLoss(w) ==
  CASE work[w].phase = "Cancelling" -> Terminalize(work[w], "Cancelled")
    [] work[w].phase # "Cancelling" /\ WorkSpec[w].recovery = "RetrySafe" ->
         IF AttemptsLeft(w) THEN SetPhase(work[w], "Queued")
                            ELSE Terminalize(work[w], "Exhausted")
    [] work[w].phase # "Cancelling" /\ WorkSpec[w].recovery = "Ambiguous" ->
         Terminalize(work[w], "Ambiguous")
    [] OTHER -> Terminalize(work[w], "Failed")

LoseWorker(k) ==
  LET lost == WorkerReservations(reservations, k) IN
  /\ workers[k] \in {"Available", "Busy", "Draining"}
  /\ Decide([w \in WorkId |-> IF \E r \in lost : r.work = w THEN AfterLoss(w) ELSE work[w]],
             reservations \ lost,
             [workers EXCEPT ![k] = "Lost"])
  /\ UNCHANGED <<phase, usedDispatches, enqueueOrdinal, terminal>>

------------------------------------------------------------------------------
(* Admission *)

\* The queue measure of each schema version: schema 2 also counts the attempts
\* that a worker loss or a retryable failure can return to the queue.
CountsForAdmission(w) ==
  \/ work[w].phase \in WaitingPhase
  \/ /\ Semantics = "StrictRecoveryQueueV2"
     /\ work[w].phase \in {"Reserved", "Running"}
     /\ AttemptsLeft(w)

AdmissionCount == Cardinality({w \in WorkId : CountsForAdmission(w)})

SupportedBy(w, k) ==
  /\ workers[k] \notin {"Unregistered", "Removed"}
  /\ Descriptor[k].owner = WorkSpec[w].owner
  /\ WorkSpec[w].class \in Descriptor[k].classes
  /\ FitsWithin(WorkSpec[w].request, Descriptor[k].capacity)

AdmitWork(w) ==
  /\ phase \notin {"Draining", "DrainingPaused"}
  /\ Cardinality(Retained) < RetainedWork
  /\ AdmissionCount < QueuedWork
  /\ w \notin Retained
  /\ WorkSpec[w].revision = Revision
  /\ FitsWithin(WorkSpec[w].request, Capacity)
  /\ WorkSpec[w].dependencies \cup WorkSpec[w].parent \subseteq Retained
  /\ \E k \in WorkerId : SupportedBy(w, k)
  /\ enqueueOrdinal' = enqueueOrdinal + 1
  /\ Decide([work EXCEPT ![w] =
                [phase |-> IF WorkSpec[w].dependencies = {}
                           THEN "Queued" ELSE "WaitingDependencies",
                 ordinal |-> enqueueOrdinal + 1, bypasses |-> 0, attempts |-> 0,
                 terminal |-> "None"]],
             reservations, workers)
  /\ UNCHANGED <<phase, usedDispatches, terminal>>

------------------------------------------------------------------------------
(* Selection and dispatch *)

Usage(R, x) == SumFunction([r \in R |-> WorkSpec[r.work].request[x]])

\* Mutant: tests what is used before w, not what is used with it.
RoomForUsageOnly(w, R, capacity) ==
  \A x \in ResourceKind : WorkSpec[w].request[x] > 0 => Usage(R, x) <= capacity[x]

\* Room for w beside the reservations R, in the dimensions w asks for.
RoomFor(w, R, capacity) ==
  \A x \in ResourceKind :
    WorkSpec[w].request[x] > 0 => Usage(R, x) + WorkSpec[w].request[x] <= capacity[x]

WorkerFeasible(w, k) ==
  LET held == WorkerReservations(reservations, k) IN
  /\ workers[k] = "Available"
  /\ Descriptor[k].owner = WorkSpec[w].owner
  /\ WorkSpec[w].class \in Descriptor[k].classes
  /\ Cardinality(held) < Descriptor[k].concurrency
  /\ RoomFor(w, held, Descriptor[k].capacity)

FeasibleWorkers(w) == {k \in WorkerId : WorkerFeasible(w, k)}

Feasible(w) ==
  /\ work[w].phase = "Queued"
  /\ RoomFor(w, reservations, Capacity)
  /\ FeasibleWorkers(w) # {}

FeasibleWork == {w \in WorkId : Feasible(w)}

Aged(w) == work[w].bypasses >= BypassCount

\* Mutant: priority outranks age.
CandidatePrecedesByPriority(v, w) ==
  IF WorkSpec[v].priority # WorkSpec[w].priority
  THEN WorkSpec[v].priority > WorkSpec[w].priority
  ELSE work[v].ordinal < work[w].ordinal

\* The dispatch order: aged work, then priority, then age in the queue.
CandidatePrecedes(v, w) ==
  IF Aged(v) # Aged(w) THEN Aged(v)
  ELSE IF WorkSpec[v].priority # WorkSpec[w].priority
       THEN WorkSpec[v].priority > WorkSpec[w].priority
       ELSE IF work[v].ordinal # work[w].ordinal
            THEN work[v].ordinal < work[w].ordinal
            ELSE v < w

Selected(w) ==
  w \in FeasibleWork /\ \A v \in FeasibleWork \ {w} : CandidatePrecedes(w, v)

FirstFeasibleWorker(w, k) ==
  k \in FeasibleWorkers(w) /\ \A j \in FeasibleWorkers(w) : k <= j

\* Another dispatch went past feasible work: its counter saturates at the bound.
Bypassed(record) ==
  [record EXCEPT !.bypasses = IF record.bypasses < BypassCount
                              THEN record.bypasses + 1 ELSE BypassCount]

\* Mutant: the attempt is not counted.
ReserveUncounted(record) == [record EXCEPT !.phase = "Reserved", !.bypasses = 0]

Reserve(record) ==
  [record EXCEPT !.phase = "Reserved", !.attempts = record.attempts + 1, !.bypasses = 0]

\* Mutant: only live identities count as used.
FreshDispatchLive(d) == \A r \in reservations : r.dispatch # d

FreshDispatch(d) ==
  d \notin usedDispatches /\ Cardinality(usedDispatches) < DispatchHistory

DispatchNext(d) ==
  /\ phase \in {"Active", "Draining"}
  /\ Cardinality(reservations) < ActiveReservations
  /\ FreshDispatch(d)
  /\ \E w \in WorkId, k \in WorkerId :
       /\ Selected(w)
       /\ FirstFeasibleWorker(w, k)
       /\ AttemptsLeft(w)
       /\ Decide([v \in WorkId |-> IF v = w THEN Reserve(work[v])
                                    ELSE IF v \in FeasibleWork THEN Bypassed(work[v])
                                    ELSE work[v]],
                  reservations \cup {[dispatch |-> d, work |-> w, worker |-> k,
                                      attempt |-> work[w].attempts + 1,
                                      started |-> FALSE]},
                  workers)
  /\ usedDispatches' = usedDispatches \cup {d}
  /\ UNCHANGED <<phase, enqueueOrdinal, terminal>>

------------------------------------------------------------------------------
(* The life of one dispatch *)

\* Mutant: the work runs, but the reservation does not remember the start.
StartReservationUnmarked(r) == r

StartReservation(r) == [r EXCEPT !.started = TRUE]

\* The kernel tests that the start is new, never that the work is still
\* Reserved: a start acknowledged while Cancelling makes the work Running.
AcknowledgeStart(d) ==
  /\ \E r \in reservations :
       /\ r.dispatch = d
       /\ ~r.started
       /\ Decide([work EXCEPT ![r.work] = SetPhase(work[r.work], "Running")],
                  (reservations \ {r}) \cup {StartReservation(r)},
                  workers)
  /\ UNCHANGED <<phase, usedDispatches, enqueueOrdinal, terminal>>

\* Releases r and gives its work the record after.
Release(r, after) == Decide([work EXCEPT ![r.work] = after], reservations \ {r}, workers)

CompleteWork(d) ==
  /\ \E r \in reservations :
       /\ r.dispatch = d
       /\ r.started /\ work[r.work].phase = "Running"
       /\ Release(r, Terminalize(work[r.work], "Succeeded"))
  /\ UNCHANGED <<phase, usedDispatches, enqueueOrdinal, terminal>>

AfterFailure(w, disposition) ==
  IF disposition = "Retryable"
  THEN IF AttemptsLeft(w) THEN SetPhase(work[w], "RetryPending")
                          ELSE Terminalize(work[w], "Exhausted")
  ELSE Terminalize(work[w], disposition)

FailWork(d, disposition) ==
  /\ \E r \in reservations :
       /\ r.dispatch = d
       /\ work[r.work].phase \in {"Reserved", "Running"}
       /\ Release(r, AfterFailure(r.work, disposition))
  /\ UNCHANGED <<phase, usedDispatches, enqueueOrdinal, terminal>>

RetryWork(w) ==
  /\ work[w].phase = "RetryPending"
  /\ AttemptsLeft(w)
  /\ Decide([work EXCEPT ![w] = SetPhase(work[w], "Queued")], reservations, workers)
  /\ UNCHANGED <<phase, usedDispatches, enqueueOrdinal, terminal>>

AcknowledgeCancellation(d) ==
  /\ \E r \in reservations :
       /\ r.dispatch = d
       /\ work[r.work].phase = "Cancelling"
       /\ Release(r, Terminalize(work[r.work], "Cancelled"))
  /\ UNCHANGED <<phase, usedDispatches, enqueueOrdinal, terminal>>

\* Mutant: abandoning forgets that the work was being cancelled.
AbandonedAsAbandoned(w) == "Abandoned"

AbandonedAs(w) == IF work[w].phase = "Cancelling" THEN "Cancelled" ELSE "Abandoned"

AbandonDispatch(d) ==
  /\ \E r \in reservations :
       /\ r.dispatch = d
       /\ Release(r, Terminalize(work[r.work], AbandonedAs(r.work)))
  /\ UNCHANGED <<phase, usedDispatches, enqueueOrdinal, terminal>>

------------------------------------------------------------------------------
(* Cancellation, exhaustion and the lifecycle of the aggregate *)

\* The root and every retained work reached from it through parents.
ParentClosure(root) ==
  {w \in Retained :
     \A T \in SUBSET Retained :
       (/\ root \in T
        /\ \A c \in Retained : WorkSpec[c].parent \cap T # {} => c \in T) => w \in T}

\* Owned work only becomes Cancelling: its executor still has to stop.
AfterCancel(w) ==
  IF Owned(w) THEN SetPhase(work[w], "Cancelling") ELSE Terminalize(work[w], "Cancelled")

\* Mutant: work that already ended is cancelled again.
AffectedAll(reached) == reached

Affected(reached) == {w \in reached : work[w].phase # "Terminal"}

CancelAll(reached) ==
  /\ Decide([w \in WorkId |-> IF w \in Affected(reached) THEN AfterCancel(w) ELSE work[w]],
             reservations, workers)
  /\ UNCHANGED <<phase, usedDispatches, enqueueOrdinal, terminal>>

CancelWork(w) ==
  /\ work[w].phase \notin {"Absent", "Terminal"}
  /\ CancelAll({w})

CancelWorkTree(w) ==
  /\ work[w].phase \notin {"Absent", "Terminal"}
  /\ CancelAll(ParentClosure(w))

ExhaustWork(w) ==
  /\ work[w].phase \in WaitingPhase
  /\ Decide([work EXCEPT ![w] = Terminalize(work[w], "Exhausted")], reservations, workers)
  /\ UNCHANGED <<phase, usedDispatches, enqueueOrdinal, terminal>>

SetSchedulerPhase(p) ==
  /\ phase' = p
  /\ Decide(work, reservations, workers)
  /\ UNCHANGED <<usedDispatches, enqueueOrdinal, terminal>>

PauseScheduler ==
  \/ phase = "Active" /\ SetSchedulerPhase("Paused")
  \/ phase = "Draining" /\ SetSchedulerPhase("DrainingPaused")

ResumeScheduler ==
  \/ phase = "Paused" /\ SetSchedulerPhase("Active")
  \/ phase = "DrainingPaused" /\ SetSchedulerPhase("Draining")

DrainScheduler ==
  \/ phase = "Active" /\ SetSchedulerPhase("Draining")
  \/ phase = "Paused" /\ SetSchedulerPhase("DrainingPaused")

\* Mutant: abandoned work is not folded into the failures.
KindOfUnfolded(t) == IF t = "Succeeded" THEN "Completed" ELSE t

KindOf(t) ==
  CASE t = "Succeeded" -> "Completed"
    [] t \in {"Failed", "Abandoned", "None"} -> "Failed"
    [] OTHER -> t

\* Mutant: a cancellation does not outrank completion.
PrecedenceCancelledLowest(kind) ==
  CASE kind \in {"Completed", "Cancelled"} -> 0
    [] kind = "Failed" -> 2
    [] OTHER -> 3

Precedence(kind) ==
  CASE kind = "Completed" -> 0
    [] kind = "Cancelled" -> 1
    [] kind = "Failed" -> 2
    [] kind = "DependencyFailed" -> 3
    [] kind = "Exhausted" -> 4
    [] OTHER -> 5

\* The summary takes the gravest outcome of all retained work.
FinalizeScheduler ==
  LET kinds == {KindOf(work[w].terminal) : w \in Retained} \cup {"Completed"} IN
  /\ \A w \in Retained : work[w].phase = "Terminal"
  /\ reservations = {}
  /\ \E kind \in kinds :
       /\ \A other \in kinds : Precedence(other) <= Precedence(kind)
       /\ terminal' = [kind |-> kind,
                       nonSuccessful |-> {w \in Retained : work[w].terminal # "Succeeded"}]
  /\ phase' = "Terminal"
  /\ Decide(work, reservations, workers)
  /\ UNCHANGED <<usedDispatches, enqueueOrdinal>>

------------------------------------------------------------------------------
(* The aggregate *)

WorkerCommand(k) ==
  \/ RegisterWorker(k)
  \/ SetWorkerAvailable(k)
  \/ DrainWorker(k)
  \/ LoseWorker(k)
  \/ RemoveWorker(k)

WorkCommand(w) ==
  \/ AdmitWork(w)
  \/ RetryWork(w)
  \/ CancelWork(w)
  \/ CancelWorkTree(w)
  \/ ExhaustWork(w)

DispatchCommand(d) ==
  \/ DispatchNext(d)
  \/ AcknowledgeStart(d)
  \/ CompleteWork(d)
  \/ \E disposition \in {"Retryable", "Failed", "Ambiguous"} : FailWork(d, disposition)
  \/ AcknowledgeCancellation(d)
  \/ AbandonDispatch(d)

LifecycleCommand ==
  \/ PauseScheduler
  \/ ResumeScheduler
  \/ DrainScheduler
  \/ FinalizeScheduler

Next ==
  \/ \E k \in WorkerId : WorkerCommand(k)
  \/ \E w \in WorkId : WorkCommand(w)
  \/ \E d \in DispatchId : DispatchCommand(d)
  \/ LifecycleCommand

Spec == Init /\ [][Next]_vars
------------------------------------------------------------------------------
(* Properties *)

\* Every variable has its type: the closed vocabularies of state.rs, work.rs
\* and worker.rs.
TypeOK ==
  /\ phase \in SchedulerPhase
  /\ workers \in [WorkerId -> WorkerPhase]
  /\ work \in [WorkId -> WorkRecord]
  /\ reservations \in SUBSET Reservation
  /\ usedDispatches \in SUBSET DispatchId
  /\ enqueueOrdinal \in Nat
  /\ terminal \in [kind : TerminalKind \cup {"None"}, nonSuccessful : SUBSET WorkId]

\* Every live dispatch owns one work attempt and every owned attempt has one
\* dispatch, on a worker that is neither lost nor removed
\* (verified.rs:64 unique_dispatch_ownership, validation.rs:153-165).
UniqueDispatchOwnership ==
  /\ \A r, s \in reservations : (r.dispatch = s.dispatch \/ r.work = s.work) => r = s
  /\ \A w \in WorkId : work[w].phase \in OwnedPhase <=> Owned(w)
  /\ \A r \in reservations :
       /\ r.dispatch \in usedDispatches
       /\ r.attempt = work[r.work].attempts
       /\ workers[r.worker] \in {"Available", "Busy", "Draining"}

\* An acknowledged start and the phase of the work never disagree: Reserved work
\* has not started, Running work has (validation.rs:66-76).
StartMatchesPhase ==
  \A r \in reservations : (work[r.work].phase = "Reserved" => ~r.started)
                       /\ (work[r.work].phase = "Running" => r.started)

\* Live reservations never exceed the global capacity, the capacity and the
\* concurrency of a worker, or the active limit (verified.rs:26 reservations_fit).
ReservationsFit ==
  /\ Cardinality(reservations) <= ActiveReservations
  /\ \A x \in ResourceKind : Usage(reservations, x) <= Capacity[x]
  /\ \A k \in WorkerId :
       LET held == WorkerReservations(reservations, k) IN
       /\ Cardinality(held) <= Descriptor[k].concurrency
       /\ \A x \in ResourceKind : Usage(held, x) <= Descriptor[k].capacity[x]

\* Work is runnable, running or successful only when all its dependencies
\* succeeded, and waits only while that is undecided: no command leaves the
\* dependency phases behind the outcomes they depend on
\* (verified.rs:13 dependencies_are_ready, validation.rs:119-138).
DependencyTruth ==
  \A w \in Retained :
    /\ (work[w].phase \in OwnedPhase \cup {"Queued", "RetryPending"}
          \/ work[w].terminal = "Succeeded") => DependenciesSucceeded(work, w)
    /\ work[w].phase = "WaitingDependencies" =>
         /\ ~DependenciesSucceeded(work, w)
         /\ \A d \in WorkSpec[w].dependencies : work[d].terminal \notin Failure

\* Work that can still be dispatched has an attempt left.  Selection never looks
\* at attempts, so a queued item without one would be selected and rejected by
\* every later DispatchNext, and block the queue (dispatch.rs:74-80).
QueuedWorkCanStart ==
  \A w \in WorkId : work[w].phase \in WaitingPhase => AttemptsLeft(w)

\* Every attempt ever started has its own dispatch identity: none was reused
\* and no dispatch started two attempts (validation.rs:144).
AttemptsAccounted ==
  SumFunction([w \in WorkId |-> work[w].attempts]) = Cardinality(usedDispatches)

\* The queue measure of the schema version stays within its bound, so that the
\* checkpoint written with the state can be decoded again (queue.rs:52
\* within_bounds, called by validation.rs:18).
QueueWithinBounds ==
  IF Semantics = "LegacyQueueV1"
  THEN Cardinality({w \in WorkId : work[w].phase \in WaitingPhase \cup OwnedPhase})
         <= QueuedWork + ActiveReservations
  ELSE AdmissionCount <= QueuedWork

\* Work with dispatchable workers is not left behind by worker phases: an open
\* worker is Busy exactly when its concurrency is used up
\* (worker_refresh/step.rs:7).
WorkerPhaseTruth ==
  \A k \in WorkerId :
    /\ workers[k] = "Available" =>
         Cardinality(WorkerReservations(reservations, k)) < Descriptor[k].concurrency
    /\ workers[k] = "Busy" =>
         Cardinality(WorkerReservations(reservations, k)) = Descriptor[k].concurrency

\* The final summary is truthful: it exists only when everything ended, says
\* Completed only when all work succeeded, and names exactly the work that did
\* not (verified.rs:109 no_implicit_success).
TerminalTruth ==
  /\ phase = "Terminal" <=> terminal # NotFinal
  /\ phase = "Terminal" =>
       /\ reservations = {}
       /\ \A w \in Retained : work[w].phase = "Terminal"
       /\ terminal.kind = "Completed" <=> \A w \in Retained : work[w].terminal = "Succeeded"
       /\ terminal.nonSuccessful = {w \in Retained : work[w].terminal \in Failure}

\* Outcomes are final: terminal work never runs again nor changes its outcome,
\* whatever acknowledgements, losses or cancellations still arrive.
OutcomesAreFinal ==
  [][\A w \in WorkId : work[w].phase = "Terminal" => work'[w] = work[w]]_vars

\* A cancellation of work whose start was acknowledged is never undone: such
\* work stays Cancelling until it is Cancelled, whichever of completion, failure,
\* worker loss or abandonment comes next (docs/d3-scheduler-collaboration.md:95-97).
StartedCancellationSticks ==
  [][\A r \in reservations :
       r.started /\ work[r.work].phase = "Cancelling" =>
         work'[r.work].phase = "Cancelling" \/ work'[r.work].terminal = "Cancelled"]_vars

\* Resources are taken by a dispatch and given back once: a step that is not a
\* dispatch adds no reservation, and a step that drops one settles its work.
ReleasedOnce ==
  [][/\ \A r \in reservations :
          (~ \E s \in reservations' : s.dispatch = r.dispatch) =>
            work'[r.work].phase \in {"Queued", "RetryPending", "Terminal"}
     /\ \A s \in reservations' :
          (~ \E r \in reservations : r.dispatch = s.dispatch) =>
            s.dispatch \notin usedDispatches]_vars

\* Feasible work is passed over at most BypassCount times by work that has not
\* waited as long itself: a dispatch that passes it over is counted, and once the
\* count is full only work whose own count is full goes ahead (.design/d3 D3-R013
\* "at the bound it precedes non-aged work").
AgedWorkForcedAhead ==
  [][\A v \in WorkId :
       work[v].phase = "Queued" /\ work'[v].phase = "Reserved" =>
         \A w \in FeasibleWork \ {v} :
           IF Aged(w) THEN Aged(v) ELSE work'[w].bypasses = work[w].bypasses + 1]_vars

\* Who holds what: live dispatches and owned attempts correspond one to one, and
\* a reservation remembers its start exactly when the work has started.
DispatchTruth == TypeOK /\ UniqueDispatchOwnership /\ StartMatchesPhase

\* What is held fits: capacity, concurrency and attempts are accounted for
\* through every loss, drain and retry.
CapacityTruth == ReservationsFit /\ WorkerPhaseTruth /\ AttemptsAccounted

\* What waits can still run: dependency phases follow the outcomes they depend
\* on, and no waiting work is out of attempts.
QueueTruth == DependencyTruth /\ QueuedWorkCanStart

\* Nothing is undone: outcomes stay, a started cancellation ends as one, and a
\* dispatch is released once.
NothingUndone == OutcomesAreFinal /\ StartedCancellationSticks /\ ReleasedOnce

----------------------------------------------------------------------------
(* Statements of documents and comments that the code does not keep: the     *)
(* README names the instance that refutes each of them.                      *)

\* The same promise for every cancelled work, as docs/d3 states it: "Late success
\* cannot resurrect a cancelled branch".
CancellationSticks ==
  [][\A w \in WorkId :
       work[w].phase = "Cancelling" =>
         work'[w].phase = "Cancelling" \/ work'[w].terminal = "Cancelled"]_vars

\* Admitted work respects the attempt limit of the binding, as the checkpoint
\* decoder requires (validation.rs:88).
AttemptLimitRespected ==
  \A w \in Retained : WorkSpec[w].maximumAttempts <= AttemptsPerWork
=============================================================================
