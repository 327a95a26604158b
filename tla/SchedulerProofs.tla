--------------------------- MODULE SchedulerProofs ---------------------------
(***************************************************************************)
(* Theorems about the scheduler, for every set of work, workers and dispatch *)
(* identities and every limit.  Each command of the aggregate is a Decide    *)
(* step, so the lemmas about Decide carry the refresh once for all commands. *)
(* The second part is about the session around the aggregate.                *)
(***************************************************************************)
EXTENDS Scheduler, SchedulerSession, RecursionTheorems, TLAPS

------------------------------------------------------------------------------
(* Types *)

\* Phase changes, outcomes, bypasses and reservations of work are again records.
LEMMA RecordUpdates ==
  ASSUME NEW record \in WorkRecord
  PROVE  /\ \A p \in WorkPhase : SetPhase(record, p) \in WorkRecord
         /\ \A t \in WorkTerminal : Terminalize(record, t) \in WorkRecord
         /\ Bypassed(record) \in WorkRecord
         /\ Reserve(record) \in WorkRecord
  <1>1. BypassCount \in Nat
    BY LimitAssumption
  <1>2. \A p \in WorkPhase : SetPhase(record, p) \in WorkRecord
    BY DEF WorkRecord, SetPhase
  <1>3. \A t \in WorkTerminal : Terminalize(record, t) \in WorkRecord
    BY DEF WorkRecord, Terminalize, WorkPhase
  <1>4. Bypassed(record) \in WorkRecord
    BY <1>1 DEF WorkRecord, Bypassed
  <1>5. Reserve(record) \in WorkRecord
    <2>1. record.attempts + 1 \in Nat
      BY DEF WorkRecord
    <2>2. "Reserved" \in WorkPhase
      BY DEF WorkPhase, OwnedPhase
    <2>3. QED
      BY <2>1, <2>2 DEF WorkRecord, Reserve
  <1>6. QED
    BY <1>2, <1>3, <1>4, <1>5

\* The refresh behind every command keeps work and workers well typed.
LEMMA DecideType ==
  ASSUME NEW W \in [WorkId -> WorkRecord],
         NEW R \in SUBSET Reservation,
         NEW K \in [WorkerId -> WorkerPhase],
         Decide(W, R, K)
  PROVE  /\ work' \in [WorkId -> WorkRecord]
         /\ reservations' \in SUBSET Reservation
         /\ workers' \in [WorkerId -> WorkerPhase]
  <1>1. \A w \in WorkId : PropagateDependencies(W)[w] \in WorkRecord
    BY RecordUpdates
       DEF PropagateDependencies, WorkPhase, WaitingPhase, WorkTerminal, Failure
  <1>2. PropagateDependencies(W) \in [WorkId -> WorkRecord]
    BY <1>1 DEF PropagateDependencies
  <1>3. RefreshWorkerPhases(K, R) \in [WorkerId -> WorkerPhase]
    BY DEF RefreshWorkerPhases, WorkerPhase
  <1>4. QED
    BY <1>2, <1>3 DEF Decide

\* Initially every variable has its type.
LEMMA InitType == Init => TypeOK
  BY DEF Init, TypeOK, SchedulerPhase, WorkerPhase, WorkRecord, WorkPhase,
         WorkTerminal, NotFinal, TerminalKind

\* Every command keeps every variable within its type.
LEMMA StepType == TypeOK /\ [Next]_vars => TypeOK'
  <1> SUFFICES ASSUME TypeOK, [Next]_vars
               PROVE  TypeOK'
    OBVIOUS
  <1>a. /\ work \in [WorkId -> WorkRecord]
        /\ reservations \in SUBSET Reservation
        /\ workers \in [WorkerId -> WorkerPhase]
    BY DEF TypeOK
  <1>b. \A w \in WorkId : work[w] \in WorkRecord
    BY <1>a
  <1>c. \A r \in reservations : /\ r \in Reservation
                                /\ r.dispatch \in DispatchId
                                /\ r.work \in WorkId
                                /\ r.worker \in WorkerId
    BY <1>a DEF Reservation
  <1>d. \A w \in WorkId, p \in WorkPhase : SetPhase(work[w], p) \in WorkRecord
    BY <1>b, RecordUpdates
  <1>e. \A w \in WorkId, t \in WorkTerminal : Terminalize(work[w], t) \in WorkRecord
    BY <1>b, RecordUpdates
  <1>f. \A w \in WorkId : Bypassed(work[w]) \in WorkRecord /\ Reserve(work[w]) \in WorkRecord
    BY <1>b, RecordUpdates
  <1>g. ASSUME NEW r \in reservations, NEW after \in WorkRecord, Release(r, after)
        PROVE  /\ work' \in [WorkId -> WorkRecord]
               /\ reservations' \in SUBSET Reservation
               /\ workers' \in [WorkerId -> WorkerPhase]
    <2>1. [work EXCEPT ![r.work] = after] \in [WorkId -> WorkRecord]
      BY <1>a
    <2>2. reservations \ {r} \in SUBSET Reservation
      BY <1>a
    <2>3. QED
      BY <1>a, <1>g, <2>1, <2>2, DecideType DEF Release
  <1>h. ASSUME NEW W \in [WorkId -> WorkRecord], Decide(W, reservations, workers)
        PROVE  /\ work' \in [WorkId -> WorkRecord]
               /\ reservations' \in SUBSET Reservation
               /\ workers' \in [WorkerId -> WorkerPhase]
    BY <1>a, <1>h, DecideType
  <1>1. ASSUME NEW k \in WorkerId, WorkerCommand(k)
        PROVE  TypeOK'
    <2>1. ASSUME NEW p \in WorkerPhase, Decide(work, reservations, [workers EXCEPT ![k] = p])
          PROVE  /\ work' \in [WorkId -> WorkRecord]
                 /\ reservations' \in SUBSET Reservation
                 /\ workers' \in [WorkerId -> WorkerPhase]
      <3>1. [workers EXCEPT ![k] = p] \in [WorkerId -> WorkerPhase]
        BY <1>a
      <3>2. QED
        BY <1>a, <2>1, <3>1, DecideType
    <2>2. CASE RegisterWorker(k)
      BY <2>1, <2>2 DEF RegisterWorker, TypeOK, WorkerPhase
    <2>3. CASE SetWorkerAvailable(k)
      BY <2>1, <2>3 DEF SetWorkerAvailable, TypeOK, WorkerPhase
    <2>4. CASE DrainWorker(k)
      BY <2>1, <2>4 DEF DrainWorker, TypeOK, WorkerPhase
    <2>5. CASE RemoveWorker(k)
      BY <2>1, <2>5 DEF RemoveWorker, TypeOK, WorkerPhase
    <2>6. CASE LoseWorker(k)
      <3> DEFINE lost == WorkerReservations(reservations, k)
                 W == [w \in WorkId |-> IF \E r \in lost : r.work = w
                                        THEN AfterLoss(w) ELSE work[w]]
      <3>1. \A w \in WorkId : AfterLoss(w) \in WorkRecord
        BY <1>d, <1>e DEF AfterLoss, WorkPhase, WaitingPhase, WorkTerminal, Failure
      <3>2. W \in [WorkId -> WorkRecord]
        BY <1>b, <3>1
      <3>3. reservations \ lost \in SUBSET Reservation
        BY <1>a
      <3>4. [workers EXCEPT ![k] = "Lost"] \in [WorkerId -> WorkerPhase]
        BY <1>a DEF WorkerPhase
      <3>5. Decide(W, reservations \ lost, [workers EXCEPT ![k] = "Lost"])
        BY <2>6 DEF LoseWorker
      <3> HIDE DEF W, lost
      <3>6. QED
        BY <2>6, <3>2, <3>3, <3>4, <3>5, DecideType DEF LoseWorker, TypeOK
    <2>7. QED
      BY <1>1, <2>2, <2>3, <2>4, <2>5, <2>6 DEF WorkerCommand
  <1>2. ASSUME NEW w \in WorkId, WorkCommand(w)
        PROVE  TypeOK'
    <2>1. CASE AdmitWork(w)
      <3> DEFINE admitted == [phase |-> IF WorkSpec[w].dependencies = {}
                                        THEN "Queued" ELSE "WaitingDependencies",
                              ordinal |-> enqueueOrdinal + 1, bypasses |-> 0,
                              attempts |-> 0, terminal |-> "None"]
      <3>1. admitted \in WorkRecord
        BY DEF TypeOK, WorkRecord, WorkPhase, WaitingPhase, WorkTerminal
      <3>2. Decide([work EXCEPT ![w] = admitted], reservations, workers)
        BY <2>1 DEF AdmitWork
      <3> HIDE DEF admitted
      <3>3. [work EXCEPT ![w] = admitted] \in [WorkId -> WorkRecord]
        BY <1>a, <3>1
      <3>4. /\ work' \in [WorkId -> WorkRecord]
            /\ reservations' \in SUBSET Reservation
            /\ workers' \in [WorkerId -> WorkerPhase]
        BY <1>h, <3>2, <3>3
      <3>5. enqueueOrdinal' \in Nat
        BY <2>1 DEF AdmitWork, TypeOK
      <3>6. QED
        BY <2>1, <3>4, <3>5 DEF AdmitWork, TypeOK
    <2>2. CASE RetryWork(w)
      <3>1. [work EXCEPT ![w] = SetPhase(work[w], "Queued")] \in [WorkId -> WorkRecord]
        BY <1>a, <1>d DEF WorkPhase, WaitingPhase
      <3>2. QED
        BY <1>h, <2>2, <3>1 DEF RetryWork, TypeOK
    <2>3. CASE ExhaustWork(w)
      <3>1. [work EXCEPT ![w] = Terminalize(work[w], "Exhausted")] \in [WorkId -> WorkRecord]
        BY <1>a, <1>e DEF WorkTerminal, Failure
      <3>2. QED
        BY <1>h, <2>3, <3>1 DEF ExhaustWork, TypeOK
    <2>4. ASSUME NEW reached, CancelAll(reached)
          PROVE  TypeOK'
      <3> DEFINE W == [v \in WorkId |-> IF v \in Affected(reached)
                                        THEN AfterCancel(v) ELSE work[v]]
      <3>1. \A v \in WorkId : AfterCancel(v) \in WorkRecord
        BY <1>d, <1>e DEF AfterCancel, WorkPhase, OwnedPhase, WorkTerminal, Failure
      <3>2. W \in [WorkId -> WorkRecord]
        BY <1>b, <3>1
      <3>3. Decide(W, reservations, workers)
        BY <2>4 DEF CancelAll
      <3> HIDE DEF W
      <3>4. QED
        BY <1>h, <2>4, <3>2, <3>3 DEF CancelAll, TypeOK
    <2>5. QED
      BY <1>2, <2>1, <2>2, <2>3, <2>4 DEF WorkCommand, CancelWork, CancelWorkTree
  <1>3. ASSUME NEW d \in DispatchId, DispatchCommand(d)
        PROVE  TypeOK'
    <2>1. CASE DispatchNext(d)
      <3>1. PICK w \in WorkId, k \in WorkerId :
              Decide([v \in WorkId |-> IF v = w THEN Reserve(work[v])
                                       ELSE IF v \in FeasibleWork THEN Bypassed(work[v])
                                       ELSE work[v]],
                     reservations \cup {[dispatch |-> d, work |-> w, worker |-> k,
                                         attempt |-> work[w].attempts + 1,
                                         started |-> FALSE]},
                     workers)
        BY <2>1 DEF DispatchNext
      <3> DEFINE W == [v \in WorkId |-> IF v = w THEN Reserve(work[v])
                                        ELSE IF v \in FeasibleWork THEN Bypassed(work[v])
                                        ELSE work[v]]
                 R == reservations \cup {[dispatch |-> d, work |-> w, worker |-> k,
                                          attempt |-> work[w].attempts + 1,
                                          started |-> FALSE]}
      <3>2. W \in [WorkId -> WorkRecord]
        BY <1>b, <1>f
      <3>3. R \in SUBSET Reservation
        <4>1. work[w].attempts + 1 \in Nat
          BY <1>b DEF WorkRecord
        <4>2. [dispatch |-> d, work |-> w, worker |-> k,
               attempt |-> work[w].attempts + 1, started |-> FALSE] \in Reservation
          BY <4>1 DEF Reservation
        <4>3. QED
          BY <1>a, <4>2
      <3>4. Decide(W, R, workers)
        BY <3>1
      <3> HIDE DEF W, R
      <3>5. QED
        BY <1>a, <2>1, <3>2, <3>3, <3>4, DecideType DEF DispatchNext, TypeOK
    <2>2. CASE AcknowledgeStart(d)
      <3>1. PICK r \in reservations :
              Decide([work EXCEPT ![r.work] = SetPhase(work[r.work], "Running")],
                     (reservations \ {r}) \cup {StartReservation(r)}, workers)
        BY <2>2 DEF AcknowledgeStart
      <3>2. [work EXCEPT ![r.work] = SetPhase(work[r.work], "Running")]
              \in [WorkId -> WorkRecord]
        BY <1>a, <1>c, <1>d DEF WorkPhase, OwnedPhase
      <3>3. (reservations \ {r}) \cup {StartReservation(r)} \in SUBSET Reservation
        BY <1>a, <1>c DEF StartReservation, Reservation
      <3>4. QED
        BY <1>a, <2>2, <3>1, <3>2, <3>3, DecideType DEF AcknowledgeStart, TypeOK
    <2>3. CASE CompleteWork(d)
      BY <1>c, <1>e, <1>g, <2>3 DEF CompleteWork, TypeOK, WorkTerminal
    <2>4. ASSUME NEW disposition \in {"Retryable", "Failed", "Ambiguous"},
                 FailWork(d, disposition)
          PROVE  TypeOK'
      <3>1. \A w \in WorkId : AfterFailure(w, disposition) \in WorkRecord
        BY <1>d, <1>e DEF AfterFailure, WorkPhase, WaitingPhase, WorkTerminal, Failure
      <3>2. QED
        BY <1>c, <1>g, <2>4, <3>1 DEF FailWork, TypeOK
    <2>5. CASE AcknowledgeCancellation(d)
      BY <1>c, <1>e, <1>g, <2>5 DEF AcknowledgeCancellation, TypeOK, WorkTerminal, Failure
    <2>6. CASE AbandonDispatch(d)
      BY <1>c, <1>e, <1>g, <2>6
         DEF AbandonDispatch, AbandonedAs, TypeOK, WorkTerminal, Failure
    <2>7. QED
      BY <1>3, <2>1, <2>2, <2>3, <2>4, <2>5, <2>6 DEF DispatchCommand
  <1>4. ASSUME LifecycleCommand
        PROVE  TypeOK'
    <2>1. ASSUME NEW p \in SchedulerPhase, SetSchedulerPhase(p)
          PROVE  TypeOK'
      BY <1>a, <1>h, <2>1 DEF SetSchedulerPhase, TypeOK
    <2>2. CASE PauseScheduler \/ ResumeScheduler \/ DrainScheduler
      BY <2>1, <2>2 DEF PauseScheduler, ResumeScheduler, DrainScheduler, SchedulerPhase
    <2>3. CASE FinalizeScheduler
      <3>1. terminal' \in [kind : TerminalKind \cup {"None"}, nonSuccessful : SUBSET WorkId]
        <4>1. PICK kind \in {KindOf(work[w].terminal) : w \in Retained} \cup {"Completed"} :
                terminal' = [kind |-> kind, nonSuccessful |->
                               {w \in Retained : work[w].terminal # "Succeeded"}]
          BY <2>3 DEF FinalizeScheduler
        <4>2. \A w \in Retained : w \in WorkId /\ work[w].terminal \in WorkTerminal
          BY <1>b DEF Retained, WorkRecord
        <4>3. \A t \in WorkTerminal : KindOf(t) \in TerminalKind
          BY DEF KindOf, TerminalKind, WorkTerminal, Failure
        <4>4. kind \in TerminalKind
          BY <4>1, <4>2, <4>3 DEF TerminalKind
        <4>5. QED
          BY <4>1, <4>2, <4>4
      <3>2. QED
        BY <1>a, <1>h, <2>3, <3>1 DEF FinalizeScheduler, TypeOK, SchedulerPhase
    <2>4. QED
      BY <1>4, <2>2, <2>3 DEF LifecycleCommand
  <1>5. CASE UNCHANGED vars
    BY <1>5 DEF vars, TypeOK
  <1>6. QED
    BY <1>1, <1>2, <1>3, <1>4, <1>5 DEF Next

\* Every variable keeps the closed vocabulary of its Rust type through every
\* sequence of commands.
THEOREM TypeCorrect == Spec => []TypeOK
  BY InitType, StepType, PTL DEF Spec

------------------------------------------------------------------------------
(* The inductive invariant.  Its parts are stated of the work W, reservations  *)
(* R, workers K and used identities U that a command leaves before the         *)
(* refresh, so that Decide is treated once.                                    *)

ShapeOf(W, R, K) ==
  /\ W \in [WorkId -> WorkRecord]
  /\ R \in SUBSET Reservation
  /\ K \in [WorkerId -> WorkerPhase]

OwnershipOf(W, R, K, U) ==
  /\ \A r, s \in R : (r.dispatch = s.dispatch \/ r.work = s.work) => r = s
  /\ \A w \in WorkId : W[w].phase \in OwnedPhase <=> \E r \in R : r.work = w
  /\ \A r \in R : /\ r.dispatch \in U
                  /\ r.attempt = W[r.work].attempts
                  /\ K[r.worker] \in {"Available", "Busy", "Draining"}

StartOf(W, R) ==
  \A r \in R : /\ W[r.work].phase = "Reserved" => ~r.started
               /\ W[r.work].phase = "Running" => r.started

CanStartOf(W) ==
  \A w \in WorkId :
    W[w].phase \in WaitingPhase => W[w].attempts < WorkSpec[w].maximumAttempts

\* Work has an outcome exactly when it is terminal.
OutcomeOf(W) == \A w \in WorkId : W[w].phase = "Terminal" <=> W[w].terminal # "None"

ReadyOf(W) ==
  \A w \in WorkId :
    W[w].phase \in OwnedPhase \cup {"Queued", "RetryPending"} \/ W[w].terminal = "Succeeded"
      => DependenciesSucceeded(W, w)

FinalOf(W) == \A w \in WorkId : work[w].phase = "Terminal" => W[w] = work[w]

AppliedOf(W, R, K, U) ==
  /\ ShapeOf(W, R, K)
  /\ OwnershipOf(W, R, K, U)
  /\ StartOf(W, R)
  /\ CanStartOf(W)
  /\ OutcomeOf(W)
  /\ ReadyOf(W)
  /\ FinalOf(W)

SchedulerInv ==
  /\ TypeOK
  /\ UniqueDispatchOwnership
  /\ StartMatchesPhase
  /\ QueuedWorkCanStart
  /\ OutcomeOf(work)
  /\ DependencyTruth

\* What the refresh may do to one item.
LEMMA Refreshed ==
  ASSUME NEW W, NEW R, NEW K, ShapeOf(W, R, K), Decide(W, R, K)
  PROVE  /\ reservations' = R
         /\ \A w \in WorkId :
              \/ work'[w] = W[w]
              \/ /\ W[w].phase \in {"WaitingDependencies", "Queued"}
                 /\ work'[w] = [W[w] EXCEPT !.phase = "Terminal",
                                            !.terminal = "DependencyFailed"]
              \/ /\ W[w].phase = "WaitingDependencies"
                 /\ DependenciesSucceeded(W, w)
                 /\ work'[w] = [W[w] EXCEPT !.phase = "Queued"]
  <1>1. \A w \in WorkId : w \in DependencyFailures(W) =>
                            W[w].phase \in {"WaitingDependencies", "Queued"}
    BY DEF DependencyFailures, Pending
  <1>2. QED
    BY <1>1 DEF Decide, PropagateDependencies, Terminalize, SetPhase

\* The failed set is closed: pending work with a dependency that failed, or that
\* is failed in the same refresh, fails as well.
LEMMA FailuresClosed ==
  ASSUME NEW W
  PROVE  ClosedUnderFailure(W, DependencyFailures(W))
  <1> SUFFICES ASSUME NEW w \in Pending(W),
                      \E d \in WorkSpec[w].dependencies :
                        W[d].terminal \in Failure \/ d \in DependencyFailures(W)
               PROVE  w \in DependencyFailures(W)
    BY DEF ClosedUnderFailure
  <1> SUFFICES ASSUME NEW T \in SUBSET Pending(W), ClosedUnderFailure(W, T)
               PROVE  w \in T
    BY DEF DependencyFailures
  <1>1. DependencyFailures(W) \subseteq T
    BY DEF DependencyFailures
  <1>2. QED
    BY <1>1 DEF ClosedUnderFailure

\* A command that applied correctly stays correct through the refresh, and the
\* refresh settles exactly the waiting work whose dependencies are decided.
LEMMA DecideInv ==
  ASSUME NEW W, NEW R, NEW K, AppliedOf(W, R, K, usedDispatches'), Decide(W, R, K)
  PROVE  /\ UniqueDispatchOwnership'
         /\ StartMatchesPhase'
         /\ QueuedWorkCanStart'
         /\ OutcomeOf(work)'
         /\ DependencyTruth'
         /\ \A w \in WorkId : work[w].phase = "Terminal" => work'[w] = work[w]
  <1> DEFINE Failed(w) == /\ W[w].phase \in {"WaitingDependencies", "Queued"}
                          /\ work'[w].phase = "Terminal"
                          /\ work'[w].terminal = "DependencyFailed"
                          /\ work'[w].attempts = W[w].attempts
             Enqueued(w) == /\ W[w].phase = "WaitingDependencies"
                            /\ DependenciesSucceeded(W, w)
                            /\ work'[w].phase = "Queued"
                            /\ work'[w].terminal = W[w].terminal
                            /\ work'[w].attempts = W[w].attempts
  <1>0. ShapeOf(W, R, K)
    BY DEF AppliedOf
  <1>1. \A w \in WorkId : work'[w] = W[w] \/ Failed(w) \/ Enqueued(w)
    <2> SUFFICES ASSUME NEW w \in WorkId
                 PROVE  work'[w] = W[w] \/ Failed(w) \/ Enqueued(w)
      OBVIOUS
    <2>1. W[w] \in WorkRecord
      BY <1>0 DEF ShapeOf
    <2>2. \/ work'[w] = W[w]
          \/ /\ W[w].phase \in {"WaitingDependencies", "Queued"}
             /\ work'[w] = [W[w] EXCEPT !.phase = "Terminal",
                                        !.terminal = "DependencyFailed"]
          \/ /\ W[w].phase = "WaitingDependencies"
             /\ DependenciesSucceeded(W, w)
             /\ work'[w] = [W[w] EXCEPT !.phase = "Queued"]
      BY <1>0, Refreshed
    <2>3. QED
      BY <2>1, <2>2 DEF WorkRecord
  <1>2. reservations' = R
    BY <1>0, Refreshed
  <1>3. \A r \in R : r.work \in WorkId /\ r.worker \in WorkerId
    BY DEF AppliedOf, ShapeOf, Reservation
  <1>4. \A k \in WorkerId :
          K[k] \in {"Available", "Busy", "Draining"} =>
            workers'[k] \in {"Available", "Busy", "Draining"}
    BY DEF Decide, RefreshWorkerPhases
  <1>5. \A w \in WorkId : /\ work'[w].attempts = W[w].attempts
                          /\ W[w].phase \in OwnedPhase => work'[w] = W[w]
                          /\ work'[w].phase \in OwnedPhase => work'[w] = W[w]
    BY <1>1 DEF OwnedPhase
  <1>6. UniqueDispatchOwnership'
    BY <1>2, <1>3, <1>4, <1>5 DEF UniqueDispatchOwnership, Owned, AppliedOf, OwnershipOf
  <1>7. StartMatchesPhase'
    BY <1>2, <1>3, <1>5 DEF StartMatchesPhase, AppliedOf, StartOf, OwnedPhase
  <1>8. QueuedWorkCanStart'
    BY <1>1 DEF QueuedWorkCanStart, AttemptsLeft, AppliedOf, CanStartOf, WaitingPhase
  <1>9. OutcomeOf(work)'
    BY <1>1 DEF OutcomeOf, AppliedOf
  <1>10. \A w \in WorkId : work[w].phase = "Terminal" => work'[w] = work[w]
    BY <1>1 DEF AppliedOf, FinalOf
  <1>11. DependencyTruth'
    <2>1. \A d \in WorkId : work'[d].terminal = "Succeeded" <=> W[d].terminal = "Succeeded"
      BY <1>1 DEF AppliedOf, OutcomeOf
    <2>2. \A w \in WorkId : WorkSpec[w].dependencies \subseteq WorkId
      BY DefinitionAssumption DEF WorkDefinition
    <2>3. \A w \in WorkId : DependenciesSucceeded(work', w) <=> DependenciesSucceeded(W, w)
      BY <2>1, <2>2 DEF DependenciesSucceeded
    <2>4. ASSUME NEW w \in WorkId,
                 \/ work'[w].phase \in OwnedPhase \cup {"Queued", "RetryPending"}
                 \/ work'[w].terminal = "Succeeded"
          PROVE  DependenciesSucceeded(work', w)
      BY <1>1, <2>3, <2>4 DEF AppliedOf, ReadyOf, OwnedPhase
    <2>5. ASSUME NEW w \in WorkId, work'[w].phase = "WaitingDependencies"
          PROVE  /\ ~DependenciesSucceeded(work', w)
                 /\ \A d \in WorkSpec[w].dependencies : work'[d].terminal \notin Failure
      <3>1. work'[w] = W[w] /\ w \in Pending(W)
        BY <1>1, <2>5 DEF Pending
      <3>2. w \notin DependencyFailures(W) /\ ~DependenciesSucceeded(W, w)
        BY <2>5, <3>1 DEF Decide, PropagateDependencies, Terminalize, SetPhase,
                          AppliedOf, ShapeOf, WorkRecord
      <3>3. ASSUME NEW d \in WorkSpec[w].dependencies, work'[d].terminal \in Failure
            PROVE  W[d].terminal \in Failure \/ d \in DependencyFailures(W)
        <4>1. d \in WorkId
          BY <2>2
        <4>2. CASE d \notin DependencyFailures(W)
          <5>1. work'[d].terminal = W[d].terminal
            BY <4>1, <4>2 DEF Decide, PropagateDependencies, SetPhase, AppliedOf, ShapeOf,
                              WorkRecord
          <5>2. QED
            BY <3>3, <5>1
        <4>3. QED
          BY <4>2
      <3>4. QED
        BY <2>3, <3>1, <3>2, <3>3, FailuresClosed DEF ClosedUnderFailure
    <2>6. QED
      BY <2>4, <2>5 DEF DependencyTruth, Retained
  <1>12. QED
    BY <1>6, <1>7, <1>8, <1>9, <1>10, <1>11

\* The invariant says of the current state what AppliedOf says of a command.
LEMMA InvApplied ==
  ASSUME SchedulerInv
  PROVE  AppliedOf(work, reservations, workers, usedDispatches)
  <1>1. ShapeOf(work, reservations, workers)
    BY DEF SchedulerInv, TypeOK, ShapeOf
  <1>2. OwnershipOf(work, reservations, workers, usedDispatches)
    BY DEF SchedulerInv, UniqueDispatchOwnership, Owned, OwnershipOf
  <1>3. StartOf(work, reservations) /\ CanStartOf(work) /\ OutcomeOf(work) /\ FinalOf(work)
    BY DEF SchedulerInv, StartMatchesPhase, StartOf, QueuedWorkCanStart, AttemptsLeft,
           CanStartOf, FinalOf
  <1>4. ReadyOf(work)
    <2> SUFFICES ASSUME NEW w \in WorkId,
                        \/ work[w].phase \in OwnedPhase \cup {"Queued", "RetryPending"}
                        \/ work[w].terminal = "Succeeded"
                 PROVE  DependenciesSucceeded(work, w)
      BY DEF ReadyOf
    <2>1. w \in Retained
      BY DEF Retained, SchedulerInv, OutcomeOf, OwnedPhase
    <2>2. QED
      BY <2>1 DEF SchedulerInv, DependencyTruth
  <1>5. QED
    BY <1>1, <1>2, <1>3, <1>4 DEF AppliedOf

\* Successful dependencies stay successful when terminal records are kept.
LEMMA SuccessKept ==
  ASSUME SchedulerInv, NEW W, FinalOf(W), NEW w \in WorkId, DependenciesSucceeded(work, w)
  PROVE  DependenciesSucceeded(W, w)
  <1>1. WorkSpec[w].dependencies \subseteq WorkId
    BY DefinitionAssumption DEF WorkDefinition
  <1>2. \A d \in WorkId : work[d].terminal = "Succeeded" => W[d] = work[d]
    BY DEF SchedulerInv, OutcomeOf, FinalOf
  <1>3. QED
    BY <1>1, <1>2 DEF DependenciesSucceeded

\* The record an item is given when its dispatch ends: an outcome, or another
\* turn in the queue while attempts are left.
Settled(W, w) ==
  /\ W[w].attempts = work[w].attempts
  /\ \/ W[w].phase = "Terminal" /\ W[w].terminal # "None"
     \/ /\ W[w].phase \in {"Queued", "RetryPending"}
        /\ W[w].terminal = "None"
        /\ W[w].attempts < WorkSpec[w].maximumAttempts

\* Releasing dispatches and settling exactly their work applies correctly:
\* completion, failure, cancellation, abandonment and the loss of a worker.
LEMMA ReleaseApplied ==
  ASSUME SchedulerInv,
         NEW gone \in SUBSET reservations,
         NEW W \in [WorkId -> WorkRecord],
         NEW K \in [WorkerId -> WorkerPhase],
         \A w \in WorkId : IF \E r \in gone : r.work = w THEN Settled(W, w)
                                                         ELSE W[w] = work[w],
         \A r \in reservations \ gone : K[r.worker] = workers[r.worker]
  PROVE  AppliedOf(W, reservations \ gone, K, usedDispatches)
  <1>0. AppliedOf(work, reservations, workers, usedDispatches)
    BY InvApplied
  <1>1. ShapeOf(W, reservations \ gone, K)
    BY <1>0 DEF AppliedOf, ShapeOf
  <1>2. \A r \in reservations : r.work \in WorkId
    BY <1>0 DEF AppliedOf, ShapeOf, Reservation
  <1>3. \A r \in reservations \ gone : W[r.work] = work[r.work]
    BY <1>0, <1>2 DEF AppliedOf, OwnershipOf
  <1>4. OwnershipOf(W, reservations \ gone, K, usedDispatches)
    <2>1. \A w \in WorkId : W[w].phase \in OwnedPhase <=>
                              \E r \in reservations \ gone : r.work = w
      BY <1>0, <1>3 DEF AppliedOf, OwnershipOf, Settled, OwnedPhase
    <2>2. QED
      BY <1>0, <1>2, <1>3, <2>1 DEF AppliedOf, OwnershipOf
  <1>5. StartOf(W, reservations \ gone)
    BY <1>0, <1>3 DEF AppliedOf, StartOf
  <1>6. CanStartOf(W)
    BY <1>0 DEF AppliedOf, CanStartOf, Settled, WaitingPhase
  <1>7. OutcomeOf(W)
    BY <1>0 DEF AppliedOf, OutcomeOf, Settled
  <1>8. FinalOf(W)
    BY <1>0, <1>2 DEF AppliedOf, OwnershipOf, FinalOf, OwnedPhase
  <1>9. ReadyOf(W)
    <2> SUFFICES ASSUME NEW w \in WorkId,
                        \/ W[w].phase \in OwnedPhase \cup {"Queued", "RetryPending"}
                        \/ W[w].terminal = "Succeeded"
                 PROVE  DependenciesSucceeded(W, w)
      BY DEF ReadyOf
    <2>1. DependenciesSucceeded(work, w)
      BY <1>0 DEF AppliedOf, OwnershipOf, ReadyOf, OwnedPhase
    <2>2. QED
      BY <1>8, <2>1, SuccessKept
  <1>10. QED
    BY <1>1, <1>4, <1>5, <1>6, <1>7, <1>8, <1>9 DEF AppliedOf

\* What a command without dispatch may do to work that has not ended: owned work
\* becomes Cancelling, other work fails, or waits, or is queued when its
\* dependencies succeeded.
Moved(W, w) ==
  /\ work[w].phase # "Terminal"
  /\ IF Owned(w)
     THEN /\ W[w].phase = "Cancelling"
          /\ W[w].attempts = work[w].attempts
          /\ W[w].terminal = "None"
     ELSE \/ W[w].phase = "Terminal" /\ W[w].terminal \notin {"None", "Succeeded"}
          \/ /\ W[w].phase \in {"WaitingDependencies", "Queued"}
             /\ W[w].terminal = "None"
             /\ W[w].attempts < WorkSpec[w].maximumAttempts
             /\ W[w].phase = "Queued" => DependenciesSucceeded(work, w)

\* Such a command applies correctly: admission, retry, cancellation, exhaustion.
LEMMA WorkApplied ==
  ASSUME SchedulerInv,
         NEW W \in [WorkId -> WorkRecord],
         \A w \in WorkId : W[w] = work[w] \/ Moved(W, w)
  PROVE  AppliedOf(W, reservations, workers, usedDispatches)
  <1>0. AppliedOf(work, reservations, workers, usedDispatches)
    BY InvApplied
  <1>1. ShapeOf(W, reservations, workers)
    BY <1>0 DEF AppliedOf, ShapeOf
  <1>2. \A r \in reservations : r.work \in WorkId /\ Owned(r.work)
    BY <1>0 DEF AppliedOf, ShapeOf, Reservation, Owned
  <1>3. OwnershipOf(W, reservations, workers, usedDispatches)
    <2>1. \A w \in WorkId : W[w].phase \in OwnedPhase <=> \E r \in reservations : r.work = w
      BY <1>0 DEF AppliedOf, OwnershipOf, Moved, Owned, OwnedPhase
    <2>2. \A r \in reservations : W[r.work].attempts = work[r.work].attempts
      BY <1>2 DEF Moved
    <2>3. QED
      BY <1>0, <2>1, <2>2 DEF AppliedOf, OwnershipOf
  <1>4. StartOf(W, reservations)
    BY <1>0, <1>2 DEF AppliedOf, StartOf, Moved
  <1>5. CanStartOf(W)
    BY <1>0 DEF AppliedOf, CanStartOf, Moved, WaitingPhase
  <1>6. OutcomeOf(W)
    BY <1>0 DEF AppliedOf, OutcomeOf, Moved
  <1>7. FinalOf(W)
    BY DEF FinalOf, Moved
  <1>8. ReadyOf(W)
    <2> SUFFICES ASSUME NEW w \in WorkId,
                        \/ W[w].phase \in OwnedPhase \cup {"Queued", "RetryPending"}
                        \/ W[w].terminal = "Succeeded"
                 PROVE  DependenciesSucceeded(W, w)
      BY DEF ReadyOf
    <2>1. DependenciesSucceeded(work, w)
      BY <1>0 DEF AppliedOf, OwnershipOf, ReadyOf, Moved, Owned, OwnedPhase
    <2>2. QED
      BY <1>7, <2>1, SuccessKept
  <1>9. QED
    BY <1>1, <1>3, <1>4, <1>5, <1>6, <1>7, <1>8 DEF AppliedOf

\* Reserving the selected item with a fresh identity applies correctly.
LEMMA DispatchApplied ==
  ASSUME SchedulerInv,
         NEW d \in DispatchId, d \notin usedDispatches,
         NEW w \in WorkId, NEW k \in WorkerId,
         work[w].phase = "Queued", workers[k] = "Available",
         NEW W, W = [v \in WorkId |-> IF v = w THEN Reserve(work[v])
                                      ELSE IF v \in FeasibleWork THEN Bypassed(work[v])
                                      ELSE work[v]],
         NEW r, r = [dispatch |-> d, work |-> w, worker |-> k,
                     attempt |-> work[w].attempts + 1, started |-> FALSE]
  PROVE  AppliedOf(W, reservations \cup {r}, workers, usedDispatches \cup {d})
  <1>0. AppliedOf(work, reservations, workers, usedDispatches)
    BY InvApplied
  <1>1. \A v \in WorkId : work[v] \in WorkRecord /\ work[v].attempts \in Nat
    BY <1>0 DEF AppliedOf, ShapeOf, WorkRecord
  <1>2. ShapeOf(W, reservations \cup {r}, workers)
    <2>1. \A v \in WorkId : Reserve(work[v]) \in WorkRecord /\ Bypassed(work[v]) \in WorkRecord
      BY <1>1, RecordUpdates
    <2>2. r \in Reservation
      BY <1>1 DEF Reservation
    <2>3. W \in [WorkId -> WorkRecord]
      BY <1>1, <2>1
    <2>4. QED
      BY <1>0, <2>2, <2>3 DEF AppliedOf, ShapeOf
  <1>3. /\ W[w].phase = "Reserved"
        /\ W[w].attempts = work[w].attempts + 1
        /\ W[w].terminal = work[w].terminal
    BY <1>1 DEF Reserve, WorkRecord
  <1>4. \A v \in WorkId \ {w} : /\ W[v].phase = work[v].phase
                                /\ W[v].attempts = work[v].attempts
                                /\ W[v].terminal = work[v].terminal
                                /\ work[v].phase = "Terminal" => W[v] = work[v]
    <2> SUFFICES ASSUME NEW v \in WorkId \ {w}
                 PROVE  /\ W[v].phase = work[v].phase
                        /\ W[v].attempts = work[v].attempts
                        /\ W[v].terminal = work[v].terminal
                        /\ work[v].phase = "Terminal" => W[v] = work[v]
      OBVIOUS
    <2>1. CASE v \in FeasibleWork
      BY <1>1, <2>1 DEF Bypassed, WorkRecord, FeasibleWork, Feasible
    <2>2. CASE v \notin FeasibleWork
      BY <2>2
    <2>3. QED
      BY <2>1, <2>2
  <1>5. \A s \in reservations : s.work \in WorkId /\ s.work # w /\ s.dispatch # d
    BY <1>0 DEF AppliedOf, ShapeOf, OwnershipOf, Reservation, OwnedPhase
  <1>6. r.dispatch = d /\ r.work = w /\ r.worker = k /\ ~r.started
        /\ r.attempt = work[w].attempts + 1
    OBVIOUS
  <1>7. OwnershipOf(W, reservations \cup {r}, workers, usedDispatches \cup {d})
    <2>1. \A v \in WorkId : W[v].phase \in OwnedPhase <=>
                              \E s \in reservations \cup {r} : s.work = v
      BY <1>0, <1>3, <1>4, <1>6 DEF AppliedOf, OwnershipOf, OwnedPhase
    <2>2. ASSUME NEW s \in reservations \cup {r}, NEW t \in reservations \cup {r},
                 s.dispatch = t.dispatch \/ s.work = t.work
          PROVE  s = t
      <3>1. CASE s \in reservations /\ t \in reservations
        BY <1>0, <2>2, <3>1 DEF AppliedOf, OwnershipOf
      <3>2. CASE s = r /\ t \in reservations
        BY <1>5, <1>6, <2>2, <3>2
      <3>3. CASE s \in reservations /\ t = r
        BY <1>5, <1>6, <2>2, <3>3
      <3>4. QED
        BY <3>1, <3>2, <3>3
    <2>3. \A s \in reservations \cup {r} :
            /\ s.dispatch \in usedDispatches \cup {d}
            /\ s.attempt = W[s.work].attempts
            /\ workers[s.worker] \in {"Available", "Busy", "Draining"}
      BY <1>0, <1>3, <1>4, <1>5, <1>6 DEF AppliedOf, OwnershipOf
    <2>4. QED
      BY <2>1, <2>2, <2>3 DEF OwnershipOf
  <1>8. StartOf(W, reservations \cup {r})
    BY <1>0, <1>3, <1>4, <1>5, <1>6 DEF AppliedOf, StartOf
  <1>9. CanStartOf(W)
    BY <1>0, <1>3, <1>4 DEF AppliedOf, CanStartOf, WaitingPhase
  <1>10. OutcomeOf(W)
    BY <1>0, <1>3, <1>4 DEF AppliedOf, OutcomeOf
  <1>11. FinalOf(W)
    BY <1>4 DEF FinalOf
  <1>12. ReadyOf(W)
    <2> SUFFICES ASSUME NEW v \in WorkId,
                        \/ W[v].phase \in OwnedPhase \cup {"Queued", "RetryPending"}
                        \/ W[v].terminal = "Succeeded"
                 PROVE  DependenciesSucceeded(W, v)
      BY DEF ReadyOf
    <2>1. DependenciesSucceeded(work, v)
      BY <1>0, <1>3, <1>4 DEF AppliedOf, ReadyOf, OwnedPhase
    <2>2. QED
      BY <1>11, <2>1, SuccessKept
  <1>13. QED
    BY <1>2, <1>7, <1>8, <1>9, <1>10, <1>11, <1>12 DEF AppliedOf

\* Acknowledging a start applies correctly, also when the work is Cancelling.
LEMMA StartApplied ==
  ASSUME SchedulerInv, NEW r \in reservations,
         NEW W, W = [work EXCEPT ![r.work] = SetPhase(work[r.work], "Running")]
  PROVE  AppliedOf(W, (reservations \ {r}) \cup {StartReservation(r)}, workers,
                   usedDispatches)
  <1> DEFINE s == StartReservation(r)
             R == (reservations \ {r}) \cup {s}
  <1>0. AppliedOf(work, reservations, workers, usedDispatches)
    BY InvApplied
  <1>1. r \in Reservation /\ r.work \in WorkId
    BY <1>0 DEF AppliedOf, ShapeOf, Reservation
  <1>2. /\ s \in Reservation
        /\ s.dispatch = r.dispatch /\ s.work = r.work /\ s.worker = r.worker
        /\ s.attempt = r.attempt /\ s.started
    BY <1>1 DEF StartReservation, Reservation
  <1>3. work[r.work] \in WorkRecord /\ work[r.work].phase \in OwnedPhase
    BY <1>0, <1>1 DEF AppliedOf, ShapeOf, OwnershipOf
  <1>4. /\ W \in [WorkId -> WorkRecord]
        /\ W[r.work].phase = "Running"
        /\ W[r.work].attempts = work[r.work].attempts
        /\ W[r.work].terminal = work[r.work].terminal
        /\ \A v \in WorkId \ {r.work} : W[v] = work[v]
    <2>1. SetPhase(work[r.work], "Running") \in WorkRecord
      BY <1>3, RecordUpdates DEF WorkPhase, OwnedPhase
    <2>2. QED
      BY <1>0, <1>1, <1>3, <2>1 DEF AppliedOf, ShapeOf, SetPhase, WorkRecord
  <1>5. \A t \in reservations \ {r} : t.work \in WorkId \ {r.work} /\ t.dispatch # r.dispatch
    BY <1>0 DEF AppliedOf, ShapeOf, OwnershipOf, Reservation
  <1> HIDE DEF s
  <1>6. ShapeOf(W, R, workers)
    BY <1>0, <1>2, <1>4 DEF AppliedOf, ShapeOf
  <1>7. OwnershipOf(W, R, workers, usedDispatches)
    <2>1. \A v \in WorkId : W[v].phase \in OwnedPhase <=> \E t \in R : t.work = v
      BY <1>0, <1>1, <1>2, <1>3, <1>4 DEF AppliedOf, OwnershipOf, OwnedPhase
    <2>2. \A t, u \in R : (t.dispatch = u.dispatch \/ t.work = u.work) => t = u
      BY <1>0, <1>2, <1>5 DEF AppliedOf, OwnershipOf
    <2>3. \A t \in R : /\ t.dispatch \in usedDispatches
                       /\ t.attempt = W[t.work].attempts
                       /\ workers[t.worker] \in {"Available", "Busy", "Draining"}
      BY <1>0, <1>2, <1>4, <1>5 DEF AppliedOf, OwnershipOf
    <2>4. QED
      BY <2>1, <2>2, <2>3 DEF OwnershipOf
  <1>8. StartOf(W, R)
    BY <1>0, <1>2, <1>4, <1>5 DEF AppliedOf, StartOf
  <1>9. CanStartOf(W) /\ OutcomeOf(W) /\ FinalOf(W)
    BY <1>0, <1>1, <1>3, <1>4
       DEF AppliedOf, CanStartOf, OutcomeOf, FinalOf, WaitingPhase, OwnedPhase
  <1>10. ReadyOf(W)
    <2> SUFFICES ASSUME NEW v \in WorkId,
                        \/ W[v].phase \in OwnedPhase \cup {"Queued", "RetryPending"}
                        \/ W[v].terminal = "Succeeded"
                 PROVE  DependenciesSucceeded(W, v)
      BY DEF ReadyOf
    <2>1. DependenciesSucceeded(work, v)
      BY <1>0, <1>3, <1>4 DEF AppliedOf, ReadyOf
    <2>2. QED
      BY <1>9, <2>1, SuccessKept
  <1>11. QED
    BY <1>6, <1>7, <1>8, <1>9, <1>10 DEF AppliedOf, s

------------------------------------------------------------------------------
(* Every command preserves the invariant *)

\* What every step keeps: the invariant, and the records of ended work.
StepKeeps ==
  /\ UniqueDispatchOwnership'
  /\ StartMatchesPhase'
  /\ QueuedWorkCanStart'
  /\ OutcomeOf(work)'
  /\ DependencyTruth'
  /\ \A w \in WorkId : work[w].phase = "Terminal" => work'[w] = work[w]

\* Worker commands: only a worker without reservations leaves service, and the
\* loss of a worker settles all work it held.
LEMMA WorkerStep ==
  ASSUME SchedulerInv, NEW k \in WorkerId, WorkerCommand(k)
  PROVE  StepKeeps
  <1>0. AppliedOf(work, reservations, workers, usedDispatches)
    BY InvApplied
  <1>1. ASSUME NEW p \in WorkerPhase,
               p \in {"Available", "Draining"} \/ WorkerReservations(reservations, k) = {},
               Decide(work, reservations, [workers EXCEPT ![k] = p]),
               UNCHANGED usedDispatches
        PROVE  StepKeeps
    <2> DEFINE K == [workers EXCEPT ![k] = p]
    <2>1. ShapeOf(work, reservations, K)
      BY <1>0 DEF AppliedOf, ShapeOf
    <2>2. \A r \in reservations : K[r.worker] \in {"Available", "Busy", "Draining"}
      BY <1>0, <1>1 DEF AppliedOf, ShapeOf, OwnershipOf, Reservation, WorkerReservations
    <2>3. AppliedOf(work, reservations, K, usedDispatches')
      BY <1>0, <1>1, <2>1, <2>2 DEF AppliedOf, OwnershipOf
    <2> HIDE DEF K
    <2>4. QED
      BY <1>1, <2>3, DecideInv DEF K, StepKeeps
  <1>2. CASE RegisterWorker(k)
    BY <1>1, <1>2 DEF RegisterWorker, WorkerPhase
  <1>3. CASE SetWorkerAvailable(k)
    BY <1>1, <1>3 DEF SetWorkerAvailable, WorkerPhase
  <1>4. CASE DrainWorker(k)
    BY <1>1, <1>4 DEF DrainWorker, WorkerPhase
  <1>5. CASE RemoveWorker(k)
    BY <1>1, <1>5 DEF RemoveWorker, Quiescent, WorkerPhase
  <1>6. CASE LoseWorker(k)
    <2> DEFINE lost == WorkerReservations(reservations, k)
               W == [w \in WorkId |-> IF \E r \in lost : r.work = w
                                      THEN AfterLoss(w) ELSE work[w]]
               K == [workers EXCEPT ![k] = "Lost"]
    <2>1. \A w \in WorkId : work[w] \in WorkRecord
      BY <1>0 DEF AppliedOf, ShapeOf
    <2>2. ASSUME NEW w \in WorkId, Owned(w)
          PROVE  /\ AfterLoss(w) \in WorkRecord
                 /\ AfterLoss(w).attempts = work[w].attempts
                 /\ \/ AfterLoss(w).phase = "Terminal" /\ AfterLoss(w).terminal # "None"
                    \/ /\ AfterLoss(w).phase = "Queued"
                       /\ AfterLoss(w).terminal = "None"
                       /\ AfterLoss(w).attempts < WorkSpec[w].maximumAttempts
      <3>1. work[w].terminal = "None"
        BY <1>0, <2>2 DEF AppliedOf, OutcomeOf, OwnershipOf, Owned, OwnedPhase
      <3>2. CASE AfterLoss(w) = SetPhase(work[w], "Queued") /\ AttemptsLeft(w)
        BY <2>1, <3>1, <3>2, RecordUpdates
           DEF SetPhase, AttemptsLeft, WorkRecord, WorkPhase, WaitingPhase
      <3>3. CASE \E t \in Failure : AfterLoss(w) = Terminalize(work[w], t)
        <4>1. PICK t \in Failure : AfterLoss(w) = Terminalize(work[w], t)
          BY <3>3
        <4>2. t \in WorkTerminal /\ t # "None"
          BY DEF WorkTerminal, Failure
        <4>3. Terminalize(work[w], t) \in WorkRecord
          BY <2>1, <4>2, RecordUpdates
        <4>4. /\ Terminalize(work[w], t).attempts = work[w].attempts
              /\ Terminalize(work[w], t).phase = "Terminal"
              /\ Terminalize(work[w], t).terminal = t
          BY <2>1 DEF Terminalize, WorkRecord
        <4>5. QED
          BY <4>1, <4>2, <4>3, <4>4
      <3>4. QED
        BY <3>2, <3>3 DEF AfterLoss, Failure
    <2>3. lost \in SUBSET reservations /\ \A r \in lost : Owned(r.work)
      BY DEF WorkerReservations, Owned
    <2>4. W \in [WorkId -> WorkRecord]
      BY <2>1, <2>2, <2>3
    <2>5. \A w \in WorkId : IF \E r \in lost : r.work = w THEN Settled(W, w)
                                                          ELSE W[w] = work[w]
      BY <2>2, <2>3 DEF Settled
    <2>6. K \in [WorkerId -> WorkerPhase]
      BY <1>0 DEF AppliedOf, ShapeOf, WorkerPhase
    <2>7. \A r \in reservations \ lost : K[r.worker] = workers[r.worker]
      BY <1>0 DEF AppliedOf, ShapeOf, Reservation, WorkerReservations
    <2>8. Decide(W, reservations \ lost, K) /\ usedDispatches' = usedDispatches
      BY <1>6 DEF LoseWorker
    <2> HIDE DEF W, K, lost
    <2>9. AppliedOf(W, reservations \ lost, K, usedDispatches)
      BY <2>3, <2>4, <2>5, <2>6, <2>7, ReleaseApplied
    <2>10. QED
      BY <2>8, <2>9, DecideInv DEF StepKeeps
  <1>7. QED
    BY <1>2, <1>3, <1>4, <1>5, <1>6 DEF WorkerCommand

\* Work commands change work only, and never owned work except to Cancelling.
LEMMA WorkStep ==
  ASSUME SchedulerInv, NEW w \in WorkId, WorkCommand(w)
  PROVE  StepKeeps
  <1>0. AppliedOf(work, reservations, workers, usedDispatches)
    BY InvApplied
  <1>1. \A v \in WorkId : work[v] \in WorkRecord
    BY <1>0 DEF AppliedOf, ShapeOf
  <1>2. \A v \in WorkId : Owned(v) <=> work[v].phase \in OwnedPhase
    BY <1>0 DEF AppliedOf, OwnershipOf, Owned
  <1>3. \A v \in WorkId : work[v].phase # "Terminal" <=> work[v].terminal = "None"
    BY <1>0 DEF AppliedOf, OutcomeOf
  <1>4. ASSUME NEW W \in [WorkId -> WorkRecord],
               \A v \in WorkId : W[v] = work[v] \/ Moved(W, v),
               Decide(W, reservations, workers), UNCHANGED usedDispatches
        PROVE  StepKeeps
    <2>1. AppliedOf(W, reservations, workers, usedDispatches)
      BY <1>4, WorkApplied
    <2>2. QED
      BY <1>4, <2>1, DecideInv DEF StepKeeps
  <1>5. CASE AdmitWork(w)
    <2> DEFINE record == [phase |-> IF WorkSpec[w].dependencies = {}
                                    THEN "Queued" ELSE "WaitingDependencies",
                          ordinal |-> enqueueOrdinal + 1, bypasses |-> 0,
                          attempts |-> 0, terminal |-> "None"]
               W == [work EXCEPT ![w] = record]
    <2>1. record \in WorkRecord
      BY DEF SchedulerInv, TypeOK, WorkRecord, WorkPhase, WaitingPhase, WorkTerminal
    <2>2. Decide(W, reservations, workers) /\ usedDispatches' = usedDispatches
      BY <1>5 DEF AdmitWork
    <2>3. work[w].phase = "Absent"
      BY <1>5 DEF AdmitWork, Retained
    <2>4. /\ record.phase \in {"WaitingDependencies", "Queued"}
          /\ record.phase = "Queued" => DependenciesSucceeded(work, w)
          /\ record.terminal = "None"
          /\ record.attempts < WorkSpec[w].maximumAttempts
      <3>1. WorkSpec[w].maximumAttempts \in Nat \ {0}
        BY DefinitionAssumption DEF WorkDefinition
      <3>2. QED
        BY <3>1 DEF DependenciesSucceeded
    <2> HIDE DEF record
    <2>5. W \in [WorkId -> WorkRecord]
      BY <1>0, <2>1 DEF AppliedOf, ShapeOf
    <2>6. W[w] = record /\ \A v \in WorkId \ {w} : W[v] = work[v]
      BY <1>0 DEF AppliedOf, ShapeOf
    <2>7. Moved(W, w)
      BY <1>2, <2>3, <2>4, <2>6 DEF Moved, OwnedPhase
    <2> HIDE DEF W
    <2>8. QED
      BY <1>4, <2>2, <2>5, <2>6, <2>7
  <1>6. CASE RetryWork(w)
    <2> DEFINE W == [work EXCEPT ![w] = SetPhase(work[w], "Queued")]
    <2>1. SetPhase(work[w], "Queued") \in WorkRecord
      BY <1>1, RecordUpdates DEF WorkPhase, WaitingPhase
    <2>2. W \in [WorkId -> WorkRecord]
      BY <1>0, <2>1 DEF AppliedOf, ShapeOf
    <2>3. W[w] = SetPhase(work[w], "Queued") /\ \A v \in WorkId \ {w} : W[v] = work[v]
      BY <1>0 DEF AppliedOf, ShapeOf
    <2>4. work[w].phase = "RetryPending" /\ work[w].attempts < WorkSpec[w].maximumAttempts
      BY <1>6 DEF RetryWork, AttemptsLeft
    <2>5. DependenciesSucceeded(work, w)
      BY <1>0, <2>4 DEF AppliedOf, ReadyOf
    <2>6. Moved(W, w)
      BY <1>1, <1>2, <1>3, <2>3, <2>4, <2>5 DEF Moved, SetPhase, WorkRecord, OwnedPhase
    <2>7. Decide(W, reservations, workers) /\ usedDispatches' = usedDispatches
      BY <1>6 DEF RetryWork
    <2> HIDE DEF W
    <2>8. QED
      BY <1>4, <2>2, <2>3, <2>6, <2>7
  <1>7. CASE ExhaustWork(w)
    <2> DEFINE W == [work EXCEPT ![w] = Terminalize(work[w], "Exhausted")]
    <2>1. Terminalize(work[w], "Exhausted") \in WorkRecord
      BY <1>1, RecordUpdates DEF WorkTerminal, Failure
    <2>2. W \in [WorkId -> WorkRecord]
      BY <1>0, <2>1 DEF AppliedOf, ShapeOf
    <2>3. W[w] = Terminalize(work[w], "Exhausted") /\ \A v \in WorkId \ {w} : W[v] = work[v]
      BY <1>0 DEF AppliedOf, ShapeOf
    <2>4. Moved(W, w)
      <3>1. work[w].phase \in WaitingPhase
        BY <1>7 DEF ExhaustWork
      <3>2. W[w].phase = "Terminal" /\ W[w].terminal = "Exhausted"
        BY <1>1, <2>3 DEF Terminalize, WorkRecord
      <3> HIDE DEF W
      <3>3. QED
        BY <1>2, <3>1, <3>2 DEF Moved, OwnedPhase, WaitingPhase
    <2>5. Decide(W, reservations, workers) /\ usedDispatches' = usedDispatches
      BY <1>7 DEF ExhaustWork
    <2> HIDE DEF W
    <2>6. QED
      BY <1>4, <2>2, <2>3, <2>4, <2>5
  <1>8. ASSUME NEW reached \in SUBSET WorkId, CancelAll(reached)
        PROVE  StepKeeps
    <2> DEFINE W == [v \in WorkId |-> IF v \in Affected(reached)
                                      THEN AfterCancel(v) ELSE work[v]]
    <2>1. ASSUME NEW v \in WorkId
          PROVE  /\ AfterCancel(v) \in WorkRecord
                 /\ IF Owned(v)
                    THEN /\ AfterCancel(v).phase = "Cancelling"
                         /\ AfterCancel(v).attempts = work[v].attempts
                         /\ AfterCancel(v).terminal = work[v].terminal
                    ELSE /\ AfterCancel(v).phase = "Terminal"
                         /\ AfterCancel(v).terminal = "Cancelled"
      <3>1. /\ SetPhase(work[v], "Cancelling") \in WorkRecord
            /\ Terminalize(work[v], "Cancelled") \in WorkRecord
        BY <1>1, RecordUpdates DEF WorkPhase, OwnedPhase, WorkTerminal, Failure
      <3>2. QED
        BY <1>1, <3>1 DEF AfterCancel, SetPhase, Terminalize, WorkRecord
    <2>2. W \in [WorkId -> WorkRecord]
      BY <1>1, <2>1
    <2>3. \A v \in WorkId : W[v] = work[v] \/ Moved(W, v)
      BY <1>3, <2>1 DEF Moved, Affected
    <2>4. Decide(W, reservations, workers) /\ usedDispatches' = usedDispatches
      BY <1>8 DEF CancelAll
    <2> HIDE DEF W
    <2>5. QED
      BY <1>4, <2>2, <2>3, <2>4
  <1>9. CASE CancelWork(w) \/ CancelWorkTree(w)
    BY <1>8, <1>9 DEF CancelWork, CancelWorkTree, ParentClosure, Retained
  <1>10. QED
    BY <1>5, <1>6, <1>7, <1>9 DEF WorkCommand

\* Dispatch commands take an item from the queue, start it, or release and
\* settle it.
LEMMA DispatchStep ==
  ASSUME SchedulerInv, NEW d \in DispatchId, DispatchCommand(d)
  PROVE  StepKeeps
  <1>0. AppliedOf(work, reservations, workers, usedDispatches)
    BY InvApplied
  <1>1. \A r \in reservations : r.work \in WorkId /\ work[r.work] \in WorkRecord
    BY <1>0 DEF AppliedOf, ShapeOf, Reservation
  <1>2. ASSUME NEW r \in reservations, NEW after \in WorkRecord,
               after.attempts = work[r.work].attempts,
               \/ after.phase = "Terminal" /\ after.terminal # "None"
               \/ /\ after.phase \in {"Queued", "RetryPending"}
                  /\ after.terminal = "None"
                  /\ after.attempts < WorkSpec[r.work].maximumAttempts,
               Release(r, after), UNCHANGED usedDispatches
        PROVE  StepKeeps
    <2> DEFINE W == [work EXCEPT ![r.work] = after]
    <2>1. W \in [WorkId -> WorkRecord]
      BY <1>0 DEF AppliedOf, ShapeOf
    <2>2. W[r.work] = after /\ \A v \in WorkId \ {r.work} : W[v] = work[v]
      BY <1>0, <1>1 DEF AppliedOf, ShapeOf
    <2>3. Decide(W, reservations \ {r}, workers)
      BY <1>2 DEF Release
    <2> HIDE DEF W
    <2>4. Settled(W, r.work)
      BY <1>2, <2>2 DEF Settled
    <2>5. \A v \in WorkId : IF \E s \in {r} : s.work = v THEN Settled(W, v)
                                                         ELSE W[v] = work[v]
      BY <2>2, <2>4
    <2>6. workers \in [WorkerId -> WorkerPhase]
      BY <1>0 DEF AppliedOf, ShapeOf
    <2>7. {r} \in SUBSET reservations
      OBVIOUS
    <2>8. AppliedOf(W, reservations \ {r}, workers, usedDispatches)
      BY <2>1, <2>5, <2>6, <2>7, ReleaseApplied
    <2>9. QED
      BY <1>2, <2>3, <2>8, DecideInv DEF StepKeeps
  <1>3. ASSUME NEW r \in reservations, NEW t \in WorkTerminal \ {"None"},
               Release(r, Terminalize(work[r.work], t)), UNCHANGED usedDispatches
        PROVE  StepKeeps
    <2>1. /\ Terminalize(work[r.work], t) \in WorkRecord
          /\ Terminalize(work[r.work], t).attempts = work[r.work].attempts
          /\ Terminalize(work[r.work], t).phase = "Terminal"
          /\ Terminalize(work[r.work], t).terminal # "None"
      BY <1>1, RecordUpdates DEF Terminalize, WorkRecord
    <2>2. QED
      BY <1>2, <1>3, <2>1
  <1>4. CASE DispatchNext(d)
    <2>1. PICK w \in WorkId, k \in WorkerId :
            /\ Selected(w)
            /\ FirstFeasibleWorker(w, k)
            /\ Decide([v \in WorkId |-> IF v = w THEN Reserve(work[v])
                                        ELSE IF v \in FeasibleWork THEN Bypassed(work[v])
                                        ELSE work[v]],
                      reservations \cup {[dispatch |-> d, work |-> w, worker |-> k,
                                          attempt |-> work[w].attempts + 1,
                                          started |-> FALSE]},
                      workers)
      BY <1>4 DEF DispatchNext
    <2>2. work[w].phase = "Queued" /\ workers[k] = "Available"
      BY <2>1 DEF Selected, FeasibleWork, Feasible, FirstFeasibleWorker, FeasibleWorkers,
                  WorkerFeasible
    <2>3. d \notin usedDispatches /\ usedDispatches' = usedDispatches \cup {d}
      BY <1>4 DEF DispatchNext, FreshDispatch
    <2> DEFINE W == [v \in WorkId |-> IF v = w THEN Reserve(work[v])
                                      ELSE IF v \in FeasibleWork THEN Bypassed(work[v])
                                      ELSE work[v]]
               r == [dispatch |-> d, work |-> w, worker |-> k,
                     attempt |-> work[w].attempts + 1, started |-> FALSE]
    <2>4. AppliedOf(W, reservations \cup {r}, workers, usedDispatches \cup {d})
      BY <2>2, <2>3, DispatchApplied
    <2>5. Decide(W, reservations \cup {r}, workers)
      BY <2>1
    <2> HIDE DEF W, r
    <2>6. QED
      BY <2>3, <2>4, <2>5, DecideInv DEF StepKeeps
  <1>5. CASE AcknowledgeStart(d)
    <2>1. PICK r \in reservations :
            Decide([work EXCEPT ![r.work] = SetPhase(work[r.work], "Running")],
                   (reservations \ {r}) \cup {StartReservation(r)}, workers)
      BY <1>5 DEF AcknowledgeStart
    <2> DEFINE W == [work EXCEPT ![r.work] = SetPhase(work[r.work], "Running")]
               R == (reservations \ {r}) \cup {StartReservation(r)}
    <2>2. AppliedOf(W, R, workers, usedDispatches)
      BY StartApplied
    <2>3. Decide(W, R, workers) /\ usedDispatches' = usedDispatches
      BY <1>5, <2>1 DEF AcknowledgeStart
    <2> HIDE DEF W, R
    <2>4. QED
      BY <2>2, <2>3, DecideInv DEF StepKeeps
  <1>6. CASE CompleteWork(d)
    BY <1>3, <1>6 DEF CompleteWork, WorkTerminal
  <1>7. CASE AcknowledgeCancellation(d)
    BY <1>3, <1>7 DEF AcknowledgeCancellation, WorkTerminal, Failure
  <1>8. CASE AbandonDispatch(d)
    BY <1>3, <1>8 DEF AbandonDispatch, AbandonedAs, WorkTerminal, Failure
  <1>9. ASSUME NEW disposition \in {"Retryable", "Failed", "Ambiguous"},
               FailWork(d, disposition)
        PROVE  StepKeeps
    <2>1. PICK r \in reservations : /\ work[r.work].phase \in {"Reserved", "Running"}
                                    /\ Release(r, AfterFailure(r.work, disposition))
      BY <1>9 DEF FailWork
    <2>2. UNCHANGED usedDispatches
      BY <1>9 DEF FailWork
    <2>3. CASE AfterFailure(r.work, disposition) = SetPhase(work[r.work], "RetryPending")
               /\ AttemptsLeft(r.work)
      <3> DEFINE after == SetPhase(work[r.work], "RetryPending")
      <3>1. work[r.work].terminal = "None"
        BY <1>0, <1>1, <2>1 DEF AppliedOf, OutcomeOf
      <3>2. /\ after \in WorkRecord
            /\ after.attempts = work[r.work].attempts
            /\ after.phase = "RetryPending"
            /\ after.terminal = "None"
        BY <1>1, <3>1, RecordUpdates DEF SetPhase, WorkRecord, WorkPhase, WaitingPhase
      <3>3. after.attempts < WorkSpec[r.work].maximumAttempts
        BY <2>3, <3>2 DEF AttemptsLeft
      <3>4. Release(r, after)
        BY <2>1, <2>3
      <3> HIDE DEF after
      <3>5. QED
        BY <1>2, <2>2, <3>2, <3>3, <3>4
    <2>4. CASE \E t \in {"Exhausted", "Failed", "Ambiguous"} :
                 AfterFailure(r.work, disposition) = Terminalize(work[r.work], t)
      BY <1>3, <2>1, <2>2, <2>4 DEF WorkTerminal, Failure
    <2>5. QED
      BY <2>3, <2>4 DEF AfterFailure
  <1>10. QED
    BY <1>4, <1>5, <1>6, <1>7, <1>8, <1>9 DEF DispatchCommand

\* Lifecycle commands leave work, reservations and workers to the refresh.
LEMMA LifecycleStep ==
  ASSUME SchedulerInv, LifecycleCommand
  PROVE  StepKeeps
  <1>1. Decide(work, reservations, workers) /\ usedDispatches' = usedDispatches
    BY DEF LifecycleCommand, PauseScheduler, ResumeScheduler, DrainScheduler,
           SetSchedulerPhase, FinalizeScheduler
  <1>2. AppliedOf(work, reservations, workers, usedDispatches)
    BY InvApplied
  <1>3. QED
    BY <1>1, <1>2, DecideInv DEF StepKeeps

\* Initially nothing is retained, so the invariant holds.
LEMMA InitInv == Init => SchedulerInv
  <1> SUFFICES ASSUME Init
               PROVE  SchedulerInv
    OBVIOUS
  <1>1. TypeOK
    BY InitType
  <1>2. \A w \in WorkId : work[w].phase = "Absent" /\ work[w].terminal = "None"
    BY DEF Init
  <1>3. reservations = {} /\ Retained = {}
    BY <1>2 DEF Init, Retained
  <1>4. QED
    BY <1>1, <1>2, <1>3
       DEF SchedulerInv, UniqueDispatchOwnership, Owned, OwnedPhase, StartMatchesPhase,
           QueuedWorkCanStart, WaitingPhase, OutcomeOf, DependencyTruth

\* Every step keeps the invariant and the records of ended work.
LEMMA StepInv ==
  ASSUME SchedulerInv, [Next]_vars
  PROVE  /\ SchedulerInv'
         /\ \A w \in WorkId : work[w].phase = "Terminal" => work'[w] = work[w]
  <1>1. TypeOK'
    BY StepType DEF SchedulerInv
  <1>2. CASE Next
    <2>1. StepKeeps
      BY <1>2, WorkerStep, WorkStep, DispatchStep, LifecycleStep DEF Next
    <2>2. QED
      BY <1>1, <2>1 DEF StepKeeps, SchedulerInv
  <1>3. CASE UNCHANGED vars
    BY <1>1, <1>3
       DEF vars, SchedulerInv, UniqueDispatchOwnership, Owned, StartMatchesPhase,
           QueuedWorkCanStart, AttemptsLeft, OutcomeOf, DependencyTruth, Retained,
           DependenciesSucceeded
  <1>4. QED
    BY <1>2, <1>3

\* The inductive invariant holds of every reachable state.
THEOREM Invariance == Spec => []SchedulerInv
  <1>1. SchedulerInv /\ [Next]_vars => SchedulerInv'
    BY StepInv
  <1>2. QED
    BY InitInv, <1>1, PTL DEF Spec

\* Every live dispatch owns exactly one attempt of one item on a worker still in
\* service, whatever the order of losses, cancellations and acknowledgements.
THEOREM DispatchOwnership == Spec => []UniqueDispatchOwnership
  <1>1. SchedulerInv => UniqueDispatchOwnership
    BY DEF SchedulerInv
  <1>2. QED
    BY <1>1, Invariance, PTL

\* The started flag of a dispatch and the phase of its work always agree.
THEOREM StartAgreement == Spec => []StartMatchesPhase
  <1>1. SchedulerInv => StartMatchesPhase
    BY DEF SchedulerInv
  <1>2. QED
    BY <1>1, Invariance, PTL

\* No item without attempts left ever blocks the head of the queue.
THEOREM QueueNeverBlocked == Spec => []QueuedWorkCanStart
  <1>1. SchedulerInv => QueuedWorkCanStart
    BY DEF SchedulerInv
  <1>2. QED
    BY <1>1, Invariance, PTL

\* Dependencies gate dispatch, and their failures reach every dependent item in
\* the command that causes them.
THEOREM DependenciesDecided == Spec => []DependencyTruth
  <1>1. SchedulerInv => DependencyTruth
    BY DEF SchedulerInv
  <1>2. QED
    BY <1>1, Invariance, PTL

\* Live dispatches, owned attempts and remembered starts agree in every state:
\* what the worker messages of the reducer rely on.
THEOREM DispatchTruthful == Spec => []DispatchTruth
  <1>1. TypeOK /\ UniqueDispatchOwnership /\ StartMatchesPhase => DispatchTruth
    BY DEF DispatchTruth
  <1>2. QED
    BY <1>1, TypeCorrect, DispatchOwnership, StartAgreement, PTL

\* Waiting work follows the outcomes it depends on and has an attempt left: the
\* queue the selection reads holds only work that can run.
THEOREM QueueTruthful == Spec => []QueueTruth
  <1>1. DependencyTruth /\ QueuedWorkCanStart => QueueTruth
    BY DEF QueueTruth
  <1>2. QED
    BY <1>1, DependenciesDecided, QueueNeverBlocked, PTL

\* No command changes the record of work that ended.
THEOREM FinalOutcomes == Spec => OutcomesAreFinal
  <1>1. SchedulerInv /\ [Next]_vars =>
          [\A w \in WorkId : work[w].phase = "Terminal" => work'[w] = work[w]]_vars
    BY StepInv
  <1>2. QED
    BY <1>1, Invariance, PTL DEF Spec, OutcomesAreFinal

------------------------------------------------------------------------------
(* The final summary *)

\* The gravest kind of the retained work is Completed only when all succeeded.
LEMMA GravestKind ==
  ASSUME SchedulerInv, \A w \in Retained : work[w].phase = "Terminal",
         NEW kind \in {KindOf(work[w].terminal) : w \in Retained} \cup {"Completed"},
         \A other \in {KindOf(work[w].terminal) : w \in Retained} \cup {"Completed"} :
           Precedence(other) <= Precedence(kind)
  PROVE  /\ kind # "None"
         /\ kind = "Completed" <=> \A w \in Retained : work[w].terminal = "Succeeded"
  <1>1. \A w \in Retained : work[w].terminal \in WorkTerminal \ {"None"}
    BY DEF SchedulerInv, TypeOK, OutcomeOf, Retained, WorkRecord
  <1>2. \A t \in WorkTerminal \ {"None"} : /\ KindOf(t) \in TerminalKind
                                           /\ KindOf(t) = "Completed" <=> t = "Succeeded"
    BY DEF KindOf, TerminalKind, WorkTerminal, Failure
  <1>3. \A k \in TerminalKind : Precedence(k) \in Int /\ (Precedence(k) <= 0 <=> k = "Completed")
    BY DEF Precedence, TerminalKind
  <1>4. kind \in TerminalKind
    BY <1>1, <1>2 DEF TerminalKind
  <1>5. ASSUME kind = "Completed", NEW w \in Retained
        PROVE  work[w].terminal = "Succeeded"
    <2>1. Precedence(KindOf(work[w].terminal)) <= Precedence("Completed")
      BY <1>5
    <2>2. Precedence("Completed") = 0
      BY DEF Precedence
    <2>3. KindOf(work[w].terminal) = "Completed"
      BY <1>1, <1>2, <1>3, <2>1, <2>2
    <2>4. QED
      BY <1>1, <1>2, <2>3
  <1>6. ASSUME \A w \in Retained : work[w].terminal = "Succeeded"
        PROVE  kind = "Completed"
    BY <1>6 DEF KindOf
  <1>7. QED
    BY <1>4, <1>5, <1>6 DEF TerminalKind

\* A terminal aggregate takes no step, and only finalization makes it terminal.
LEMMA StepTerminal ==
  ASSUME SchedulerInv, TerminalTruth, Next
  PROVE  TerminalTruth'
  <1>1. phase # "Terminal"
    BY DEF Next, WorkerCommand, RegisterWorker, SetWorkerAvailable, DrainWorker, LoseWorker,
           RemoveWorker, WorkCommand, AdmitWork, RetryWork, CancelWork, CancelWorkTree,
           CancelAll, ExhaustWork, DispatchCommand, DispatchNext, AcknowledgeStart,
           CompleteWork, FailWork, AcknowledgeCancellation, AbandonDispatch, Release,
           LifecycleCommand, PauseScheduler, ResumeScheduler, DrainScheduler,
           SetSchedulerPhase, FinalizeScheduler, Decide
  <1>2. terminal = NotFinal
    BY <1>1 DEF TerminalTruth
  <1>3. CASE ~FinalizeScheduler
    <2>1. phase' # "Terminal" /\ terminal' = terminal
      BY <1>1, <1>3
         DEF Next, WorkerCommand, RegisterWorker, SetWorkerAvailable, DrainWorker, LoseWorker,
             RemoveWorker, WorkCommand, AdmitWork, RetryWork, CancelWork, CancelWorkTree,
             CancelAll, ExhaustWork, DispatchCommand, DispatchNext, AcknowledgeStart,
             CompleteWork, FailWork, AcknowledgeCancellation, AbandonDispatch,
             LifecycleCommand, PauseScheduler, ResumeScheduler, DrainScheduler,
             SetSchedulerPhase
    <2>2. QED
      BY <1>2, <2>1 DEF TerminalTruth, NotFinal
  <1>4. CASE FinalizeScheduler
    <2>1. PICK kind \in {KindOf(work[w].terminal) : w \in Retained} \cup {"Completed"} :
            /\ \A other \in {KindOf(work[w].terminal) : w \in Retained} \cup {"Completed"} :
                 Precedence(other) <= Precedence(kind)
            /\ terminal' = [kind |-> kind, nonSuccessful |->
                              {w \in Retained : work[w].terminal # "Succeeded"}]
      BY <1>4 DEF FinalizeScheduler
    <2>2. /\ \A w \in Retained : work[w].phase = "Terminal"
          /\ phase' = "Terminal"
          /\ Decide(work, reservations, workers)
          /\ reservations = {}
      BY <1>4 DEF FinalizeScheduler
    <2>3. ShapeOf(work, reservations, workers)
      BY DEF SchedulerInv, TypeOK, ShapeOf
    <2>4. \A w \in WorkId : work'[w] = work[w]
      <3> SUFFICES ASSUME NEW w \in WorkId
                   PROVE  work'[w] = work[w]
        OBVIOUS
      <3>1. work[w].phase \in {"Absent", "Terminal"}
        BY <2>2 DEF Retained
      <3>2. QED
        BY <2>2, <2>3, <3>1, Refreshed
    <2>5. reservations' = {} /\ Retained' = Retained
      BY <2>2, <2>4 DEF Decide, Retained
    <2>6. /\ kind # "None"
          /\ kind = "Completed" <=> \A w \in Retained : work[w].terminal = "Succeeded"
      BY <2>1, <2>2, GravestKind
    <2>7. \A w \in Retained : w \in WorkId /\ (work[w].terminal # "Succeeded" <=>
                                                 work[w].terminal \in Failure)
      BY <2>2 DEF SchedulerInv, TypeOK, OutcomeOf, Retained, WorkRecord, WorkTerminal, Failure
    <2>8. terminal'.kind = kind /\ terminal' # NotFinal
      BY <2>1, <2>6 DEF NotFinal
    <2>9. terminal'.nonSuccessful = {w \in Retained' : work'[w].terminal \in Failure}
      BY <2>1, <2>4, <2>5, <2>7
    <2>10. terminal'.kind = "Completed" <=>
             \A w \in Retained' : work'[w].terminal = "Succeeded"
      BY <2>4, <2>5, <2>6, <2>7, <2>8
    <2>11. QED
      BY <2>2, <2>4, <2>5, <2>7, <2>8, <2>9, <2>10 DEF TerminalTruth
  <1>5. QED
    BY <1>3, <1>4

\* The final summary exists only when all work ended and no dispatch is live,
\* and it reports success exactly when all retained work succeeded.
THEOREM TruthfulSummary == Spec => []TerminalTruth
  <1>1. Init => TerminalTruth
    BY DEF Init, TerminalTruth, NotFinal
  <1>2. SchedulerInv /\ TerminalTruth /\ [Next]_vars => TerminalTruth'
    <2>1. ASSUME TerminalTruth, UNCHANGED vars
          PROVE  TerminalTruth'
      BY <2>1 DEF vars, TerminalTruth, Retained
    <2>2. QED
      BY <2>1, StepTerminal
  <1>3. QED
    BY <1>1, <1>2, Invariance, PTL DEF Spec
------------------------------------------------------------------------------
(* Capacity.  What counts against the limits changes in three ways: a dispatch *)
(* adds one reservation, a start replaces one, everything else releases some.  *)

\* Resources in use, as a sum of naturals.
LEMMA UsageType ==
  ASSUME NEW R \in SUBSET Reservation, IsFiniteSet(R), NEW x \in ResourceKind
  PROVE  Usage(R, x) \in Nat
  <1> DEFINE f == [r \in R |-> WorkSpec[r.work].request[x]]
  <1>1. \A r \in R : f[r] \in Nat
    BY DefinitionAssumption DEF Reservation, WorkDefinition, Quantities
  <1>2. Usage(R, x) = SumFunctionOnSet(f, R)
    BY DEF Usage, SumFunction
  <1> HIDE DEF f
  <1>3. QED
    BY <1>1, <1>2, SumType

\* A new reservation adds the request of its work.
LEMMA UsageAdd ==
  ASSUME NEW R \in SUBSET Reservation, IsFiniteSet(R), NEW x \in ResourceKind,
         NEW r \in Reservation, r \notin R
  PROVE  Usage(R \cup {r}, x) = WorkSpec[r.work].request[x] + Usage(R, x)
  <1> DEFINE S == R \cup {r}
             f == [s \in S |-> WorkSpec[s.work].request[x]]
             e == [s \in R |-> WorkSpec[s.work].request[x]]
  <1>1. \A s \in S : f[s] \in Int
    BY DefinitionAssumption DEF Reservation, WorkDefinition, Quantities
  <1>2. Usage(S, x) = SumFunctionOnSet(f, S) /\ Usage(R, x) = SumFunctionOnSet(e, R)
    BY DEF Usage, SumFunction
  <1>3. \A s \in R : f[s] = e[s]
    OBVIOUS
  <1>4. f[r] = WorkSpec[r.work].request[x]
    OBVIOUS
  <1> HIDE DEF f, e
  <1>5. SumFunctionOnSet(f, S) = f[r] + SumFunctionOnSet(f, R)
    BY <1>1, SumAdd
  <1>6. SumFunctionOnSet(f, R) = SumFunctionOnSet(e, R)
    BY <1>3, SumSame
  <1>7. QED
    BY <1>2, <1>4, <1>5, <1>6

\* Released reservations never add to the use of a resource.
LEMMA UsageSubset ==
  ASSUME NEW R \in SUBSET Reservation, IsFiniteSet(R), NEW S \in SUBSET R,
         NEW x \in ResourceKind
  PROVE  Usage(S, x) <= Usage(R, x)
  <1> DEFINE f == [r \in R |-> WorkSpec[r.work].request[x]]
             e == [r \in S |-> WorkSpec[r.work].request[x]]
  <1>1. \A r \in R : f[r] \in Nat
    BY DefinitionAssumption DEF Reservation, WorkDefinition, Quantities
  <1>2. Usage(R, x) = SumFunctionOnSet(f, R) /\ Usage(S, x) = SumFunctionOnSet(e, S)
    BY DEF Usage, SumFunction
  <1>3. IsFiniteSet(S) /\ \A r \in S : f[r] = e[r]
    BY FS_Subset
  <1> HIDE DEF f, e
  <1>4. SumFunctionOnSet(f, S) = SumFunctionOnSet(e, S)
    BY <1>3, SumSame
  <1>5. SumFunctionOnSet(f, S) <= SumFunctionOnSet(f, R)
    BY <1>1, SumSubset
  <1>6. QED
    BY <1>2, <1>4, <1>5

\* The limits a set of reservations is held to: of the whole scheduler (capacity
\* c, at most n reservations) or of one worker.
Fits(R, n, c) ==
  /\ Cardinality(R) <= n
  /\ \A x \in ResourceKind : Usage(R, x) <= c[x]

LEMMA FitsSubset ==
  ASSUME NEW R \in SUBSET Reservation, IsFiniteSet(R), NEW S \in SUBSET R,
         NEW n \in Nat, NEW c \in Quantities, Fits(R, n, c)
  PROVE  IsFiniteSet(S) /\ Fits(S, n, c)
  <1>1. IsFiniteSet(S) /\ Cardinality(S) <= Cardinality(R)
    BY FS_Subset
  <1>2. Cardinality(S) \in Nat /\ Cardinality(R) \in Nat
    BY <1>1, FS_CardinalityType
  <1>3. ASSUME NEW x \in ResourceKind
        PROVE  Usage(S, x) <= c[x]
    <2>1. Usage(S, x) <= Usage(R, x)
      BY UsageSubset
    <2>2. Usage(S, x) \in Nat /\ Usage(R, x) \in Nat
      BY <1>1, UsageType
    <2>3. QED
      BY <2>1, <2>2 DEF Fits, Quantities
  <1>4. QED
    BY <1>1, <1>2, <1>3 DEF Fits

\* The room that is tested in the dimensions the work asks for is enough.
LEMMA FitsAdd ==
  ASSUME NEW R \in SUBSET Reservation, IsFiniteSet(R), NEW r \in Reservation, r \notin R,
         NEW n \in Nat, NEW c \in Quantities, Fits(R, n, c),
         Cardinality(R) < n, RoomFor(r.work, R, c)
  PROVE  IsFiniteSet(R \cup {r}) /\ Fits(R \cup {r}, n, c)
  <1>1. IsFiniteSet(R \cup {r}) /\ Cardinality(R \cup {r}) = Cardinality(R) + 1
    BY FS_AddElement
  <1>2. Cardinality(R) \in Nat
    BY FS_CardinalityType
  <1>3. ASSUME NEW x \in ResourceKind
        PROVE  Usage(R \cup {r}, x) <= c[x]
    <2>1. Usage(R \cup {r}, x) = WorkSpec[r.work].request[x] + Usage(R, x)
      BY UsageAdd
    <2>2. Usage(R, x) \in Nat /\ WorkSpec[r.work].request[x] \in Nat
      BY UsageType, DefinitionAssumption DEF Reservation, WorkDefinition, Quantities
    <2>3. Usage(R, x) <= c[x] /\ c[x] \in Nat
      BY DEF Fits, Quantities
    <2>4. WorkSpec[r.work].request[x] > 0 => Usage(R, x) + WorkSpec[r.work].request[x] <= c[x]
      BY DEF RoomFor
    <2>5. QED
      BY <2>1, <2>2, <2>3, <2>4
  <1>4. QED
    BY <1>1, <1>2, <1>3 DEF Fits

\* Marking a reservation as started changes no count.
LEMMA FitsStart ==
  ASSUME NEW R \in SUBSET Reservation, IsFiniteSet(R), NEW r \in R,
         NEW s \in Reservation, s.work = r.work, s \notin R \ {r},
         NEW n \in Nat, NEW c \in Quantities, Fits(R, n, c)
  PROVE  IsFiniteSet((R \ {r}) \cup {s}) /\ Fits((R \ {r}) \cup {s}, n, c)
  <1> DEFINE T == R \ {r}
  <1>1. T \in SUBSET Reservation /\ IsFiniteSet(T) /\ r \notin T /\ T \cup {r} = R
    BY FS_Subset
  <1>2. r \in Reservation
    OBVIOUS
  <1> HIDE DEF T
  <1>3. /\ IsFiniteSet(T \cup {s})
        /\ Cardinality(T \cup {s}) = Cardinality(T) + 1
        /\ Cardinality(T \cup {r}) = Cardinality(T) + 1
    BY <1>1, FS_AddElement DEF T
  <1>4. ASSUME NEW x \in ResourceKind
        PROVE  Usage(T \cup {s}, x) = Usage(R, x)
    <2>1. Usage(T \cup {s}, x) = WorkSpec[s.work].request[x] + Usage(T, x)
      BY <1>1, UsageAdd DEF T
    <2>2. Usage(T \cup {r}, x) = WorkSpec[r.work].request[x] + Usage(T, x)
      BY <1>1, <1>2, UsageAdd
    <2>3. QED
      BY <1>1, <2>1, <2>2
  <1>5. QED
    BY <1>1, <1>3, <1>4 DEF Fits, T

\* The records a command other than admission and dispatch may leave.
Touched(w) ==
  {work[w]} \cup {SetPhase(work[w], p) : p \in WorkPhase \ {"Absent"}}
            \cup {Terminalize(work[w], t) : t \in WorkTerminal}

LEMMA TouchedRecords ==
  ASSUME SchedulerInv, NEW w \in WorkId, NEW record \in Touched(w)
  PROVE  /\ record \in WorkRecord
         /\ record.attempts = work[w].attempts
         /\ record.phase = "Absent" => work[w].phase = "Absent"
  <1>1. work[w] \in WorkRecord
    BY DEF SchedulerInv, TypeOK
  <1>2. CASE record = work[w]
    BY <1>1, <1>2
  <1>3. ASSUME NEW p \in WorkPhase \ {"Absent"}, record = SetPhase(work[w], p)
        PROVE  /\ record \in WorkRecord
               /\ record.attempts = work[w].attempts
               /\ record.phase # "Absent"
    BY <1>1, <1>3, RecordUpdates DEF SetPhase, WorkRecord
  <1>4. ASSUME NEW t \in WorkTerminal, record = Terminalize(work[w], t)
        PROVE  /\ record \in WorkRecord
               /\ record.attempts = work[w].attempts
               /\ record.phase # "Absent"
    BY <1>1, <1>4, RecordUpdates DEF Terminalize, WorkRecord
  <1>5. QED
    BY <1>2, <1>3, <1>4 DEF Touched

\* Workers in service are Busy exactly when their concurrency is used up.
PhasesFresh ==
  \A k \in WorkerId :
    workers'[k] \in {"Available", "Busy"} =>
      (workers'[k] = "Busy" <=>
         Cardinality(WorkerReservations(reservations', k)) >= Descriptor[k].concurrency)

\* The refresh counts no attempt and retains no work of its own.
LEMMA DecideCounts ==
  ASSUME NEW W \in [WorkId -> WorkRecord], NEW R, NEW K, Decide(W, R, K)
  PROVE  /\ reservations' = R
         /\ PhasesFresh
         /\ \A w \in WorkId : /\ work'[w].attempts = W[w].attempts
                              /\ work'[w].phase = "Absent" => W[w].phase = "Absent"
  <1>1. reservations' = R
    BY DEF Decide
  <1>2. PhasesFresh
    BY DEF Decide, RefreshWorkerPhases, PhasesFresh
  <1>3. ASSUME NEW w \in WorkId
        PROVE  /\ work'[w].attempts = W[w].attempts
               /\ work'[w].phase = "Absent" => W[w].phase = "Absent"
    <2>1. W[w] \in WorkRecord
      OBVIOUS
    <2>2. work'[w] \in {W[w], Terminalize(W[w], "DependencyFailed"), SetPhase(W[w], "Queued")}
      BY DEF Decide, PropagateDependencies
    <2>3. QED
      BY <2>1, <2>2 DEF Terminalize, SetPhase, WorkRecord
  <1>4. QED
    BY <1>1, <1>2, <1>3

\* Work that was never admitted was never attempted.
AbsentUntried == \A w \in WorkId : work[w].phase = "Absent" => work[w].attempts = 0

AttemptsKept == /\ usedDispatches' = usedDispatches
                /\ \A w \in WorkId : work'[w].attempts = work[w].attempts

AbsentStays == \A w \in WorkId : work'[w].phase = "Absent" => work[w].phase = "Absent"

\* The three shapes of a step.
Releases == AttemptsKept /\ reservations' \in SUBSET reservations

Starts ==
  /\ AttemptsKept
  /\ \E r \in reservations : reservations' = (reservations \ {r}) \cup {StartReservation(r)}

Dispatches ==
  \E d \in DispatchId, w \in WorkId, k \in WorkerId :
    LET held == WorkerReservations(reservations, k) IN
    /\ DispatchNext(d)
    /\ d \notin usedDispatches /\ usedDispatches' = usedDispatches \cup {d}
    /\ Cardinality(reservations) < ActiveReservations
    /\ work[w].phase = "Queued" /\ RoomFor(w, reservations, Capacity)
    /\ Cardinality(held) < Descriptor[k].concurrency
    /\ RoomFor(w, held, Descriptor[k].capacity)
    /\ reservations' = reservations \cup {[dispatch |-> d, work |-> w, worker |-> k,
                                           attempt |-> work[w].attempts + 1,
                                           started |-> FALSE]}
    /\ work'[w].attempts = work[w].attempts + 1
    /\ \A v \in WorkId \ {w} : work'[v].attempts = work[v].attempts

\* A command that touches work and hands on the reservations R counts nothing.
LEMMA TouchCounts ==
  ASSUME SchedulerInv, NEW W, W = [w \in WorkId |-> W[w]],
         \A w \in WorkId : W[w] \in Touched(w),
         NEW R, NEW K, Decide(W, R, K), usedDispatches' = usedDispatches
  PROVE  reservations' = R /\ AttemptsKept /\ AbsentStays /\ PhasesFresh
  <1>1. \A w \in WorkId : /\ W[w] \in WorkRecord
                          /\ W[w].attempts = work[w].attempts
                          /\ W[w].phase = "Absent" => work[w].phase = "Absent"
    BY TouchedRecords
  <1>2. W \in [WorkId -> WorkRecord]
    BY <1>1
  <1>3. QED
    BY <1>1, <1>2, DecideCounts DEF AttemptsKept, AbsentStays

\* The same for a command that changes the record of one item.
LEMMA TouchOne ==
  ASSUME SchedulerInv, NEW w \in WorkId, NEW record \in Touched(w),
         NEW R, NEW K, Decide([work EXCEPT ![w] = record], R, K),
         usedDispatches' = usedDispatches
  PROVE  reservations' = R /\ AttemptsKept /\ AbsentStays /\ PhasesFresh
  <1> DEFINE W == [work EXCEPT ![w] = record]
  <1>1. W = [v \in WorkId |-> W[v]] /\ \A v \in WorkId : W[v] \in Touched(v)
    BY DEF SchedulerInv, TypeOK, Touched
  <1>2. Decide(W, R, K)
    OBVIOUS
  <1> HIDE DEF W
  <1>3. QED
    BY <1>1, <1>2, TouchCounts

\* Worker and lifecycle commands release reservations at most.
LEMMA WorkerCounts ==
  ASSUME SchedulerInv, \/ \E k \in WorkerId : WorkerCommand(k)
                       \/ LifecycleCommand
  PROVE  Releases /\ AbsentStays /\ PhasesFresh
  <1>1. ASSUME NEW K, Decide(work, reservations, K), usedDispatches' = usedDispatches
        PROVE  Releases /\ AbsentStays /\ PhasesFresh
    <2>1. work = [w \in WorkId |-> work[w]] /\ \A w \in WorkId : work[w] \in Touched(w)
      BY DEF SchedulerInv, TypeOK, Touched
    <2>2. QED
      BY <1>1, <2>1, TouchCounts DEF Releases
  <1>2. CASE LifecycleCommand
    BY <1>1, <1>2 DEF LifecycleCommand, PauseScheduler, ResumeScheduler, DrainScheduler,
                      SetSchedulerPhase, FinalizeScheduler
  <1>3. ASSUME NEW k \in WorkerId, RegisterWorker(k) \/ SetWorkerAvailable(k)
                                   \/ DrainWorker(k) \/ RemoveWorker(k)
        PROVE  Releases /\ AbsentStays /\ PhasesFresh
    BY <1>1, <1>3 DEF RegisterWorker, SetWorkerAvailable, DrainWorker, RemoveWorker
  <1>4. ASSUME NEW k \in WorkerId, LoseWorker(k)
        PROVE  Releases /\ AbsentStays /\ PhasesFresh
    <2> DEFINE lost == WorkerReservations(reservations, k)
               W == [w \in WorkId |-> IF \E r \in lost : r.work = w
                                      THEN AfterLoss(w) ELSE work[w]]
    <2>1. \A w \in WorkId : AfterLoss(w) \in Touched(w)
      BY DEF AfterLoss, Touched, WorkPhase, WaitingPhase, WorkTerminal, Failure
    <2>2. W = [w \in WorkId |-> W[w]] /\ \A w \in WorkId : W[w] \in Touched(w)
      BY <2>1 DEF Touched
    <2>3. /\ Decide(W, reservations \ lost, [workers EXCEPT ![k] = "Lost"])
          /\ usedDispatches' = usedDispatches
      BY <1>4 DEF LoseWorker
    <2> HIDE DEF W, lost
    <2>4. QED
      BY <2>2, <2>3, TouchCounts DEF Releases
  <1>5. QED
    BY <1>2, <1>3, <1>4 DEF WorkerCommand

\* Work commands leave the reservations alone; admitted work is unattempted.
LEMMA WorkCounts ==
  ASSUME SchedulerInv, AbsentUntried, NEW w \in WorkId, WorkCommand(w)
  PROVE  Releases /\ AbsentStays /\ PhasesFresh
  <1>1. CASE AdmitWork(w)
    <2> DEFINE record == [phase |-> IF WorkSpec[w].dependencies = {}
                                    THEN "Queued" ELSE "WaitingDependencies",
                          ordinal |-> enqueueOrdinal + 1, bypasses |-> 0,
                          attempts |-> 0, terminal |-> "None"]
               W == [work EXCEPT ![w] = record]
    <2>1. record \in WorkRecord /\ record.attempts = 0 /\ record.phase # "Absent"
      BY DEF SchedulerInv, TypeOK, WorkRecord, WorkPhase, WaitingPhase, WorkTerminal
    <2>2. Decide(W, reservations, workers) /\ usedDispatches' = usedDispatches
      BY <1>1 DEF AdmitWork
    <2>3. work[w].attempts = 0
      BY <1>1 DEF AdmitWork, Retained, AbsentUntried
    <2> HIDE DEF record
    <2>4. W \in [WorkId -> WorkRecord]
      BY <2>1 DEF SchedulerInv, TypeOK
    <2>5. W[w] = record /\ \A v \in WorkId \ {w} : W[v] = work[v]
      BY DEF SchedulerInv, TypeOK
    <2> HIDE DEF W
    <2>6. QED
      BY <2>1, <2>2, <2>3, <2>4, <2>5, DecideCounts DEF Releases, AttemptsKept, AbsentStays
  <1>2. CASE RetryWork(w)
    <2>1. SetPhase(work[w], "Queued") \in Touched(w)
      BY DEF Touched, WorkPhase, WaitingPhase
    <2>2. QED
      BY <1>2, <2>1, TouchOne DEF RetryWork, Releases
  <1>3. CASE ExhaustWork(w)
    <2>1. Terminalize(work[w], "Exhausted") \in Touched(w)
      BY DEF Touched, WorkTerminal, Failure
    <2>2. QED
      BY <1>3, <2>1, TouchOne DEF ExhaustWork, Releases
  <1>4. ASSUME NEW reached, CancelAll(reached)
        PROVE  Releases /\ AbsentStays /\ PhasesFresh
    <2> DEFINE W == [v \in WorkId |-> IF v \in Affected(reached)
                                      THEN AfterCancel(v) ELSE work[v]]
    <2>1. \A v \in WorkId : AfterCancel(v) \in Touched(v)
      BY DEF AfterCancel, Touched, WorkPhase, OwnedPhase, WorkTerminal, Failure
    <2>2. W = [v \in WorkId |-> W[v]] /\ \A v \in WorkId : W[v] \in Touched(v)
      BY <2>1 DEF Touched
    <2>3. Decide(W, reservations, workers) /\ usedDispatches' = usedDispatches
      BY <1>4 DEF CancelAll
    <2> HIDE DEF W
    <2>4. QED
      BY <2>2, <2>3, TouchCounts DEF Releases
  <1>5. QED
    BY <1>1, <1>2, <1>3, <1>4 DEF WorkCommand, CancelWork, CancelWorkTree

\* Dispatch commands reserve, start or release one reservation.
LEMMA DispatchCounts ==
  ASSUME SchedulerInv, NEW d \in DispatchId, DispatchCommand(d)
  PROVE  (Releases \/ Starts \/ Dispatches) /\ AbsentStays /\ PhasesFresh
  <1>0. \A r \in reservations : r.work \in WorkId
    BY DEF SchedulerInv, TypeOK, Reservation
  <1>1. ASSUME NEW r \in reservations, NEW record \in Touched(r.work), Release(r, record),
               usedDispatches' = usedDispatches
        PROVE  Releases /\ AbsentStays /\ PhasesFresh
    BY <1>0, <1>1, TouchOne DEF Release, Releases
  <1>2. \A w \in WorkId : /\ \A t \in WorkTerminal : Terminalize(work[w], t) \in Touched(w)
                          /\ SetPhase(work[w], "RetryPending") \in Touched(w)
                          /\ SetPhase(work[w], "Running") \in Touched(w)
    BY DEF Touched, WorkPhase, WaitingPhase, OwnedPhase
  <1>3. CASE DispatchNext(d)
    <2>1. PICK w \in WorkId, k \in WorkerId :
            /\ Selected(w)
            /\ FirstFeasibleWorker(w, k)
            /\ Decide([v \in WorkId |-> IF v = w THEN Reserve(work[v])
                                        ELSE IF v \in FeasibleWork THEN Bypassed(work[v])
                                        ELSE work[v]],
                      reservations \cup {[dispatch |-> d, work |-> w, worker |-> k,
                                          attempt |-> work[w].attempts + 1,
                                          started |-> FALSE]},
                      workers)
      BY <1>3 DEF DispatchNext
    <2> DEFINE held == WorkerReservations(reservations, k)
               W == [v \in WorkId |-> IF v = w THEN Reserve(work[v])
                                      ELSE IF v \in FeasibleWork THEN Bypassed(work[v])
                                      ELSE work[v]]
               r == [dispatch |-> d, work |-> w, worker |-> k,
                     attempt |-> work[w].attempts + 1, started |-> FALSE]
    <2>2. /\ d \notin usedDispatches /\ usedDispatches' = usedDispatches \cup {d}
          /\ Cardinality(reservations) < ActiveReservations
      BY <1>3 DEF DispatchNext, FreshDispatch
    <2>3. RoomFor(w, reservations, Capacity) /\ work[w].phase = "Queued"
      BY <2>1 DEF Selected, FeasibleWork, Feasible
    <2>4. /\ Cardinality(held) < Descriptor[k].concurrency
          /\ RoomFor(w, held, Descriptor[k].capacity)
      BY <2>1 DEF FirstFeasibleWorker, FeasibleWorkers, WorkerFeasible
    <2>5. \A v \in WorkId : work[v] \in WorkRecord
      BY DEF SchedulerInv, TypeOK
    <2>6. /\ Reserve(work[w]) \in WorkRecord
          /\ Reserve(work[w]).attempts = work[w].attempts + 1
          /\ Reserve(work[w]).phase # "Absent"
      BY <2>5, RecordUpdates DEF Reserve, WorkRecord
    <2>7. \A v \in WorkId : /\ Bypassed(work[v]) \in WorkRecord
                            /\ Bypassed(work[v]).attempts = work[v].attempts
                            /\ Bypassed(work[v]).phase = work[v].phase
      BY <2>5, RecordUpdates DEF Bypassed, WorkRecord
    <2>8. /\ W \in [WorkId -> WorkRecord]
          /\ W[w].attempts = work[w].attempts + 1 /\ W[w].phase # "Absent"
          /\ \A v \in WorkId \ {w} : /\ W[v].attempts = work[v].attempts
                                     /\ W[v].phase = work[v].phase
      BY <2>5, <2>6, <2>7
    <2>9. Decide(W, reservations \cup {r}, workers)
      BY <2>1
    <2> HIDE DEF W
    <2>10. /\ reservations' = reservations \cup {r}
           /\ PhasesFresh
           /\ \A v \in WorkId : /\ work'[v].attempts = W[v].attempts
                                /\ work'[v].phase = "Absent" => W[v].phase = "Absent"
      BY <2>8, <2>9, DecideCounts
    <2>11. AbsentStays
      BY <2>8, <2>10 DEF AbsentStays
    <2>12. /\ work'[w].attempts = work[w].attempts + 1
           /\ \A v \in WorkId \ {w} : work'[v].attempts = work[v].attempts
      BY <2>8, <2>10
    <2>13. Dispatches
      BY <1>3, <2>2, <2>3, <2>4, <2>10, <2>12 DEF Dispatches
    <2>14. QED
      BY <2>10, <2>11, <2>13
  <1>4. CASE AcknowledgeStart(d)
    <2>1. PICK r \in reservations :
            Decide([work EXCEPT ![r.work] = SetPhase(work[r.work], "Running")],
                   (reservations \ {r}) \cup {StartReservation(r)}, workers)
      BY <1>4 DEF AcknowledgeStart
    <2>2. usedDispatches' = usedDispatches
      BY <1>4 DEF AcknowledgeStart
    <2>3. /\ reservations' = (reservations \ {r}) \cup {StartReservation(r)}
          /\ AttemptsKept /\ AbsentStays /\ PhasesFresh
      BY <1>0, <1>2, <2>1, <2>2, TouchOne
    <2>4. QED
      BY <2>3 DEF Starts
  <1>5. CASE CompleteWork(d)
    BY <1>0, <1>1, <1>2, <1>5 DEF CompleteWork, WorkTerminal
  <1>6. CASE AcknowledgeCancellation(d)
    BY <1>0, <1>1, <1>2, <1>6 DEF AcknowledgeCancellation, WorkTerminal, Failure
  <1>7. CASE AbandonDispatch(d)
    BY <1>0, <1>1, <1>2, <1>7 DEF AbandonDispatch, AbandonedAs, WorkTerminal, Failure
  <1>8. ASSUME NEW disposition \in {"Retryable", "Failed", "Ambiguous"},
               FailWork(d, disposition)
        PROVE  Releases /\ AbsentStays /\ PhasesFresh
    <2>1. \A w \in WorkId : AfterFailure(w, disposition) \in Touched(w)
      BY <1>2 DEF AfterFailure, WorkTerminal, Failure
    <2>2. QED
      BY <1>0, <1>1, <1>8, <2>1 DEF FailWork
  <1>9. QED
    BY <1>3, <1>4, <1>5, <1>6, <1>7, <1>8 DEF DispatchCommand

------------------------------------------------------------------------------
(* The invariant of what is held *)

ConcurrencyOf(k) == Fits(WorkerReservations(reservations, k),
                         Descriptor[k].concurrency, Descriptor[k].capacity)

CapacityInv ==
  /\ IsFiniteSet(reservations)
  /\ Fits(reservations, ActiveReservations, Capacity)
  /\ \A k \in WorkerId : ConcurrencyOf(k)
  /\ WorkerPhaseTruth
  /\ IsFiniteSet(usedDispatches)
  /\ AttemptsAccounted
  /\ AbsentUntried

\* The limits are naturals and quantities.
LEMMA LimitTypes ==
  /\ ActiveReservations \in Nat /\ Capacity \in Quantities
  /\ \A k \in WorkerId : /\ Descriptor[k].concurrency \in Nat
                         /\ Descriptor[k].capacity \in Quantities
  BY LimitAssumption, DefinitionAssumption DEF WorkerDefinition

\* What is held fits after each shape of step.
LEMMA HoldingsFit ==
  ASSUME SchedulerInv, CapacityInv, Releases \/ Starts \/ Dispatches
  PROVE  /\ IsFiniteSet(reservations')
         /\ Fits(reservations', ActiveReservations, Capacity)
         /\ \A k \in WorkerId : ConcurrencyOf(k)'
  <1> DEFINE H(k) == WorkerReservations(reservations, k)
             G(k) == WorkerReservations(reservations', k)
  <1>1. /\ reservations \in SUBSET Reservation /\ IsFiniteSet(reservations)
        /\ Fits(reservations, ActiveReservations, Capacity)
    BY DEF SchedulerInv, TypeOK, CapacityInv
  <1>2. \A k \in WorkerId :
          /\ H(k) \in SUBSET Reservation /\ IsFiniteSet(H(k)) /\ H(k) \in SUBSET reservations
          /\ Fits(H(k), Descriptor[k].concurrency, Descriptor[k].capacity)
    BY <1>1, FS_Subset DEF CapacityInv, ConcurrencyOf, WorkerReservations
  <1>3. \A k \in WorkerId :
          Fits(G(k), Descriptor[k].concurrency, Descriptor[k].capacity) => ConcurrencyOf(k)'
    BY DEF ConcurrencyOf, Fits, Usage
  <1>4. CASE Releases
    <2>1. reservations' \in SUBSET reservations
      BY <1>4 DEF Releases
    <2>2. \A k \in WorkerId : G(k) \in SUBSET H(k)
      BY <2>1 DEF WorkerReservations
    <2> HIDE DEF G, H
    <2>3. \A k \in WorkerId : Fits(G(k), Descriptor[k].concurrency, Descriptor[k].capacity)
      BY <1>2, <2>2, LimitTypes, FitsSubset
    <2>4. QED
      BY <1>1, <1>3, <2>1, <2>3, LimitTypes, FitsSubset
  <1>5. CASE Starts
    <2>1. PICK r \in reservations :
            reservations' = (reservations \ {r}) \cup {StartReservation(r)}
      BY <1>5 DEF Starts
    <2> DEFINE s == StartReservation(r)
    <2>2. /\ s \in Reservation /\ s.work = r.work /\ s.worker = r.worker
          /\ s.dispatch = r.dispatch
      BY <1>1 DEF StartReservation, Reservation
    <2> HIDE DEF s
    <2>3. s \notin reservations \ {r}
      BY <2>2 DEF SchedulerInv, UniqueDispatchOwnership
    <2>4. reservations' = (reservations \ {r}) \cup {s}
      BY <2>1 DEF s
    <2>5. IsFiniteSet(reservations') /\ Fits(reservations', ActiveReservations, Capacity)
      BY <1>1, <2>2, <2>3, <2>4, LimitTypes, FitsStart
    <2>6. ASSUME NEW k \in WorkerId
          PROVE  Fits(G(k), Descriptor[k].concurrency, Descriptor[k].capacity)
      <3>1. CASE r.worker = k
        <4>1. r \in H(k) /\ G(k) = (H(k) \ {r}) \cup {s} /\ s \notin H(k) \ {r}
          BY <2>2, <2>3, <2>4, <3>1 DEF WorkerReservations
        <4>2. /\ H(k) \in SUBSET Reservation /\ IsFiniteSet(H(k))
              /\ Fits(H(k), Descriptor[k].concurrency, Descriptor[k].capacity)
          BY <1>2
        <4>3. Descriptor[k].concurrency \in Nat /\ Descriptor[k].capacity \in Quantities
          BY LimitTypes
        <4>4. s.work = r.work /\ s \in Reservation
          BY <2>2
        <4> HIDE DEF G, H
        <4>5. Fits((H(k) \ {r}) \cup {s}, Descriptor[k].concurrency, Descriptor[k].capacity)
          BY <4>1, <4>2, <4>3, <4>4, FitsStart
        <4>6. QED
          BY <4>1, <4>5
      <3>2. CASE r.worker # k
        <4>1. G(k) = H(k)
          BY <2>2, <2>4, <3>2 DEF WorkerReservations
        <4>2. QED
          BY <1>2, <4>1
      <3>3. QED
        BY <3>1, <3>2
    <2>7. QED
      BY <1>3, <2>5, <2>6
  <1>6. CASE Dispatches
    <2>1. PICK d \in DispatchId, w \in WorkId, k \in WorkerId :
            /\ d \notin usedDispatches
            /\ Cardinality(reservations) < ActiveReservations
            /\ RoomFor(w, reservations, Capacity)
            /\ Cardinality(H(k)) < Descriptor[k].concurrency
            /\ RoomFor(w, H(k), Descriptor[k].capacity)
            /\ reservations' = reservations \cup {[dispatch |-> d, work |-> w, worker |-> k,
                                                   attempt |-> work[w].attempts + 1,
                                                   started |-> FALSE]}
      BY <1>6 DEF Dispatches
    <2> DEFINE r == [dispatch |-> d, work |-> w, worker |-> k,
                     attempt |-> work[w].attempts + 1, started |-> FALSE]
    <2>2. work[w].attempts + 1 \in Nat
      BY DEF SchedulerInv, TypeOK, WorkRecord
    <2>3. r \in Reservation /\ r.work = w /\ r.worker = k /\ r.dispatch = d
      BY <2>2 DEF Reservation
    <2>4. r \notin reservations
      BY <2>1, <2>3 DEF SchedulerInv, UniqueDispatchOwnership
    <2>5. reservations' = reservations \cup {r}
      BY <2>1
    <2> HIDE DEF r
    <2>6. IsFiniteSet(reservations') /\ Fits(reservations', ActiveReservations, Capacity)
      BY <1>1, <2>1, <2>3, <2>4, <2>5, LimitTypes, FitsAdd
    <2>7. ASSUME NEW j \in WorkerId
          PROVE  Fits(G(j), Descriptor[j].concurrency, Descriptor[j].capacity)
      <3>1. CASE j = k
        <4>1. G(k) = H(k) \cup {r} /\ r \notin H(k)
          BY <2>3, <2>4, <2>5 DEF WorkerReservations
        <4>2. /\ H(k) \in SUBSET Reservation /\ IsFiniteSet(H(k))
              /\ Fits(H(k), Descriptor[k].concurrency, Descriptor[k].capacity)
          BY <1>2
        <4>3. Descriptor[k].concurrency \in Nat /\ Descriptor[k].capacity \in Quantities
          BY LimitTypes
        <4>4. /\ Cardinality(H(k)) < Descriptor[k].concurrency /\ r \in Reservation
              /\ RoomFor(r.work, H(k), Descriptor[k].capacity)
          BY <2>1, <2>3
        <4> HIDE DEF G, H
        <4>5. Fits(H(k) \cup {r}, Descriptor[k].concurrency, Descriptor[k].capacity)
          BY <4>1, <4>2, <4>3, <4>4, FitsAdd
        <4>6. QED
          BY <3>1, <4>1, <4>5
      <3>2. CASE j # k
        <4>1. G(j) = H(j)
          BY <2>3, <2>5, <3>2 DEF WorkerReservations
        <4>2. QED
          BY <1>2, <4>1
      <3>3. QED
        BY <3>1, <3>2
    <2>8. QED
      BY <1>3, <2>6, <2>7
  <1>7. QED
    BY <1>4, <1>5, <1>6

\* Attempts and used identities grow together.
LEMMA AttemptsGrow ==
  ASSUME SchedulerInv, CapacityInv, Releases \/ Starts \/ Dispatches
  PROVE  IsFiniteSet(usedDispatches') /\ AttemptsAccounted'
  <1> DEFINE f == [w \in WorkId |-> work[w].attempts]
             e == [w \in WorkId |-> work'[w].attempts]
  <1>1. IsFiniteSet(WorkId) /\ IsFiniteSet(usedDispatches)
    BY IdentityAssumption DEF CapacityInv
  <1>2. SumFunctionOnSet(f, WorkId) = Cardinality(usedDispatches)
    BY DEF CapacityInv, AttemptsAccounted, SumFunction
  <1>3. AttemptsAccounted' <=> SumFunctionOnSet(e, WorkId) = Cardinality(usedDispatches')
    BY DEF AttemptsAccounted, SumFunction
  <1>4. \A w \in WorkId : f[w] = work[w].attempts /\ f[w] \in Int
    BY DEF SchedulerInv, TypeOK, WorkRecord
  <1>5. \A w \in WorkId : e[w] = work'[w].attempts
    OBVIOUS
  <1> HIDE DEF f, e
  <1>6. CASE Releases \/ Starts
    <2>1. usedDispatches' = usedDispatches /\ \A w \in WorkId : f[w] = e[w]
      BY <1>4, <1>5, <1>6 DEF Releases, Starts, AttemptsKept
    <2>2. SumFunctionOnSet(f, WorkId) = SumFunctionOnSet(e, WorkId)
      BY <1>1, <2>1, SumSame
    <2>3. QED
      BY <1>1, <1>2, <1>3, <2>1, <2>2
  <1>7. CASE Dispatches
    <2>1. PICK d \in DispatchId, w \in WorkId :
            /\ d \notin usedDispatches /\ usedDispatches' = usedDispatches \cup {d}
            /\ work'[w].attempts = work[w].attempts + 1
            /\ \A v \in WorkId \ {w} : work'[v].attempts = work[v].attempts
      BY <1>7 DEF Dispatches
    <2>2. e[w] = f[w] + 1 /\ \A v \in WorkId \ {w} : e[v] = f[v]
      BY <1>4, <1>5, <2>1
    <2>3. \A v \in WorkId : f[v] \in Int /\ e[v] \in Int
      BY <1>4, <2>2
    <2>4. SumFunctionOnSet(e, WorkId) = SumFunctionOnSet(f, WorkId) - f[w] + e[w]
      BY <1>1, <2>2, <2>3, SumChange
    <2>5. /\ IsFiniteSet(usedDispatches')
          /\ Cardinality(usedDispatches') = Cardinality(usedDispatches) + 1
      BY <1>1, <2>1, FS_AddElement
    <2>6. Cardinality(usedDispatches) \in Nat
      BY <1>1, FS_CardinalityType
    <2>7. QED
      BY <1>2, <1>3, <2>2, <2>3, <2>4, <2>5, <2>6
  <1>8. QED
    BY <1>6, <1>7

\* Every step keeps what is held within its limits.
LEMMA StepCapacity ==
  ASSUME SchedulerInv, CapacityInv, [Next]_vars
  PROVE  CapacityInv'
  <1>1. CASE Next
    <2>1. (Releases \/ Starts \/ Dispatches) /\ AbsentStays /\ PhasesFresh
      BY <1>1, WorkerCounts, WorkCounts, DispatchCounts DEF Next, CapacityInv
    <2>2. /\ IsFiniteSet(reservations')
          /\ Fits(reservations', ActiveReservations, Capacity)
          /\ \A k \in WorkerId : ConcurrencyOf(k)'
      BY <2>1, HoldingsFit
    <2>3. IsFiniteSet(usedDispatches') /\ AttemptsAccounted'
      BY <2>1, AttemptsGrow
    <2>4. AbsentUntried'
      <3>1. CASE Releases \/ Starts
        BY <2>1, <3>1 DEF Releases, Starts, AttemptsKept, AbsentStays, CapacityInv,
                          AbsentUntried
      <3>2. CASE Dispatches
        <4>1. PICK w \in WorkId : /\ work[w].phase # "Absent"
                                  /\ \A v \in WorkId \ {w} :
                                       work'[v].attempts = work[v].attempts
          BY <3>2 DEF Dispatches
        <4>2. QED
          BY <2>1, <4>1 DEF AbsentStays, CapacityInv, AbsentUntried
      <3>3. QED
        BY <2>1, <3>1, <3>2
    <2>5. WorkerPhaseTruth'
      <3> SUFFICES ASSUME NEW k \in WorkerId
                   PROVE  LET held == WorkerReservations(reservations', k) IN
                          /\ workers'[k] = "Available" =>
                               Cardinality(held) < Descriptor[k].concurrency
                          /\ workers'[k] = "Busy" =>
                               Cardinality(held) = Descriptor[k].concurrency
        BY DEF WorkerPhaseTruth, WorkerReservations
      <3> DEFINE held == WorkerReservations(reservations', k)
      <3>1. IsFiniteSet(held)
        BY <2>2, FS_Subset DEF WorkerReservations
      <3>2. Cardinality(held) \in Nat /\ Cardinality(held) <= Descriptor[k].concurrency
        BY <2>2, <3>1, FS_CardinalityType DEF ConcurrencyOf, Fits, WorkerReservations
      <3>3. Descriptor[k].concurrency \in Nat
        BY LimitTypes
      <3>4. workers'[k] \in {"Available", "Busy"} =>
              (workers'[k] = "Busy" <=> Cardinality(held) >= Descriptor[k].concurrency)
        BY <2>1 DEF PhasesFresh
      <3> HIDE DEF held
      <3>5. QED
        BY <3>2, <3>3, <3>4 DEF held
    <2>6. QED
      BY <2>2, <2>3, <2>4, <2>5 DEF CapacityInv
  <1>2. CASE UNCHANGED vars
    BY <1>2 DEF vars, CapacityInv, ConcurrencyOf, Fits, Usage, WorkerReservations,
                WorkerPhaseTruth, AttemptsAccounted, AbsentUntried
  <1>3. QED
    BY <1>1, <1>2

\* Nothing is held at first.
LEMMA InitCapacity == Init => CapacityInv
  <1> SUFFICES ASSUME Init
               PROVE  CapacityInv
    OBVIOUS
  <1>1. reservations = {} /\ usedDispatches = {}
    BY DEF Init
  <1>2. IsFiniteSet({}) /\ Cardinality({}) = 0
    BY FS_EmptySet
  <1>3. \A k \in WorkerId : WorkerReservations({}, k) = {}
    BY DEF WorkerReservations
  <1>4. \A x \in ResourceKind : Usage({}, x) = 0
    <2> SUFFICES ASSUME NEW x \in ResourceKind
                 PROVE  Usage({}, x) = 0
      OBVIOUS
    <2> DEFINE f == [r \in {} |-> WorkSpec[r.work].request[x]]
    <2>1. Usage({}, x) = SumFunctionOnSet(f, {})
      BY DEF Usage, SumFunction
    <2> HIDE DEF f
    <2>2. QED
      BY <2>1, SumEmpty
  <1>5. \A n \in Nat, c \in Quantities : Fits({}, n, c)
    BY <1>2, <1>4 DEF Fits, Quantities
  <1>6. Fits(reservations, ActiveReservations, Capacity)
    BY <1>1, <1>5, LimitTypes
  <1>7. \A k \in WorkerId : ConcurrencyOf(k)
    BY <1>1, <1>3, <1>5, LimitTypes DEF ConcurrencyOf
  <1>8. WorkerPhaseTruth
    BY DEF Init, WorkerPhaseTruth
  <1>9. AttemptsAccounted
    <2> DEFINE f == [w \in WorkId |-> work[w].attempts]
               e == [w \in WorkId |-> 0]
    <2>1. AttemptsAccounted <=> SumFunctionOnSet(f, WorkId) = Cardinality(usedDispatches)
      BY DEF AttemptsAccounted, SumFunction
    <2>2. f = e
      BY DEF Init
    <2>3. \A w \in WorkId : e[w] = 0
      OBVIOUS
    <2> HIDE DEF f, e
    <2>4. SumFunctionOnSet(e, WorkId) = 0
      BY <2>3, IdentityAssumption, SumZero
    <2>5. QED
      BY <1>1, <1>2, <2>1, <2>2, <2>4
  <1>10. AbsentUntried
    BY DEF Init, AbsentUntried
  <1>11. QED
    BY <1>1, <1>2, <1>6, <1>7, <1>8, <1>9, <1>10 DEF CapacityInv

\* Whatever is lost, drained, retried or cancelled, live dispatches fit the global
\* capacity and the capacity and concurrency of their workers, the worker phases
\* tell how much is held, and every attempt has its own dispatch identity.
THEOREM CapacityTruthful == Spec => []CapacityTruth
  <1>1. SchedulerInv /\ CapacityInv /\ [Next]_vars => CapacityInv'
    BY StepCapacity
  <1>2. CapacityInv => CapacityTruth
    BY DEF CapacityInv, CapacityTruth, ReservationsFit, ConcurrencyOf, Fits
  <1>3. QED
    BY InitCapacity, <1>1, <1>2, Invariance, PTL DEF Spec

------------------------------------------------------------------------------
(* What no step undoes *)

\* The shape of every step, from the lemmas about the commands.
LEMMA StepCounts ==
  ASSUME SchedulerInv, CapacityInv, Next
  PROVE  (Releases \/ Starts \/ Dispatches) /\ AbsentStays /\ PhasesFresh
  BY WorkerCounts, WorkCounts, DispatchCounts DEF Next, CapacityInv

\* A released dispatch leaves its work queued, waiting for a retry, or ended; a
\* new reservation has a new identity.
LEMMA StepReleases ==
  ASSUME SchedulerInv, CapacityInv, Next
  PROVE  /\ \A r \in reservations :
              (~ \E s \in reservations' : s.dispatch = r.dispatch) =>
                work'[r.work].phase \in {"Queued", "RetryPending", "Terminal"}
         /\ \A s \in reservations' :
              (~ \E r \in reservations : r.dispatch = s.dispatch) =>
                s.dispatch \notin usedDispatches
  <1>1. (Releases \/ Starts \/ Dispatches) /\ AbsentStays
    BY StepCounts
  <1>2. SchedulerInv'
    BY StepInv
  <1>3. \A r \in reservations : r \in Reservation /\ r.work \in WorkId
    BY DEF SchedulerInv, TypeOK, Reservation
  <1>4. \A r \in reservations : StartReservation(r).dispatch = r.dispatch
    BY <1>3 DEF StartReservation, Reservation
  <1>5. \A s \in reservations' :
          (~ \E r \in reservations : r.dispatch = s.dispatch) =>
            s.dispatch \notin usedDispatches
    BY <1>1, <1>4 DEF Releases, Starts, Dispatches
  <1>6. ASSUME NEW r \in reservations, ~ \E s \in reservations' : s.dispatch = r.dispatch
        PROVE  work'[r.work].phase \in {"Queued", "RetryPending", "Terminal"}
    <2>1. reservations' \in SUBSET reservations
      <3>1. ~Starts
        BY <1>4, <1>6 DEF Starts
      <3>2. ~Dispatches
        BY <1>6 DEF Dispatches
      <3>3. QED
        BY <1>1, <3>1, <3>2 DEF Releases
    <2>2. ~ \E s \in reservations' : s.work = r.work
      BY <1>6, <2>1 DEF SchedulerInv, UniqueDispatchOwnership
    <2>3. work'[r.work].phase \notin OwnedPhase
      BY <1>2, <1>3, <2>2 DEF SchedulerInv, UniqueDispatchOwnership, Owned
    <2>4. work[r.work].phase \in OwnedPhase
      BY <1>3 DEF SchedulerInv, UniqueDispatchOwnership, Owned
    <2>5. work'[r.work].phase # "Absent"
      BY <1>1, <1>3, <2>4 DEF AbsentStays, OwnedPhase
    <2>6. work'[r.work].phase # "WaitingDependencies"
      <3>1. r.work \in Retained /\ WorkSpec[r.work].dependencies \subseteq WorkId
        BY <1>3, <2>4, DefinitionAssumption DEF Retained, OwnedPhase, WorkDefinition
      <3>2. DependenciesSucceeded(work, r.work)
        BY <2>4, <3>1 DEF SchedulerInv, DependencyTruth
      <3>3. \A d \in WorkId : work[d].terminal = "Succeeded" => work'[d] = work[d]
        BY StepInv DEF SchedulerInv, OutcomeOf
      <3>4. DependenciesSucceeded(work', r.work)
        BY <3>1, <3>2, <3>3 DEF DependenciesSucceeded
      <3>5. QED
        BY <1>2, <1>3, <3>4 DEF SchedulerInv, DependencyTruth, Retained
    <2>7. work'[r.work].phase \in WorkPhase
      BY <1>2, <1>3 DEF SchedulerInv, TypeOK, WorkRecord
    <2>8. QED
      BY <2>3, <2>5, <2>6, <2>7 DEF WorkPhase, WaitingPhase, OwnedPhase
  <1>7. QED
    BY <1>5, <1>6

\* Cancelling work of a started dispatch in the record W: still Cancelling, or
\* ended as Cancelled.
CancelKept(W) ==
  \A r \in reservations :
    r.started /\ work[r.work].phase = "Cancelling" =>
      \/ W[r.work].phase = "Cancelling"
      \/ W[r.work].phase = "Terminal" /\ W[r.work].terminal = "Cancelled"

CancellationKept ==
  \A r \in reservations :
    r.started /\ work[r.work].phase = "Cancelling" =>
      work'[r.work].phase = "Cancelling" \/ work'[r.work].terminal = "Cancelled"

\* The refresh touches neither Cancelling nor ended work.
LEMMA RefreshKeepsCancellation ==
  ASSUME SchedulerInv, NEW W, NEW R, NEW K, CancelKept(W), Decide(W, R, K)
  PROVE  CancellationKept
  <1>1. \A r \in reservations : r.work \in WorkId
    BY DEF SchedulerInv, TypeOK, Reservation
  <1>2. \A w \in WorkId : W[w].phase \notin {"WaitingDependencies", "Queued"} =>
                            work'[w] = W[w]
    BY DEF Decide, PropagateDependencies, DependencyFailures, Pending
  <1>3. QED
    BY <1>1, <1>2 DEF CancelKept, CancellationKept

\* A command that changes the record of one item, and cancels it if it is
\* Cancelling and its dispatch started, keeps cancellations.
LEMMA OneKeepsCancellation ==
  ASSUME SchedulerInv, NEW w \in WorkId, NEW record, NEW R, NEW K,
         Decide([work EXCEPT ![w] = record], R, K),
         \/ work[w].phase # "Cancelling"
         \/ record.phase = "Terminal" /\ record.terminal = "Cancelled"
         \/ \A r \in reservations : r.work = w => ~r.started
  PROVE  CancellationKept
  <1> DEFINE W == [work EXCEPT ![w] = record]
  <1>1. W[w] = record /\ \A v \in WorkId \ {w} : W[v] = work[v]
    BY DEF SchedulerInv, TypeOK
  <1>2. \A r \in reservations : r.work \in WorkId
    BY DEF SchedulerInv, TypeOK, Reservation
  <1> HIDE DEF W
  <1>3. CancelKept(W)
    BY <1>1, <1>2 DEF CancelKept
  <1>4. QED
    BY <1>3, RefreshKeepsCancellation DEF W

LEMMA StepKeepsCancellation ==
  ASSUME SchedulerInv, Next
  PROVE  CancellationKept
  <1>1. \A w \in WorkId : work[w] \in WorkRecord
    BY DEF SchedulerInv, TypeOK
  <1>2. \A r \in reservations : r.work \in WorkId
    BY DEF SchedulerInv, TypeOK, Reservation
  <1>3. \A w \in WorkId : Terminalize(work[w], "Cancelled").phase = "Terminal"
                          /\ Terminalize(work[w], "Cancelled").terminal = "Cancelled"
    BY <1>1 DEF Terminalize, WorkRecord
  <1>4. ASSUME NEW K, Decide(work, reservations, K)
        PROVE  CancellationKept
    BY <1>4, RefreshKeepsCancellation DEF CancelKept
  <1>5. ASSUME NEW k \in WorkerId, WorkerCommand(k)
        PROVE  CancellationKept
    <2>1. CASE LoseWorker(k)
      <3> DEFINE lost == WorkerReservations(reservations, k)
                 W == [w \in WorkId |-> IF \E r \in lost : r.work = w
                                        THEN AfterLoss(w) ELSE work[w]]
      <3>1. \A w \in WorkId : work[w].phase = "Cancelling" =>
                                AfterLoss(w) = Terminalize(work[w], "Cancelled")
        BY DEF AfterLoss
      <3>2. CancelKept(W)
        BY <1>2, <1>3, <3>1 DEF CancelKept
      <3>3. Decide(W, reservations \ lost, [workers EXCEPT ![k] = "Lost"])
        BY <2>1 DEF LoseWorker
      <3> HIDE DEF W, lost
      <3>4. QED
        BY <3>2, <3>3, RefreshKeepsCancellation
    <2>2. QED
      BY <1>4, <1>5, <2>1 DEF WorkerCommand, RegisterWorker, SetWorkerAvailable, DrainWorker,
                              RemoveWorker
  <1>6. ASSUME NEW w \in WorkId, WorkCommand(w)
        PROVE  CancellationKept
    <2>1. CASE AdmitWork(w)
      <3>1. work[w].phase # "Cancelling"
        BY <2>1 DEF AdmitWork, Retained
      <3>2. QED
        BY <2>1, <3>1, OneKeepsCancellation DEF AdmitWork
    <2>2. CASE RetryWork(w)
      BY <2>2, OneKeepsCancellation DEF RetryWork
    <2>3. CASE ExhaustWork(w)
      <3>1. work[w].phase # "Cancelling"
        BY <2>3 DEF ExhaustWork, WaitingPhase
      <3>2. QED
        BY <2>3, <3>1, OneKeepsCancellation DEF ExhaustWork
    <2>4. ASSUME NEW reached, CancelAll(reached)
          PROVE  CancellationKept
      <3> DEFINE W == [v \in WorkId |-> IF v \in Affected(reached)
                                        THEN AfterCancel(v) ELSE work[v]]
      <3>1. \A v \in WorkId : AfterCancel(v).phase = "Cancelling"
                              \/ /\ AfterCancel(v).phase = "Terminal"
                                 /\ AfterCancel(v).terminal = "Cancelled"
        BY <1>1, <1>3 DEF AfterCancel, SetPhase, WorkRecord
      <3>2. CancelKept(W)
        BY <1>2, <3>1 DEF CancelKept
      <3>3. Decide(W, reservations, workers)
        BY <2>4 DEF CancelAll
      <3> HIDE DEF W
      <3>4. QED
        BY <3>2, <3>3, RefreshKeepsCancellation
    <2>5. QED
      BY <1>6, <2>1, <2>2, <2>3, <2>4 DEF WorkCommand, CancelWork, CancelWorkTree
  <1>7. ASSUME NEW d \in DispatchId, DispatchCommand(d)
        PROVE  CancellationKept
    <2>1. CASE DispatchNext(d)
      <3>1. PICK w, R :
              /\ w \in WorkId
              /\ Selected(w)
              /\ Decide([v \in WorkId |-> IF v = w THEN Reserve(work[v])
                                          ELSE IF v \in FeasibleWork THEN Bypassed(work[v])
                                          ELSE work[v]], R, workers)
        BY <2>1 DEF DispatchNext
      <3> DEFINE W == [v \in WorkId |-> IF v = w THEN Reserve(work[v])
                                        ELSE IF v \in FeasibleWork THEN Bypassed(work[v])
                                        ELSE work[v]]
      <3>2. work[w].phase = "Queued" /\ \A v \in FeasibleWork : work[v].phase = "Queued"
        BY <3>1 DEF Selected, FeasibleWork, Feasible
      <3>3. CancelKept(W)
        BY <1>2, <3>2 DEF CancelKept
      <3> HIDE DEF W
      <3>4. QED
        BY <3>1, <3>3, RefreshKeepsCancellation DEF W
    <2>2. CASE AcknowledgeStart(d)
      <3>1. PICK r, R :
              /\ r \in reservations
              /\ ~r.started
              /\ Decide([work EXCEPT ![r.work] = SetPhase(work[r.work], "Running")], R, workers)
        BY <2>2 DEF AcknowledgeStart
      <3>2. \A s \in reservations : s.work = r.work => ~s.started
        BY <3>1 DEF SchedulerInv, UniqueDispatchOwnership
      <3>3. QED
        BY <1>2, <3>1, <3>2, OneKeepsCancellation
    <2>3. CASE CompleteWork(d)
      <3>1. PICK r \in reservations : /\ work[r.work].phase = "Running"
                                      /\ Release(r, Terminalize(work[r.work], "Succeeded"))
        BY <2>3 DEF CompleteWork
      <3>2. QED
        BY <1>2, <3>1, OneKeepsCancellation DEF Release
    <2>4. ASSUME NEW disposition, FailWork(d, disposition)
          PROVE  CancellationKept
      <3>1. PICK r \in reservations : /\ work[r.work].phase \in {"Reserved", "Running"}
                                      /\ Release(r, AfterFailure(r.work, disposition))
        BY <2>4 DEF FailWork
      <3>2. QED
        BY <1>2, <3>1, OneKeepsCancellation DEF Release
    <2>5. CASE AcknowledgeCancellation(d)
      <3>1. PICK r \in reservations : Release(r, Terminalize(work[r.work], "Cancelled"))
        BY <2>5 DEF AcknowledgeCancellation
      <3>2. QED
        BY <1>2, <1>3, <3>1, OneKeepsCancellation DEF Release
    <2>6. CASE AbandonDispatch(d)
      <3>1. PICK r \in reservations : Release(r, Terminalize(work[r.work], AbandonedAs(r.work)))
        BY <2>6 DEF AbandonDispatch
      <3>2. CASE work[r.work].phase = "Cancelling"
        BY <1>2, <1>3, <3>1, <3>2, OneKeepsCancellation DEF Release, AbandonedAs
      <3>3. CASE work[r.work].phase # "Cancelling"
        BY <1>2, <3>1, <3>3, OneKeepsCancellation DEF Release
      <3>4. QED
        BY <3>2, <3>3
    <2>7. QED
      BY <1>7, <2>1, <2>2, <2>3, <2>4, <2>5, <2>6 DEF DispatchCommand
  <1>8. CASE LifecycleCommand
    BY <1>4, <1>8 DEF LifecycleCommand, PauseScheduler, ResumeScheduler, DrainScheduler,
                      SetSchedulerPhase, FinalizeScheduler
  <1>9. QED
    BY <1>5, <1>6, <1>7, <1>8 DEF Next

\* Outcomes stay, a started cancellation ends as one, and a dispatch is released
\* once, whichever acknowledgement, loss or abandonment comes first.
THEOREM NothingIsUndone == Spec => NothingUndone
  <1>1. SchedulerInv /\ CapacityInv /\ [Next]_vars => CapacityInv'
    BY StepCapacity
  <1>2. SchedulerInv /\ CapacityInv /\ [Next]_vars =>
          [\A r \in reservations :
             r.started /\ work[r.work].phase = "Cancelling" =>
               work'[r.work].phase = "Cancelling" \/ work'[r.work].terminal = "Cancelled"]_vars
    BY StepKeepsCancellation DEF CancellationKept
  <1>3. SchedulerInv /\ CapacityInv /\ [Next]_vars =>
          [/\ \A r \in reservations :
                (~ \E s \in reservations' : s.dispatch = r.dispatch) =>
                  work'[r.work].phase \in {"Queued", "RetryPending", "Terminal"}
           /\ \A s \in reservations' :
                (~ \E r \in reservations : r.dispatch = s.dispatch) =>
                  s.dispatch \notin usedDispatches]_vars
    BY StepReleases
  <1>4. Spec => StartedCancellationSticks
    BY InitCapacity, <1>1, <1>2, Invariance, PTL DEF Spec, StartedCancellationSticks
  <1>5. Spec => ReleasedOnce
    BY InitCapacity, <1>1, <1>3, Invariance, PTL DEF Spec, ReleasedOnce
  <1>6. QED
    BY <1>4, <1>5, FinalOutcomes DEF NothingUndone

\* The dispatch of v counts every other feasible item it passes over, unless that
\* item's count is full: then v's own count is.
LEMMA StepForcesAged ==
  ASSUME SchedulerInv, CapacityInv, Next,
         NEW v \in WorkId, work[v].phase = "Queued", work'[v].phase = "Reserved",
         NEW w \in FeasibleWork \ {v}
  PROVE  IF Aged(w) THEN Aged(v) ELSE work'[w].bypasses = work[w].bypasses + 1
  <1>1. SchedulerInv'
    BY StepInv
  <1>2. \A r \in reservations : r \in Reservation /\ r.work # v
    BY DEF SchedulerInv, TypeOK, UniqueDispatchOwnership, Owned, OwnedPhase
  <1>3. \E s \in reservations' : s.work = v
    BY <1>1 DEF SchedulerInv, UniqueDispatchOwnership, Owned, OwnedPhase
  <1>4. ~Releases /\ ~Starts
    BY <1>2, <1>3 DEF Releases, Starts, StartReservation, Reservation
  <1>5. PICK d \in DispatchId : DispatchNext(d)
    BY <1>4, StepCounts DEF Dispatches
  <1>6. PICK u \in WorkId, k \in WorkerId :
          /\ Selected(u)
          /\ Decide([z \in WorkId |-> IF z = u THEN Reserve(work[z])
                                      ELSE IF z \in FeasibleWork THEN Bypassed(work[z])
                                      ELSE work[z]],
                    reservations \cup {[dispatch |-> d, work |-> u, worker |-> k,
                                        attempt |-> work[u].attempts + 1,
                                        started |-> FALSE]},
                    workers)
    BY <1>5 DEF DispatchNext
  <1>7. u = v
    <2>1. reservations' = reservations \cup {[dispatch |-> d, work |-> u, worker |-> k,
                                              attempt |-> work[u].attempts + 1,
                                              started |-> FALSE]}
      BY <1>6 DEF Decide
    <2>2. QED
      BY <1>2, <1>3, <2>1
  <1>8. CandidatePrecedes(v, w)
    BY <1>6, <1>7 DEF Selected
  <1>9. Aged(w) => Aged(v)
    BY <1>8 DEF CandidatePrecedes
  <1>10. ASSUME ~Aged(w)
         PROVE  work'[w].bypasses = work[w].bypasses + 1
    <2> DEFINE W == [z \in WorkId |-> IF z = u THEN Reserve(work[z])
                                      ELSE IF z \in FeasibleWork THEN Bypassed(work[z])
                                      ELSE work[z]]
    <2>1. w \in WorkId /\ w # u /\ work[w] \in WorkRecord
      BY <1>7 DEF FeasibleWork, SchedulerInv, TypeOK
    <2>2. W[w] = Bypassed(work[w])
      BY <2>1
    <2>3. BypassCount \in Nat
      BY LimitAssumption
    <2>4. Bypassed(work[w]) \in WorkRecord
          /\ Bypassed(work[w]).bypasses = work[w].bypasses + 1
      BY <1>10, <2>1, <2>3, RecordUpdates DEF Bypassed, WorkRecord, Aged
    <2>5. work'[w] \in {W[w], Terminalize(W[w], "DependencyFailed"), SetPhase(W[w], "Queued")}
      BY <1>6, <2>1 DEF Decide, PropagateDependencies
    <2> HIDE DEF W
    <2>6. QED
      BY <2>2, <2>4, <2>5 DEF Terminalize, SetPhase, WorkRecord
  <1>11. QED
    BY <1>9, <1>10

\* Feasible work is passed over at most BypassCount times by work that has not
\* waited as long itself.
THEOREM AgedWorkFirst == Spec => AgedWorkForcedAhead
  <1>1. SchedulerInv /\ CapacityInv /\ [Next]_vars => CapacityInv'
    BY StepCapacity
  <1>2. SchedulerInv /\ CapacityInv /\ [Next]_vars =>
          [\A v \in WorkId :
             work[v].phase = "Queued" /\ work'[v].phase = "Reserved" =>
               \A w \in FeasibleWork \ {v} :
                 IF Aged(w) THEN Aged(v)
                 ELSE work'[w].bypasses = work[w].bypasses + 1]_vars
    BY StepForcesAged
  <1>3. QED
    BY InitCapacity, <1>1, <1>2, Invariance, PTL DEF Spec, AgedWorkForcedAhead

------------------------------------------------------------------------------
(***************************************************************************)
(* The session never reuses a stale replay, never appends to a state other  *)
(* than the one it decided on, and no command takes effect twice, for any   *)
(* number of aggregates, commands and writers.  The invariant says what an  *)
(* observation in flight is worth: no observation is from the future, and   *)
(* while one is current the state read under it is still the durable one.   *)
(***************************************************************************)

\* data_version only grows.
NotFromFuture ==
  /\ \A c \in cached : c.observation.version <= dataVersion
  /\ \A o \in observed : o.version <= dataVersion

\* The replay a command is decided on is that of its run.
LoadedRun == step = "Decide" => \A c \in cached : c.run = command.run

\* Until the append, a current observation vouches for the decided state.
DecidedTruth ==
  step \in {"Resolve", "Append"} =>
    /\ decided = command.expected
    /\ \A o \in observed : Current(o) => decided = history[command.run]

\* After the append, it vouches for the successor as long as nobody else commits.
InstallTruth ==
  step = "Install" =>
    \A o \in observed : o.version = dataVersion =>
      history[command.run] = Append(decided, command.id)

SessionInv ==
  SessionTypeOK /\ LoadedRun /\ NotFromFuture /\ DecidedTruth /\ InstallTruth /\ CacheTruth /\ CommandOnce

USE DEF Current

------------------------------------------------------------------------------
(* Writers *)

\* An append of a fresh command keeps the histories well-typed and every command
\* identity unique.
LEMMA FreshAppend ==
  ASSUME SessionTypeOK, CommandOnce, NEW run \in Run, NEW id \in CommandId,
         ~Committed(id, run), Appended(run, id)
  PROVE  history' \in [Run -> Seq(CommandId)] /\ CommandOnce'
<1>1. history' \in [Run -> Seq(CommandId)]
  BY DEF SessionTypeOK, Appended
<1>2. CommandOnce'
  <2> SUFFICES ASSUME NEW r \in Run, NEW s \in Run,
                      NEW i \in DOMAIN history'[r], NEW j \in DOMAIN history'[s],
                      history'[r][i] = history'[s][j]
               PROVE  r = s /\ i = j
    BY DEF CommandOnce
  <2>1. history[run] \in Seq(CommandId) /\ history'[run] = Append(history[run], id)
    BY DEF SessionTypeOK, Appended
  <2>2. \A q \in Run \ {run} : history'[q] = history[q]
    BY DEF SessionTypeOK, Appended
  <2>3. \A q \in Run : \A k \in DOMAIN history'[q] :
          \/ k \in DOMAIN history[q] /\ history'[q][k] = history[q][k]
          \/ q = run /\ k = Len(history[run]) + 1 /\ history'[q][k] = id
    <3> SUFFICES ASSUME NEW q \in Run, NEW k \in DOMAIN history'[q]
                 PROVE  \/ k \in DOMAIN history[q] /\ history'[q][k] = history[q][k]
                        \/ q = run /\ k = Len(history[run]) + 1 /\ history'[q][k] = id
      OBVIOUS
    <3>1. CASE q = run
      BY <2>1, <3>1
    <3>2. CASE q # run
      BY <2>2, <3>2
    <3> QED BY <3>1, <3>2
  <2>4. \A q \in Run : \A k \in DOMAIN history[q] : history[q][k] # id
    BY DEF Committed, Accepted
  <2>5. CASE i \in DOMAIN history[r] /\ history'[r][i] = history[r][i]
    <3>1. j \in DOMAIN history[s] /\ history'[s][j] = history[s][j]
      BY <2>3, <2>4, <2>5
    <3>2. history[r][i] = history[s][j]
      BY <2>5, <3>1
    <3>3. \A k \in DOMAIN history[r], l \in DOMAIN history[s] :
            history[r][k] = history[s][l] => r = s /\ k = l
      BY Zenon DEF CommandOnce
    <3>4. i \in DOMAIN history[r] /\ j \in DOMAIN history[s]
      BY <2>5, <3>1
    <3> QED BY <3>2, <3>3, <3>4, Zenon
  <2>6. CASE r = run /\ i = Len(history[run]) + 1 /\ history'[r][i] = id
    BY <2>3, <2>4, <2>6
  <2>7. \/ i \in DOMAIN history[r] /\ history'[r][i] = history[r][i]
        \/ r = run /\ i = Len(history[run]) + 1 /\ history'[r][i] = id
    BY <2>3, Zenon
  <2> QED BY <2>5, <2>6, <2>7
<1> QED BY <1>1, <1>2

\* A new generation makes every held observation stale.
LEMMA Renewed ==
  ASSUME SessionTypeOK, NewGeneration
  PROVE  /\ generation' \in Token
         /\ \A c \in cached : c.observation.generation # generation'
         /\ \A o \in observed : o.generation # generation'
         /\ generation' # generation
BY DEF NewGeneration, LiveTokens

------------------------------------------------------------------------------
(* Steps *)

\* The initial state satisfies the invariant.
LEMMA InitSession == SessionInit => SessionInv
<1> SUFFICES ASSUME SessionInit PROVE SessionInv
  OBVIOUS
<1> USE DEF SessionInit
<1>1. <<>> \in Seq(CommandId) /\ DOMAIN <<>> = {}
  OBVIOUS
<1>2. SessionTypeOK
  BY <1>1 DEF SessionTypeOK, Step, Command
<1>3. CommandOnce
  BY <1>1 DEF CommandOnce
<1> QED
  BY <1>2, <1>3
  DEF SessionInv, LoadedRun, NotFromFuture, DecidedTruth, InstallTruth, CacheTruth

\* Every step keeps the invariant.
LEMMA SessionStep == SessionInv /\ [SessionNext]_sessionVars => SessionInv'
<1> SUFFICES ASSUME SessionInv, [SessionNext]_sessionVars PROVE SessionInv'
  OBVIOUS
<1> USE DEF SessionInv
<1>1. ASSUME NEW id \in CommandId, NEW run \in Run,
             NEW expected \in Prefixes(history[run]), Receive(id, run, expected)
      PROVE  SessionInv'
  <2>1. expected \in Seq(CommandId)
    BY DEF Prefixes, SessionTypeOK
  <2>2. cached' \subseteq cached /\ step' \in {"Decide", "Observe"}
    BY <1>1 DEF Receive, Reusable
  <2>3. LoadedRun'
    BY <1>1 DEF Receive, Reusable, LoadedRun
  <2>4. SessionTypeOK'
    BY <1>1, <2>1, <2>2 DEF Receive, SessionTypeOK, Command, Step
  <2>5. NotFromFuture' /\ DecidedTruth' /\ InstallTruth' /\ CacheTruth'
    BY <1>1, <2>2 DEF Receive, NotFromFuture, DecidedTruth, InstallTruth, CacheTruth
  <2>6. CommandOnce'
    BY <1>1 DEF Receive, CommandOnce
  <2> QED BY <2>3, <2>4, <2>5, <2>6
<1>2. CASE Observe
  BY <1>2
  DEF Observe, SessionTypeOK, Step, Observation, LoadedRun, NotFromFuture, DecidedTruth, InstallTruth,
      CacheTruth, CommandOnce
<1>3. CASE LoadReplay
  <2>1. SessionTypeOK'
    BY <1>3 DEF LoadReplay, SessionTypeOK, Step, Command, Replay
  <2>2. LoadedRun' /\ NotFromFuture' /\ DecidedTruth' /\ InstallTruth'
    BY <1>3 DEF LoadReplay, LoadedRun, NotFromFuture, DecidedTruth, InstallTruth
  <2>3. CacheTruth' /\ CommandOnce'
    BY <1>3 DEF LoadReplay, CacheTruth, CommandOnce
  <2> QED BY <2>1, <2>2, <2>3
<1>4. CASE DecideTransition
  <2>1. CASE step' = "Idle" /\ UNCHANGED <<cached, observed, decided>>
    BY <1>4, <2>1
    DEF DecideTransition, SessionTypeOK, Step, LoadedRun, NotFromFuture, DecidedTruth, InstallTruth, CacheTruth,
        CommandOnce
  <2>2. ASSUME NEW c \in cached, Fenced(c.state), observed' = {c.observation},
               decided' = c.state, cached' = {}, step' = "Resolve"
        PROVE  SessionInv'
    <3>1. c.run = command.run /\ c \in Replay
      BY <1>4 DEF DecideTransition, LoadedRun, SessionTypeOK
    <3>2. SessionTypeOK'
      BY <1>4, <2>2, <3>1 DEF DecideTransition, SessionTypeOK, Step, Replay
    <3>3. DecidedTruth'
      BY <1>4, <2>2, <3>1 DEF DecideTransition, DecidedTruth, CacheTruth, Fenced
    <3>4. LoadedRun' /\ NotFromFuture' /\ InstallTruth' /\ CacheTruth'
      BY <2>2, <1>4 DEF DecideTransition, LoadedRun, NotFromFuture, InstallTruth, CacheTruth
    <3>5. CommandOnce'
      BY <1>4 DEF DecideTransition, CommandOnce
    <3> QED BY <3>2, <3>3, <3>4, <3>5
  <2> QED BY <1>4, <2>1, <2>2 DEF DecideTransition
<1>5. CASE Resolve
  <2>1. CASE EndCall
    BY <1>5, <2>1
    DEF Resolve, EndCall, SessionTypeOK, Step, LoadedRun, NotFromFuture, DecidedTruth, InstallTruth,
        CacheTruth, CommandOnce
  <2>2. CASE step' = "Append" /\ UNCHANGED <<cached, observed>>
    BY <1>5, <2>2
    DEF Resolve, SessionTypeOK, Step, LoadedRun, NotFromFuture, DecidedTruth, InstallTruth, CacheTruth,
        CommandOnce
  <2> QED BY <1>5, <2>1, <2>2 DEF Resolve
<1>6. CASE AppendObserved
  <2>1. /\ generation' \in Token
        /\ \A c \in cached : c.observation.generation # generation'
    BY <1>6, Renewed DEF AppendObserved
  <2>2. UNCHANGED <<dataVersion, command, decided>> /\ step = "Append"
    BY <1>6 DEF AppendObserved
  <2>3. UNCHANGED cached
    BY <1>6 DEF AppendObserved, EndCall
  <2>4. CacheTruth'
    BY <2>1, <2>3 DEF CacheTruth
  <2>5. history' \in [Run -> Seq(CommandId)] /\ CommandOnce'
    <3>1. CASE UNCHANGED history
      BY <3>1 DEF SessionTypeOK, CommandOnce
    <3>2. CASE Appended(command.run, command.id) /\ \A o \in observed : AppendAdmitted(o)
      <4>1. command.run \in Run /\ command.id \in CommandId
        BY DEF SessionTypeOK, Command
      <4>2. ~Committed(command.id, command.run)
        BY <2>2, <3>2 DEF AppendAdmitted, SessionTypeOK
      <4> QED BY <3>2, <4>1, <4>2, FreshAppend
    <3> QED BY <1>6, <3>1, <3>2 DEF AppendObserved
  <2>6. CASE EndCall
    <3>1. SessionTypeOK'
      BY <2>1, <2>2, <2>3, <2>5, <2>6 DEF EndCall, SessionTypeOK, Step
    <3> QED
      BY <2>2, <2>3, <2>4, <2>5, <2>6, <3>1
      DEF EndCall, LoadedRun, NotFromFuture, DecidedTruth, InstallTruth
  <2>7. CASE /\ step' = "Install" /\ UNCHANGED <<cached, observed>>
             /\ Appended(command.run, command.id) /\ \A o \in observed : AppendAdmitted(o)
    <3>1. SessionTypeOK'
      BY <2>1, <2>2, <2>5, <2>7 DEF SessionTypeOK, Step
    <3>2. decided = history[command.run]
      BY <2>2, <2>7 DEF SessionTypeOK, AppendAdmitted, DecidedTruth
    <3>3. history'[command.run] = Append(decided, command.id)
      BY <2>7, <3>2 DEF Appended, SessionTypeOK, Command
    <3>4. InstallTruth'
      BY <2>2, <3>3 DEF InstallTruth
    <3> QED
      BY <2>2, <2>4, <2>5, <2>7, <3>1, <3>4 DEF LoadedRun, NotFromFuture, DecidedTruth
  <2> QED BY <1>6, <2>6, <2>7 DEF AppendObserved
<1>7. CASE Install
  <2>1. SessionTypeOK'
    <3>1. Append(decided, command.id) \in Seq(CommandId)
      BY DEF SessionTypeOK, Command
    <3>2. \A o \in observed : AfterAppend(o) \in Observation
      BY DEF SessionTypeOK, AfterAppend, Observation
    <3>3. cached' \in SUBSET Replay
      <4>1. command.run \in Run
        BY DEF SessionTypeOK, Command
      <4> SUFFICES ASSUME NEW o \in observed
                   PROVE  [run |-> command.run, state |-> Append(decided, command.id),
                           observation |-> AfterAppend(o)] \in Replay
        BY <1>7 DEF Install
      <4> QED BY <3>1, <3>2, <4>1 DEF Replay
    <3> QED BY <1>7, <3>3 DEF Install, SessionTypeOK, Step
  <2>2. CacheTruth'
    <3> SUFFICES ASSUME NEW c \in cached', Current(c.observation)'
                 PROVE  c.state = history'[c.run]
      BY DEF CacheTruth
    <3>1. PICK o \in observed :
            c = [run |-> command.run, state |-> Append(decided, command.id),
                 observation |-> AfterAppend(o)]
      BY <1>7 DEF Install
    <3>2. o.version = dataVersion
      BY <1>7, <3>1 DEF Install, AfterAppend
    <3> QED BY <1>7, <3>1, <3>2 DEF Install, InstallTruth
  <2>3. NotFromFuture'
    BY <1>7 DEF Install, NotFromFuture, AfterAppend
  <2> QED
    BY <1>7, <2>1, <2>2, <2>3 DEF Install, LoadedRun, DecidedTruth, InstallTruth, CommandOnce
<1>8. CASE OwnerAppend
  <2>1. /\ generation' \in Token
        /\ \A c \in cached : c.observation.generation # generation'
    BY <1>8, Renewed DEF OwnerAppend
  <2>2. history' \in [Run -> Seq(CommandId)] /\ CommandOnce'
    <3>1. CASE UNCHANGED history
      BY <3>1 DEF SessionTypeOK, CommandOnce
    <3>2. ASSUME NEW run \in Run, NEW id \in CommandId, ~Committed(id, run), Appended(run, id)
          PROVE  history' \in [Run -> Seq(CommandId)] /\ CommandOnce'
      BY <3>2, FreshAppend
    <3> QED BY <1>8, <3>1, <3>2 DEF OwnerAppend
  <2> QED
    BY <1>8, <2>1, <2>2
    DEF OwnerAppend, SessionTypeOK, LoadedRun, NotFromFuture, DecidedTruth, InstallTruth, CacheTruth
<1>9. ASSUME NEW run \in Run, NEW id \in CommandId, ExternalCommit(run, id) PROVE SessionInv'
  <2>1. history' \in [Run -> Seq(CommandId)] /\ CommandOnce'
    BY <1>9, FreshAppend DEF ExternalCommit
  <2>2. /\ \A c \in cached : c.observation.version <= dataVersion /\ c.observation.version \in Nat
        /\ \A o \in observed : o.version <= dataVersion /\ o.version \in Nat
    BY DEF NotFromFuture, SessionTypeOK, Replay, Observation
  <2>3. dataVersion' = dataVersion + 1 /\ dataVersion \in Nat
    BY <1>9 DEF ExternalCommit, SessionTypeOK
  <2>4. /\ \A c \in cached : c.observation.version < dataVersion'
        /\ \A o \in observed : o.version < dataVersion'
    BY <2>2, <2>3
  <2>5. SessionTypeOK'
    BY <1>9, <2>1, <2>3 DEF ExternalCommit, SessionTypeOK
  <2>6. NotFromFuture' /\ LoadedRun'
    BY <1>9, <2>2, <2>3 DEF ExternalCommit, NotFromFuture, LoadedRun
  <2>7. CacheTruth'
    BY <1>9, <2>2, <2>3 DEF ExternalCommit, CacheTruth
  <2>8. DecidedTruth' /\ InstallTruth'
    BY <1>9, <2>2, <2>3 DEF ExternalCommit, DecidedTruth, InstallTruth
  <2> QED BY <2>1, <2>5, <2>6, <2>7, <2>8
<1>10. CASE Reopen
  <2>1. generation' \in Token
    BY <1>10, Renewed DEF Reopen
  <2> QED
    BY <1>10, <2>1
    DEF Reopen, SessionTypeOK, Step, LoadedRun, NotFromFuture, DecidedTruth, InstallTruth, CacheTruth,
        CommandOnce
<1>11. CASE UNCHANGED sessionVars
  BY <1>11
  DEF sessionVars, SessionTypeOK, LoadedRun, NotFromFuture, DecidedTruth, InstallTruth, CacheTruth, CommandOnce
<1> QED
  BY <1>1, <1>2, <1>3, <1>4, <1>5, <1>6, <1>7, <1>8, <1>9, <1>10, <1>11 DEF SessionNext

------------------------------------------------------------------------------
(* Theorems *)

\* The variables of the session keep their types, and no observation outlives
\* its call.
THEOREM SessionTypeCorrect == SessionSpec => []SessionTypeOK
<1>1. SessionInv => SessionTypeOK
  BY DEF SessionInv
<1> QED BY <1>1, InitSession, SessionStep, PTL DEF SessionSpec

\* Reusing the retained replay is as good as replaying.
THEOREM ReuseIsReplay == SessionSpec => []CacheTruth
<1>1. SessionInv => CacheTruth
  BY DEF SessionInv
<1> QED BY <1>1, InitSession, SessionStep, PTL DEF SessionSpec

\* No command identity takes effect twice, in one run or in two.
THEOREM EffectOnce == SessionSpec => []CommandOnce
<1>1. SessionInv => CommandOnce
  BY DEF SessionInv
<1> QED BY <1>1, InitSession, SessionStep, PTL DEF SessionSpec

\* Every transition the session appends extends the state it was decided from.
THEOREM NoLostUpdate == SessionSpec => ExtendsDecided
<1> DEFINE Extends ==
      step = "Append" /\ history' # history /\ generation' # generation =>
        history' = [history EXCEPT ![command.run] = Append(decided, command.id)]
<1>1. SessionInv /\ [SessionNext]_sessionVars => [Extends]_sessionVars
  <2> SUFFICES ASSUME SessionInv, SessionNext, step = "Append", history' # history,
                      generation' # generation
               PROVE  history' = [history EXCEPT ![command.run] = Append(decided, command.id)]
    OBVIOUS
  <2> USE DEF SessionInv
  <2>1. CASE AppendObserved
    <3>1. /\ \A o \in observed : AppendAdmitted(o)
          /\ Appended(command.run, command.id)
      BY <2>1 DEF AppendObserved
    <3>2. decided = history[command.run]
      BY <3>1 DEF SessionTypeOK, AppendAdmitted, DecidedTruth
    <3> QED BY <3>1, <3>2 DEF Appended
  <2> QED
    BY <2>1
    DEF SessionNext, Receive, Observe, LoadReplay, DecideTransition, Resolve, Install, OwnerAppend,
        ExternalCommit, Reopen
<1> QED BY <1>1, InitSession, SessionStep, PTL DEF SessionSpec, ExtendsDecided
==============================================================================
