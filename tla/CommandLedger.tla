---------------------------- MODULE CommandLedger ----------------------------
(***************************************************************************)
(* Command submission in the daemon: the connection tasks that run submit() *)
(* (peritus-daemon command/service.rs), the durable application ledger      *)
(* app_commands they share (peritus-journal application/command_store.rs),  *)
(* the event journal that the domain handlers append to, and the recovery   *)
(* that settles unfinished rows before a restarted daemon opens intake.     *)
(*                                                                          *)
(* Every message to the authority owner is handled alone, so one action is  *)
(* one message; a task awaits each answer, so the messages of different     *)
(* tasks interleave.  The ledger and the journal survive a restart, the     *)
(* tasks do not.                                                            *)
(***************************************************************************)
EXTENDS Integers, FiniteSets

CONSTANTS
  Task,          \* connection tasks that may run submit() at the same time
  Request,       \* the requests clients submit, and submit again
  Key,           \* actor, session and idempotency key, the primary key of a row
  CommandId,     \* B3 command identities
  KeyOf,         \* KeyOf[r]: the key r is submitted under
  CommandOf,     \* CommandOf[r]: the command identity r carries
  MaxRestarts    \* bound on restarts of the daemon

ASSUME RequestAssumption ==
  /\ Request # {}
  /\ KeyOf \in [Request -> Key]
  /\ CommandOf \in [Request -> CommandId]
  /\ MaxRestarts \in Nat

VARIABLES
  ledger,        \* ledger[r]: the state of the row of r in app_commands
  journal,       \* command identities committed in the event journal
  task,          \* task[t]: where t is in submit()
  readiness,     \* admission readiness of the daemon
  answers,       \* answers[r]: the final results returned for r so far
  restarts

vars == <<ledger, journal, task, readiness, answers, restarts>>

------------------------------------------------------------------------------
(* State *)

\* Codes of a rejection.  Reconciliation settles with UnsupportedFamily; the
\* handlers reject with that or with a code of their own.
RejectCode == {"UnsupportedFamily", "InvalidCommandFrame"}

Unsettled == {"Pending", "Indeterminate"}

\* Committed, or Rejected with one of the codes.
Terminal == {"Committed"} \cup RejectCode

RowState == {"Absent"} \cup Unsettled \cup Terminal

Ready == {"ReadyReadWrite", "ReadyReadOnly"}

Readiness == {"Starting", "Draining"} \cup Ready

Step == {"Idle", "Admit", "Reconcile", "Dispatch", "Settle"}

\* A task in submit(): its request, and the settlement it is about to record.
TaskState == [step : Step, request : Request,
              settlement : Terminal \cup {"Indeterminate"}]

NoSubmission ==
  [step |-> "Idle", request |-> CHOOSE r \in Request : TRUE, settlement |-> "Indeterminate"]

At(t, step) == task[t].step = step

Init ==
  /\ ledger = [r \in Request |-> "Absent"]
  /\ journal = {}
  /\ task = [t \in Task |-> NoSubmission]
  /\ readiness = "Starting"
  /\ answers = [r \in Request |-> {}]
  /\ restarts = 0

Goto(t, step) == task' = [task EXCEPT ![t].step = step]

Finish(t) == task' = [task EXCEPT ![t] = NoSubmission]

Answer(r, a) == answers' = [answers EXCEPT ![r] = @ \cup {a}]

------------------------------------------------------------------------------
(* The ledger *)

KeyTaken(r) == \E q \in Request : KeyOf[q] = KeyOf[r] /\ ledger[q] # "Absent"

CommandTaken(r) == \E q \in Request : CommandOf[q] = CommandOf[r] /\ ledger[q] # "Absent"

\* Mutant: a pending row is dispatched again instead of being reconciled.
ClassificationRedispatching(r) ==
  IF ledger[r] \in Unsettled THEN "Inserted"
  ELSE IF ledger[r] \in Terminal THEN "Retained"
  ELSE IF KeyTaken(r) THEN "Conflict"
  ELSE IF CommandTaken(r) THEN "Duplicate"
  ELSE "Inserted"

\* Mutant: the digest is not compared, so a resubmission conflicts with its own row.
ClassificationByKeyOnly(r) ==
  IF ledger[r] \in Unsettled THEN "Existing"
  ELSE IF KeyTaken(r) THEN "Conflict"
  ELSE IF CommandTaken(r) THEN "Duplicate"
  ELSE "Inserted"

\* How admit_application_command() and submit() take a request: the row of its
\* key with the same digest, with another digest, or a new row, whose command
\* identity has to be unique.
Classification(r) ==
  IF ledger[r] \in Unsettled THEN "Existing"
  ELSE IF ledger[r] \in Terminal THEN "Retained"
  ELSE IF KeyTaken(r) THEN "Conflict"
  ELSE IF CommandTaken(r) THEN "Duplicate"
  ELSE "Inserted"

\* Mutant: only pending rows can still be settled.
SettledPendingOnly(r, s) == IF ledger[r] # "Pending" THEN ledger[r] ELSE s

\* The row of r after settle_application_command(): terminal rows stay.
Settled(r, s) == IF ledger[r] \in Terminal THEN ledger[r] ELSE s

\* Mutant: a command without a trace in the journal is taken for committed.
ResolutionOptimistic(r) == "Committed"

\* reconcile_command(): the settlement the journal proves.
Resolution(r) == IF CommandOf[r] \in journal THEN "Committed" ELSE "UnsupportedFamily"

\* Mutant: an indeterminate row is reported like a result.
FinalResultAny(r, s) == TRUE

\* Whether the caller of settle gets a result: the row ends in exactly this
\* settlement and retained_result() has facts to return.
FinalResult(r, s) == s \in Terminal /\ Settled(r, s) = s

\* Records settlement s for the request of t, answers if it is final, and ends t.
Record(t, s) ==
  LET r == task[t].request IN
  /\ ledger' = [ledger EXCEPT ![r] = Settled(r, s)]
  /\ IF FinalResult(r, s) THEN Answer(r, s) ELSE UNCHANGED answers
  /\ Finish(t)

------------------------------------------------------------------------------
(* submit() *)

Submit(t, r) ==
  /\ At(t, "Idle")
  /\ readiness # "Starting"
  /\ task' = [task EXCEPT ![t].step = "Admit", ![t].request = r]
  /\ UNCHANGED <<ledger, journal, readiness, answers, restarts>>

Inserted(t, r) ==
  /\ ledger' = [ledger EXCEPT ![r] = "Pending"]
  /\ Goto(t, "Dispatch")
  /\ UNCHANGED answers

\* Admission in one transaction; without mutation readiness, or with a command
\* identity of another row, the submission ends with an error.
Admit(t) ==
  LET r == task[t].request
      class == Classification(r)
  IN
  /\ At(t, "Admit")
  /\ \/ /\ readiness = "ReadyReadWrite"
        /\ class = "Inserted"
        /\ Inserted(t, r)
     \/ /\ readiness = "ReadyReadWrite"
        /\ class = "Existing"
        /\ Goto(t, "Reconcile")
        /\ UNCHANGED <<ledger, answers>>
     \/ /\ readiness = "ReadyReadWrite"
        /\ class = "Retained"
        /\ Answer(r, ledger[r])
        /\ Finish(t)
        /\ UNCHANGED ledger
     \/ /\ readiness = "ReadyReadWrite"
        /\ class = "Conflict"
        /\ Answer(r, "IdempotencyConflict")
        /\ Finish(t)
        /\ UNCHANGED ledger
     \/ /\ readiness # "ReadyReadWrite" \/ class = "Duplicate"
        /\ Finish(t)
        /\ UNCHANGED <<ledger, answers>>
  /\ UNCHANGED <<journal, readiness, restarts>>

\* Mutant: a failed dispatch is settled as a rejection.
ErrorSettlementRejected == "InvalidCommandFrame"

\* What submit() records when dispatch returned an error.
ErrorSettlement == "Indeterminate"

\* The domain handler: it appends the command or refuses it, and its answer may
\* be an error, before or after the append became durable.
Dispatch(t) ==
  LET c == CommandOf[task[t].request]
      Return(s) == task' = [task EXCEPT ![t].step = "Settle", ![t].settlement = s]
  IN
  /\ At(t, "Dispatch")
  /\ \/ /\ readiness = "ReadyReadWrite"
        /\ journal' = journal \cup {c}
        /\ Return("Committed") \/ Return(ErrorSettlement)
     \/ /\ readiness = "ReadyReadWrite"
        /\ \E code \in RejectCode : Return(code)
        /\ UNCHANGED journal
     \/ Return(ErrorSettlement) /\ UNCHANGED journal
  /\ UNCHANGED <<ledger, readiness, answers, restarts>>

Settle(t) ==
  /\ At(t, "Settle")
  /\ Record(t, task[t].settlement)
  /\ UNCHANGED <<journal, readiness, restarts>>

Reconcile(t) ==
  /\ At(t, "Reconcile")
  /\ Record(t, Resolution(task[t].request))
  /\ UNCHANGED <<journal, readiness, restarts>>

\* The ledger transaction of a task fails: nothing is written, the submission
\* ends with an error and its row stays as it was.
LedgerError(t) ==
  /\ task[t].step \in {"Admit", "Settle", "Reconcile"}
  /\ Finish(t)
  /\ UNCHANGED <<ledger, journal, readiness, answers, restarts>>

------------------------------------------------------------------------------
(* The daemon *)

\* The daemon is killed or stopped, and started again; what is not durable is gone.
Restart ==
  /\ restarts < MaxRestarts
  /\ restarts' = restarts + 1
  /\ readiness' = "Starting"
  /\ task' = [t \in Task |-> NoSubmission]
  /\ UNCHANGED <<ledger, journal, answers>>

\* reconcile_application() settles one row after another before intake opens.
RecoverCommand(r) ==
  /\ readiness = "Starting"
  /\ ledger[r] \in Unsettled
  /\ ledger' = [ledger EXCEPT ![r] = Settled(r, Resolution(r))]
  /\ UNCHANGED <<journal, task, readiness, answers, restarts>>

\* A diagnostic of the process recovery leaves the daemon open for reading only.
StartupComplete ==
  /\ readiness = "Starting"
  /\ \A r \in Request : ledger[r] \notin Unsettled
  /\ readiness' \in Ready
  /\ UNCHANGED <<ledger, journal, task, answers, restarts>>

BeginDraining ==
  /\ readiness \in Ready
  /\ readiness' = "Draining"
  /\ UNCHANGED <<ledger, journal, task, answers, restarts>>

TaskStep(t) ==
  \/ \E r \in Request : Submit(t, r)
  \/ Admit(t)
  \/ Dispatch(t)
  \/ Settle(t)
  \/ Reconcile(t)
  \/ LedgerError(t)

Recovery == (\E r \in Request : RecoverCommand(r)) \/ StartupComplete

Next ==
  \/ \E t \in Task : TaskStep(t)
  \/ Recovery
  \/ BeginDraining
  \/ Restart

Spec == Init /\ [][Next]_vars

\* Startup runs reconcile_application() to its end before anything else.
FairSpec == Spec /\ WF_vars(Recovery)

------------------------------------------------------------------------------
(* Properties *)

\* Every variable has its type; in particular only retained final facts are ever
\* returned to a client (command/service.rs:112 retained_result).
TypeOK ==
  /\ ledger \in [Request -> RowState]
  /\ journal \subseteq CommandId
  /\ task \in [Task -> TaskState]
  /\ readiness \in Readiness
  /\ answers \in [Request -> SUBSET (Terminal \cup {"IdempotencyConflict"})]
  /\ restarts \in 0..MaxRestarts

\* Every final answer ever given is the one the ledger retains, so no two
\* submissions of a request get different results, and a committed one is in
\* the journal (.design/g0-daemon.md:133 "the same key and digest replays the
\* retained final result").
AnswersRetained ==
  \A r \in Request : \A a \in answers[r] :
    /\ a # "IdempotencyConflict" => a = ledger[r]
    /\ a = "IdempotencyConflict" => ledger[r] = "Absent" /\ KeyTaken(r)
    /\ a = "Committed" => CommandOf[r] \in journal

\* A command identity is dispatched by one task at a time, and never again once
\* the journal has it (.design/g0-daemon.md:134 "reconciled ... before any
\* replacement attempt").
OneDispatcher ==
  \A t \in Task :
    /\ At(t, "Dispatch") => CommandOf[task[t].request] \notin journal
    /\ \A u \in Task \ {t} :
         {task[t].step, task[u].step} \subseteq {"Dispatch", "Settle"} =>
           CommandOf[task[t].request] # CommandOf[task[u].request]

\* A rejection is only recorded for a command the journal does not have at that
\* moment: a lost acknowledgement, a restart or a ledger error never turns a
\* committed command into a rejected one.
RejectsOnlyAbsent ==
  [][\A r \in Request :
       ledger[r] \notin RejectCode /\ ledger'[r] \in RejectCode =>
         CommandOf[r] \notin journal']_vars

\* A settled row says what became of the command: Committed rows are in the
\* journal and Rejected rows are not (.design/g0-daemon.md:515 "On success, settle
\* the application row with exact positions").
SettledTruth ==
  \A r \in Request :
    /\ ledger[r] = "Committed" => CommandOf[r] \in journal
    /\ ledger[r] \in RejectCode => CommandOf[r] \notin journal

\* At most one task ever dispatches a command, and every final answer given for
\* a request is the settlement its row keeps (command/service.rs submit).
SubmissionTruth == TypeOK /\ OneDispatcher /\ AnswersRetained

\* A restarted daemon settles every unfinished row and opens
\* (startup/recovery.rs:11, before intake).
RecoveryCompletes == readiness = "Starting" ~> readiness \in Ready

\* The outcome of r as a client sees it.
OutcomeOf(r) ==
  IF ledger[r] # "Absent" /\ CommandOf[r] \in journal THEN "Applied"
  ELSE IF ledger[r] \in RejectCode \/ "IdempotencyConflict" \in answers[r] THEN "Refused"
  ELSE "Open"

Promise == INSTANCE CommandOutcome WITH
  outcome <- [r \in Request |-> OutcomeOf(r)],
  told <- [r \in Request |-> {IF a = "Committed" THEN "Applied" ELSE "Refused" :
                                a \in answers[r]}]

\* Submission implements the promise to the client (CommandOutcome): one outcome,
\* never changed, and every answer agrees with it.
PromiseKept == Promise!Spec
=============================================================================
