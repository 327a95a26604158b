---------------------------- MODULE JournalProofs ----------------------------
(***************************************************************************)
(* What the journal keeps for the daemon: the rows of submitted commands     *)
(* and the rows of the outbox.                                               *)
(*                                                                           *)
(* Safety of command submission for any number of tasks, requests and       *)
(* restarts.  The invariant adds to the properties what each step of        *)
(* submit() may rely on: whoever holds a request past admission has a row,  *)
(* a settlement in flight agrees with the journal, and the journal has no   *)
(* command without a row.  With one connection at a time settled rows are   *)
(* true as well, and submission implements CommandOutcome.                  *)
(***************************************************************************)
EXTENDS CommandLedger, Outbox, RecursionTheorems, TLAPS

\* A task past admission works on a request that has a row.
RowHeld ==
  \A t \in Task :
    task[t].step \in {"Dispatch", "Settle", "Reconcile"} => ledger[task[t].request] # "Absent"

\* A result on its way to the ledger is what the journal says.
ResultTrue ==
  \A t \in Task : At(t, "Settle") =>
    /\ task[t].settlement = "Committed" => CommandOf[task[t].request] \in journal
    /\ task[t].settlement \in RejectCode => CommandOf[task[t].request] \notin journal

\* Only commands with a row were ever appended, and Committed rows were.
JournalRows ==
  /\ \A c \in journal : \E r \in Request : CommandOf[r] = c /\ ledger[r] # "Absent"
  /\ \A r \in Request : ledger[r] = "Committed" => CommandOf[r] \in journal

LedgerInv ==
  TypeOK /\ RowHeld /\ ResultTrue /\ JournalRows /\ OneDispatcher /\ AnswersRetained

------------------------------------------------------------------------------
(* Vocabulary *)

\* An idle task is a task state.
LEMMA IdleType == NoSubmission \in TaskState /\ NoSubmission.step = "Idle"
BY RequestAssumption DEF NoSubmission, TaskState, Step, Terminal, RejectCode

\* Resolution and settlement stay within the row states, and no settlement
\* removes a row.
LEMMA SettlementFacts ==
  ASSUME TypeOK, NEW r \in Request, NEW s \in Terminal \cup {"Indeterminate"}
  PROVE  /\ Resolution(r) \in Terminal
         /\ Settled(r, s) \in RowState \ {"Absent"}
         /\ ledger[r] \in Terminal => Settled(r, s) = ledger[r]
         /\ Settled(r, s) \in {ledger[r], s}
         /\ Settled(r, s) = "Committed" => s = "Committed" \/ ledger[r] = "Committed"
BY DEF TypeOK, Resolution, Settled, RowState, Terminal, Unsettled, RejectCode

------------------------------------------------------------------------------
(* Rows *)

\* Recording a settlement the journal supports keeps the rows, the journal and the
\* answers in agreement.
LEMMA RowSettled ==
  ASSUME LedgerInv, NEW r \in Request, NEW s \in Terminal \cup {"Indeterminate"},
         ledger[r] # "Absent",
         s = "Committed" => CommandOf[r] \in journal,
         ledger' = [ledger EXCEPT ![r] = Settled(r, s)],
         \/ UNCHANGED answers
         \/ FinalResult(r, s) /\ Answer(r, s),
         UNCHANGED journal
  PROVE  /\ ledger' \in [Request -> RowState]
         /\ answers' \in [Request -> SUBSET (Terminal \cup {"IdempotencyConflict"})]
         /\ \A q \in Request : ledger[q] # "Absent" <=> ledger'[q] # "Absent"
         /\ JournalRows'
         /\ AnswersRetained'
<1> USE DEF LedgerInv
<1>1. ledger' \in [Request -> RowState]
  BY SettlementFacts DEF TypeOK
<1>2. answers' \in [Request -> SUBSET (Terminal \cup {"IdempotencyConflict"})]
  BY DEF TypeOK, FinalResult, Answer
<1>3. \A q \in Request : ledger[q] # "Absent" <=> ledger'[q] # "Absent"
  BY SettlementFacts DEF TypeOK
<1>4. JournalRows'
  BY <1>3, SettlementFacts DEF TypeOK, JournalRows
<1>5. AnswersRetained'
  <2> SUFFICES ASSUME NEW q \in Request, NEW a \in answers'[q]
               PROVE  /\ a # "IdempotencyConflict" => a = ledger'[q]
                      /\ a = "IdempotencyConflict" => ledger'[q] = "Absent" /\ KeyTaken(q)'
                      /\ a = "Committed" => CommandOf[q] \in journal'
    BY DEF AnswersRetained
  <2>1. CASE a \in answers[q]
    <3>1. a \in Terminal \cup {"IdempotencyConflict"}
      BY <2>1 DEF TypeOK
    <3>2. a # "IdempotencyConflict" => a = ledger[q] /\ ledger[q] \in Terminal
      BY <2>1, <3>1 DEF AnswersRetained
    <3>3. ledger[q] \in Terminal => ledger'[q] = ledger[q]
      BY SettlementFacts DEF TypeOK
    <3>4. a = "IdempotencyConflict" => ledger[q] = "Absent" /\ KeyTaken(q)
      BY <2>1 DEF AnswersRetained
    <3>5. KeyTaken(q) => KeyTaken(q)'
      BY <1>3 DEF KeyTaken
    <3>6. a = "Committed" => CommandOf[q] \in journal
      BY <2>1 DEF AnswersRetained
    <3> QED BY <1>3, <3>2, <3>3, <3>4, <3>5, <3>6
  <2>2. CASE a \notin answers[q]
    <3>1. FinalResult(r, s) /\ Answer(r, s)
      BY <2>2
    <3>2. q = r /\ a = s
      BY <2>2, <3>1 DEF Answer, TypeOK
    <3>3. ledger'[r] = s /\ s \in Terminal
      BY <3>1 DEF FinalResult, TypeOK
    <3> QED BY <3>2, <3>3 DEF Terminal, RejectCode
  <2> QED BY <2>1, <2>2
<1> QED BY <1>1, <1>2, <1>3, <1>4, <1>5

------------------------------------------------------------------------------
(* Tasks *)

TaskInv ==
  /\ task \in [Task -> TaskState]
  /\ RowHeld
  /\ ResultTrue
  /\ OneDispatcher

\* A task that ends, or that has not reached dispatch, disturbs no other one.
LEMMA TaskMoved ==
  ASSUME LedgerInv, NEW t \in Task, NEW x \in TaskState,
         task' = [task EXCEPT ![t] = x],
         x.step \in {"Idle", "Admit", "Reconcile"},
         x.step = "Reconcile" => ledger[x.request] # "Absent",
         \A q \in Request : ledger[q] # "Absent" => ledger'[q] # "Absent",
         UNCHANGED journal
  PROVE  TaskInv'
<1> USE DEF LedgerInv
<1>1. task' \in [Task -> TaskState]
  BY DEF TypeOK
<1>2. RowHeld'
  BY DEF TypeOK, TaskState, RowHeld
<1>3. ResultTrue'
  BY DEF TypeOK, ResultTrue, At
<1>4. OneDispatcher'
  BY DEF TypeOK, OneDispatcher, At
<1> QED BY <1>1, <1>2, <1>3, <1>4 DEF TaskInv

\* A task that ends is such a task.
LEMMA TaskEnded ==
  ASSUME LedgerInv, NEW t \in Task, Finish(t),
         \A q \in Request : ledger[q] # "Absent" => ledger'[q] # "Absent",
         UNCHANGED journal
  PROVE  TaskInv'
<1>1. task' = [task EXCEPT ![t] = NoSubmission]
  BY DEF Finish
<1>2. NoSubmission.step \in {"Idle", "Admit", "Reconcile"}
  BY IdleType
<1>3. NoSubmission.step = "Reconcile" => ledger[NoSubmission.request] # "Absent"
  BY IdleType
<1> QED BY <1>1, <1>2, <1>3, IdleType, TaskMoved, Zenon

------------------------------------------------------------------------------
(* Steps *)

\* Settling a row through a task.
LEMMA RecordStep ==
  ASSUME LedgerInv, NEW t \in Task, NEW s \in Terminal \cup {"Indeterminate"},
         task[t].step \in {"Settle", "Reconcile"},
         s = "Committed" => CommandOf[task[t].request] \in journal,
         Record(t, s), UNCHANGED <<journal, readiness, restarts>>
  PROVE  LedgerInv'
<1> DEFINE r == task[t].request
<1>1. r \in Request
  BY DEF LedgerInv, TypeOK, TaskState
<1>2. ledger[r] # "Absent"
  BY DEF LedgerInv, RowHeld
<1>3. /\ ledger' \in [Request -> RowState]
      /\ answers' \in [Request -> SUBSET (Terminal \cup {"IdempotencyConflict"})]
      /\ \A q \in Request : ledger[q] # "Absent" <=> ledger'[q] # "Absent"
      /\ JournalRows'
      /\ AnswersRetained'
  <2>1. ledger' = [ledger EXCEPT ![r] = Settled(r, s)]
    BY DEF Record
  <2>2. UNCHANGED answers \/ (FinalResult(r, s) /\ Answer(r, s))
    BY Zenon DEF Record
  <2>3. UNCHANGED journal
    OBVIOUS
  <2> HIDE DEF r
  <2> QED BY <1>1, <1>2, <2>1, <2>2, <2>3, RowSettled DEF r
<1>4. TaskInv'
  BY <1>3, TaskEnded DEF Record
<1> QED BY <1>3, <1>4 DEF LedgerInv, TaskInv, TypeOK

\* Submission starts a task and touches nothing else.
LEMMA SubmitStep ==
  ASSUME LedgerInv, NEW t \in Task, NEW r \in Request, Submit(t, r)
  PROVE  LedgerInv'
<1> DEFINE x == [task[t] EXCEPT !.step = "Admit", !.request = r]
<1>1. task[t] \in TaskState
  BY DEF LedgerInv, TypeOK
<1>2. x \in TaskState /\ x.step = "Admit"
  BY <1>1 DEF TaskState, Step
<1>3. task' = [task EXCEPT ![t] = x]
  BY DEF Submit, LedgerInv, TypeOK
<1>4. UNCHANGED <<ledger, journal>>
  BY DEF Submit
<1>5. TaskInv'
  <2>1. x.step \in {"Idle", "Admit", "Reconcile"} /\ x.step # "Reconcile"
    BY <1>2
  <2>2. \A q \in Request : ledger[q] # "Absent" => ledger'[q] # "Absent"
    BY <1>4
  <2> HIDE DEF x
  <2> QED BY <1>2, <1>3, <1>4, <2>1, <2>2, TaskMoved
<1> QED
  BY <1>5 DEF Submit, LedgerInv, TaskInv, TypeOK, JournalRows, AnswersRetained, KeyTaken

\* Admission inserts a row only for a free key and a free command identity.
LEMMA AdmitStep ==
  ASSUME LedgerInv, NEW t \in Task, Admit(t)
  PROVE  LedgerInv'
<1> DEFINE r == task[t].request
<1>0. r \in Request /\ task[t] \in TaskState
  BY DEF LedgerInv, TypeOK, TaskState
<1>1. CASE Classification(r) = "Inserted" /\ Inserted(t, r)
  <2>1. ledger[r] = "Absent" /\ ~KeyTaken(r) /\ ~CommandTaken(r)
    BY <1>0, <1>1 DEF Classification, LedgerInv, TypeOK, RowState
  <2>2. ledger' = [ledger EXCEPT ![r] = "Pending"] /\ UNCHANGED <<journal, answers>>
    BY <1>1 DEF Inserted, Admit
  <2>3. task' = [task EXCEPT ![t].step = "Dispatch"]
    BY <1>1 DEF Inserted, Goto
  <2>4. \A q \in Request : ledger'[q] # "Absent" <=> (q = r \/ ledger[q] # "Absent")
    BY <2>2, <1>0 DEF LedgerInv, TypeOK
  <2>5. CommandOf[r] \notin journal
    BY <2>1, <1>0 DEF CommandTaken, LedgerInv, JournalRows
  <2>6. TypeOK'
    BY <2>2, <2>3, <1>0 DEF Admit, LedgerInv, TypeOK, TaskState, Step, RowState, Unsettled
  <2>7. RowHeld'
    BY <2>3, <2>4, <1>0 DEF LedgerInv, TypeOK, TaskState, RowHeld
  <2>8. ResultTrue'
    BY <2>2, <2>3 DEF LedgerInv, TypeOK, TaskState, ResultTrue, At
  <2>9. JournalRows'
    BY <2>2, <2>4 DEF LedgerInv, TypeOK, JournalRows
  <2>10. OneDispatcher'
    <3>1. \A u \in Task \ {t} : task[u].step \in {"Dispatch", "Settle"} =>
            CommandOf[task[u].request] # CommandOf[r]
      BY <2>1, <1>0 DEF CommandTaken, LedgerInv, RowHeld, TypeOK, TaskState
    <3>2. \A u \in Task : task'[u].request = task[u].request
                       /\ (u # t => task'[u].step = task[u].step)
      BY <2>3 DEF LedgerInv, TypeOK, TaskState
    <3> QED BY <2>2, <2>5, <3>1, <3>2 DEF LedgerInv, OneDispatcher, At
  <2>11. AnswersRetained'
    <3>1. \A q \in Request : KeyTaken(q) => KeyTaken(q)'
      BY <2>4 DEF KeyTaken
    <3>2. \A q \in Request \ {r} : ledger'[q] = ledger[q]
      BY <2>2 DEF LedgerInv, TypeOK
    <3>3. answers[r] = {}
      <4>1. \A a \in answers[r] : a \in Terminal \cup {"IdempotencyConflict"}
        BY <1>0 DEF LedgerInv, TypeOK
      <4> QED BY <2>1, <4>1, <1>0 DEF LedgerInv, AnswersRetained, Terminal, RejectCode
    <3> QED BY <2>2, <3>1, <3>2, <3>3 DEF LedgerInv, AnswersRetained
  <2> QED BY <2>6, <2>7, <2>8, <2>9, <2>10, <2>11 DEF LedgerInv
<1>2. CASE Classification(r) = "Existing" /\ Goto(t, "Reconcile") /\ UNCHANGED <<ledger, answers>>
  <2> DEFINE x == [task[t] EXCEPT !.step = "Reconcile"]
  <2>1. x \in TaskState /\ x.step = "Reconcile" /\ x.request = r
    BY <1>0 DEF TaskState, Step
  <2>2. ledger[r] # "Absent"
    BY <1>2 DEF Classification, Unsettled
  <2>3. task' = [task EXCEPT ![t] = x]
    BY <1>2 DEF Goto, LedgerInv, TypeOK
  <2>4. TaskInv'
    <3>1. x.step \in {"Idle", "Admit", "Reconcile"} /\ ledger[x.request] # "Absent"
      BY <2>1, <2>2
    <3>2. \A q \in Request : ledger[q] # "Absent" => ledger'[q] # "Absent"
      BY <1>2
    <3>3. UNCHANGED journal
      BY DEF Admit
    <3> HIDE DEF x
    <3> QED BY <2>1, <2>3, <3>1, <3>2, <3>3, TaskMoved
  <2> QED
    BY <1>2, <2>4
    DEF Admit, LedgerInv, TaskInv, TypeOK, JournalRows, AnswersRetained, KeyTaken
<1>3. CASE Classification(r) = "Retained" /\ Answer(r, ledger[r]) /\ Finish(t) /\ UNCHANGED ledger
  <2>1. ledger[r] \in Terminal
    BY <1>3 DEF Classification
  <2>2. TaskInv'
    BY <1>3, TaskEnded DEF Admit
  <2>3. answers' \in [Request -> SUBSET (Terminal \cup {"IdempotencyConflict"})]
    BY <1>0, <1>3, <2>1 DEF LedgerInv, TypeOK, Answer
  <2>4. AnswersRetained'
    BY <1>0, <1>3, <2>1
    DEF Admit, LedgerInv, TypeOK, AnswersRetained, KeyTaken, Answer, JournalRows,
        Terminal, RejectCode
  <2> QED BY <1>3, <2>2, <2>3, <2>4 DEF Admit, LedgerInv, TaskInv, TypeOK, JournalRows
<1>4. CASE /\ Classification(r) = "Conflict" /\ Answer(r, "IdempotencyConflict")
           /\ Finish(t) /\ UNCHANGED ledger
  <2>1. ledger[r] = "Absent" /\ KeyTaken(r)
    BY <1>0, <1>4 DEF Classification, LedgerInv, TypeOK, RowState
  <2>2. TaskInv'
    BY <1>4, TaskEnded DEF Admit
  <2>3. answers' \in [Request -> SUBSET (Terminal \cup {"IdempotencyConflict"})]
    BY <1>0, <1>4 DEF LedgerInv, TypeOK, Answer
  <2>4. AnswersRetained'
    BY <1>0, <1>4, <2>1 DEF Admit, LedgerInv, TypeOK, AnswersRetained, KeyTaken, Answer
  <2> QED BY <1>4, <2>2, <2>3, <2>4 DEF Admit, LedgerInv, TaskInv, TypeOK, JournalRows
<1>5. CASE Finish(t) /\ UNCHANGED <<ledger, answers>>
  <2>1. TaskInv'
    BY <1>5, TaskEnded DEF Admit
  <2> QED
    BY <1>5, <2>1
    DEF Admit, LedgerInv, TaskInv, TypeOK, JournalRows, AnswersRetained, KeyTaken
<1> QED BY <1>1, <1>2, <1>3, <1>4, <1>5 DEF Admit

\* Dispatch appends the command of a row it alone holds.
LEMMA DispatchStep ==
  ASSUME LedgerInv, NEW t \in Task, Dispatch(t)
  PROVE  LedgerInv'
<1> DEFINE r == task[t].request
           c == CommandOf[r]
<1>0. r \in Request /\ c \in CommandId /\ task[t] \in TaskState
  BY RequestAssumption DEF LedgerInv, TypeOK, TaskState
<1>1. PICK s \in Terminal \cup {"Indeterminate"} :
        /\ task' = [task EXCEPT ![t].step = "Settle", ![t].settlement = s]
        /\ \/ journal' = journal \cup {c} /\ s \notin RejectCode
           \/ journal' = journal /\ s # "Committed"
  BY DEF Dispatch, ErrorSettlement, Terminal, RejectCode
<1>2. UNCHANGED <<ledger, readiness, answers, restarts>>
  BY DEF Dispatch
<1>3. c \notin journal /\ ledger[r] # "Absent"
  BY DEF Dispatch, LedgerInv, OneDispatcher, RowHeld, At
<1>4. \A u \in Task : /\ task'[u].request = task[u].request
                      /\ u # t => task'[u] = task[u]
  BY <1>1 DEF LedgerInv, TypeOK, TaskState
<1>5. task'[t].step = "Settle" /\ task'[t].settlement = s
  BY <1>1, <1>0 DEF LedgerInv, TypeOK, TaskState
<1>6. TypeOK'
  BY <1>0, <1>1, <1>2 DEF LedgerInv, TypeOK, TaskState, Step
<1>7. RowHeld'
  BY <1>2, <1>3, <1>4, <1>5 DEF LedgerInv, RowHeld
<1>8. \A u \in Task \ {t} : task[u].step \in {"Dispatch", "Settle"} => CommandOf[task[u].request] # c
  BY DEF Dispatch, LedgerInv, OneDispatcher, At
<1>9. ResultTrue'
  BY <1>1, <1>3, <1>4, <1>5, <1>8 DEF LedgerInv, ResultTrue, At, RejectCode
<1>10. JournalRows'
  BY <1>0, <1>1, <1>2, <1>3 DEF LedgerInv, JournalRows
<1>11. OneDispatcher'
  <2>1. \A u \in Task : At(u, "Dispatch")' => CommandOf[task'[u].request] \notin journal'
    BY <1>1, <1>4, <1>5, <1>8 DEF LedgerInv, OneDispatcher, At
  <2>2. \A u, v \in Task :
          u # v /\ {task'[u].step, task'[v].step} \subseteq {"Dispatch", "Settle"} =>
            CommandOf[task'[u].request] # CommandOf[task'[v].request]
    <3> SUFFICES ASSUME NEW u \in Task, NEW v \in Task, u # v,
                        task'[u].step \in {"Dispatch", "Settle"},
                        task'[v].step \in {"Dispatch", "Settle"}
                 PROVE  CommandOf[task'[u].request] # CommandOf[task'[v].request]
      OBVIOUS
    <3>1. CASE u = t \/ v = t
      BY <3>1, <1>4, <1>8
    <3>2. CASE u # t /\ v # t
      BY <3>2, <1>4 DEF LedgerInv, OneDispatcher
    <3> QED BY <3>1, <3>2
  <2> QED BY <2>1, <2>2 DEF OneDispatcher
<1>12. AnswersRetained'
  BY <1>1, <1>2 DEF LedgerInv, AnswersRetained, KeyTaken
<1> QED BY <1>6, <1>7, <1>9, <1>10, <1>11, <1>12 DEF LedgerInv

\* Recovery settles one row with what the journal proves.
LEMMA RecoverStep ==
  ASSUME LedgerInv, NEW r \in Request, RecoverCommand(r)
  PROVE  LedgerInv'
<1>1. Resolution(r) \in Terminal /\ (Resolution(r) = "Committed" => CommandOf[r] \in journal)
  BY DEF Resolution, Terminal, RejectCode
<1>2. ledger[r] # "Absent"
  BY DEF RecoverCommand, Unsettled
<1>3. /\ ledger' \in [Request -> RowState]
      /\ \A q \in Request : ledger[q] # "Absent" <=> ledger'[q] # "Absent"
      /\ JournalRows'
      /\ AnswersRetained'
  BY <1>1, <1>2, RowSettled DEF RecoverCommand
<1> QED
  BY <1>3
  DEF RecoverCommand, LedgerInv, TypeOK, RowHeld, ResultTrue, OneDispatcher, At, TaskState

\* The initial state satisfies the invariant.
LEMMA InitLedger == Init => LedgerInv
<1> SUFFICES ASSUME Init PROVE LedgerInv
  OBVIOUS
<1>1. \A t \in Task : task[t] = NoSubmission
  BY DEF Init
<1>2. TypeOK
  BY IdleType, RequestAssumption DEF Init, TypeOK, RowState, Readiness, Ready
<1> QED
  BY <1>1, <1>2, IdleType
  DEF Init, LedgerInv, RowHeld, ResultTrue, JournalRows, OneDispatcher, AnswersRetained, At

\* Every step keeps the invariant.
LEMMA LedgerStep == LedgerInv /\ [Next]_vars => LedgerInv'
<1> SUFFICES ASSUME LedgerInv, [Next]_vars PROVE LedgerInv'
  OBVIOUS
<1>1. ASSUME NEW t \in Task, NEW r \in Request, Submit(t, r) PROVE LedgerInv'
  BY <1>1, SubmitStep
<1>2. ASSUME NEW t \in Task, Admit(t) PROVE LedgerInv'
  BY <1>2, AdmitStep
<1>3. ASSUME NEW t \in Task, Dispatch(t) PROVE LedgerInv'
  BY <1>3, DispatchStep
<1>4. ASSUME NEW t \in Task, Settle(t) PROVE LedgerInv'
  <2>1. task[t].settlement \in Terminal \cup {"Indeterminate"}
    BY DEF LedgerInv, TypeOK, TaskState
  <2>2. task[t].settlement = "Committed" => CommandOf[task[t].request] \in journal
    BY <1>4 DEF Settle, LedgerInv, ResultTrue
  <2> QED BY <1>4, <2>1, <2>2, RecordStep DEF Settle, At
<1>5. ASSUME NEW t \in Task, Reconcile(t) PROVE LedgerInv'
  <2>1. /\ Resolution(task[t].request) \in Terminal
        /\ Resolution(task[t].request) = "Committed" => CommandOf[task[t].request] \in journal
    BY DEF Resolution, Terminal, RejectCode
  <2> QED BY <1>5, <2>1, RecordStep DEF Reconcile, At
<1>6. ASSUME NEW t \in Task, LedgerError(t) PROVE LedgerInv'
  <2>1. TaskInv'
    BY <1>6, TaskEnded DEF LedgerError
  <2> QED
    BY <1>6, <2>1
    DEF LedgerError, LedgerInv, TaskInv, TypeOK, JournalRows, AnswersRetained, KeyTaken
<1>7. CASE Restart
  <2>1. \A t \in Task : task'[t] = NoSubmission
    BY <1>7 DEF Restart
  <2>2. TypeOK'
    BY <1>7, IdleType, RequestAssumption DEF Restart, LedgerInv, TypeOK, Readiness, Ready
  <2> QED
    BY <1>7, <2>1, <2>2, IdleType
    DEF Restart, LedgerInv, RowHeld, ResultTrue, JournalRows, OneDispatcher,
        AnswersRetained, KeyTaken, At
<1>8. ASSUME NEW r \in Request, RecoverCommand(r) PROVE LedgerInv'
  BY <1>8, RecoverStep
<1>9. CASE StartupComplete \/ BeginDraining \/ UNCHANGED vars
  BY <1>9
  DEF StartupComplete, BeginDraining, vars, LedgerInv, TypeOK, Readiness, Ready, RowHeld, ResultTrue,
      JournalRows, OneDispatcher, AnswersRetained, KeyTaken, At
<1> QED
  BY <1>1, <1>2, <1>3, <1>4, <1>5, <1>6, <1>7, <1>8, <1>9 DEF Next, TaskStep, Recovery

------------------------------------------------------------------------------
(* Theorems *)

\* The types of the ledger, the journal, the tasks and the answers.
THEOREM LedgerTypeCorrect == Spec => []TypeOK
<1>1. LedgerInv => TypeOK
  BY DEF LedgerInv
<1> QED BY <1>1, InitLedger, LedgerStep, PTL DEF Spec

\* However submissions, lost acknowledgements, ledger errors and restarts
\* interleave, every final answer is the retained one, and a committed answer is
\* in the journal.
THEOREM AnswersAgree == Spec => []AnswersRetained
<1>1. LedgerInv => AnswersRetained
  BY DEF LedgerInv
<1> QED BY <1>1, InitLedger, LedgerStep, PTL DEF Spec

\* A command identity never has two dispatchers and never runs twice.
THEOREM ExactlyOneDispatch == Spec => []OneDispatcher
<1>1. LedgerInv => OneDispatcher
  BY DEF LedgerInv
<1> QED BY <1>1, InitLedger, LedgerStep, PTL DEF Spec

\* One dispatcher per command and retained, true answers: what a client of
\* submit may rely on through retries and restarts.
THEOREM SubmissionTruthful == Spec => []SubmissionTruth
<1>1. LedgerInv => SubmissionTruth
  BY DEF LedgerInv, SubmissionTruth
<1> QED BY <1>1, InitLedger, LedgerStep, PTL DEF Spec

\* A rejection is recorded only while the journal lacks the command.
THEOREM TruthfulRejection == Spec => RejectsOnlyAbsent
<1> DEFINE Truthful ==
      \A r \in Request : ledger[r] \notin RejectCode /\ ledger'[r] \in RejectCode =>
        CommandOf[r] \notin journal'
<1>1. LedgerInv /\ [Next]_vars => [Truthful]_vars
  <2> SUFFICES ASSUME LedgerInv, Next, NEW r \in Request,
                      ledger[r] \notin RejectCode, ledger'[r] \in RejectCode
               PROVE  CommandOf[r] \notin journal'
    OBVIOUS
  <2> USE DEF LedgerInv
  <2>1. ASSUME NEW t \in Task, Admit(t) PROVE FALSE
    <3>1. ledger'[r] \in {ledger[r], "Pending"}
      BY <2>1 DEF Admit, Inserted, TypeOK
    <3> QED BY <3>1 DEF RejectCode
  <2>2. ASSUME NEW t \in Task, Settle(t) PROVE CommandOf[r] \notin journal'
    <3>1. r = task[t].request /\ task[t].settlement = ledger'[r]
      BY <2>2 DEF Settle, Record, Settled, TypeOK
    <3> QED BY <2>2, <3>1 DEF Settle, ResultTrue
  <2>3. ASSUME NEW t \in Task, Reconcile(t) PROVE CommandOf[r] \notin journal'
    <3>1. r = task[t].request /\ Resolution(r) = ledger'[r]
      BY <2>3 DEF Reconcile, Record, Settled, TypeOK
    <3> QED BY <2>3, <3>1 DEF Reconcile, Resolution, RejectCode
  <2>4. ASSUME NEW q \in Request, RecoverCommand(q) PROVE CommandOf[r] \notin journal'
    <3>1. r = q /\ Resolution(r) = ledger'[r]
      BY <2>4 DEF RecoverCommand, Settled, TypeOK
    <3> QED BY <2>4, <3>1 DEF RecoverCommand, Resolution, RejectCode
  <2>5. CASE UNCHANGED ledger
    BY <2>5
  <2> QED
    BY <2>1, <2>2, <2>3, <2>4, <2>5
    DEF Next, TaskStep, Recovery, Submit, Dispatch, LedgerError, Restart, StartupComplete,
        BeginDraining
<1> QED BY <1>1, InitLedger, LedgerStep, PTL DEF Spec, RejectsOnlyAbsent

------------------------------------------------------------------------------
(* One connection at a time *)

\* Two connections can settle a row behind the back of the task that still
\* dispatches it (the run ledger_race); with one, the row waits.
OneConnection == \A t, u \in Task : t = u

\* A command identity has one row at most.
OneRow ==
  \A q, r \in Request :
    ledger[q] # "Absent" /\ ledger[r] # "Absent" /\ CommandOf[q] = CommandOf[r] => q = r

\* Recovery runs before intake, and whoever dispatches holds an unsettled row.
Exclusive ==
  /\ readiness = "Starting" => \A t \in Task : At(t, "Idle")
  /\ \A t \in Task : At(t, "Dispatch") => ledger[task[t].request] \in Unsettled

SettledInv == LedgerInv /\ OneRow /\ Exclusive /\ SettledTruth

\* Recording a settlement that is true of the journal keeps settled rows true.
LEMMA TrueSettlement ==
  ASSUME LedgerInv, SettledTruth, OneRow, NEW r \in Request,
         NEW s \in Terminal \cup {"Indeterminate"}, ledger[r] # "Absent",
         s = "Committed" => CommandOf[r] \in journal,
         s \in RejectCode => CommandOf[r] \notin journal,
         ledger' = [ledger EXCEPT ![r] = Settled(r, s)],
         UNCHANGED journal
  PROVE  SettledTruth' /\ OneRow'
<1> USE DEF LedgerInv
<1>1. \A q \in Request : ledger[q] # "Absent" <=> ledger'[q] # "Absent"
  BY SettlementFacts DEF TypeOK
<1>2. OneRow'
  BY <1>1 DEF OneRow
<1>3. SettledTruth'
  BY SettlementFacts DEF TypeOK, SettledTruth
<1> QED BY <1>2, <1>3

\* A task's request and settlement are well typed.
LEMMA TaskTyped ==
  ASSUME LedgerInv, NEW t \in Task
  PROVE  /\ task[t].request \in Request
         /\ task[t].settlement \in Terminal \cup {"Indeterminate"}
         /\ task[t] \in TaskState
BY DEF LedgerInv, TypeOK, TaskState

\* With one connection every step keeps rows unique, exclusive while dispatched, and
\* true once settled.
LEMMA SettledStep ==
  ASSUME OneConnection, SettledInv, [Next]_vars
  PROVE  SettledInv'
<1> USE DEF SettledInv
<1>0. LedgerInv'
  BY LedgerStep
<1>1. ASSUME NEW t \in Task, TaskStep(t)
      PROVE  OneRow' /\ Exclusive' /\ SettledTruth'
  <2> DEFINE r == task[t].request
  <2>0. /\ r \in Request /\ task[t] \in TaskState
        /\ \A u \in Task : u = t
        /\ ledger \in [Request -> RowState]
        /\ task \in [Task -> TaskState]
    BY TaskTyped DEF OneConnection, LedgerInv, TypeOK
  <2>1. ASSUME NEW q \in Request, Submit(t, q)
        PROVE  OneRow' /\ Exclusive' /\ SettledTruth'
    <3>1. UNCHANGED <<ledger, journal, readiness>> /\ readiness # "Starting"
      BY <2>1 DEF Submit
    <3>2. task'[t].step = "Admit"
      BY <2>0, <2>1 DEF Submit, TaskState
    <3> QED BY <2>0, <3>1, <3>2 DEF OneRow, Exclusive, SettledTruth, At
  <2>2. CASE Admit(t)
    <3>1. UNCHANGED <<journal, readiness>>
      BY <2>2 DEF Admit
    <3>2. readiness = "Starting" => FALSE
      BY <2>2 DEF Admit, Exclusive, At
    <3>3. CASE Classification(r) = "Inserted" /\ Inserted(t, r)
      <4>1. ledger[r] = "Absent" /\ ~CommandTaken(r)
        BY <2>0, <3>3 DEF Classification, RowState
      <4>2. /\ ledger' = [ledger EXCEPT ![r] = "Pending"]
            /\ task' = [task EXCEPT ![t].step = "Dispatch"]
        BY <3>3 DEF Inserted, Goto
      <4>3. task'[t].request = r
        BY <2>0, <4>2 DEF TaskState
      <4>4. OneRow'
        BY <2>0, <4>1, <4>2 DEF OneRow, CommandTaken
      <4>5. Exclusive'
        BY <2>0, <3>1, <3>2, <4>2, <4>3 DEF Exclusive, Unsettled
      <4>6. SettledTruth'
        BY <2>0, <3>1, <4>2 DEF SettledTruth, RejectCode
      <4> QED BY <4>4, <4>5, <4>6
    <3>4. CASE UNCHANGED ledger /\ (Finish(t) \/ Goto(t, "Reconcile"))
      <4>1. task'[t].step \in {"Idle", "Reconcile"}
        BY <2>0, <3>4, IdleType DEF Finish, Goto, TaskState
      <4> QED BY <2>0, <3>1, <3>2, <3>4, <4>1 DEF OneRow, Exclusive, SettledTruth, At
    <3> QED BY <2>2, <3>3, <3>4 DEF Admit
  <2>3. CASE Dispatch(t)
    <3>1. /\ UNCHANGED <<ledger, readiness>>
          /\ journal' = journal \cup {CommandOf[r]} \/ journal' = journal
      BY <2>3 DEF Dispatch
    <3>2. ledger[r] \in Unsettled
      BY <2>3 DEF Dispatch, Exclusive
    <3>3. task'[t].step = "Settle"
      BY <2>0, <2>3 DEF Dispatch, TaskState
    <3>4. readiness = "Starting" => FALSE
      BY <2>3 DEF Dispatch, Exclusive, At
    <3>5. Exclusive'
      BY <2>0, <3>1, <3>3, <3>4 DEF Exclusive, At
    <3>6. \A q \in Request : ledger[q] \in RejectCode => CommandOf[q] # CommandOf[r]
      BY <2>0, <3>2 DEF OneRow, Unsettled, RejectCode
    <3>7. SettledTruth'
      BY <2>0, <3>1, <3>6 DEF SettledTruth
    <3> QED BY <3>1, <3>5, <3>7 DEF OneRow
  <2>4. ASSUME task[t].step \in {"Settle", "Reconcile"},
               NEW s \in Terminal \cup {"Indeterminate"},
               s = "Committed" => CommandOf[r] \in journal,
               s \in RejectCode => CommandOf[r] \notin journal,
               Record(t, s), UNCHANGED <<journal, readiness>>
        PROVE  OneRow' /\ Exclusive' /\ SettledTruth'
    <3>1. ledger[r] # "Absent"
      BY <2>4 DEF LedgerInv, RowHeld
    <3>2. ledger' = [ledger EXCEPT ![r] = Settled(r, s)] /\ Finish(t)
      BY <2>4 DEF Record
    <3>3. SettledTruth' /\ OneRow'
      <4> HIDE DEF r
      <4> QED BY <2>0, <2>4, <3>1, <3>2, TrueSettlement
    <3>4. task'[t].step = "Idle"
      BY <2>0, <3>2, IdleType DEF Finish
    <3> QED BY <2>0, <3>3, <3>4 DEF Exclusive, At
  <2>5. CASE Settle(t)
    <3>1. /\ task[t].settlement = "Committed" => CommandOf[r] \in journal
          /\ task[t].settlement \in RejectCode => CommandOf[r] \notin journal
      BY <2>5 DEF Settle, LedgerInv, ResultTrue
    <3> QED BY <2>4, <2>5, <3>1, TaskTyped DEF Settle, At
  <2>6. CASE Reconcile(t)
    <3>1. /\ Resolution(r) \in Terminal
          /\ Resolution(r) = "Committed" => CommandOf[r] \in journal
          /\ Resolution(r) \in RejectCode => CommandOf[r] \notin journal
      BY DEF Resolution, Terminal, RejectCode
    <3> QED BY <2>4, <2>6, <3>1 DEF Reconcile, At
  <2>7. CASE LedgerError(t)
    <3>1. UNCHANGED <<ledger, journal, readiness>> /\ task'[t].step = "Idle"
      BY <2>0, <2>7, IdleType DEF LedgerError, Finish
    <3> QED BY <2>0, <3>1 DEF OneRow, Exclusive, SettledTruth, At
  <2> QED BY <1>1, <2>1, <2>2, <2>3, <2>5, <2>6, <2>7 DEF TaskStep
<1>2. ASSUME NEW r \in Request, RecoverCommand(r)
      PROVE  OneRow' /\ Exclusive' /\ SettledTruth'
  <2>1. /\ Resolution(r) \in Terminal
        /\ Resolution(r) = "Committed" => CommandOf[r] \in journal
        /\ Resolution(r) \in RejectCode => CommandOf[r] \notin journal
    BY DEF Resolution, Terminal, RejectCode
  <2>2. /\ ledger[r] # "Absent" /\ ledger' = [ledger EXCEPT ![r] = Settled(r, Resolution(r))]
        /\ UNCHANGED <<journal, task, readiness>> /\ readiness = "Starting"
    BY <1>2 DEF RecoverCommand, Unsettled
  <2>3. SettledTruth' /\ OneRow'
    BY <2>1, <2>2, TrueSettlement
  <2>4. Exclusive'
    BY <2>2 DEF Exclusive, At
  <2> QED BY <2>3, <2>4
<1>3. CASE StartupComplete \/ BeginDraining \/ UNCHANGED vars
  <2>1. /\ UNCHANGED <<ledger, journal, task>>
        /\ readiness' = "Starting" => readiness = "Starting"
    BY <1>3 DEF StartupComplete, BeginDraining, Ready, vars
  <2> QED BY <1>0, <2>1 DEF OneRow, Exclusive, SettledTruth, At
<1>4. CASE Restart
  <2>1. /\ UNCHANGED <<ledger, journal>>
        /\ \A t \in Task : task'[t] = NoSubmission
    BY <1>4 DEF Restart
  <2>2. \A t \in Task : task'[t].step = "Idle"
    BY <2>1, IdleType
  <2>3. Exclusive'
    BY <2>2 DEF Exclusive, At
  <2> QED BY <1>0, <2>1, <2>3 DEF OneRow, SettledTruth
<1> QED BY <1>0, <1>1, <1>2, <1>3, <1>4 DEF Next, Recovery

\* With one connection at a time a settled row says what became of its command,
\* through lost acknowledgements, ledger errors, restarts and recovery
\* (command/service.rs submit, startup/recovery.rs).
THEOREM SettledTruthful ==
  ASSUME OneConnection
  PROVE  Spec => []SettledTruth
<1>1. Init => SettledInv
  BY InitLedger, IdleType
  DEF Init, SettledInv, OneRow, Exclusive, SettledTruth, RejectCode, At
<1>2. SettledInv /\ [Next]_vars => SettledInv'
  BY SettledStep
<1>3. SettledInv => SettledTruth
  BY DEF SettledInv
<1> QED BY <1>1, <1>2, <1>3, PTL DEF Spec

------------------------------------------------------------------------------
(* The promise to the client *)

\* What the client takes from a final answer.
Tells(a) == IF a = "Committed" THEN "Applied" ELSE "Refused"

\* One request changes, and its step is one the promise allows: nothing the client
\* can see, the one decision, with or without an answer, or a repeated answer.
Promised(r) ==
  /\ \A q \in Request \ {r} : OutcomeOf(q)' = OutcomeOf(q)
  /\ \/ OutcomeOf(r)' = OutcomeOf(r) /\ UNCHANGED answers
     \/ /\ OutcomeOf(r) = "Open"
        /\ OutcomeOf(r)' \in {"Applied", "Refused"}
        /\ \/ UNCHANGED answers
           \/ \E a : Tells(a) = OutcomeOf(r)' /\ Answer(r, a)
     \/ /\ OutcomeOf(r) # "Open"
        /\ OutcomeOf(r)' = OutcomeOf(r)
        /\ \E a : Tells(a) = OutcomeOf(r) /\ Answer(r, a)

\* Such a step is a step of CommandOutcome, or a stutter.
LEMMA PromisedIsStep ==
  ASSUME answers \in [Request -> SUBSET (Terminal \cup {"IdempotencyConflict"})],
         NEW r \in Request, Promised(r)
  PROVE  [Promise!Next]_<<[q \in Request |-> OutcomeOf(q)],
                          [q \in Request |-> {IF a = "Committed" THEN "Applied" ELSE "Refused" :
                                                a \in answers[q]}]>>
<1> DEFINE out == [q \in Request |-> OutcomeOf(q)]
           told == [q \in Request |-> {Tells(a) : a \in answers[q]}]
<1>0. told = [q \in Request |-> {IF a = "Committed" THEN "Applied" ELSE "Refused" : a \in answers[q]}]
  BY DEF Tells
<1>1. \A q \in Request \ {r} : out'[q] = out[q]
  BY DEF Promised
<1>2. out[r] = OutcomeOf(r) /\ out'[r] = OutcomeOf(r)'
  OBVIOUS
<1>3. ASSUME NEW a, Answer(r, a)
      PROVE  told' = [told EXCEPT ![r] = @ \cup {Tells(a)}]
  <2>1. answers' = [answers EXCEPT ![r] = @ \cup {a}]
    BY <1>3 DEF Answer
  <2>2. \A q \in Request : told'[q] = [told EXCEPT ![r] = @ \cup {Tells(a)}][q]
    <3> TAKE q \in Request
    <3>1. CASE q # r
      BY <2>1, <3>1
    <3>2. CASE q = r
      <4>1. answers'[r] = answers[r] \cup {a}
        BY <2>1
      <4> QED BY <3>2, <4>1
    <3> QED BY <3>1, <3>2
  <2> QED BY <2>2
<1>4. CASE OutcomeOf(r)' = OutcomeOf(r) /\ UNCHANGED answers
  BY <1>0, <1>1, <1>2, <1>4
<1>5. CASE /\ OutcomeOf(r) = "Open"
           /\ OutcomeOf(r)' \in {"Applied", "Refused"}
           /\ \/ UNCHANGED answers
              \/ \E a : Tells(a) = OutcomeOf(r)' /\ Answer(r, a)
  <2>1. out' = [out EXCEPT ![r] = OutcomeOf(r)']
    BY <1>1, <1>2
  <2>2. told' \in {told, [told EXCEPT ![r] = @ \cup {out'[r]}]}
    BY <1>2, <1>3, <1>5
  <2>3. Promise!Decide(r)
    BY <1>0, <1>2, <1>5, <2>1, <2>2 DEF Promise!Decide, Promise!Answered, Tells
  <2> QED BY <2>3 DEF Promise!Next
<1>6. CASE /\ OutcomeOf(r) # "Open"
           /\ OutcomeOf(r)' = OutcomeOf(r)
           /\ \E a : Tells(a) = OutcomeOf(r) /\ Answer(r, a)
  <2>1. out' = out
    BY <1>1, <1>2, <1>6
  <2>2. told' = [told EXCEPT ![r] = @ \cup {out'[r]}]
    BY <1>2, <1>3, <1>6
  <2>3. Promise!Answer(r)
    BY <1>0, <1>2, <1>6, <2>1, <2>2 DEF Promise!Answer, Promise!Answered, Tells
  <2> QED BY <2>3 DEF Promise!Next
<1> QED BY <1>4, <1>5, <1>6 DEF Promised

\* With a row there is no conflict answer, and the row and the journal tell the outcome.
LEMMA OutcomeOfRow ==
  ASSUME SettledInv, NEW r \in Request, ledger[r] # "Absent"
  PROVE  /\ "IdempotencyConflict" \notin answers[r]
         /\ CommandOf[r] \in journal => OutcomeOf(r) = "Applied"
         /\ CommandOf[r] \notin journal /\ ledger[r] \in RejectCode => OutcomeOf(r) = "Refused"
         /\ CommandOf[r] \notin journal /\ ledger[r] \notin RejectCode => OutcomeOf(r) = "Open"
<1>1. "IdempotencyConflict" \notin answers[r]
  BY DEF SettledInv, LedgerInv, AnswersRetained
<1> QED BY <1>1 DEF OutcomeOf

\* Recording a true settlement decides the request at most once, and answers with
\* the outcome.
LEMMA SettlementPromised ==
  ASSUME SettledInv, SettledInv', NEW r \in Request,
         NEW s \in Terminal \cup {"Indeterminate"},
         ledger[r] # "Absent",
         s = "Committed" => CommandOf[r] \in journal,
         s \in RejectCode => CommandOf[r] \notin journal,
         ledger' = [ledger EXCEPT ![r] = Settled(r, s)],
         \/ UNCHANGED answers
         \/ FinalResult(r, s) /\ Answer(r, s),
         UNCHANGED journal
  PROVE  Promised(r)
<1>0. TypeOK
  BY DEF SettledInv, LedgerInv
<1>1. /\ ledger'[r] = Settled(r, s)
      /\ \A q \in Request \ {r} : ledger'[q] = ledger[q] /\ answers'[q] = answers[q]
  BY <1>0 DEF TypeOK, Answer
<1>2. \A q \in Request \ {r} : OutcomeOf(q)' = OutcomeOf(q)
  BY <1>1 DEF OutcomeOf
<1>3. ledger'[r] # "Absent"
  BY <1>0, <1>1, SettlementFacts
<1>4. "IdempotencyConflict" \notin answers'[r]
  BY <1>3 DEF SettledInv, LedgerInv, AnswersRetained
<1>5. /\ CommandOf[r] \in journal => OutcomeOf(r)' = "Applied"
      /\ CommandOf[r] \notin journal /\ ledger'[r] \in RejectCode => OutcomeOf(r)' = "Refused"
      /\ CommandOf[r] \notin journal /\ ledger'[r] \notin RejectCode => OutcomeOf(r)' = "Open"
  BY <1>3, <1>4 DEF OutcomeOf
<1>6. ledger[r] = "Committed" => CommandOf[r] \in journal
  BY DEF SettledInv, SettledTruth
<1>7. CASE CommandOf[r] \in journal
  <2>1. OutcomeOf(r) = "Applied" /\ OutcomeOf(r)' = "Applied"
    BY <1>5, <1>7, OutcomeOfRow
  <2>2. FinalResult(r, s) => Tells(s) = "Applied"
    BY <1>7 DEF FinalResult, Tells, Terminal
  <2> QED BY <1>2, <2>1, <2>2 DEF Promised
<1>8. CASE CommandOf[r] \notin journal /\ ledger[r] \in Terminal
  <2>1. ledger[r] \in RejectCode /\ ledger'[r] = ledger[r]
    BY <1>1, <1>6, <1>8 DEF Settled, Terminal
  <2>2. OutcomeOf(r) = "Refused" /\ OutcomeOf(r)' = "Refused"
    BY <1>5, <1>8, <2>1, OutcomeOfRow
  <2>3. FinalResult(r, s) => Tells(s) = "Refused"
    BY <1>8 DEF Tells
  <2> QED BY <1>2, <2>2, <2>3 DEF Promised
<1>9. CASE CommandOf[r] \notin journal /\ ledger[r] \notin Terminal
  <2>1. OutcomeOf(r) = "Open" /\ ledger'[r] = s
    BY <1>1, <1>9, OutcomeOfRow DEF Settled, Terminal
  <2>2. CASE s \in RejectCode
    <3>1. OutcomeOf(r)' = "Refused" /\ Tells(s) = "Refused"
      BY <1>5, <1>9, <2>1, <2>2 DEF Tells
    <3> QED BY <1>2, <2>1, <3>1 DEF Promised
  <2>3. CASE s \notin RejectCode
    <3>1. s = "Indeterminate"
      BY <1>9, <2>3 DEF Terminal
    <3>2. OutcomeOf(r)' = "Open" /\ UNCHANGED answers
      BY <1>5, <1>9, <2>1, <2>3, <3>1 DEF FinalResult, Terminal, RejectCode
    <3> QED BY <1>2, <2>1, <3>2 DEF Promised
  <2> QED BY <2>2, <2>3
<1> QED BY <1>7, <1>8, <1>9

\* What the client sees is a function of these three.
LEMMA UnseenPromised ==
  ASSUME UNCHANGED <<ledger, journal, answers>>, NEW r \in Request
  PROVE  Promised(r)
BY DEF Promised, OutcomeOf

\* Admission: a new row has no outcome yet, a retained one repeats its outcome, a
\* conflict refuses.
LEMMA AdmitPromised ==
  ASSUME SettledInv, NEW t \in Task, NEW r \in Request, r = task[t].request, Admit(t)
  PROVE  Promised(r)
<1>0. /\ r \in Request
      /\ ledger \in [Request -> RowState]
      /\ answers \in [Request -> SUBSET (Terminal \cup {"IdempotencyConflict"})]
      /\ UNCHANGED journal
  BY TaskTyped DEF SettledInv, LedgerInv, TypeOK, Admit
<1>1. CASE Classification(r) = "Inserted" /\ Inserted(t, r)
  <2>1. ledger[r] = "Absent" /\ ~KeyTaken(r) /\ ~CommandTaken(r)
    BY <1>0, <1>1 DEF Classification, RowState
  <2>2. ledger' = [ledger EXCEPT ![r] = "Pending"] /\ UNCHANGED answers
    BY <1>1 DEF Inserted
  <2>3. CommandOf[r] \notin journal
    BY <1>0, <2>1 DEF CommandTaken, SettledInv, LedgerInv, JournalRows
  <2>4. "IdempotencyConflict" \notin answers[r]
    BY <1>0, <2>1 DEF SettledInv, LedgerInv, AnswersRetained
  <2>5. ledger'[r] = "Pending" /\ \A q \in Request \ {r} : ledger'[q] = ledger[q]
    BY <1>0, <2>2
  <2>6. OutcomeOf(r) = "Open" /\ OutcomeOf(r)' = "Open"
    BY <1>0, <2>1, <2>2, <2>3, <2>4, <2>5 DEF OutcomeOf, RejectCode
  <2>7. \A q \in Request \ {r} : OutcomeOf(q)' = OutcomeOf(q)
    BY <1>0, <2>2, <2>5 DEF OutcomeOf
  <2> QED BY <2>2, <2>6, <2>7 DEF Promised
<1>2. CASE Classification(r) = "Retained" /\ Answer(r, ledger[r]) /\ UNCHANGED ledger
  <2>1. ledger[r] \in Terminal
    BY <1>2 DEF Classification
  <2>2. ledger[r] # "Absent"
    BY <2>1 DEF Terminal, RejectCode
  <2>3. OutcomeOf(r) = Tells(ledger[r]) /\ OutcomeOf(r) # "Open"
    BY <1>0, <2>1, <2>2, OutcomeOfRow DEF Tells, SettledInv, SettledTruth, Terminal, RejectCode
  <2>4. \A q \in Request \ {r} : answers'[q] = answers[q]
    BY <1>0, <1>2 DEF Answer
  <2>5. answers'[r] = answers[r] \cup {ledger[r]}
    BY <1>0, <1>2 DEF Answer
  <2>6. ledger[r] # "IdempotencyConflict"
    BY <2>1 DEF Terminal, RejectCode
  <2>7. \A q \in Request : OutcomeOf(q)' = OutcomeOf(q)
    BY <1>0, <1>2, <2>4, <2>5, <2>6 DEF OutcomeOf
  <2> QED BY <1>0, <1>2, <2>3, <2>7 DEF Promised
<1>3. CASE Classification(r) = "Conflict" /\ Answer(r, "IdempotencyConflict") /\ UNCHANGED ledger
  <2>1. ledger[r] = "Absent"
    BY <1>0, <1>3 DEF Classification, RowState
  <2>2. \A q \in Request \ {r} : answers'[q] = answers[q]
    BY <1>0, <1>3 DEF Answer
  <2>3. "IdempotencyConflict" \in answers'[r]
    BY <1>0, <1>3 DEF Answer
  <2>4. OutcomeOf(r)' = "Refused"
    BY <1>3, <2>1, <2>3 DEF OutcomeOf
  <2>5. \A q \in Request \ {r} : OutcomeOf(q)' = OutcomeOf(q)
    BY <1>0, <1>3, <2>2 DEF OutcomeOf
  <2>6. OutcomeOf(r) \in {"Open", "Refused"}
    BY <2>1 DEF OutcomeOf
  <2>7. Tells("IdempotencyConflict") = "Refused"
    BY DEF Tells
  <2> QED BY <1>3, <2>4, <2>5, <2>6, <2>7 DEF Promised
<1>4. CASE UNCHANGED <<ledger, answers>>
  BY <1>0, <1>4, UnseenPromised
<1> QED BY <1>1, <1>2, <1>3, <1>4 DEF Admit

\* Dispatch: an append decides the one row of its command, which was open.
LEMMA DispatchPromised ==
  ASSUME SettledInv, NEW t \in Task, NEW r \in Request, r = task[t].request, Dispatch(t)
  PROVE  Promised(r)
<1>1. /\ UNCHANGED <<ledger, answers>>
      /\ journal' = journal \cup {CommandOf[r]} \/ journal' = journal
  BY DEF Dispatch
<1>2. CASE journal' = journal \cup {CommandOf[r]}
  <2>1. ledger[r] \in Unsettled /\ CommandOf[r] \notin journal
    BY DEF Dispatch, SettledInv, Exclusive, LedgerInv, OneDispatcher
  <2>2. ledger[r] # "Absent" /\ ledger[r] \notin RejectCode
    BY <2>1 DEF Unsettled, RejectCode
  <2>3. OutcomeOf(r) = "Open"
    BY <2>1, <2>2, OutcomeOfRow
  <2>4. OutcomeOf(r)' = "Applied"
    BY <1>1, <1>2, <2>2 DEF OutcomeOf
  <2>5. \A q \in Request \ {r} : ledger[q] # "Absent" => CommandOf[q] # CommandOf[r]
    BY <2>2 DEF SettledInv, OneRow
  <2>6. \A q \in Request \ {r} : OutcomeOf(q)' = OutcomeOf(q)
    BY <1>1, <1>2, <2>5 DEF OutcomeOf
  <2> QED BY <1>1, <2>3, <2>4, <2>6 DEF Promised
<1>3. CASE journal' = journal
  BY <1>1, <1>3, UnseenPromised
<1> QED BY <1>1, <1>2, <1>3

\* Every step of the daemon is promised for some request.
LEMMA StepPromised ==
  ASSUME OneConnection, SettledInv, [Next]_vars
  PROVE  \E r \in Request : Promised(r)
<1>0. SettledInv'
  BY SettledStep
<1>1. CASE UNCHANGED <<ledger, journal, answers>>
  BY <1>1, UnseenPromised, RequestAssumption
<1>2. ASSUME NEW t \in Task, Admit(t) PROVE \E r \in Request : Promised(r)
  BY <1>2, AdmitPromised, TaskTyped DEF SettledInv
<1>3. ASSUME NEW t \in Task, Dispatch(t) PROVE \E r \in Request : Promised(r)
  BY <1>3, DispatchPromised, TaskTyped DEF SettledInv
<1>4. ASSUME NEW t \in Task, task[t].step \in {"Settle", "Reconcile"},
             NEW s \in Terminal \cup {"Indeterminate"},
             s = "Committed" => CommandOf[task[t].request] \in journal,
             s \in RejectCode => CommandOf[task[t].request] \notin journal,
             Record(t, s), UNCHANGED journal
      PROVE  \E r \in Request : Promised(r)
  <2>0. PICK r \in Request : r = task[t].request
    BY TaskTyped DEF SettledInv
  <2>1. ledger[r] # "Absent"
    BY <1>4, <2>0 DEF SettledInv, LedgerInv, RowHeld
  <2>2. ledger' = [ledger EXCEPT ![r] = Settled(r, s)]
    BY <1>4, <2>0 DEF Record
  <2>3. UNCHANGED answers \/ (FinalResult(r, s) /\ Answer(r, s))
    BY <1>4, <2>0, Zenon DEF Record
  <2>4. Promised(r)
    BY <1>0, <1>4, <2>0, <2>1, <2>2, <2>3, SettlementPromised
  <2> QED BY <2>4
<1>5. ASSUME NEW t \in Task, Settle(t) PROVE \E r \in Request : Promised(r)
  <2>1. /\ task[t].settlement = "Committed" => CommandOf[task[t].request] \in journal
        /\ task[t].settlement \in RejectCode => CommandOf[task[t].request] \notin journal
    BY <1>5 DEF Settle, SettledInv, LedgerInv, ResultTrue
  <2> QED BY <1>4, <1>5, <2>1, TaskTyped DEF Settle, At, SettledInv
<1>6. ASSUME NEW t \in Task, Reconcile(t) PROVE \E r \in Request : Promised(r)
  <2>1. /\ Resolution(task[t].request) \in Terminal
        /\ Resolution(task[t].request) = "Committed" => CommandOf[task[t].request] \in journal
        /\ Resolution(task[t].request) \in RejectCode => CommandOf[task[t].request] \notin journal
    BY DEF Resolution, Terminal, RejectCode
  <2> QED BY <1>4, <1>6, <2>1 DEF Reconcile, At
<1>7. ASSUME NEW r \in Request, RecoverCommand(r) PROVE Promised(r)
  <2>1. /\ Resolution(r) \in Terminal
        /\ Resolution(r) = "Committed" => CommandOf[r] \in journal
        /\ Resolution(r) \in RejectCode => CommandOf[r] \notin journal
    BY DEF Resolution, Terminal, RejectCode
  <2>2. /\ ledger[r] # "Absent" /\ ledger' = [ledger EXCEPT ![r] = Settled(r, Resolution(r))]
        /\ UNCHANGED <<journal, answers>>
    BY <1>7 DEF RecoverCommand, Unsettled
  <2> QED BY <1>0, <2>1, <2>2, SettlementPromised
<1> QED
  BY <1>1, <1>2, <1>3, <1>5, <1>6, <1>7
  DEF Next, TaskStep, Recovery, Submit, LedgerError, Restart, StartupComplete, BeginDraining, vars

\* With one connection at a time submission implements the promise to the client:
\* one outcome per request, never changed, and every answer agrees with it, whatever
\* is retried, lost or restarted (command/service.rs submit).
THEOREM SubmissionKeepsPromise ==
  ASSUME OneConnection
  PROVE  Spec => PromiseKept
<1> DEFINE seen == <<[r \in Request |-> OutcomeOf(r)],
                     [r \in Request |-> {IF a = "Committed" THEN "Applied" ELSE "Refused" :
                                           a \in answers[r]}]>>
<1>1. Init => SettledInv
  BY InitLedger, IdleType
  DEF Init, SettledInv, OneRow, Exclusive, SettledTruth, RejectCode, At
<1>2. SettledInv /\ [Next]_vars => SettledInv'
  BY SettledStep
<1>3. Init => Promise!Init
  BY DEF Init, Promise!Init, OutcomeOf, RejectCode
<1>4. SettledInv /\ [Next]_vars => [Promise!Next]_seen
  <2> SUFFICES ASSUME SettledInv, [Next]_vars PROVE [Promise!Next]_seen
    OBVIOUS
  <2>1. answers \in [Request -> SUBSET (Terminal \cup {"IdempotencyConflict"})]
    BY DEF SettledInv, LedgerInv, TypeOK
  <2>2. PICK q \in Request : Promised(q)
    BY StepPromised
  <2> QED BY <2>1, <2>2, PromisedIsStep
<1>5. Spec => Promise!Init
  BY <1>3, PTL DEF Spec
<1>6. Spec => [][Promise!Next]_seen
  BY <1>1, <1>2, <1>4, PTL DEF Spec
<1>7. Promise!Init /\ [][Promise!Next]_seen => PromiseKept
  BY PTL DEF PromiseKept, Promise!Spec
<1> QED BY <1>5, <1>6, <1>7, PTL

------------------------------------------------------------------------------
(***************************************************************************)
(* The outbox, for every set of rows and claim loops, every number of       *)
(* attempts and every number of restarts.  Fences are what keeps claims     *)
(* apart: a claim that is not under the row's present fence has run out,    *)
(* and the present fence belongs to one loop at most.                       *)
(***************************************************************************)
------------------------------------------------------------------------------
(* The inductive invariant *)

RowRecord == [state : OutboxState, position : Nat, attempts : Nat, fence : Nat,
              lease_until : Nat]
ClaimRecord == [id : Row \cup {0}, fence : Nat, attempts : Nat, lease_until : Nat]

\* The fields of the stored row x of r agree, and a row has been tried exactly
\* when it has left Pending.
Agrees(r, x) ==
  /\ x \in RowRecord
  /\ x.attempts <= MaxAttempts[r]
  /\ x.state = "Claimed" <=> x.lease_until > 0
  /\ x.state = "Claimed" => x.attempts > 0 /\ x.fence > 0
  /\ x.state = "Absent" <=> x.position = 0
  /\ x.state \in {"Absent", "Pending"} <=> x.attempts = 0

\* r is served before s.
Ahead(r, s) ==
  \/ row[r].position < row[s].position
  \/ row[r].position = row[s].position /\ r < s

TableInv ==
  /\ row \in [Row -> RowRecord] /\ head \in Nat
  /\ \A r \in Row : Agrees(r, row[r]) /\ row[r].position <= head

\* A loop in the middle of a delivery.
Busy(p) == pump[p] \in {"delivering", "settling"}

\* Under the present fence a claim is the stored one, or the row was given up
\* after the claim had run out; under an older fence it has run out.
ClaimOf(p) ==
  /\ claim[p].id \in Row
  /\ claim[p].fence <= row[claim[p].id].fence
  /\ claim[p].fence < row[claim[p].id].fence => claim[p].lease_until <= now
  /\ claim[p].fence = row[claim[p].id].fence =>
       \/ /\ row[claim[p].id].state = "Claimed"
          /\ claim[p].lease_until = row[claim[p].id].lease_until
       \/ row[claim[p].id].state = "Exhausted" /\ claim[p].lease_until <= now
  /\ pump[p] = "settling" => claim[p].id \in effect

ClaimsInv ==
  /\ \A p \in Claimant : Busy(p) => ClaimOf(p)
  /\ \A p, q \in Claimant :
       p # q /\ Busy(p) /\ Busy(q) /\ claim[p].id = claim[q].id =>
         claim[p].fence # claim[q].fence

\* The variables other than the table.
LoopInv ==
  /\ moved \subseteq Child /\ effect \subseteq Row /\ surfaced \subseteq Row
  /\ lifecycle \in {"ready", "readOnly", "down"}
  /\ pump \in [Claimant -> {"idle", "delivering", "settling", "ended"}]
  /\ claim \in [Claimant -> ClaimRecord]
  /\ epoch \in 0..MaxEpoch /\ elapsed \in 0..Window

OutboxInv ==
  /\ TableInv /\ LoopInv /\ ClaimsInv
  /\ SettledAfterEffect /\ FirstAttemptsInOrder /\ LeaseDiesWithEpoch

LEMMA InvTypes == OutboxInv => OutboxTypeOK
  BY DEF OutboxInv, TableInv, LoopInv, OutboxTypeOK, RowRecord, ClaimRecord, Agrees

------------------------------------------------------------------------------
(* The clock and the order of service *)

LEMMA Clock ==
  ASSUME LoopInv
  PROVE  /\ now \in Nat /\ epoch \in Nat /\ elapsed \in Nat /\ Window \in Nat /\ Lease \in Nat
         /\ (epoch + 1) * Window = epoch * Window + Window
         /\ LeaseFits => now + Lease < (epoch + 1) * Window
  <1>1. /\ epoch \in Nat /\ elapsed \in Nat /\ Window \in Nat /\ Lease \in Nat
        /\ MaxEpoch \in Nat
    BY OutboxAssumption DEF LoopInv
  <1>2. \A e, w \in Nat : e * w \in Nat /\ (e + 1) * w = e * w + w
    OBVIOUS
  <1>3. epoch * Window \in Nat /\ (epoch + 1) * Window = epoch * Window + Window
    BY <1>1, <1>2
  <1> DEFINE b == epoch * Window
             n == (epoch + 1) * Window
  <1> HIDE DEF b, n
  <1>4. b \in Nat /\ n = b + Window
    BY <1>3 DEF b, n
  <1>5. now = b + elapsed
    BY DEF now, b
  <1>6. LeaseFits => Lease < Window - elapsed
    BY DEF LeaseFits
  <1>7. now \in Nat /\ (LeaseFits => now + Lease < n)
    BY <1>1, <1>4, <1>5, <1>6
  <1>8. QED
    BY <1>1, <1>3, <1>7 DEF n

LEMMA FirstIsFirst ==
  ASSUME TableInv, NEW S \in SUBSET Row, S # {}
  PROVE  First(S) \in S /\ \A s \in S \ {First(S)} : Ahead(First(S), s)
  <1>1. \A r \in S : r \in Nat /\ row[r].position \in Nat
    BY OutboxAssumption DEF TableInv, RowRecord
  <1> DEFINE P == {row[r].position : r \in S}
  <1>2. PICK m \in P : \A x \in P : m <= x
    <2>1. P \subseteq Nat /\ P # {}
      BY <1>1
    <2> HIDE DEF P
    <2>2. QED
      BY <2>1, LeastNatural
  <1> DEFINE T == {r \in S : row[r].position = m}
  <1>3. T \subseteq Nat /\ T # {}
    BY <1>1, <1>2
  <1>4. PICK r \in T : \A x \in T : r <= x
    <2> HIDE DEF T
    <2>1. QED
      BY <1>3, LeastNatural
  <1>5. \A s \in S \ {r} : \/ row[r].position < row[s].position
                           \/ row[r].position = row[s].position /\ r < s
    <2> SUFFICES ASSUME NEW s \in S \ {r}
                 PROVE  \/ row[r].position < row[s].position
                        \/ row[r].position = row[s].position /\ r < s
      OBVIOUS
    <2>1. m <= row[s].position /\ row[r].position = m /\ m \in Nat /\ row[s].position \in Nat
      BY <1>1, <1>2, <1>4
    <2>2. row[s].position = m => r < s
      BY <1>1, <1>4
    <2>3. QED
      BY <2>1, <2>2
  <1>6. r \in S
    BY <1>4
  <1> HIDE DEF P, T
  <1>7. /\ First(S) \in S
        /\ \A s \in S \ {First(S)} :
             \/ row[First(S)].position < row[s].position
             \/ row[First(S)].position = row[s].position /\ First(S) < s
    BY <1>5, <1>6 DEF First
  <1>8. QED
    BY <1>7 DEF Ahead

------------------------------------------------------------------------------
(* What a step leaves of the table *)

TableKept == TableInv' /\ SettledAfterEffect' /\ FirstAttemptsInOrder' /\ LeaseDiesWithEpoch'

LEMMA RowsKept ==
  ASSUME OutboxInv, row' = row, head' = head, effect \subseteq effect',
         epoch' = epoch \/ epoch' = epoch + 1
  PROVE  TableKept
  <1>1. TableInv'
    BY DEF OutboxInv, TableInv, Agrees
  <1>2. SettledAfterEffect' /\ FirstAttemptsInOrder'
    BY DEF OutboxInv, SettledAfterEffect, FirstAttemptsInOrder
  <1>3. LeaseDiesWithEpoch'
    <2>1. \A r \in Row : row[r].lease_until < (epoch + 1) * Window
      BY DEF OutboxInv, LeaseDiesWithEpoch
    <2>2. CASE epoch' = epoch
      BY <2>1, <2>2 DEF LeaseDiesWithEpoch
    <2>3. CASE epoch' = epoch + 1
      <3>1. epoch \in Nat /\ Window \in Nat
        BY Clock DEF OutboxInv
      <3>2. \A e, w \in Nat : ((e + 1) + 1) * w = (e + 1) * w + w /\ (e + 1) * w \in Nat
        OBVIOUS
      <3> DEFINE a == (epoch + 1) * Window
                 b == ((epoch + 1) + 1) * Window
      <3>3. b = a + Window /\ a \in Nat
        BY <3>1, <3>2
      <3>4. \A r \in Row : row[r].lease_until \in Nat
        BY DEF OutboxInv, TableInv, RowRecord
      <3>5. \A r \in Row : row[r].lease_until < a
        BY <2>1
      <3> HIDE DEF a, b
      <3>6. \A r \in Row : row[r].lease_until < b
        BY <3>1, <3>3, <3>4, <3>5
      <3>7. QED
        BY <2>3, <3>6 DEF LeaseDiesWithEpoch, b
    <2>4. QED
      BY <2>2, <2>3
  <1>4. QED
    BY <1>1, <1>2, <1>3 DEF TableKept

LEMMA SettledFields ==
  ASSUME TableInv, NEW r \in Row, row' = SettledRow(r)
  PROVE  /\ row' \in [Row -> RowRecord]
         /\ \A s \in Row \ {r} : row'[s] = row[s]
         /\ row'[r].state = "Acknowledged" /\ row'[r].lease_until = 0
         /\ row'[r].position = row[r].position /\ row'[r].attempts = row[r].attempts
         /\ row'[r].fence = row[r].fence
  <1>1. row[r] \in RowRecord /\ row \in [Row -> RowRecord]
    BY DEF TableInv
  <1>2. [row[r] EXCEPT !.state = "Acknowledged", !.lease_until = 0] \in RowRecord
    BY <1>1 DEF RowRecord, OutboxState
  <1>3. /\ row'[r] = [row[r] EXCEPT !.state = "Acknowledged", !.lease_until = 0]
        /\ row' \in [Row -> RowRecord] /\ \A s \in Row \ {r} : row'[s] = row[s]
    BY <1>1, <1>2 DEF SettledRow
  <1>4. QED
    BY <1>1, <1>3 DEF RowRecord

LEMMA RowIsSettled ==
  ASSUME OutboxInv, NEW r \in Row, row[r].state = "Claimed", row' = SettledRow(r),
         head' = head, effect \subseteq effect', r \in effect', epoch' = epoch
  PROVE  TableKept
  <1>1. /\ row' \in [Row -> RowRecord]
        /\ \A s \in Row \ {r} : row'[s] = row[s]
        /\ row'[r].state = "Acknowledged" /\ row'[r].lease_until = 0
        /\ row'[r].position = row[r].position /\ row'[r].attempts = row[r].attempts
        /\ row'[r].fence = row[r].fence
    BY SettledFields DEF OutboxInv
  <1>2. \A s \in Row : Agrees(s, row[s]) /\ row[s].position <= head
    BY DEF OutboxInv, TableInv
  <1>3. TableInv'
    <2>1. Agrees(r, row'[r])
      <3>1. row'[r] \in RowRecord
        BY <1>1
      <3>2. /\ row[r].attempts <= MaxAttempts[r] /\ row[r].attempts > 0
            /\ row[r].position # 0 /\ row[r].attempts \in Nat
        BY <1>2 DEF Agrees, RowRecord
      <3>3. QED
        BY <1>1, <3>1, <3>2 DEF Agrees
    <2>2. \A s \in Row : Agrees(s, row'[s]) /\ row'[s].position <= head
      BY <1>1, <1>2, <2>1
    <2>3. head \in Nat
      BY DEF OutboxInv, TableInv
    <2>4. QED
      BY <1>1, <2>2, <2>3 DEF TableInv, Agrees
  <1>4. SettledAfterEffect'
    BY <1>1 DEF OutboxInv, SettledAfterEffect
  <1>5. FirstAttemptsInOrder'
    <2>1. \A s \in Row : /\ row'[s].position = row[s].position
                         /\ row'[s].attempts = row[s].attempts
                         /\ row'[s].state = "Absent" <=> row[s].state = "Absent"
      BY <1>1
    <2>2. QED
      BY <2>1 DEF OutboxInv, FirstAttemptsInOrder
  <1>6. LeaseDiesWithEpoch'
    <2>1. \A s \in Row : row[s].lease_until < (epoch + 1) * Window
      BY DEF OutboxInv, LeaseDiesWithEpoch
    <2>2. 0 < (epoch + 1) * Window
      <3>1. epoch \in Nat /\ Window \in Nat /\ (epoch + 1) * Window = epoch * Window + Window
        BY Clock DEF OutboxInv
      <3>2. \A e, w \in Nat : e * w \in Nat
        OBVIOUS
      <3>3. epoch * Window \in Nat /\ Window > 0
        BY <3>1, <3>2, OutboxAssumption
      <3> DEFINE b == epoch * Window
      <3> HIDE DEF b
      <3>4. b + Window > 0
        BY <3>1, <3>3 DEF b
      <3>5. QED
        BY <3>1, <3>4 DEF b
    <2>3. QED
      BY <1>1, <2>1, <2>2 DEF LeaseDiesWithEpoch
  <1>7. QED
    BY <1>3, <1>4, <1>5, <1>6 DEF TableKept

------------------------------------------------------------------------------
(* What a step leaves of the claims *)

\* A loop lets its claim go; the row may be settled under it.
LEMMA ClaimDropped ==
  ASSUME OutboxInv, NEW p \in Claimant, NEW step \in {"idle", "ended"},
         Become(p, step, NoClaim), effect \subseteq effect',
         epoch' = epoch, elapsed' = elapsed,
         \/ row' = row
         \/ Busy(p) /\ HeldUnder(claim[p]) /\ row' = SettledRow(claim[p].id)
  PROVE  ClaimsInv'
  <1>1. /\ pump \in [Claimant -> {"idle", "delivering", "settling", "ended"}]
        /\ claim \in [Claimant -> ClaimRecord] /\ now' = now
    BY DEF OutboxInv, LoopInv, now
  <1>2. /\ ~Busy(p)'
        /\ \A q \in Claimant \ {p} :
             /\ claim'[q] = claim[q] /\ pump'[q] = pump[q] /\ Busy(q)' = Busy(q)
    BY <1>1 DEF Become, Busy
  <1>3. ASSUME NEW q \in Claimant, Busy(q)'
        PROVE  ClaimOf(q)'
    <2>1. q # p /\ Busy(q) /\ claim'[q] = claim[q] /\ pump'[q] = pump[q]
      BY <1>2, <1>3
    <2>2. ClaimOf(q)
      BY <2>1 DEF OutboxInv, ClaimsInv
    <2>3. CASE row' = row
      BY <1>1, <2>1, <2>2, <2>3 DEF ClaimOf
    <2>4. CASE Busy(p) /\ HeldUnder(claim[p]) /\ row' = SettledRow(claim[p].id)
      <3>1. claim[p].id \in Row /\ claim[p].fence = row[claim[p].id].fence
        BY <2>4 DEF OutboxInv, ClaimsInv, ClaimOf, HeldUnder
      <3>2. /\ \A s \in Row \ {claim[p].id} : row'[s] = row[s]
            /\ \A s \in Row : row'[s].fence = row[s].fence
        BY <2>4, <3>1, SettledFields DEF OutboxInv
      <3>3. CASE claim[q].id = claim[p].id
        <4>1. claim[q].fence # row[claim[q].id].fence
          BY <2>1, <2>4, <3>1, <3>3 DEF OutboxInv, ClaimsInv
        <4>2. QED
          BY <1>1, <2>1, <2>2, <3>2, <4>1 DEF ClaimOf
      <3>4. CASE claim[q].id # claim[p].id
        BY <1>1, <2>1, <2>2, <3>2, <3>4 DEF ClaimOf
      <3>5. QED
        BY <3>3, <3>4
    <2>5. QED
      BY <2>3, <2>4
  <1>4. \A q, u \in Claimant :
          q # u /\ Busy(q)' /\ Busy(u)' /\ claim'[q].id = claim'[u].id =>
            claim'[q].fence # claim'[u].fence
    BY <1>2 DEF OutboxInv, ClaimsInv
  <1>5. QED
    BY <1>3, <1>4 DEF ClaimsInv

\* All loops and the table stay; time may pass and rows may gain their effects.
LEMMA ClaimsKept ==
  ASSUME OutboxInv, pump' = pump, claim' = claim, row' = row, effect \subseteq effect',
         epoch' = epoch, elapsed' = elapsed \/ elapsed' = elapsed + 1
  PROVE  ClaimsInv'
  <1>1. now' \in Nat /\ now \in Nat /\ now' >= now
    <2>1. now \in Nat /\ elapsed \in Nat /\ epoch \in Nat /\ Window \in Nat
      BY Clock DEF OutboxInv
    <2>2. \A e, w \in Nat : e * w \in Nat
      OBVIOUS
    <2> DEFINE b == epoch * Window
    <2>3. b \in Nat
      BY <2>1, <2>2
    <2>4. now' = b + elapsed' /\ now = b + elapsed
      BY DEF now
    <2> HIDE DEF b
    <2>5. QED
      BY <2>1, <2>3, <2>4
  <1>2. ASSUME NEW q \in Claimant, Busy(q)
        PROVE  ClaimOf(q)'
    <2>1. ClaimOf(q)
      BY <1>2 DEF OutboxInv, ClaimsInv
    <2>2. claim[q].lease_until \in Nat
      BY DEF OutboxInv, LoopInv, ClaimRecord
    <2>3. QED
      BY <1>1, <2>1, <2>2 DEF ClaimOf
  <1>3. QED
    BY <1>2 DEF OutboxInv, ClaimsInv, Busy

LEMMA NobodyBusy ==
  ASSUME \A p \in Claimant : pump'[p] \in {"idle", "ended"}
  PROVE  ClaimsInv'
  BY DEF ClaimsInv, Busy

------------------------------------------------------------------------------
(* Every action keeps the invariant *)

LEMMA InitOutbox == OutboxInit => OutboxInv
  <1> SUFFICES ASSUME OutboxInit PROVE OutboxInv
    OBVIOUS
  <1>1. /\ Row \subseteq Nat /\ Window \in Nat /\ Window > 0 /\ MaxEpoch \in Nat
        /\ MaxAttempts \in [Row -> Nat \ {0}]
    BY OutboxAssumption
  <1>2. TableInv
    <2>1. \A r \in Row : row[r] = [state |-> "Absent", position |-> 0, attempts |-> 0,
                                   fence |-> 0, lease_until |-> 0]
      BY DEF OutboxInit
    <2>2. row \in [Row -> RowRecord] /\ head \in Nat
      BY DEF OutboxInit, RowRecord, OutboxState
    <2>3. \A r \in Row : Agrees(r, row[r]) /\ row[r].position <= head
      BY <1>1, <2>1, <2>2 DEF OutboxInit, Agrees
    <2>4. QED
      BY <2>2, <2>3 DEF TableInv
  <1>3. LoopInv
    BY <1>1 DEF OutboxInit, LoopInv, ClaimRecord, NoClaim
  <1>4. ClaimsInv
    BY DEF OutboxInit, ClaimsInv, Busy
  <1>5. SettledAfterEffect /\ FirstAttemptsInOrder
    BY DEF OutboxInit, SettledAfterEffect, FirstAttemptsInOrder
  <1>6. LeaseDiesWithEpoch
    <2>1. (0 + 1) * Window = Window
      BY <1>1
    <2>2. QED
      BY <1>1, <2>1 DEF OutboxInit, LeaseDiesWithEpoch
  <1>7. QED
    BY <1>2, <1>3, <1>4, <1>5, <1>6 DEF OutboxInv

\* Rows of one append come after everything published before.
LEMMA PublishInv ==
  ASSUME OutboxInv, NEW S \in SUBSET Row, Publish(S)
  PROVE  OutboxInv'
  <1>1. /\ \A r \in S : row[r].state = "Absent"
        /\ head' = head + 1 /\ effect' = effect /\ epoch' = epoch /\ elapsed' = elapsed
        /\ moved' = moved /\ lifecycle' = lifecycle /\ pump' = pump /\ claim' = claim
        /\ surfaced' = surfaced
        /\ row' = [r \in Row |-> IF r \in S
                                 THEN [row[r] EXCEPT !.state = "Pending", !.position = head']
                                 ELSE row[r]]
    BY DEF Publish
  <1>2. /\ head \in Nat
        /\ \A r \in Row : row[r] \in RowRecord /\ Agrees(r, row[r]) /\ row[r].position <= head
    BY DEF OutboxInv, TableInv
  <1>3. \A r \in S : /\ row'[r] = [row[r] EXCEPT !.state = "Pending", !.position = head + 1]
                     /\ row'[r] \in RowRecord
    <2> SUFFICES ASSUME NEW r \in S
                 PROVE  /\ row'[r] = [row[r] EXCEPT !.state = "Pending", !.position = head + 1]
                        /\ row'[r] \in RowRecord
      OBVIOUS
    <2>1. row'[r] = [row[r] EXCEPT !.state = "Pending", !.position = head + 1]
      BY <1>1
    <2>2. row[r] \in RowRecord /\ head + 1 \in Nat
      BY <1>2
    <2>3. [row[r] EXCEPT !.state = "Pending", !.position = head + 1] \in RowRecord
      BY <2>2 DEF RowRecord, OutboxState
    <2>4. QED
      BY <2>1, <2>3
  <1>4. \A r \in S : /\ row'[r].state = "Pending" /\ row'[r].position = head + 1
                     /\ row'[r].attempts = row[r].attempts /\ row'[r].fence = row[r].fence
                     /\ row'[r].lease_until = row[r].lease_until
    <2> SUFFICES ASSUME NEW r \in S
                 PROVE  /\ row'[r].state = "Pending" /\ row'[r].position = head + 1
                        /\ row'[r].attempts = row[r].attempts /\ row'[r].fence = row[r].fence
                        /\ row'[r].lease_until = row[r].lease_until
      OBVIOUS
    <2>1. row[r] \in RowRecord /\ row'[r] = [row[r] EXCEPT !.state = "Pending", !.position = head + 1]
      BY <1>2, <1>3
    <2>2. QED
      BY <2>1 DEF RowRecord
  <1>5. \A r \in Row \ S : row'[r] = row[r]
    BY <1>1
  <1>6. TableInv'
    <2>1. row' \in [Row -> RowRecord]
      <3>1. \A r \in Row : (IF r \in S
                            THEN [row[r] EXCEPT !.state = "Pending", !.position = head']
                            ELSE row[r]) \in RowRecord
        BY <1>1, <1>2, <1>3
      <3>2. QED
        BY <1>1, <3>1
    <2>2. ASSUME NEW r \in S
          PROVE  Agrees(r, row'[r])
      <3>1. Agrees(r, row[r]) /\ row[r].state = "Absent" /\ row[r] \in RowRecord
        BY <1>1, <1>2
      <3>2. row[r].attempts = 0 /\ row[r].attempts <= MaxAttempts[r] /\ ~(row[r].lease_until > 0)
        BY <3>1 DEF Agrees
      <3>3. row'[r] \in RowRecord /\ row'[r].state = "Pending" /\ row'[r].position # 0
              /\ row'[r].attempts = 0 /\ row'[r].lease_until = row[r].lease_until
        <4>1. head + 1 # 0
          BY <1>2
        <4>2. QED
          BY <1>3, <1>4, <3>2, <4>1
      <3>4. QED
        BY <3>2, <3>3 DEF Agrees
    <2>3. \A r \in Row : Agrees(r, row'[r]) /\ row'[r].position <= head + 1
      <3>1. \A r \in Row : row[r].position \in Nat
        BY <1>2 DEF RowRecord
      <3>2. QED
        BY <1>2, <1>4, <1>5, <2>2, <3>1
    <2>4. head' \in Nat /\ \A r \in Row : Agrees(r, row[r])' /\ row'[r].position <= head'
      <3>1. head' \in Nat /\ \A r \in Row : row'[r].position <= head'
        <4>1. head' = head + 1
          BY <1>1
        <4>2. head \in Nat /\ \A r \in Row : row'[r].position <= head + 1
          BY <1>2, <2>3
        <4>3. QED
          BY <4>1, <4>2
      <3>2. \A r \in Row : Agrees(r, row'[r])
        BY <2>3
      <3>3. \A r \in Row : Agrees(r, row[r])'
        BY <3>2 DEF Agrees
      <3>4. QED
        BY <3>1, <3>3
    <2>5. QED
      BY <2>1, <2>4 DEF TableInv
  <1>7. LoopInv'
    BY <1>1 DEF OutboxInv, LoopInv
  <1>8. ClaimsInv'
    <2>1. ASSUME NEW p \in Claimant, Busy(p)
          PROVE  ClaimOf(p)'
      <3>1. ClaimOf(p)
        BY <2>1 DEF OutboxInv, ClaimsInv
      <3>2. claim[p].id \in Row /\ row'[claim[p].id].fence = row[claim[p].id].fence
        BY <1>4, <1>5, <3>1 DEF ClaimOf
      <3>3. row[claim[p].id].state \in {"Claimed", "Exhausted"} =>
              row'[claim[p].id] = row[claim[p].id]
        BY <1>1, <1>5, <3>2
      <3>4. now' = now
        BY <1>1 DEF now
      <3>5. QED
        BY <1>1, <3>1, <3>2, <3>3, <3>4 DEF ClaimOf
    <2>2. QED
      BY <1>1, <2>1 DEF OutboxInv, ClaimsInv, Busy
  <1>9. SettledAfterEffect'
    BY <1>1, <1>4, <1>5 DEF OutboxInv, SettledAfterEffect
  <1>10. FirstAttemptsInOrder'
    <2> SUFFICES ASSUME NEW r \in Row, NEW s \in Row,
                        row'[r].state # "Absent", row'[s].attempts > 0,
                        \/ row'[r].position < row'[s].position
                        \/ row'[r].position = row'[s].position /\ r < s
                 PROVE  row'[r].attempts > 0
      BY DEF FirstAttemptsInOrder
    <2>1. \A u \in S : row[u].attempts = 0
      BY <1>1, <1>2 DEF Agrees
    <2>2. s \notin S /\ row'[s] = row[s]
      BY <1>4, <1>5, <2>1
    <2>3. row[s].position <= head /\ row[s].position \in Nat
      BY <1>2 DEF RowRecord
    <2>4. r \notin S /\ row'[r] = row[r]
      BY <1>2, <1>4, <1>5, <2>2, <2>3
    <2>5. QED
      BY <2>2, <2>4 DEF OutboxInv, FirstAttemptsInOrder
  <1>11. LeaseDiesWithEpoch'
    BY <1>1, <1>4, <1>5 DEF OutboxInv, LeaseDiesWithEpoch
  <1>12. QED
    BY <1>6, <1>7, <1>8, <1>9, <1>10, <1>11 DEF OutboxInv

\* What a claim does to the table: rows out of attempts are given up, and the
\* first claimable one, if there is one, gets the next fence and a lease.
LEMMA SweptFields ==
  ASSUME TableInv
  PROVE  /\ Swept \in [Row -> RowRecord]
         /\ \A r \in Row :
              /\ ~Spent(r) => Swept[r] = row[r]
              /\ Spent(r) => /\ Swept[r].state = "Exhausted" /\ Swept[r].lease_until = 0
                             /\ Swept[r].position = row[r].position
                             /\ Swept[r].attempts = row[r].attempts
                             /\ Swept[r].fence = row[r].fence
  <1>1. \A r \in Row : row[r] \in RowRecord
    BY DEF TableInv
  <1>2. \A r \in Row :
          [row[r] EXCEPT !.state = "Exhausted", !.lease_until = 0] \in RowRecord
    BY <1>1 DEF RowRecord, OutboxState
  <1>3. /\ Swept \in [Row -> RowRecord]
        /\ \A r \in Row :
             Swept[r] = IF Spent(r)
                        THEN [row[r] EXCEPT !.state = "Exhausted", !.lease_until = 0]
                        ELSE row[r]
    BY <1>1, <1>2 DEF Swept
  <1>4. QED
    BY <1>1, <1>3 DEF RowRecord

\* The sweep alone, over a table X that is row but for the rows it gives up.
LEMMA SweptAgrees ==
  ASSUME OutboxInv, NEW r \in Row
  PROVE  Agrees(r, Swept[r]) /\ Swept[r].position <= head
  <1>1. /\ Agrees(r, row[r]) /\ row[r].position <= head /\ row[r] \in RowRecord
        /\ MaxAttempts[r] \in Nat /\ MaxAttempts[r] > 0
    BY OutboxAssumption DEF OutboxInv, TableInv
  <1>2. CASE ~Spent(r)
    BY <1>1, <1>2, SweptFields DEF OutboxInv
  <1>3. CASE Spent(r)
    <2>1. /\ Swept[r] \in RowRecord
          /\ Swept[r].state = "Exhausted" /\ Swept[r].lease_until = 0
          /\ Swept[r].position = row[r].position
          /\ Swept[r].attempts = row[r].attempts
      BY <1>3, SweptFields DEF OutboxInv
    <2>2. row[r].attempts >= MaxAttempts[r] /\ row[r].state \in {"Pending", "Claimed"}
      BY <1>3 DEF Spent, Available
    <2>3. row[r].attempts > 0 /\ row[r].attempts <= MaxAttempts[r] /\ row[r].position # 0
          /\ row[r].attempts \in Nat
      BY <1>1, <2>2 DEF Agrees, RowRecord
    <2>4. QED
      BY <1>1, <2>1, <2>3 DEF Agrees
  <1>4. QED
    BY <1>2, <1>3

\* A claim under the present fence has run out when its row is given up.
LEMMA SweptClaim ==
  ASSUME OutboxInv, NEW p \in Claimant, Busy(p)
  PROVE  /\ claim[p].id \in Row
         /\ claim[p].fence <= Swept[claim[p].id].fence
         /\ claim[p].fence < Swept[claim[p].id].fence => claim[p].lease_until <= now
         /\ claim[p].fence = Swept[claim[p].id].fence =>
              \/ /\ Swept[claim[p].id].state = "Claimed"
                 /\ claim[p].lease_until = Swept[claim[p].id].lease_until
              \/ Swept[claim[p].id].state = "Exhausted" /\ claim[p].lease_until <= now
         /\ Available(claim[p].id) => claim[p].lease_until <= now
         /\ claim[p].fence <= row[claim[p].id].fence
  <1>1. ClaimOf(p)
    BY DEF OutboxInv, ClaimsInv
  <1>2. claim[p].id \in Row
    BY <1>1 DEF ClaimOf
  <1>3. claim[p].fence \in Nat /\ row[claim[p].id].fence \in Nat
    BY <1>2 DEF OutboxInv, LoopInv, TableInv, RowRecord, ClaimRecord
  <1>4. Available(claim[p].id) => claim[p].lease_until <= now
    BY <1>1, <1>3 DEF ClaimOf, Available
  <1>5. CASE ~Spent(claim[p].id)
    <2>1. Swept[claim[p].id] = row[claim[p].id]
      BY <1>2, <1>5, SweptFields DEF OutboxInv
    <2>2. QED
      BY <1>1, <1>4, <2>1 DEF ClaimOf
  <1>6. CASE Spent(claim[p].id)
    <2>1. Swept[claim[p].id].state = "Exhausted"
            /\ Swept[claim[p].id].fence = row[claim[p].id].fence
      BY <1>2, <1>6, SweptFields DEF OutboxInv
    <2>2. claim[p].lease_until <= now
      BY <1>4, <1>6 DEF Spent
    <2>3. QED
      BY <1>1, <1>4, <2>1, <2>2 DEF ClaimOf
  <1>7. QED
    BY <1>5, <1>6

\* FirstAttemptsInOrder when attempts only grow, and the first attempt is made of
\* a row that no untried row is ahead of.
LEMMA OrderKept ==
  ASSUME OutboxInv,
         \A r \in Row : /\ row'[r].position = row[r].position
                        /\ row'[r].state = "Absent" <=> row[r].state = "Absent"
                        /\ row'[r].attempts \in Nat /\ row'[r].attempts >= row[r].attempts,
         \A s \in Row : row[s].attempts = 0 /\ row'[s].attempts > 0 =>
           \A r \in Row : row[r].state # "Absent" /\ Ahead(r, s) => row'[r].attempts > 0
  PROVE  FirstAttemptsInOrder'
  <1> SUFFICES ASSUME NEW r \in Row, NEW s \in Row,
                      row'[r].state # "Absent", row'[s].attempts > 0,
                      \/ row'[r].position < row'[s].position
                      \/ row'[r].position = row'[s].position /\ r < s
               PROVE  row'[r].attempts > 0
    BY DEF FirstAttemptsInOrder
  <1>1. row[r].attempts \in Nat /\ row[s].attempts \in Nat
    BY DEF OutboxInv, TableInv, RowRecord
  <1>2. row[r].state # "Absent" /\ Ahead(r, s)
    BY DEF Ahead
  <1>3. CASE row[s].attempts = 0
    BY <1>2, <1>3
  <1>4. CASE row[s].attempts > 0
    <2>1. row[r].attempts > 0
      BY <1>2, <1>4 DEF OutboxInv, FirstAttemptsInOrder, Ahead
    <2>2. QED
      BY <1>1, <2>1
  <1>5. QED
    BY <1>1, <1>3, <1>4

LEMMA SweepInv ==
  ASSUME OutboxInv, row' = Swept,
         UNCHANGED <<pump, claim, head, moved, effect, lifecycle, epoch, elapsed, surfaced>>
  PROVE  OutboxInv'
  <1>1. \A r \in Row : Agrees(r, row'[r]) /\ row'[r].position <= head
    BY SweptAgrees
  <1>2. row' \in [Row -> RowRecord]
    BY SweptFields DEF OutboxInv
  <1>3. TableInv'
    <2>1. \A r \in Row : Agrees(r, row[r])'
      BY <1>1 DEF Agrees
    <2>2. QED
      BY <1>1, <1>2, <2>1 DEF OutboxInv, TableInv
  <1>4. LoopInv'
    BY DEF OutboxInv, LoopInv
  <1>5. now' = now
    BY DEF now
  <1>6. ClaimsInv'
    <2>1. ASSUME NEW p \in Claimant, Busy(p)
          PROVE  ClaimOf(p)'
      <3>1. ClaimOf(p)
        BY <2>1 DEF OutboxInv, ClaimsInv
      <3>2. QED
        BY <1>5, <2>1, <3>1, SweptClaim DEF ClaimOf
    <2>2. QED
      BY <2>1 DEF OutboxInv, ClaimsInv, Busy
  <1>7. \A r \in Row :
          /\ row'[r].state = row[r].state \/ row'[r].state = "Exhausted"
          /\ row'[r].state = "Absent" <=> row[r].state = "Absent"
          /\ row'[r].lease_until = row[r].lease_until \/ row'[r].lease_until = 0
          /\ row'[r].position = row[r].position
          /\ row'[r].attempts = row[r].attempts
    <2>1. \A r \in Row : Spent(r) => row[r].state # "Absent"
      BY DEF Spent, Available
    <2>2. QED
      BY <2>1, SweptFields DEF OutboxInv
  <1>8. SettledAfterEffect'
    BY <1>7 DEF OutboxInv, SettledAfterEffect
  <1>9. FirstAttemptsInOrder'
    <2>1. \A r \in Row : row[r].attempts \in Nat
      BY DEF OutboxInv, TableInv, RowRecord
    <2>2. QED
      BY <1>7, <2>1 DEF OutboxInv, FirstAttemptsInOrder
  <1>10. LeaseDiesWithEpoch'
    <2>1. \A r \in Row : row[r].lease_until \in Nat /\ row[r].lease_until < (epoch + 1) * Window
      BY DEF OutboxInv, TableInv, RowRecord, LeaseDiesWithEpoch
    <2>2. ASSUME NEW r \in Row
          PROVE  row'[r].lease_until < (epoch + 1) * Window
      <3> DEFINE b == (epoch + 1) * Window
      <3>1. row[r].lease_until < b /\ row[r].lease_until \in Nat
        BY <2>1
      <3>2. b \in Nat
        <4>1. epoch \in Nat /\ Window \in Nat
          BY Clock DEF OutboxInv
        <4>2. \A e, w \in Nat : (e + 1) * w \in Nat
          OBVIOUS
        <4>3. QED
          BY <4>1, <4>2
      <3> HIDE DEF b
      <3>3. row'[r].lease_until < b
        BY <1>7, <3>1, <3>2
      <3>4. QED
        BY <3>3 DEF b
    <2>3. QED
      BY <2>2 DEF LeaseDiesWithEpoch
  <1>11. QED
    BY <1>3, <1>4, <1>6, <1>8, <1>9, <1>10 DEF OutboxInv

LEMMA ClaimInv ==
  ASSUME OutboxInv, NEW p \in Claimant, pump[p] = "idle", LeaseFits, NEW r, NEW c,
         Claimable # {}, r = First(Claimable),
         c = [id |-> r, fence |-> row[r].fence + 1,
              attempts |-> row[r].attempts + 1, lease_until |-> now + Lease],
         row' = [Swept EXCEPT ![r] =
                   [@ EXCEPT !.state = "Claimed", !.attempts = c.attempts,
                             !.fence = c.fence, !.lease_until = c.lease_until]],
         Become(p, "delivering", c),
         UNCHANGED <<head, moved, effect, lifecycle, epoch, elapsed, surfaced>>
  PROVE  OutboxInv'
  <1>1. Claimable \in SUBSET Row
    BY DEF Claimable
  <1>2. /\ r \in Row /\ Available(r) /\ row[r].attempts < MaxAttempts[r] /\ ~Spent(r)
        /\ \A s \in Claimable \ {r} : Ahead(r, s)
    <2>1. First(Claimable) \in Claimable
            /\ \A s \in Claimable \ {First(Claimable)} : Ahead(First(Claimable), s)
      BY <1>1, FirstIsFirst DEF OutboxInv
    <2>2. r \in Claimable /\ \A s \in Claimable \ {r} : Ahead(r, s)
      BY <2>1
    <2>3. r \in Row /\ Available(r) /\ row[r].attempts < MaxAttempts[r]
      BY <2>2 DEF Claimable
    <2>4. row[r].attempts \in Nat /\ MaxAttempts[r] \in Nat
      BY <2>3, OutboxAssumption DEF OutboxInv, TableInv, RowRecord
    <2>5. QED
      BY <2>2, <2>3, <2>4 DEF Spent
  <1>3. /\ row[r] \in RowRecord /\ Agrees(r, row[r]) /\ row[r].position <= head
        /\ Swept \in [Row -> RowRecord] /\ Swept[r] = row[r]
    BY <1>2, SweptFields DEF OutboxInv, TableInv
  <1>4. now \in Nat /\ Lease \in Nat /\ Lease > 0
    BY Clock, OutboxAssumption DEF OutboxInv
  <1>5. /\ c.id = r /\ c.fence = row[r].fence + 1 /\ c.attempts = row[r].attempts + 1
        /\ c.lease_until = now + Lease /\ c \in ClaimRecord
        /\ c.fence \in Nat /\ c.attempts \in Nat /\ c.lease_until \in Nat
    BY <1>2, <1>3, <1>4 DEF RowRecord, ClaimRecord
  <1>6. /\ row' \in [Row -> RowRecord]
        /\ \A s \in Row \ {r} : row'[s] = Swept[s]
        /\ row'[r].state = "Claimed" /\ row'[r].attempts = c.attempts
        /\ row'[r].fence = c.fence /\ row'[r].lease_until = c.lease_until
        /\ row'[r].position = row[r].position
    <2>1. [row[r] EXCEPT !.state = "Claimed", !.attempts = c.attempts,
                         !.fence = c.fence, !.lease_until = c.lease_until] \in RowRecord
      <3>1. row[r] \in RowRecord /\ c.attempts \in Nat /\ c.fence \in Nat /\ c.lease_until \in Nat
        BY <1>3, <1>5
      <3>2. QED
        BY <3>1 DEF RowRecord, OutboxState
    <2>2. /\ row'[r] = [row[r] EXCEPT !.state = "Claimed", !.attempts = c.attempts,
                                      !.fence = c.fence, !.lease_until = c.lease_until]
          /\ row' \in [Row -> RowRecord] /\ \A s \in Row \ {r} : row'[s] = Swept[s]
      BY <1>2, <1>3, <2>1
    <2>3. QED
      BY <1>3, <2>2 DEF RowRecord
  <1>7. TableInv'
    <2>1. Agrees(r, row'[r])
      <3>1. row[r].attempts \in Nat /\ MaxAttempts[r] \in Nat /\ row[r].fence \in Nat
        BY <1>2, <1>3, OutboxAssumption DEF RowRecord
      <3>2. row[r].position # 0
        BY <1>2, <1>3 DEF Agrees, Available
      <3>3. /\ row'[r].attempts <= MaxAttempts[r] /\ row'[r].attempts > 0
            /\ row'[r].fence > 0 /\ row'[r].lease_until > 0 /\ row'[r].position # 0
        BY <1>2, <1>4, <1>5, <1>6, <3>1, <3>2
      <3>4. row'[r] \in RowRecord
        BY <1>2, <1>6
      <3>5. QED
        BY <1>6, <3>3, <3>4 DEF Agrees
    <2>2. \A s \in Row : Agrees(s, row'[s]) /\ row'[s].position <= head
      BY <1>3, <1>6, <2>1, SweptAgrees
    <2>3. \A s \in Row : Agrees(s, row[s])'
      BY <2>2 DEF Agrees
    <2>4. QED
      BY <1>6, <2>2, <2>3 DEF OutboxInv, TableInv
  <1>8. /\ pump' \in [Claimant -> {"idle", "delivering", "settling", "ended"}]
        /\ claim' \in [Claimant -> ClaimRecord]
        /\ pump'[p] = "delivering" /\ claim'[p] = c
        /\ \A q \in Claimant \ {p} : pump'[q] = pump[q] /\ claim'[q] = claim[q]
    BY <1>5 DEF OutboxInv, LoopInv, Become
  <1>9. LoopInv'
    BY <1>8 DEF OutboxInv, LoopInv
  <1>10. now' = now
    BY DEF now
  <1>11. ASSUME NEW q \in Claimant \ {p}, Busy(q)
         PROVE  ClaimOf(q)' /\ (claim[q].id = r => claim[q].fence < c.fence)
    <2>1. ClaimOf(q)
      BY <1>11 DEF OutboxInv, ClaimsInv
    <2>2. /\ claim[q].fence \in Nat /\ row[r].fence \in Nat
      BY <1>3 DEF OutboxInv, LoopInv, RowRecord, ClaimRecord
    <2>3. CASE claim[q].id = r
      <3>1. claim[q].fence <= row[r].fence /\ claim[q].lease_until <= now
        BY <1>2, <1>11, <2>3, SweptClaim
      <3>2. claim[q].fence < c.fence
        BY <1>5, <2>2, <3>1
      <3>3. QED
        BY <1>2, <1>6, <1>8, <1>10, <2>1, <2>2, <2>3, <3>1, <3>2, <1>5 DEF ClaimOf
    <2>4. CASE claim[q].id # r
      <3>1. claim[q].id \in Row /\ row'[claim[q].id] = Swept[claim[q].id]
        BY <1>6, <2>1, <2>4 DEF ClaimOf
      <3>2. QED
        BY <1>8, <1>10, <1>11, <2>1, <2>4, <3>1, SweptClaim DEF ClaimOf
    <2>5. QED
      BY <2>3, <2>4
  <1>12. ClaimsInv'
    <2>1. ClaimOf(p)'
      BY <1>2, <1>5, <1>6, <1>8 DEF ClaimOf
    <2>2. \A q \in Claimant \ {p} : Busy(q)' = Busy(q)
      BY <1>8 DEF Busy
    <2>3. \A q \in Claimant : Busy(q)' => ClaimOf(q)'
      BY <1>11, <2>1, <2>2
    <2>4. ASSUME NEW q \in Claimant, NEW u \in Claimant, q # u, Busy(q)', Busy(u)',
                 claim'[q].id = claim'[u].id
          PROVE  claim'[q].fence # claim'[u].fence
      <3>1. CASE q # p /\ u # p
        BY <1>8, <2>2, <2>4, <3>1 DEF OutboxInv, ClaimsInv
      <3>2. ASSUME NEW v \in Claimant \ {p}, Busy(v), claim[v].id = r
            PROVE  claim[v].fence # c.fence
        <4>1. claim[v].fence < c.fence /\ claim[v].fence \in Nat /\ c.fence \in Nat
          BY <1>5, <1>11, <3>2 DEF OutboxInv, LoopInv, ClaimRecord
        <4>2. QED
          BY <4>1
      <3>3. CASE q = p
        BY <1>5, <1>8, <2>2, <2>4, <3>2, <3>3
      <3>4. CASE u = p
        BY <1>5, <1>8, <2>2, <2>4, <3>2, <3>4
      <3>5. QED
        BY <3>1, <3>3, <3>4
    <2>5. QED
      BY <2>3, <2>4 DEF ClaimsInv
  <1>13. \A s \in Row \ {r} :
           /\ row'[s].state = row[s].state \/ row'[s].state = "Exhausted"
           /\ row'[s].state = "Absent" <=> row[s].state = "Absent"
           /\ row'[s].lease_until = row[s].lease_until \/ row'[s].lease_until = 0
           /\ row'[s].position = row[s].position
           /\ row'[s].attempts = row[s].attempts
    BY <1>6, SweptFields DEF OutboxInv, Spent, Available
  <1>14. SettledAfterEffect'
    BY <1>6, <1>13 DEF OutboxInv, SettledAfterEffect
  <1>15. FirstAttemptsInOrder'
    <2>1. \A s \in Row : /\ row'[s].position = row[s].position
                         /\ row'[s].state = "Absent" <=> row[s].state = "Absent"
                         /\ row'[s].attempts \in Nat /\ row'[s].attempts >= row[s].attempts
      <3>1. \A s \in Row : row[s].attempts \in Nat
        BY DEF OutboxInv, TableInv, RowRecord
      <3>2. row[r].state # "Absent"
        BY <1>2 DEF Available
      <3>3. QED
        BY <1>5, <1>6, <1>13, <3>1, <3>2
    <2>2. ASSUME NEW s \in Row, row[s].attempts = 0, row'[s].attempts > 0,
                 NEW u \in Row, row[u].state # "Absent", Ahead(u, s)
          PROVE  row'[u].attempts > 0
      <3>1. s = r
        BY <1>13, <2>2
      <3>2. CASE row[u].attempts = 0
        <4>1. row[u].state = "Pending" /\ MaxAttempts[u] \in Nat /\ MaxAttempts[u] > 0
          BY <2>2, <3>2, OutboxAssumption DEF OutboxInv, TableInv, Agrees, RowRecord
        <4>2. u \in Claimable
          BY <3>2, <4>1 DEF Claimable, Available
        <4>3. ~ Ahead(r, u)
          <5>1. /\ row[u].position \in Nat /\ row[s].position \in Nat /\ u \in Nat /\ s \in Nat
            BY OutboxAssumption DEF OutboxInv, TableInv, RowRecord
          <5>2. QED
            BY <2>2, <3>1, <5>1 DEF Ahead
        <4>4. u = r
          BY <1>2, <4>2, <4>3
        <4>5. QED
          BY <2>2, <3>1, <4>4
      <3>3. CASE row[u].attempts # 0
        BY <2>1, <3>3 DEF OutboxInv, TableInv, RowRecord
      <3>4. QED
        BY <3>2, <3>3
    <2>3. QED
      BY <2>1, <2>2, OrderKept
  <1>16. LeaseDiesWithEpoch'
    <2> DEFINE b == (epoch + 1) * Window
    <2>1. \A s \in Row : row[s].lease_until \in Nat /\ row[s].lease_until < b
      BY DEF OutboxInv, TableInv, RowRecord, LeaseDiesWithEpoch
    <2>2. now + Lease < b
      BY Clock DEF OutboxInv
    <2>3. b \in Nat
      <3>1. epoch \in Nat /\ Window \in Nat
        BY Clock DEF OutboxInv
      <3>2. \A e, w \in Nat : (e + 1) * w \in Nat
        OBVIOUS
      <3>3. QED
        BY <3>1, <3>2
    <2> HIDE DEF b
    <2>4. \A s \in Row : row'[s].lease_until < b
      BY <1>4, <1>5, <1>6, <1>13, <2>1, <2>2, <2>3
    <2>5. QED
      BY <2>4 DEF LeaseDiesWithEpoch, b
  <1>17. QED
    BY <1>7, <1>9, <1>12, <1>14, <1>15, <1>16 DEF OutboxInv

LEMMA ClaimOutboxInv ==
  ASSUME OutboxInv, NEW p \in Claimant, ClaimOutbox(p)
  PROVE  OutboxInv'
  <1>1. /\ pump[p] = "idle" /\ LeaseFits
        /\ UNCHANGED <<head, moved, effect, lifecycle, epoch, elapsed, surfaced>>
    BY DEF ClaimOutbox
  <1>2. CASE Claimable = {}
    BY <1>1, <1>2, SweepInv DEF ClaimOutbox
  <1>3. CASE Claimable # {}
    <2> DEFINE r == First(Claimable)
               c == [id |-> r, fence |-> row[r].fence + 1,
                     attempts |-> row[r].attempts + 1, lease_until |-> now + Lease]
    <2>1. /\ row' = [Swept EXCEPT ![r] =
                       [@ EXCEPT !.state = "Claimed", !.attempts = c.attempts,
                                 !.fence = c.fence, !.lease_until = c.lease_until]]
          /\ Become(p, "delivering", c)
      BY <1>3 DEF ClaimOutbox
    <2>2. r = First(Claimable)
            /\ c = [id |-> r, fence |-> row[r].fence + 1,
                    attempts |-> row[r].attempts + 1, lease_until |-> now + Lease]
      OBVIOUS
    <2> HIDE DEF r, c
    <2>3. QED
      BY <1>1, <1>3, <2>1, <2>2, ClaimInv
  <1>4. QED
    BY <1>2, <1>3

\* The parts of the invariant, when the loops have their types.
LEMMA Whole ==
  ASSUME TableKept, ClaimsInv', LoopInv'
  PROVE  OutboxInv'
  BY DEF TableKept, OutboxInv

\* A loop that becomes something leaves the types of all of them.
LEMMA LoopTypes ==
  ASSUME LoopInv, NEW p \in Claimant, NEW c \in ClaimRecord,
         NEW step \in {"idle", "delivering", "settling", "ended"}, Become(p, step, c)
  PROVE  /\ pump' \in [Claimant -> {"idle", "delivering", "settling", "ended"}]
         /\ claim' \in [Claimant -> ClaimRecord]
  BY DEF LoopInv, Become

LEMMA NoClaimType == NoClaim \in ClaimRecord
  BY DEF NoClaim, ClaimRecord

LEMMA ClaimFailsInv ==
  ASSUME OutboxInv, NEW p \in Claimant, ClaimFails(p)
  PROVE  OutboxInv'
  <1>1. /\ Become(p, "ended", NoClaim) /\ row' = row /\ head' = head /\ moved' = moved
        /\ effect' = effect /\ lifecycle' = lifecycle /\ epoch' = epoch
        /\ elapsed' = elapsed /\ surfaced' = surfaced
    BY DEF ClaimFails, durable
  <1>2. TableKept
    BY <1>1, RowsKept
  <1>3. ClaimsInv'
    BY <1>1, ClaimDropped
  <1>4. LoopInv'
    BY <1>1, LoopTypes, NoClaimType DEF OutboxInv, LoopInv
  <1>5. QED
    BY <1>2, <1>3, <1>4, Whole

\* The error branch of the loop of p.
LEMMA ErrorFacts ==
  ASSUME OutboxInv, NEW p \in Claimant, NEW terminal, Busy(p), DeliveryError(p, terminal)
  PROVE  /\ Become(p, "idle", NoClaim) \/ Become(p, "ended", NoClaim)
         /\ lifecycle' \in {"ready", "readOnly", "down"} /\ surfaced' \subseteq Row
         /\ pump' \in [Claimant -> {"idle", "delivering", "settling", "ended"}]
         /\ claim' \in [Claimant -> ClaimRecord]
  <1>1. claim[p].id \in Row
    BY DEF OutboxInv, ClaimsInv, ClaimOf
  <1>2. /\ Become(p, "idle", NoClaim) \/ Become(p, "ended", NoClaim)
        /\ lifecycle' \in {"ready", "readOnly", "down"} /\ surfaced' \subseteq Row
    BY <1>1 DEF DeliveryError, OutboxInv, LoopInv
  <1>3. QED
    BY <1>2, LoopTypes, NoClaimType DEF OutboxInv

LEMMA DeliveryFailsInv ==
  ASSUME OutboxInv, NEW p \in Claimant, NEW terminal, DeliveryFails(p, terminal)
  PROVE  OutboxInv'
  <1>1. /\ Busy(p) /\ DeliveryError(p, terminal) /\ row' = row /\ head' = head
        /\ moved' = moved /\ effect' = effect /\ epoch' = epoch /\ elapsed' = elapsed
    BY DEF DeliveryFails, durable, Busy
  <1>2. TableKept
    BY <1>1, RowsKept
  <1>3. ClaimsInv'
    BY <1>1, ErrorFacts, ClaimDropped
  <1>4. LoopInv'
    BY <1>1, ErrorFacts DEF OutboxInv, LoopInv
  <1>5. QED
    BY <1>2, <1>3, <1>4, Whole

LEMMA DeliverChildInv ==
  ASSUME OutboxInv, NEW p \in Claimant, DeliverChild(p)
  PROVE  OutboxInv'
  <1> DEFINE c == claim[p]
  <1>1. /\ Busy(p) /\ c.id \in Child /\ effect' = effect \cup {c.id}
        /\ head' = head /\ epoch' = epoch /\ elapsed' = elapsed
    BY DEF DeliverChild, Busy
  <1>2. c.id \in Row
    BY <1>1 DEF OutboxInv, ClaimsInv, ClaimOf
  <1>3. effect' \subseteq Row /\ effect \subseteq effect' /\ c.id \in effect'
    BY <1>1, <1>2 DEF OutboxInv, LoopInv
  <1>4. CASE c.id \notin moved /\ HeldUnder(c)
    <2>1. /\ row' = SettledRow(c.id) /\ moved' = moved \cup {c.id}
          /\ Become(p, "idle", NoClaim) /\ lifecycle' = lifecycle /\ surfaced' = surfaced
      BY <1>4 DEF DeliverChild
    <2>2. row[c.id].state = "Claimed"
      BY <1>4 DEF HeldUnder
    <2>3. TableKept
      BY <1>1, <1>2, <1>3, <2>1, <2>2, RowIsSettled
    <2>4. ClaimsInv'
      BY <1>1, <1>3, <1>4, <2>1, ClaimDropped
    <2>5. LoopInv'
      BY <1>1, <1>3, <2>1, LoopTypes, NoClaimType DEF OutboxInv, LoopInv
    <2>6. QED
      BY <2>3, <2>4, <2>5, Whole
  <1>5. CASE ~(c.id \notin moved /\ HeldUnder(c))
    <2>1. DeliveryError(p, c.id \in moved) /\ row' = row /\ moved' = moved
      BY <1>5 DEF DeliverChild
    <2>2. /\ Become(p, "idle", NoClaim) \/ Become(p, "ended", NoClaim)
          /\ lifecycle' \in {"ready", "readOnly", "down"} /\ surfaced' \subseteq Row
          /\ pump' \in [Claimant -> {"idle", "delivering", "settling", "ended"}]
          /\ claim' \in [Claimant -> ClaimRecord]
      BY <1>1, <2>1, ErrorFacts
    <2>3. TableKept
      BY <1>1, <1>3, <2>1, RowsKept
    <2>4. ClaimsInv'
      BY <1>1, <1>3, <2>1, <2>2, ClaimDropped
    <2>5. LoopInv'
      BY <1>1, <1>3, <2>1, <2>2 DEF OutboxInv, LoopInv
    <2>6. QED
      BY <2>3, <2>4, <2>5, Whole
  <1>6. QED
    BY <1>4, <1>5

\* The effect is durable before the claim is settled.
LEMMA DeliverEffectInv ==
  ASSUME OutboxInv, NEW p \in Claimant, DeliverEffect(p)
  PROVE  OutboxInv'
  <1>1. /\ Busy(p) /\ effect' = effect \cup {claim[p].id} /\ Become(p, "settling", claim[p])
        /\ row' = row /\ head' = head /\ moved' = moved /\ lifecycle' = lifecycle
        /\ epoch' = epoch /\ elapsed' = elapsed /\ surfaced' = surfaced
    BY DEF DeliverEffect, Busy
  <1>2. claim[p].id \in Row /\ claim[p] \in ClaimRecord
    BY <1>1 DEF OutboxInv, ClaimsInv, ClaimOf, LoopInv
  <1>3. effect' \subseteq Row /\ effect \subseteq effect'
    BY <1>1, <1>2 DEF OutboxInv, LoopInv
  <1>4. TableKept
    BY <1>1, <1>3, RowsKept
  <1>5. LoopInv'
    BY <1>1, <1>2, <1>3, LoopTypes DEF OutboxInv, LoopInv
  <1>6. claim' = claim /\ pump'[p] = "settling" /\ now' = now
          /\ \A q \in Claimant \ {p} : pump'[q] = pump[q]
    BY <1>1 DEF Become, OutboxInv, LoopInv, now
  <1>7. ClaimsInv'
    <2>1. \A q \in Claimant : Busy(q)' = Busy(q)
      BY <1>1, <1>6 DEF Busy
    <2>2. ASSUME NEW q \in Claimant, Busy(q)
          PROVE  ClaimOf(q)'
      <3>1. ClaimOf(q)
        BY <2>2 DEF OutboxInv, ClaimsInv
      <3>2. pump'[q] = "settling" => claim[q].id \in effect'
        BY <1>1, <1>3, <1>6, <3>1 DEF ClaimOf
      <3>3. QED
        BY <1>1, <1>6, <3>1, <3>2 DEF ClaimOf
    <2>3. QED
      BY <1>6, <2>1, <2>2 DEF OutboxInv, ClaimsInv
  <1>8. QED
    BY <1>4, <1>5, <1>7, Whole

LEMMA AcknowledgeInv ==
  ASSUME OutboxInv, NEW p \in Claimant, AcknowledgeOutbox(p)
  PROVE  OutboxInv'
  <1> DEFINE c == claim[p]
  <1>1. /\ pump[p] = "settling" /\ Busy(p)
        /\ row' = IF HeldUnder(c) THEN SettledRow(c.id) ELSE row
        /\ Become(p, "idle", NoClaim) \/ Become(p, "ended", NoClaim)
        /\ head' = head /\ moved' = moved /\ effect' = effect /\ lifecycle' = lifecycle
        /\ epoch' = epoch /\ elapsed' = elapsed /\ surfaced' = surfaced
    BY DEF AcknowledgeOutbox, Busy
  <1>2. c.id \in Row /\ c.id \in effect
    BY <1>1 DEF OutboxInv, ClaimsInv, ClaimOf
  <1>3. TableKept
    <2>1. CASE HeldUnder(c)
      BY <1>1, <1>2, <2>1, RowIsSettled DEF HeldUnder
    <2>2. CASE ~HeldUnder(c)
      BY <1>1, <2>2, RowsKept
    <2>3. QED
      BY <2>1, <2>2
  <1>4. ClaimsInv'
    BY <1>1, ClaimDropped
  <1>5. LoopInv'
    BY <1>1, LoopTypes, NoClaimType DEF OutboxInv, LoopInv
  <1>6. QED
    BY <1>3, <1>4, <1>5, Whole

\* The process stops; the table may have gained the effect of a child admitted
\* just before.
LEMMA DownInv ==
  ASSUME OutboxInv, Down, row' = row, head' = head, moved' = moved, effect \subseteq effect',
         effect' \subseteq Row, epoch' = epoch, elapsed' = elapsed, surfaced' = surfaced
  PROVE  OutboxInv'
  <1>1. TableKept
    BY RowsKept
  <1>2. ClaimsInv'
    BY NobodyBusy DEF Down
  <1>3. LoopInv'
    BY NoClaimType DEF OutboxInv, LoopInv, Down
  <1>4. QED
    BY <1>1, <1>2, <1>3, Whole

LEMMA RestartInv ==
  ASSUME OutboxInv, NEW to \in {"ready", "readOnly"}, RestartPump(to)
  PROVE  OutboxInv'
  <1>1. /\ epoch < MaxEpoch /\ epoch' = epoch + 1 /\ elapsed' = 0 /\ lifecycle' = to
        /\ pump' = [p \in Claimant |-> IF to = "ready" THEN "idle" ELSE "ended"]
        /\ claim' = [p \in Claimant |-> NoClaim]
        /\ row' = row /\ head' = head /\ moved' = moved /\ effect' = effect
        /\ surfaced' = surfaced
    BY DEF RestartPump, durable
  <1>2. TableKept
    BY <1>1, RowsKept
  <1>3. ClaimsInv'
    BY <1>1, NobodyBusy
  <1>4. LoopInv'
    <2>1. epoch' \in 0..MaxEpoch /\ elapsed' \in 0..Window
      BY <1>1, OutboxAssumption DEF OutboxInv, LoopInv
    <2>2. QED
      BY <1>1, <2>1, NoClaimType DEF OutboxInv, LoopInv
  <1>5. QED
    BY <1>2, <1>3, <1>4, Whole

LEMMA TickInv ==
  ASSUME OutboxInv, Tick
  PROVE  OutboxInv'
  <1>1. /\ elapsed < Window /\ elapsed' = elapsed + 1 /\ row' = row /\ head' = head
        /\ moved' = moved /\ effect' = effect /\ lifecycle' = lifecycle /\ pump' = pump
        /\ claim' = claim /\ epoch' = epoch /\ surfaced' = surfaced
    BY DEF Tick, durable
  <1>2. TableKept
    BY <1>1, RowsKept
  <1>3. ClaimsInv'
    BY <1>1, ClaimsKept
  <1>4. LoopInv'
    <2>1. elapsed' \in 0..Window
      BY <1>1, OutboxAssumption DEF OutboxInv, LoopInv
    <2>2. QED
      BY <1>1, <2>1 DEF OutboxInv, LoopInv
  <1>5. QED
    BY <1>2, <1>3, <1>4, Whole

LEMMA OwnerAdvancesInv ==
  ASSUME OutboxInv, NEW r \in Row, OwnerAdvances(r)
  PROVE  OutboxInv'
  <1>1. /\ r \in Child /\ moved' = moved \cup {r} /\ row' = row /\ head' = head
        /\ effect' = effect /\ lifecycle' = lifecycle /\ pump' = pump /\ claim' = claim
        /\ epoch' = epoch /\ elapsed' = elapsed /\ surfaced' = surfaced
    BY DEF OwnerAdvances
  <1>2. TableKept
    BY <1>1, RowsKept
  <1>3. ClaimsInv'
    BY <1>1, ClaimsKept
  <1>4. LoopInv'
    BY <1>1 DEF OutboxInv, LoopInv
  <1>5. QED
    BY <1>2, <1>3, <1>4, Whole

LEMMA StepOutbox == OutboxInv /\ [OutboxNext]_outboxVars => OutboxInv'
  <1> SUFFICES ASSUME OutboxInv, [OutboxNext]_outboxVars PROVE OutboxInv'
    OBVIOUS
  <1>1. CASE UNCHANGED outboxVars
    <2>1. TableKept
      BY <1>1, RowsKept DEF outboxVars
    <2>2. ClaimsInv'
      BY <1>1, ClaimsKept DEF outboxVars
    <2>3. LoopInv'
      BY <1>1 DEF OutboxInv, LoopInv, outboxVars
    <2>4. QED
      BY <2>1, <2>2, <2>3, Whole
  <1>2. CASE Crash
    <2>1. effect' \subseteq Row
      BY <1>2 DEF Crash, durable, OutboxInv, LoopInv
    <2>2. QED
      BY <1>2, <2>1, DownInv DEF Crash, durable
  <1>3. ASSUME NEW p \in Claimant, CrashMidDelivery(p)
        PROVE  OutboxInv'
    <2>1. claim[p].id \in Row
      BY <1>3 DEF CrashMidDelivery, OutboxInv, ClaimsInv, ClaimOf, Busy
    <2>2. effect' \subseteq Row /\ effect \subseteq effect' /\ row' = row
      BY <1>3, <2>1 DEF CrashMidDelivery, DurableFirst, OutboxInv, LoopInv
    <2>3. QED
      BY <1>3, <2>2, DownInv DEF CrashMidDelivery
  <1>4. QED
    BY <1>1, <1>2, <1>3, PublishInv, OwnerAdvancesInv, ClaimOutboxInv, ClaimFailsInv,
       DeliveryFailsInv, DeliverChildInv, DeliverEffectInv, AcknowledgeInv, RestartInv,
       TickInv DEF OutboxNext

THEOREM OutboxInvariant == OutboxSpec => []OutboxInv
  BY InitOutbox, StepOutbox, PTL DEF OutboxSpec

------------------------------------------------------------------------------
(* The properties *)

\* Through takeovers, crashes and restarts, two loops never deliver a row under
\* live claims, a settled row has its effect, first attempts follow the order of
\* publication and no lease outlives its epoch (outbox_store.rs, outbox/mod.rs).
THEOREM RowsAreTruthful == OutboxSpec => []RowTruth
  <1>1. OutboxInv => RowTruth
    <2> SUFFICES ASSUME OutboxInv PROVE RowTruth
      OBVIOUS
    <2>1. ASSUME NEW r \in Row, NEW p \in Claimant, NEW q \in Claimant,
                 p # q, Holds(p, r), Holds(q, r)
          PROVE  claim[p].lease_until <= now \/ claim[q].lease_until <= now
      <3>1. /\ Busy(p) /\ Busy(q) /\ claim[p].id = r /\ claim[q].id = r
        BY <2>1 DEF Holds, Busy
      <3>2. ClaimOf(p) /\ ClaimOf(q) /\ claim[p].fence # claim[q].fence
        BY <2>1, <3>1 DEF OutboxInv, ClaimsInv
      <3>3. claim[p].fence \in Nat /\ claim[q].fence \in Nat /\ row[r].fence \in Nat
        BY DEF OutboxInv, TableInv, LoopInv, RowRecord, ClaimRecord
      <3>4. claim[p].fence < row[r].fence \/ claim[q].fence < row[r].fence
        BY <3>1, <3>2, <3>3 DEF ClaimOf
      <3>5. QED
        BY <3>1, <3>2, <3>4 DEF ClaimOf
    <2>2. OneLiveClaim
      BY <2>1 DEF OneLiveClaim
    <2>3. QED
      BY <2>2, InvTypes DEF RowTruth, OutboxInv
  <1>2. QED
    BY <1>1, OutboxInvariant, PTL

\* A row is settled by the loop that holds its latest claim.
SettledState(r) ==
  \E p \in Claimant :
    /\ Holds(p, r) /\ ~Holds(p, r)'
    /\ \A q \in Claimant : Holds(q, r) => claim[q].fence <= claim[p].fence

\* No claim of r is live.
AllRunOut(r) == \A p \in Claimant : Holds(p, r) => claim[p].lease_until <= now

LEMMA SettlingStep ==
  ASSUME OutboxInv, NEW p \in Claimant, Busy(p), HeldUnder(claim[p]),
         row' = SettledRow(claim[p].id), NEW step \in {"idle", "ended"},
         Become(p, step, NoClaim), NEW r \in Row
  PROVE  /\ row'[r].state = "Acknowledged" /\ row[r].state # "Acknowledged" => SettledState(r)
         /\ row'[r].state = "Exhausted" => row[r].state = "Exhausted"
  <1>1. claim[p].id \in Row /\ row[claim[p].id].fence = claim[p].fence
    BY DEF OutboxInv, ClaimsInv, ClaimOf, HeldUnder
  <1>2. /\ \A s \in Row \ {claim[p].id} : row'[s] = row[s]
        /\ row'[claim[p].id].state = "Acknowledged"
    BY <1>1, SettledFields DEF OutboxInv
  <1>3. ASSUME r = claim[p].id
        PROVE  SettledState(r)
    <2>1. Holds(p, r)
      BY <1>3 DEF Holds, Busy
    <2>2. ~Holds(p, r)'
      BY DEF Holds, Become, OutboxInv, LoopInv
    <2>3. ASSUME NEW q \in Claimant, Holds(q, r)
          PROVE  claim[q].fence <= claim[p].fence
      <3>1. Busy(q) /\ claim[q].id = r
        BY <2>3 DEF Holds, Busy
      <3>2. ClaimOf(q)
        BY <3>1 DEF OutboxInv, ClaimsInv
      <3>3. QED
        BY <1>1, <1>3, <3>1, <3>2 DEF ClaimOf
    <2>4. QED
      BY <2>1, <2>2, <2>3 DEF SettledState
  <1>4. QED
    BY <1>2, <1>3

LEMMA StepClaims ==
  ASSUME OutboxInv, OutboxNext, NEW r \in Row
  PROVE  /\ row'[r].state = "Acknowledged" /\ row[r].state # "Acknowledged" => SettledState(r)
         /\ row'[r].state = "Exhausted" /\ row[r].state # "Exhausted" => AllRunOut(r)
  <1>1. CASE row' = row
    BY <1>1
  <1>2. ASSUME NEW S \in SUBSET Row, Publish(S)
        PROVE  row'[r].state \in {row[r].state, "Pending"}
    <2>1. row[r] \in RowRecord
      BY DEF OutboxInv, TableInv
    <2>2. row'[r] = IF r \in S
                    THEN [row[r] EXCEPT !.state = "Pending", !.position = head'] ELSE row[r]
      BY <1>2 DEF Publish
    <2>3. QED
      BY <2>1, <2>2 DEF RowRecord
  <1>3. ASSUME NEW p \in Claimant, ClaimOutbox(p)
        PROVE  \/ row'[r].state \in {row[r].state, "Claimed"}
               \/ row'[r].state = "Exhausted" /\ Spent(r)
    <2>1. TableInv
      BY DEF OutboxInv
    <2>2. Swept[r].state = row[r].state \/ (Swept[r].state = "Exhausted" /\ Spent(r))
      BY <2>1, SweptFields
    <2>3. CASE Claimable = {}
      BY <1>3, <2>2, <2>3 DEF ClaimOutbox
    <2>4. CASE Claimable # {}
      <3> DEFINE f == First(Claimable)
                 c == [id |-> f, fence |-> row[f].fence + 1,
                       attempts |-> row[f].attempts + 1, lease_until |-> now + Lease]
      <3>1. row' = [Swept EXCEPT ![f] =
                      [@ EXCEPT !.state = "Claimed", !.attempts = c.attempts,
                                !.fence = c.fence, !.lease_until = c.lease_until]]
        BY <1>3, <2>4 DEF ClaimOutbox
      <3> HIDE DEF f, c
      <3>2. Swept \in [Row -> RowRecord] /\ Swept[r] \in RowRecord
        BY <2>1, SweptFields
      <3>3. CASE r = f
        BY <3>1, <3>2, <3>3 DEF RowRecord
      <3>4. CASE r # f
        BY <2>2, <3>1, <3>2, <3>4
      <3>5. QED
        BY <3>3, <3>4
    <2>5. QED
      BY <2>3, <2>4
  <1>4. Spent(r) => AllRunOut(r)
    BY SweptClaim DEF Spent, AllRunOut, Holds, Busy
  <1>5. ASSUME NEW p \in Claimant, DeliverChild(p), row' # row
        PROVE  /\ Busy(p) /\ HeldUnder(claim[p]) /\ row' = SettledRow(claim[p].id)
               /\ Become(p, "idle", NoClaim)
    BY <1>5 DEF DeliverChild, Busy
  <1>6. ASSUME NEW p \in Claimant, AcknowledgeOutbox(p), row' # row
        PROVE  /\ Busy(p) /\ HeldUnder(claim[p]) /\ row' = SettledRow(claim[p].id)
               /\ Become(p, "idle", NoClaim)
    BY <1>6 DEF AcknowledgeOutbox, Busy
  <1>7. ASSUME NEW p \in Claimant, Busy(p), HeldUnder(claim[p]),
               row' = SettledRow(claim[p].id), Become(p, "idle", NoClaim)
        PROVE  /\ row'[r].state = "Acknowledged" /\ row[r].state # "Acknowledged" => SettledState(r)
               /\ row'[r].state = "Exhausted" => row[r].state = "Exhausted"
    BY <1>7, SettlingStep
  <1>8. \/ row' = row
        \/ \E S \in SUBSET Row : Publish(S)
        \/ \E p \in Claimant : ClaimOutbox(p) \/ DeliverChild(p) \/ AcknowledgeOutbox(p)
    BY DEF OutboxNext, OwnerAdvances, ClaimFails, DeliveryFails, DeliverEffect, CrashMidDelivery,
           DurableFirst, Crash, RestartPump, Tick, durable
  <1>9. QED
    BY <1>1, <1>2, <1>3, <1>4, <1>5, <1>6, <1>7, <1>8

\* Only the latest claim of a row settles it, and a row is given up only when no
\* claim of it is live: a final attempt is not cut short.
THEOREM ClaimsAreRespected == OutboxSpec => ClaimsStand
  <1>1. OutboxInv /\ [OutboxNext]_outboxVars =>
          [\A r \in Row :
             row'[r].state = "Acknowledged" /\ row[r].state # "Acknowledged"
               => \E p \in Claimant :
                    /\ Holds(p, r) /\ ~Holds(p, r)'
                    /\ \A q \in Claimant : Holds(q, r) => claim[q].fence <= claim[p].fence]_outboxVars
    BY StepClaims DEF SettledState
  <1>2. OutboxInv /\ [OutboxNext]_outboxVars =>
          [\A r \in Row :
             row'[r].state = "Exhausted" /\ row[r].state # "Exhausted"
               => \A p \in Claimant : Holds(p, r) => claim[p].lease_until <= now]_outboxVars
    BY StepClaims DEF AllRunOut
  <1>3. OutboxSpec => LatestClaimSettles
    BY <1>1, OutboxInvariant, PTL DEF OutboxSpec, LatestClaimSettles
  <1>4. OutboxSpec => FinalClaimStands
    BY <1>2, OutboxInvariant, PTL DEF OutboxSpec, FinalClaimStands
  <1>5. QED
    BY <1>3, <1>4 DEF ClaimsStand
==============================================================================
