--------------------------- MODULE Collaboration ---------------------------
(***************************************************************************)
(* The D3 collaboration aggregate of peritus-collaboration: a causal tree  *)
(* of delegated tasks with owners, joins, causal messages, cancellation    *)
(* that spreads through a subtree, and one truthful aggregate terminal.    *)
(* Every action is one command the pure reducer accepts; a command the     *)
(* reducer refuses leaves the aggregate as it was and has no step here.    *)
(***************************************************************************)
EXTENDS Integers, FiniteSets

CONSTANTS
    Tasks,         \* task identities
    Root,          \* the root task of the binding
    Actors,        \* owners
    Works,         \* scheduler work identities a task can be bound to
    Messages,      \* message identities
    MaxTasks,      \* limits.tasks
    MaxDepth,      \* limits.depth
    FanOut,        \* limits.fan_out
    MaxMessages,   \* limits.messages
    MaxRecipients, \* limits.recipients
    MaxArtifacts,  \* limits.artifact_references
    TaskBytes,     \* estimated encoded bytes of one task record
    MessageBytes,  \* estimated encoded bytes of one message record
    CommandBytes,  \* estimated encoded bytes of one used command identity
    StateBytes,    \* limits.state_bytes, less the fixed part of the estimate
    NoTask,        \* absent parent, absent assignment
    NoMessage      \* absent predecessor, absent message

ASSUME IdentityAssumption ==
    /\ Root \in Tasks /\ NoTask \notin Tasks /\ NoMessage \notin Messages
    /\ Actors # {} /\ Works # {}

ASSUME LimitAssumption ==
    /\ {MaxTasks, MaxDepth, FanOut, MaxMessages, MaxRecipients, MaxArtifacts}
          \subseteq Nat \ {0}
    /\ {TaskBytes, MessageBytes, CommandBytes, StateBytes} \subseteq Nat

ASSUME FiniteAssumption == IsFiniteSet(Tasks) /\ IsFiniteSet(Messages)

JoinPolicy == {"NoChildren", "AllRequired", "AnyRequired"}

\* "Absent" is a task identity that is not in the retained task list.
TaskPhase == {"Absent", "Offered", "Accepted", "Active", "Cancelling", "Terminal"}

TaskTerminalKind == {"Succeeded", "Failed", "Rejected", "Cancelled", "Abandoned"}

CollaborationTerminalKind ==
    {"Completed", "Failed", "Cancelled", "Abandoned", "UnsatisfiedJoin"}

VARIABLES
    phase,       \* aggregate phase
    assignment,  \* task -> immutable delegation
    taskPhase,   \* task -> lifecycle phase
    reserved,    \* tasks whose scheduler reservation was observed
    outcome,     \* task -> terminal kind, "None" while not terminal
    handoff,     \* tasks that ended with an artifact handoff
    message,     \* message -> its immutable content
    acknowledged,\* messages the receiver acknowledged
    sequence,    \* event sequence, the number of used commands too
    terminal     \* aggregate terminal: its kind and the blocking tasks

vars == <<phase, assignment, taskPhase, reserved, outcome, handoff, message,
          acknowledged, sequence, terminal>>

taskVars == <<assignment, taskPhase, reserved, outcome, handoff>>
messageVars == <<message, acknowledged>>

Delegation ==
    [parent : Tasks \cup {NoTask}, depth : 0 .. MaxDepth, owner : Actors,
     parentOwner : Actors, work : Works, required : BOOLEAN, join : JoinPolicy]

Message ==
    [task : Tasks, sender : Actors, receiver : Actors, ordinal : Nat,
     predecessor : Messages \cup {NoMessage}, artifact : BOOLEAN]

ASSUME AbsenceAssumption == NoTask \notin Delegation /\ NoMessage \notin Message

TypeOK ==
    /\ phase \in {"Active", "Paused", "Terminal"}
    /\ assignment \in [Tasks -> Delegation \cup {NoTask}]
    /\ taskPhase \in [Tasks -> TaskPhase]
    /\ reserved \subseteq Tasks
    /\ outcome \in [Tasks -> TaskTerminalKind \cup {"None"}]
    /\ handoff \subseteq Tasks
    /\ message \in [Messages -> Message \cup {NoMessage}]
    /\ acknowledged \subseteq Messages
    /\ sequence \in Nat \ {0}
    /\ terminal \in [kind : CollaborationTerminalKind \cup {"None"},
                     blocking : SUBSET Tasks]

----------------------------------------------------------------------------
(* Reading the state.                                                       *)

Retained == {t \in Tasks : taskPhase[t] # "Absent"}

messages == {m \in Messages : message[m] # NoMessage}

Children(t) == {c \in Retained : assignment[c].parent = t}

\* The chain of parents of t, read at most MaxDepth steps up.
Ancestry(t) ==
    LET up[k \in 0 .. MaxDepth] ==
            IF k = 0 THEN t
            ELSE IF up[k - 1] = NoTask THEN NoTask
                 ELSE assignment[up[k - 1]].parent
    IN  {up[k] : k \in 0 .. MaxDepth} \ {NoTask}

IsDescendantOf(t, target) == t # target /\ target \in Ancestry(t)

Succeeded(t) == outcome[t] = "Succeeded"

JoinSatisfied(t) ==
    LET required == {c \in Children(t) : assignment[c].required}
    IN  CASE assignment[t].join = "NoChildren"  -> required = {}
          [] assignment[t].join = "AllRequired" -> \A c \in required : Succeeded(c)
          [] assignment[t].join = "AnyRequired" -> \E c \in required : Succeeded(c)

\* Mutant: an undelivered message is not pending work.
HasPendingDirectivesUndelivered ==
    \E t \in Retained : taskPhase[t] = "Cancelling"

HasPendingDirectives ==
    \/ messages # acknowledged
    \/ \E t \in Retained : taskPhase[t] = "Cancelling"

TaskMessages(t) == {m \in messages : message[m].task = t}

ArtifactReferences(t) == {m \in TaskMessages(t) : message[m].artifact}

\* Mutant: the artifact bound is off by one.
ArtifactRoomOneMore(t) == Cardinality(ArtifactReferences(t)) <= MaxArtifacts

ArtifactRoom(t) == Cardinality(ArtifactReferences(t)) < MaxArtifacts

OwnedTask(t, actor) == t \in Retained /\ assignment[t].owner = actor

\* The cancellation requester owns the task or one of its ancestors.
OwnerMayCancel(t, actor) == \E a \in Ancestry(t) : assignment[a].owner = actor

EstimatedEncodedBytes ==
    TaskBytes * Cardinality(Retained) + MessageBytes * Cardinality(messages)
        + CommandBytes * sequence

----------------------------------------------------------------------------
(* Commands.  Decide is what every accepted command does besides its own    *)
(* effect: the fence on the aggregate phase, the bound on the successor     *)
(* state and the advance of the cursor.                                     *)

\* Mutant: the bound is checked on the state before the command.
DecideBefore(added) ==
    /\ phase # "Terminal"
    /\ EstimatedEncodedBytes <= StateBytes
    /\ sequence' = sequence + 1

\* It is given the bytes the command adds.  Its own identity joins the used
\* commands only after the bound was checked.
Decide(added) ==
    /\ phase # "Terminal"
    /\ EstimatedEncodedBytes + added <= StateBytes
    /\ sequence' = sequence + 1

Terminate(ts, kind) ==
    /\ taskPhase' = [t \in Tasks |-> IF t \in ts THEN "Terminal" ELSE taskPhase[t]]
    /\ outcome' = [t \in Tasks |-> IF t \in ts THEN kind ELSE outcome[t]]

\* Mutant: a finished parent may still delegate.
MayDelegateLate(parent, actor) ==
    /\ parent \in Retained
    /\ taskPhase[parent] \in {"Active", "Terminal"}
    /\ assignment[parent].owner = actor
    /\ assignment[parent].depth + 1 <= MaxDepth
    /\ assignment[parent].join # "NoChildren"
    /\ Cardinality(Children(parent)) < FanOut

MayDelegate(parent, actor) ==
    /\ parent \in Retained
    /\ taskPhase[parent] = "Active"
    /\ assignment[parent].owner = actor
    /\ assignment[parent].depth + 1 <= MaxDepth
    /\ assignment[parent].join # "NoChildren"
    /\ Cardinality(Children(parent)) < FanOut

OfferDelegation(t, parent, actor, owner, work, required, join) ==
    /\ phase = "Active"
    /\ t \notin Retained
    /\ \A other \in Retained : assignment[other].work # work
    /\ Cardinality(Retained) < MaxTasks
    /\ MayDelegate(parent, actor)
    /\ Decide(TaskBytes)
    /\ assignment' = [assignment EXCEPT ![t] =
           [parent |-> parent, depth |-> assignment[parent].depth + 1,
            owner |-> owner, parentOwner |-> actor, work |-> work,
            required |-> required, join |-> join]]
    /\ taskPhase' = [taskPhase EXCEPT ![t] = "Offered"]
    /\ UNCHANGED <<phase, reserved, outcome, handoff, messageVars, terminal>>

AcceptDelegation(t, actor) ==
    /\ OwnedTask(t, actor)
    /\ taskPhase[t] = "Offered"
    /\ Decide(0)
    /\ taskPhase' = [taskPhase EXCEPT ![t] = "Accepted"]
    /\ UNCHANGED <<phase, assignment, reserved, outcome, handoff, messageVars, terminal>>

RejectDelegation(t, actor) ==
    /\ OwnedTask(t, actor)
    /\ taskPhase[t] = "Offered"
    /\ Decide(0)
    /\ Terminate({t}, "Rejected")
    /\ UNCHANGED <<phase, assignment, reserved, handoff, messageVars, terminal>>

\* The scheduler observation names a work identity and an owner.
ActivateTask(t, work, owner) ==
    /\ t \in Retained
    /\ taskPhase[t] = "Accepted"
    /\ work = assignment[t].work
    /\ owner = assignment[t].owner
    /\ Decide(0)
    /\ reserved' = reserved \cup {t}
    /\ taskPhase' = [taskPhase EXCEPT ![t] = "Active"]
    /\ UNCHANGED <<phase, assignment, outcome, handoff, messageVars, terminal>>

\* Mutant: ordinals count the messages of the whole aggregate.
NextOrdinalGlobal(t) == Cardinality(messages) + 1

\* The message that may follow the ones task t already retains.
NextOrdinal(t) == Cardinality(TaskMessages(t)) + 1

Predecessor(t) ==
    IF TaskMessages(t) = {} THEN NoMessage
    ELSE CHOOSE m \in TaskMessages(t) :
            \A other \in TaskMessages(t) : message[other].ordinal <= message[m].ordinal

SendMessage(m, content) ==
    LET t == content.task
    IN  /\ Cardinality(messages) < MaxMessages
        /\ m \notin messages
        /\ t \in Retained
        /\ taskPhase[t] = "Active"
        /\ <<content.sender, content.receiver>> \in
               {<<assignment[t].owner, assignment[t].parentOwner>>,
                <<assignment[t].parentOwner, assignment[t].owner>>}
        /\ content.artifact => ArtifactRoom(t)
        /\ content.ordinal = NextOrdinal(t)
        /\ content.predecessor = Predecessor(t)
        /\ Cardinality({message[o].receiver : o \in TaskMessages(t)}
                           \cup {content.receiver}) <= MaxRecipients
        /\ Decide(MessageBytes)
        /\ message' = [message EXCEPT ![m] = content]
        /\ UNCHANGED <<phase, taskVars, acknowledged, terminal>>

\* Mutant: a delivery is acknowledged only while its task is active.
AcknowledgeMessageWhileActive(m, receiver) ==
    /\ m \in messages \ acknowledged
    /\ taskPhase[message[m].task] = "Active"
    /\ message[m].receiver = receiver
    /\ Decide(0)
    /\ acknowledged' = acknowledged \cup {m}
    /\ UNCHANGED <<phase, taskVars, message, terminal>>

AcknowledgeMessage(m, receiver) ==
    /\ m \in messages
    /\ m \notin acknowledged
    /\ message[m].receiver = receiver
    /\ Decide(0)
    /\ acknowledged' = acknowledged \cup {m}
    /\ UNCHANGED <<phase, taskVars, message, terminal>>

\* Mutant: a cancelling task may still report its completion.
MayCompleteLate(t, actor) ==
    OwnedTask(t, actor) /\ taskPhase[t] \in {"Active", "Cancelling"}

MayComplete(t, actor) == OwnedTask(t, actor) /\ taskPhase[t] = "Active"

CompleteTask(t, actor, kind, withHandoff) ==
    /\ MayComplete(t, actor)
    /\ withHandoff => kind = "Succeeded"
    /\ withHandoff => ArtifactRoom(t)
    /\ kind = "Succeeded" => JoinSatisfied(t)
    /\ Decide(0)
    /\ Terminate({t}, kind)
    /\ handoff' = IF withHandoff THEN handoff \cup {t} ELSE handoff
    /\ UNCHANGED <<phase, assignment, reserved, messageVars, terminal>>

AbandonTask(t, actor) ==
    /\ OwnedTask(t, actor)
    /\ taskPhase[t] \in {"Accepted", "Active"}
    /\ Decide(0)
    /\ Terminate({t}, "Abandoned")
    /\ UNCHANGED <<phase, assignment, reserved, handoff, messageVars, terminal>>

\* Mutant: cancellation stops at the direct children.
OpenSubtreeShallow(t) ==
    {d \in Retained : (d = t \/ assignment[d].parent = t) /\ taskPhase[d] # "Terminal"}

\* Mutant: finished descendants are cancelled again.
OpenSubtreeAll(t) == {d \in Retained : d = t \/ IsDescendantOf(d, t)}

\* The open tasks of the subtree of t.
OpenSubtree(t) ==
    {d \in Retained : (d = t \/ IsDescendantOf(d, t)) /\ taskPhase[d] # "Terminal"}

\* Started work waits for its owner, the rest is cancelled at once.
CancelTask(t, actor) ==
    LET started == {d \in OpenSubtree(t) : taskPhase[d] \in {"Active", "Cancelling"}}
        idle    == OpenSubtree(t) \ started
    IN  /\ t \in Retained
        /\ taskPhase[t] # "Terminal"
        /\ OwnerMayCancel(t, actor)
        /\ Decide(0)
        /\ taskPhase' = [d \in Tasks |-> IF d \in started THEN "Cancelling"
                                         ELSE IF d \in idle THEN "Terminal"
                                         ELSE taskPhase[d]]
        /\ outcome' = [d \in Tasks |-> IF d \in idle THEN "Cancelled" ELSE outcome[d]]
        /\ UNCHANGED <<phase, assignment, reserved, handoff, messageVars, terminal>>

AcknowledgeCancellation(t, actor) ==
    /\ OwnedTask(t, actor)
    /\ taskPhase[t] = "Cancelling"
    /\ Decide(0)
    /\ Terminate({t}, "Cancelled")
    /\ UNCHANGED <<phase, assignment, reserved, handoff, messageVars, terminal>>

Pause(actor) ==
    /\ assignment[Root].owner = actor
    /\ phase = "Active"
    /\ Decide(0)
    /\ phase' = "Paused"
    /\ UNCHANGED <<taskVars, messageVars, terminal>>

Resume(actor) ==
    /\ assignment[Root].owner = actor
    /\ phase = "Paused"
    /\ Decide(0)
    /\ phase' = "Active"
    /\ UNCHANGED <<taskVars, messageVars, terminal>>

\* Mutant: the root's outcome is taken over as it stands.
TerminalKindOfRoot == outcome[Root]

\* The aggregate outcome the root's own outcome stands for.
TerminalKind ==
    CASE outcome[Root] = "Succeeded" /\ JoinSatisfied(Root)  -> "Completed"
      [] outcome[Root] = "Succeeded" /\ ~JoinSatisfied(Root) -> "UnsatisfiedJoin"
      [] outcome[Root] \in {"Failed", "Rejected"}            -> "Failed"
      [] outcome[Root] = "Cancelled"                         -> "Cancelled"
      [] outcome[Root] = "Abandoned"                         -> "Abandoned"

Finalize ==
    /\ ~HasPendingDirectives
    /\ \A t \in Retained : taskPhase[t] = "Terminal"
    /\ Decide(0)
    /\ phase' = "Terminal"
    /\ terminal' = [kind |-> TerminalKind,
                    blocking |-> IF TerminalKind = "Completed" THEN {}
                                 ELSE {t \in Retained : ~Succeeded(t)}]
    /\ UNCHANGED <<taskVars, messageVars>>

----------------------------------------------------------------------------
\* Start: the binding's root assignment, already accepted.
Init ==
    /\ phase = "Active"
    /\ \E owner \in Actors, work \in Works, join \in JoinPolicy :
           assignment = [t \in Tasks |-> IF t # Root THEN NoTask ELSE
               [parent |-> NoTask, depth |-> 0, owner |-> owner,
                parentOwner |-> owner, work |-> work, required |-> TRUE,
                join |-> join]]
    /\ taskPhase = [t \in Tasks |-> IF t = Root THEN "Accepted" ELSE "Absent"]
    /\ reserved = {}
    /\ outcome = [t \in Tasks |-> "None"]
    /\ handoff = {}
    /\ message = [m \in Messages |-> NoMessage]
    /\ acknowledged = {}
    /\ sequence = 1
    /\ terminal = [kind |-> "None", blocking |-> {}]
    /\ EstimatedEncodedBytes <= StateBytes

\* The content a sender may put into a message of task t.
Contents(t) ==
    [task : {t}, sender : Actors, receiver : Actors, ordinal : {NextOrdinal(t)},
     predecessor : {Predecessor(t)}, artifact : BOOLEAN]

Next ==
    \/ \E t \in Tasks \ Retained, parent \in Retained, actor, owner \in Actors,
          work \in Works, required \in BOOLEAN, join \in JoinPolicy :
           OfferDelegation(t, parent, actor, owner, work, required, join)
    \/ \E t \in Tasks, actor \in Actors : AcceptDelegation(t, actor)
    \/ \E t \in Tasks, actor \in Actors : RejectDelegation(t, actor)
    \/ \E t \in Tasks, work \in Works, actor \in Actors : ActivateTask(t, work, actor)
    \/ \E m \in Messages, t \in Retained : \E content \in Contents(t) : SendMessage(m, content)
    \/ \E m \in Messages, actor \in Actors : AcknowledgeMessage(m, actor)
    \/ \E t \in Tasks, actor \in Actors, kind \in {"Succeeded", "Failed"},
          withHandoff \in BOOLEAN : CompleteTask(t, actor, kind, withHandoff)
    \/ \E t \in Tasks, actor \in Actors : AbandonTask(t, actor)
    \/ \E t \in Tasks, actor \in Actors : CancelTask(t, actor)
    \/ \E t \in Tasks, actor \in Actors : AcknowledgeCancellation(t, actor)
    \/ \E actor \in Actors : Pause(actor)
    \/ \E actor \in Actors : Resume(actor)
    \/ Finalize

Spec == Init /\ [][Next]_vars

----------------------------------------------------------------------------
(* Properties.                                                              *)

\* A task that reported success still satisfies the join it declared: no child
\* offered, failed or cancelled afterwards can falsify it (apply.rs offer,
\* terminal.rs complete, verified/executable.rs join_is_truthful).
JoinTruth == \A t \in Retained : Succeeded(t) => JoinSatisfied(t)

\* Below a task that is being or has been cancelled nothing is open: a
\* cancellation reaches every descendant, through finished tasks in between
\* too, and no new work can appear under it (terminal.rs cancel, state.rs
\* is_descendant_of).
CancellationClosed ==
    \A t, d \in Retained :
        /\ taskPhase[t] = "Cancelling" \/ outcome[t] = "Cancelled"
        /\ IsDescendantOf(d, t)
        => taskPhase[d] \in {"Cancelling", "Terminal"}

\* Success is never reported by a task that is being cancelled, or that has a
\* cancelled or cancelling ancestor (terminal.rs complete: late success cannot
\* resurrect a cancelled branch).
LateSuccessRefused ==
    [][\A t \in Tasks : outcome'[t] = "Succeeded" /\ outcome[t] = "None"
          => \A a \in Ancestry(t) :
                taskPhase[a] # "Cancelling" /\ outcome[a] # "Cancelled"]_vars

\* A retained outcome is never replaced, whatever cancels or completes around it
\* (terminal.rs cancel skips terminal tasks).
OutcomeImmutable ==
    [][\A t \in Tasks : outcome[t] # "None"
          => outcome'[t] = outcome[t] /\ taskPhase'[t] = "Terminal"]_vars

\* An aggregate terminal hides nothing: every message was acknowledged, every
\* task ended, success stands only on a succeeded root with its joins kept all
\* the way down, and a non-success names every task that did not succeed
\* (terminal.rs finalize).  A succeeded root with an open join cannot occur.
TerminalTruth ==
    phase = "Terminal" =>
        /\ acknowledged = messages
        /\ \A t \in Retained : taskPhase[t] = "Terminal"
        /\ (terminal.kind = "Completed") = Succeeded(Root)
        /\ terminal.kind # "UnsatisfiedJoin"
        /\ terminal.kind # "Completed" =>
              terminal.blocking = {t \in Retained : ~Succeeded(t)}

\* The messages of a task form one chain: ordinals are contiguous and each
\* message names the one before it, whichever side of the pair sent it
\* (apply.rs send_message).
MessageChain ==
    \A t \in Retained :
        /\ {message[m].ordinal : m \in TaskMessages(t)} = 1 .. Cardinality(TaskMessages(t))
        /\ \A m \in TaskMessages(t) :
              IF message[m].ordinal = 1 THEN message[m].predecessor = NoMessage
              ELSE /\ message[m].predecessor \in TaskMessages(t)
                   /\ message[message[m].predecessor].ordinal + 1 = message[m].ordinal

\* Artifacts handed over by messages and by the completion of a task stay
\* within one common bound (apply.rs send_message, terminal.rs complete).
ArtifactsWithinBound ==
    \A t \in Retained :
        Cardinality(ArtifactReferences(t)) + (IF t \in handoff THEN 1 ELSE 0)
            <= MaxArtifacts

\* Every state the reducer commits passes the checkpoint validation that
\* recovery runs on it, so no accepted command can produce a checkpoint that
\* cannot be loaded again (state/validation.rs); all but one: the identity of the
\* newest command is not held against the byte bound, see CheckpointWithinBound.
CheckpointLoads ==
    /\ Cardinality(Retained) \in 1 .. MaxTasks
    /\ Cardinality(messages) <= MaxMessages
    /\ EstimatedEncodedBytes - CommandBytes <= StateBytes
    /\ assignment[Root].parent = NoTask
    /\ \A t \in Retained :
        LET a == assignment[t] IN
        /\ a.depth <= MaxDepth
        /\ \A other \in Retained \ {t} : assignment[other].work # a.work
        /\ t # Root =>
              /\ a.parent \in Retained
              /\ a.depth = assignment[a.parent].depth + 1
              /\ a.parentOwner = assignment[a.parent].owner
              /\ Cardinality(Children(a.parent)) <= FanOut
        /\ taskPhase[t] \in {"Active", "Cancelling"} => t \in reserved
        /\ taskPhase[t] \in {"Offered", "Accepted"} => t \notin reserved
        /\ (taskPhase[t] = "Terminal") = (outcome[t] # "None")
    /\ \A m \in messages :
        /\ message[m].task \in Retained
        /\ message[m].predecessor # NoMessage =>
              /\ message[m].predecessor \in TaskMessages(message[m].task)
              /\ message[message[m].predecessor].ordinal + 1 = message[m].ordinal
    /\ (phase = "Terminal") = (terminal.kind # "None")

\* The state estimate leaves no room for one more command: used command
\* identities count against the same bound as the work (reducer.rs
\* ensure_state_bound).
Exhausted == EstimatedEncodedBytes > StateBytes

\* Wind-down is never stuck: once no task can make progress of its own, paused
\* or not, either a directive still waits for its owner's answer and that answer
\* is accepted, or the aggregate can be finalized (state.rs
\* has_pending_directives, apply.rs acknowledge_message, terminal.rs finalize).
WindDownOpen ==
    /\ phase # "Terminal"
    /\ ~Exhausted
    /\ \A t \in Retained : taskPhase[t] \in {"Cancelling", "Terminal"}
    => \/ \E t \in Retained, a \in Actors : ENABLED AcknowledgeCancellation(t, a)
       \/ \E m \in messages, a \in Actors : ENABLED AcknowledgeMessage(m, a)
       \/ ENABLED Finalize

\* Every committed state can be loaded again: types, limits, message chains and
\* the artifact bound that two commands enforce separately.
StateLoads == TypeOK /\ CheckpointLoads /\ MessageChain /\ ArtifactsWithinBound

\* The tree tells the truth: joins behind reported successes, cancellation over
\* whole subtrees, and the final summary.
TreeTruth == JoinTruth /\ CancellationClosed /\ TerminalTruth

\* Outcomes stand: none is replaced, and no success comes from a cancelled branch.
OutcomesStand == LateSuccessRefused /\ OutcomeImmutable

----------------------------------------------------------------------------
(* Statements of documents and comments that the code does not keep: the     *)
(* README names the instance that refutes each of them.                      *)

\* verified/executable.rs cancellation_dominates: below a cancelling task every
\* descendant is cancelling or ended without success.
CancellationDominates ==
    \A t, d \in Retained :
        taskPhase[t] = "Cancelling" /\ IsDescendantOf(d, t)
            => \/ taskPhase[d] = "Cancelling"
               \/ outcome[d] \notin {"None", "Succeeded"}

\* state/validation.rs validate_collections refuses a checkpoint above the byte
\* bound; decide checks the bound before it adds the identity of the command.
CheckpointWithinBound == EstimatedEncodedBytes <= StateBytes
============================================================================
