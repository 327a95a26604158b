--------------------------- MODULE SchedulerSession ---------------------------
(***************************************************************************)
(* The verified replay that the authority owner keeps between scheduler     *)
(* commands (peritus-scheduler session.rs), the observation that decides    *)
(* whether it may be reused (peritus-journal sqlite/observation.rs) and the *)
(* fenced append behind it (durability.rs, sqlite/append.rs).               *)
(*                                                                          *)
(* The owner runs one message at a time on one SQLite connection.  Other    *)
(* connections may commit between any two statements of the owner, and      *)
(* other messages of the owner append without using the session.            *)
(*                                                                          *)
(* The reducer is deterministic, so the state of an aggregate is the        *)
(* sequence of the commands it accepted; its digest and head stand for that *)
(* sequence.  Event, head and checkpoint are written in one transaction.    *)
(***************************************************************************)
EXTENDS Integers, Sequences

CONSTANTS
  Run,          \* scheduler aggregates
  CommandId,    \* command identities
  Token         \* addresses of replay generations

VARIABLES
  history,      \* history[run]: the durable aggregate of run
  dataVersion,  \* SQLite data_version of the owner's connection
  generation,   \* append generation of the owner's journal instance
  cached,       \* the retained replay, a set with at most one record
  step,         \* where the owner is in domain::dispatch::scheduler()
  command,      \* the command it works on
  observed,     \* observations the current call holds, at most one
  decided       \* the state its transition was decided from

sessionVars == <<history, dataVersion, generation, cached, step, command, observed, decided>>

------------------------------------------------------------------------------
(* State *)

Observation == [generation : Token, version : Nat]

Replay == [run : Run, state : Seq(CommandId), observation : Observation]

\* A command names the state it was made for: sequence, previous event and digest.
Command == [id : CommandId, run : Run, expected : Seq(CommandId)]

Step == {"Idle", "Observe", "Replay", "Decide", "Resolve", "Append", "Install"}

SessionInit ==
  /\ history = [run \in Run |-> <<>>]
  /\ dataVersion = 0
  /\ generation \in Token
  /\ cached = {}
  /\ step = "Idle"
  /\ command \in [id : CommandId, run : Run, expected : {<<>>}]
  /\ observed = {}
  /\ decided = <<>>

Accepted(s) == {s[i] : i \in DOMAIN s}

\* Mutant: the command table is looked up per aggregate.
CommittedInRun(id, run) == id \in Accepted(history[run])

\* resolve_command(): command identities are unique in the store, not in a run.
Committed(id, run) == \E other \in Run : id \in Accepted(history[other])

Prefixes(s) == {SubSeq(s, 1, n) : n \in 0..Len(s)}

------------------------------------------------------------------------------
(* Observations *)

\* Generations that are still allocated: an observation owns the one it compares.
LiveTokens == {generation} \cup {c.observation.generation : c \in cached}
                           \cup {o.generation : o \in observed}

\* Every append attempt, and a reopened journal, starts a new generation.
NewGeneration == \E g \in Token \ LiveTokens : generation' = g

Current(observation) == observation = [generation |-> generation, version |-> dataVersion]

\* Mutant: the observation of a receipt takes the version after the commit.
AfterAppendLatest(observation) == [generation |-> generation, version |-> dataVersion]

\* The observation after an append keeps the version checked inside it.
AfterAppend(observation) == [generation |-> generation, version |-> observation.version]

------------------------------------------------------------------------------
(* The scheduler handler *)

Reusable(run) == {c \in cached : c.run = run /\ Current(c.observation)}

\* SchedulerSession::state(): reuse the replay, or drop it and load another one.
Receive(id, run, expected) ==
  /\ step = "Idle"
  /\ command' = [id |-> id, run |-> run, expected |-> expected]
  /\ cached' = Reusable(run)
  /\ step' = IF Reusable(run) # {} THEN "Decide" ELSE "Observe"
  /\ UNCHANGED <<history, dataVersion, generation, observed, decided>>

Observe ==
  /\ step = "Observe"
  /\ observed' = {[generation |-> generation, version |-> dataVersion]}
  /\ step' = "Replay"
  /\ UNCHANGED <<history, dataVersion, generation, cached, command, decided>>

LoadReplay ==
  /\ step = "Replay"
  /\ cached' = {[run |-> command.run, state |-> history[command.run], observation |-> o] :
                  o \in observed}
  /\ observed' = {}
  /\ step' = "Decide"
  /\ UNCHANGED <<history, dataVersion, generation, command, decided>>

\* The fences of decide() and start(): the command was made for this very state.
Fenced(state) == command.expected = state /\ command.id \notin Accepted(state)

\* A rejected command keeps the replay; an accepted one takes it into the commit.
DecideTransition ==
  /\ step = "Decide"
  /\ \/ /\ step' = "Idle"
        /\ UNCHANGED <<cached, observed, decided>>
     \/ /\ \E c \in cached :
             /\ Fenced(c.state)
             /\ observed' = {c.observation}
             /\ decided' = c.state
        /\ cached' = {}
        /\ step' = "Resolve"
  /\ UNCHANGED <<history, dataVersion, generation, command>>

\* Mutant: the observation outlives the call.
EndCallHolding == step' = "Idle" /\ UNCHANGED <<cached, observed>>

\* A failure, or the resolution of a command that is already committed, ends the
\* call without a replay.
EndCall == step' = "Idle" /\ observed' = {} /\ UNCHANGED cached

\* resolve_existing() and the comparison of the command with the durable head.
Resolve ==
  /\ step = "Resolve"
  /\ IF Committed(command.id, command.run) \/ history[command.run] # command.expected
     THEN EndCall
     ELSE step' = "Append" /\ UNCHANGED <<cached, observed>>
  /\ UNCHANGED <<history, dataVersion, generation, command, decided>>

Appended(run, id) == history' = [history EXCEPT ![run] = Append(@, id)]

\* Mutant: nothing is compared inside the transaction.
AppendAdmittedAlways(observation) == TRUE

\* The conditions tested under BEGIN IMMEDIATE: the observation, the command table
\* and the head expected by the plan.
AppendAdmitted(observation) ==
  /\ Current(observation)
  /\ ~Committed(command.id, command.run)
  /\ history[command.run] = command.expected

\* append_observed(): the receipt may be lost after the commit.
AppendObserved ==
  /\ step = "Append"
  /\ NewGeneration
  /\ \/ /\ \A o \in observed : AppendAdmitted(o)
        /\ Appended(command.run, command.id)
        /\ \/ step' = "Install" /\ UNCHANGED <<cached, observed>>
           \/ EndCall
     \/ /\ EndCall
        /\ UNCHANGED history
  /\ UNCHANGED <<dataVersion, command, decided>>

\* The successor becomes the retained replay once its receipt is there.
Install ==
  /\ step = "Install"
  /\ cached' = {[run |-> command.run, state |-> Append(decided, command.id),
                 observation |-> AfterAppend(o)] : o \in observed}
  /\ observed' = {}
  /\ step' = "Idle"
  /\ UNCHANGED <<history, dataVersion, generation, command, decided>>

------------------------------------------------------------------------------
(* The other writers *)

\* Another message of the owner appends: to a scheduler aggregate without the
\* session, or, when it leaves the history alone, for another family or in vain.
OwnerAppend ==
  /\ step = "Idle"
  /\ NewGeneration
  /\ \/ UNCHANGED history
     \/ \E run \in Run, id \in CommandId : ~Committed(id, run) /\ Appended(run, id)
  /\ UNCHANGED <<dataVersion, cached, step, command, observed, decided>>

\* Another connection commits a scheduler command.
ExternalCommit(run, id) ==
  /\ ~Committed(id, run)
  /\ Appended(run, id)
  /\ dataVersion' = dataVersion + 1
  /\ UNCHANGED <<generation, cached, step, command, observed, decided>>

\* The daemon stops and opens the journal again.
Reopen ==
  /\ NewGeneration
  /\ cached' = {}
  /\ observed' = {}
  /\ step' = "Idle"
  /\ UNCHANGED <<history, dataVersion, command, decided>>

SessionNext ==
  \/ \E id \in CommandId, run \in Run :
       \E expected \in Prefixes(history[run]) : Receive(id, run, expected)
  \/ Observe
  \/ LoadReplay
  \/ DecideTransition
  \/ Resolve
  \/ AppendObserved
  \/ Install
  \/ OwnerAppend
  \/ \E run \in Run, id \in CommandId : ExternalCommit(run, id)
  \/ Reopen

SessionSpec == SessionInit /\ [][SessionNext]_sessionVars

------------------------------------------------------------------------------
(* Properties *)

\* Every variable has its type, and a call holds an observation exactly between
\* observing and installing.
SessionTypeOK ==
  /\ history \in [Run -> Seq(CommandId)]
  /\ dataVersion \in Nat
  /\ generation \in Token
  /\ cached \in SUBSET Replay
  /\ step \in Step
  /\ command \in Command
  /\ observed \in SUBSET Observation
  /\ decided \in Seq(CommandId)
  /\ \A c, d \in cached : c = d
  /\ \A o, p \in observed : o = p
  /\ observed # {} <=> step \in {"Replay", "Resolve", "Append", "Install"}

\* A replay that the session would reuse is what a full replay would return,
\* whoever committed in between (session.rs:16-20).
CacheTruth ==
  \A c \in cached : Current(c.observation) => c.state = history[c.run]

\* A transition is appended only to the very state it was decided from: no commit
\* of another writer is overwritten or skipped (durability.rs:164-174 and the
\* checks inside the append transaction).
ExtendsDecided ==
  [][step = "Append" /\ history' # history /\ generation' # generation =>
       history' = [history EXCEPT ![command.run] = Append(decided, command.id)]]_sessionVars

\* A command identity takes effect at most once in the whole store
\* (sqlite/append.rs:68-101).
CommandOnce ==
  \A r, s \in Run : \A i \in DOMAIN history[r], j \in DOMAIN history[s] :
    history[r][i] = history[s][j] => r = s /\ i = j
=============================================================================
