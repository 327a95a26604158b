--------------------------- MODULE ProductRunProofs ---------------------------
(***************************************************************************)
(* Theorems about a product run, for every scope and every bound.          *)
(*                                                                         *)
(* RunInv says that every checkpoint, of the recorder, the record and its   *)
(* continuation, is one the reducer admits, and that what is running has no *)
(* settlement.                                                             *)
(* EvidenceInv says what evidence is worth: each positive result that is    *)
(* retained, current or stale, is a check that passed and was not refuted   *)
(* since, by what the live attempt knows or by what was known at the last   *)
(* settlement.                                                             *)
(***************************************************************************)
EXTENDS ProductRun, TLAPS

Identities == [content : Nat, repository : Nat \X Nat, execution : Nat,
               requirements : Nat, sequence : Nat]

Evidences == [status : {"Missing", "Current", "Failed", "Stale"},
              from : Identities, ok : BOOLEAN]

Checkpoints == [stage : Stages \union {"None"}, identity : Identities,
                gates : Evidences, obligations : Evidences, review : Evidences]

\* Evidence that a checkpoint of `identity` may hold.
EvidenceSound(kind, e, identity) ==
    /\ e.from.sequence <= identity.sequence
    /\ e.status \in {"Current", "Failed"} => BindingMatches(kind, e.from, identity)
    /\ e.status = "Stale" => ~BindingMatches(kind, e.from, identity)

\* A checkpoint that CandidateCheckpoint::new accepts, or none.
Sound(c) ==
    /\ c \in Checkpoints
    /\ c # NoCheckpoint => c.stage \in Stages /\ c.identity.sequence > 0
    /\ \A k \in Kinds : EvidenceSound(k, c[k], c.identity)

Recorders == [checkpoint : Checkpoints, sequence : Nat, external : BOOLEAN, execution : Nat]

RecorderSound(r) ==
    /\ r \in Recorders /\ Sound(r.checkpoint)
    /\ r.checkpoint.identity.sequence <= r.sequence

Results == [kind : {"None", "effect"} \union Kinds, ok : BOOLEAN, context : Nat]

----------------------------------------------------------------------------
(* Checkpoints.                                                            *)

LEMMA NoCheckpointSound == Sound(NoCheckpoint) /\ NoCheckpoint.identity.sequence = 0
  BY DEF Sound, NoCheckpoint, Checkpoints, Evidences, Identities, Missing, NoIdentity,
         NoContext, Kinds, EvidenceSound

\* Reconciling evidence with an identity makes it fit that identity and leaves
\* what it says and what it was produced from.
LEMMA ReconcileSound ==
    ASSUME NEW k \in Kinds, NEW e \in Evidences, NEW i \in Identities,
           e.from.sequence <= i.sequence
    PROVE  LET f == ReconcileFor(k, e, i) IN
           f \in Evidences /\ EvidenceSound(k, f, i) /\ f.from = e.from /\ f.ok = e.ok
  <1> DEFINE f == ReconcileFor(k, e, i)
  <1>1. f \in Evidences /\ f.from = e.from /\ f.ok = e.ok
    BY DEF ReconcileFor, Evidences
  <1>2. /\ f.status \in {"Current", "Failed"} => BindingMatches(k, e.from, i)
        /\ f.status = "Stale" => ~BindingMatches(k, e.from, i)
    BY DEF ReconcileFor, Evidences
  <1> QED BY <1>1, <1>2 DEF EvidenceSound

LEMMA StageSupported ==
    ASSUME NEW s \in Stages, NEW g, NEW o, NEW v
    PROVE  SupportedStage(s, g, o, v) \in Stages
  BY DEF SupportedStage, Stages

\* What the recorder observes is a checkpoint that the reducer admits.
LEMMA ObserveSound ==
    ASSUME NEW i \in Identities, i.sequence > 0, NEW s \in Stages,
           NEW g \in Evidences, NEW o \in Evidences, NEW v \in Evidences,
           g.from.sequence <= i.sequence, o.from.sequence <= i.sequence,
           v.from.sequence <= i.sequence
    PROVE  LET c == Observe(i, s, g, o, v) IN
           /\ Sound(c) /\ c # NoCheckpoint /\ c.identity = i
           /\ c.gates.from = g.from /\ c.gates.ok = g.ok
           /\ c.obligations.from = o.from /\ c.obligations.ok = o.ok
           /\ c.review.from = v.from /\ c.review.ok = v.ok
  <1> DEFINE c == Observe(i, s, g, o, v)
             rg == ReconcileFor("gates", g, i)
             ro == ReconcileFor("obligations", o, i)
             rv == ReconcileFor("review", v, i)
             st == SupportedStage(s, Satisfied("gates", rg, i),
                                  Satisfied("obligations", ro, i), Satisfied("review", rv, i))
  <1>1. rg \in Evidences /\ EvidenceSound("gates", rg, i) /\ rg.from = g.from /\ rg.ok = g.ok
    BY ReconcileSound DEF Kinds
  <1>2. /\ ro \in Evidences /\ EvidenceSound("obligations", ro, i)
        /\ ro.from = o.from /\ ro.ok = o.ok
    BY ReconcileSound DEF Kinds
  <1>3. rv \in Evidences /\ EvidenceSound("review", rv, i) /\ rv.from = v.from /\ rv.ok = v.ok
    BY ReconcileSound DEF Kinds
  <1>4. st \in Stages
    BY StageSupported
  <1>5. c = [stage |-> st, identity |-> i, gates |-> rg, obligations |-> ro, review |-> rv]
    BY DEF Observe
  <1> HIDE DEF c, rg, ro, rv, st
  <1>6. c \in Checkpoints /\ c.stage \in Stages /\ c.identity = i
    BY <1>1, <1>2, <1>3, <1>4, <1>5 DEF Checkpoints
  <1>7. \A k \in Kinds : EvidenceSound(k, c[k], c.identity)
    BY <1>1, <1>2, <1>3, <1>5 DEF Kinds
  <1>8. c # NoCheckpoint
    BY <1>6, NoCheckpointSound
  <1> QED BY <1>1, <1>2, <1>3, <1>5, <1>6, <1>7, <1>8 DEF Sound, c

LEMMA SoundAdmissible ==
    ASSUME NEW c, Sound(c), c # NoCheckpoint, NEW p,
           p # NoCheckpoint => p.identity.sequence < c.identity.sequence
    PROVE  Admissible(p, c)
  BY DEF Sound, Admissible, EvidenceSound, IsCurrentFor, Checkpoints, Evidences, Identities, Kinds

\* c has the gate and review evidence of p.
SameEvidence(c, p) ==
    /\ c.gates.from = p.gates.from /\ c.gates.ok = p.gates.ok
    /\ c.review.from = p.review.from /\ c.review.ok = p.review.ok

\* A checkpoint is bound again to the facts of a later moment.
LEMMA ReobserveSound ==
    ASSUME NEW p, Sound(p), p # NoCheckpoint, NEW i \in Identities,
           p.identity.sequence < i.sequence
    PROVE  LET c == Reobserve(p, i) IN
           /\ Sound(c) /\ c # NoCheckpoint /\ c.identity = i
           /\ SameEvidence(c, p)
  <1> DEFINE s == IF SameContentAndRequirements(p.identity, i) THEN p.stage ELSE "Changed"
  <1>1. s \in Stages
    BY DEF Sound, Stages
  <1>2. /\ p.gates \in Evidences /\ p.obligations \in Evidences /\ p.review \in Evidences
        /\ p.identity \in Identities
    BY DEF Sound, Checkpoints
  <1>3. \A k \in Kinds : p[k].from.sequence <= p.identity.sequence
    BY DEF Sound, EvidenceSound
  <1>4. /\ p.gates.from.sequence <= i.sequence /\ p.obligations.from.sequence <= i.sequence
        /\ p.review.from.sequence <= i.sequence /\ i.sequence > 0
    BY <1>2, <1>3 DEF Kinds, Evidences, Identities
  <1>5. Reobserve(p, i) = Observe(i, s, p.gates, p.obligations, p.review)
    BY DEF Reobserve
  <1> HIDE DEF s
  <1> DEFINE c == Observe(i, s, p.gates, p.obligations, p.review)
  <1>6. /\ Sound(c) /\ c # NoCheckpoint /\ c.identity = i
        /\ c.gates.from = p.gates.from /\ c.gates.ok = p.gates.ok
        /\ c.review.from = p.review.from /\ c.review.ok = p.review.ok
    BY <1>1, <1>2, <1>4, ObserveSound
  <1> HIDE DEF c
  <1>7. Reobserve(p, i) = c
    BY <1>5 DEF c
  <1> QED BY <1>6, <1>7 DEF SameEvidence

----------------------------------------------------------------------------
(* The recorder.                                                           *)

\* Where the evidence of `kind` in a recorded checkpoint comes from.
LEMMA RetainedFrom ==
    ASSUME NEW p, Sound(p), NEW k \in Kinds, NEW a \in Results, NEW i \in Identities,
           p.identity.sequence < i.sequence
    PROVE  LET e == Retained(p, k, a, i) IN
           /\ e \in Evidences /\ e.from.sequence <= i.sequence
           /\ e.ok /\ a.kind = k => a.ok /\ e.from = i
           /\ e.ok /\ a.kind # k => p[k].ok /\ e.from = p[k].from
           /\ e.ok => a.kind # "effect" \/ k = "gates"
  <1>1. p[k] \in Evidences /\ p[k].from.sequence <= p.identity.sequence
    BY DEF Sound, Checkpoints, EvidenceSound, Kinds
  <1>2. p.identity \in Identities
    BY DEF Sound, Checkpoints
  <1>3. CASE a.kind = k
    <2>1. Retained(p, k, a, i) = [status |-> IF a.ok THEN "Current" ELSE "Failed",
                                  from |-> i, ok |-> a.ok]
      BY <1>3 DEF Retained, Evidence
    <2>2. a.ok \in BOOLEAN /\ k # "effect"
      BY DEF Results, Kinds
    <2> QED BY <1>3, <2>1, <2>2 DEF Evidences, Identities
  <1>4. CASE a.kind # k /\ a.kind = "effect" /\ k # "gates"
    <2>1. Retained(p, k, a, i) = Missing
      BY <1>4 DEF Retained
    <2>2. Missing \in Evidences /\ ~Missing.ok /\ Missing.from.sequence = 0
      BY DEF Missing, Evidences, Identities, NoIdentity, NoContext
    <2> QED BY <1>4, <2>1, <2>2 DEF Identities
  <1>5. CASE a.kind # k /\ ~(a.kind = "effect" /\ k # "gates")
    <2>1. Retained(p, k, a, i) = p[k]
      BY <1>5 DEF Retained
    <2> QED BY <1>1, <1>2, <1>5, <2>1 DEF Identities, Evidences
  <1> QED BY <1>3, <1>4, <1>5

\* The evidence of a recorded checkpoint c: what was acquired, or what the
\* checkpoint before it had.
Inherits(c, p, a) ==
    \A k \in {"gates", "review"} :
        c[k].ok => /\ a.kind = k => a.ok /\ c[k].from = c.identity
                   /\ a.kind # k => p[k].ok /\ c[k].from = p[k].from
                   /\ a.kind # "effect" \/ k = "gates"

\* What record() leaves of the recorder r when it observed w for `revision` and
\* a was acquired: a checkpoint that the reducer admits, or none.
RecordedAs(q, r, w, revision, a) ==
    /\ RecorderSound(q) /\ r.sequence <= q.sequence
    /\ q.checkpoint = NoCheckpoint \/ Admissible(r.checkpoint, q.checkpoint)
    /\ q.checkpoint = NoCheckpoint => w.content = 0
    /\ q.checkpoint # NoCheckpoint =>
          /\ q.checkpoint.identity.content = w.content
          /\ q.checkpoint.identity.requirements = revision
          /\ a.kind = "gates" => q.checkpoint.identity.execution = a.context
          /\ r.sequence < q.checkpoint.identity.sequence
          /\ Inherits(q.checkpoint, r.checkpoint, a)

LEMMA RecordedSound ==
    ASSUME NEW w, w.content \in Nat, w.head \in Nat, NEW r, RecorderSound(r),
           NEW s \in Stages, NEW revision \in Nat, NEW a \in Results
    PROVE  RecordedAs(Recorded(w, r, s, revision, a), r, w, revision, a)
  <1> DEFINE q == Recorded(w, r, s, revision, a)
             execution == IF a.kind = "gates" THEN a.context ELSE r.execution
             i == [content |-> w.content, repository |-> Repository(w),
                   execution |-> execution, requirements |-> revision,
                   sequence |-> r.sequence + 1]
             stage == IF /\ r.checkpoint # NoCheckpoint
                         /\ SameContentAndRequirements(r.checkpoint.identity, i)
                      THEN Stronger(r.checkpoint.stage, s) ELSE s
             g == Retained(r.checkpoint, "gates", a, i)
             o == Retained(r.checkpoint, "obligations", a, i)
             v == Retained(r.checkpoint, "review", a, i)
             c == Observe(i, stage, g, o, v)
  <1>1. /\ r \in Recorders /\ Sound(r.checkpoint) /\ r.checkpoint.identity \in Identities
        /\ r.sequence \in Nat /\ r.checkpoint.identity.sequence \in Nat
        /\ r.checkpoint.identity.sequence <= r.sequence
    BY DEF RecorderSound, Sound, Recorders, Checkpoints, Identities
  <1>2. CASE w.content = 0 /\ ~r.external
    <2>1. q = [r EXCEPT !.checkpoint = NoCheckpoint]
      BY <1>2 DEF Recorded
    <2>2. q \in Recorders /\ q.checkpoint = NoCheckpoint /\ q.sequence = r.sequence
      BY <1>1, <2>1, NoCheckpointSound DEF Recorders, Sound
    <2> QED BY <1>1, <1>2, <2>2, NoCheckpointSound DEF RecorderSound, RecordedAs
  <1>3. CASE ~(w.content = 0 /\ ~r.external)
    <2>1. q = [r EXCEPT !.sequence = @ + 1, !.execution = execution, !.checkpoint = c]
      BY <1>3 DEF Recorded
    <2>2. execution \in Nat
      BY <1>1 DEF Recorders, Results
    <2>3. i \in Identities /\ r.checkpoint.identity.sequence < i.sequence /\ i.sequence > 0
      BY <1>1, <2>2 DEF Identities, Repository
    <2>4. stage \in Stages
      BY <1>1 DEF Sound, Stronger
    <2>5. /\ g \in Evidences /\ g.from.sequence <= i.sequence
          /\ g.ok /\ a.kind = "gates" => a.ok /\ g.from = i
          /\ g.ok /\ a.kind # "gates" => /\ r.checkpoint["gates"].ok
                                         /\ g.from = r.checkpoint["gates"].from
      BY <1>1, <2>3, RetainedFrom DEF Kinds
    <2>6. o \in Evidences /\ o.from.sequence <= i.sequence
      BY <1>1, <2>3, RetainedFrom DEF Kinds
    <2>7. /\ v \in Evidences /\ v.from.sequence <= i.sequence
          /\ v.ok /\ a.kind = "review" => a.ok /\ v.from = i
          /\ v.ok /\ a.kind # "review" => /\ r.checkpoint["review"].ok
                                          /\ v.from = r.checkpoint["review"].from
          /\ v.ok => a.kind # "effect"
      BY <1>1, <2>3, RetainedFrom DEF Kinds
    <2> DEFINE content == i.content requirements == i.requirements ctx == i.execution
               seq == i.sequence
    <2>8. /\ i.content = w.content /\ i.requirements = revision /\ i.sequence = r.sequence + 1
          /\ a.kind = "gates" => i.execution = a.context
      OBVIOUS
    <2> HIDE DEF i, execution, stage, g, o, v
    <2>9. /\ Sound(c) /\ c # NoCheckpoint /\ c.identity = i
          /\ c.gates.from = g.from /\ c.gates.ok = g.ok
          /\ c.review.from = v.from /\ c.review.ok = v.ok
      BY <2>3, <2>4, <2>5, <2>6, <2>7, ObserveSound
    <2> HIDE DEF c
    <2>10. Inherits(c, r.checkpoint, a)
      BY <2>5, <2>7, <2>9 DEF Inherits
    <2> HIDE DEF q
    <2>11. /\ q \in Recorders /\ q.checkpoint = c /\ q.sequence = r.sequence + 1
      <3>1. c \in Checkpoints
        BY <2>9 DEF Sound
      <3>2. /\ q.checkpoint = c /\ q.sequence = r.sequence + 1 /\ q.external = r.external
            /\ q.execution = execution
        BY <1>1, <2>1 DEF Recorders
      <3>3. q = [checkpoint |-> c, sequence |-> r.sequence + 1, external |-> r.external,
                 execution |-> execution]
        BY <1>1, <2>1 DEF Recorders
      <3> QED BY <1>1, <2>2, <3>1, <3>2, <3>3 DEF Recorders
    <2>12. RecorderSound(q)
      BY <1>1, <2>8, <2>9, <2>11 DEF RecorderSound
    <2>13. Admissible(r.checkpoint, c)
      BY <1>1, <2>3, <2>9, SoundAdmissible
    <2>14. r.sequence < i.sequence /\ r.sequence <= q.sequence
      BY <1>1, <2>8, <2>11
    <2> QED BY <2>8, <2>9, <2>10, <2>11, <2>12, <2>13, <2>14 DEF q, RecordedAs
  <1> QED BY <1>2, <1>3

----------------------------------------------------------------------------
(* The state of a run.                                                     *)

Phases == {"None", "Writing", "FollowUp", "Checking", "Reviewing", "Fixing", "Finalizing"}

Runs == [pc : Places, next : Phases, rev : Nat, ledger : Nat,
         seen : [content : Nat, context : Nat], diff : Nat,
         report : BOOLEAN, gatesOk : BOOLEAN, cause : Causes \union {"None"}]

Resumes == [checkpoint : Checkpoints, next : Phases, report : BOOLEAN]

Dispositions == {"Accepted", "CompletedWithoutCandidate", "CandidateAvailable",
                 "FailedNoCandidate", "WaitingForUser", "Cancelled", "RecoveryRequired"}

Settlements == [disposition : Dispositions \union {"None"}, cause : Causes \union {"None"}]

Records == [phase : Terminal \union {"Running", "Lost"}, checkpoint : Checkpoints,
            settlement : Settlements, resume : Resumes,
            deliverable : {"none", "open", "committed"}, actionable : BOOLEAN]

\* The record and its continuation hold admitted checkpoints, and an open
\* deliverable has a candidate, its settlement and a continuation.
RecordSound(r) ==
    /\ r \in Records /\ Sound(r.checkpoint) /\ Sound(r.resume.checkpoint)
    /\ r.deliverable = "open" => /\ r.settlement # NoSettlement
                                /\ r.checkpoint # NoCheckpoint /\ r.resume # NoResume

WorkspaceOK == workspace \in [content : Contents, head : 0..MaxHead, context : 1..MaxContext]

AttemptOK == run \in Runs /\ run.rev \in 1..conversation /\ run.pc # "Refused"

\* The inductive invariant: what is recorded is sound, and a live attempt has
\* no settlement.
RunInv ==
    /\ scope \in Scopes
    /\ WorkspaceOK
    /\ conversation \in 1..MaxRevision
    /\ AttemptOK
    /\ RecorderSound(recorder) /\ recorder.sequence <= MaxSequence
    /\ RecordSound(record)
    /\ run.pc \notin {"Off", "Down"} => record.settlement = NoSettlement

LEMMA ScopeFacts ==
    ASSUME scope \in Scopes
    PROVE  /\ 0 \in Contents /\ Contents \subseteq Nat
           /\ scope.effects \in BOOLEAN /\ scope.investigation \in BOOLEAN
           /\ scope.interruptions \subseteq {"UserWait", "Cancellation", "Recovery", "Provider"}
           /\ scope.editedAt \subseteq Places /\ scope.toolStages \subseteq {"Changed", "SelfChecked"}
           /\ MaxHead \in Nat /\ MaxSequence \in Nat
           /\ MaxContext \in Nat \ {0} /\ MaxRevision \in Nat \ {0}
  BY ScopeAssumption DEF Contents, MaxHead, MaxSequence, MaxContext, MaxRevision

LEMMA NewRecorderSound ==
    ASSUME scope \in Scopes, NEW p, Sound(p)
    PROVE  /\ RecorderSound(NewRecorder(p)) /\ NewRecorder(p).checkpoint = p
           /\ NewRecorder(p).sequence = p.identity.sequence
  <1>1. /\ p \in Checkpoints /\ p.identity.sequence \in Nat /\ p.identity.execution \in Nat
    BY DEF Sound, Checkpoints, Identities
  <1>2. (scope.effects /\ p # NoCheckpoint) \in BOOLEAN
    OBVIOUS
  <1> QED BY <1>1, <1>2 DEF NewRecorder, RecorderSound, Recorders

\* The recorder of no attempt.
LEMMA EmptyRecorder ==
    ASSUME scope \in Scopes
    PROVE  /\ RecorderSound(NewRecorder(NoCheckpoint)) /\ NewRecorder(NoCheckpoint).sequence = 0
           /\ NewRecorder(NoCheckpoint).checkpoint = NoCheckpoint
  BY NewRecorderSound, NoCheckpointSound

LEMMA IdleOK ==
    ASSUME NEW pc \in Places, NEW revision \in Nat
    PROVE  /\ Idle(pc, revision) \in Runs /\ Idle(pc, revision).pc = pc
           /\ Idle(pc, revision).rev = revision /\ Idle(pc, revision).next = "None"
  BY DEF Idle, Runs, Phases, NoContext

\* The settlement a checkpoint deserves.
LEMMA DecideFacts ==
    ASSUME NEW c, NEW cause \in Causes \union {"None"}
    PROVE  LET d == Decide(c, cause) IN
           /\ d \in Settlements /\ d.disposition \in Dispositions /\ d # NoSettlement
           /\ d.cause = cause
           /\ d.disposition = "Accepted" => IsQualified(c)
           /\ d.disposition = "CompletedWithoutCandidate" =>
                 cause = "NoChangeComplete" /\ c = NoCheckpoint
  <1> DEFINE d == Decide(c, cause)
  <1>1. /\ d.disposition \in Dispositions /\ d.cause = cause
        /\ d.disposition = "Accepted" => IsQualified(c)
        /\ d.disposition = "CompletedWithoutCandidate" =>
              cause = "NoChangeComplete" /\ c = NoCheckpoint
    BY DEF Decide, Causes, Dispositions
  <1>2. d \in Settlements
    BY <1>1 DEF Decide, Settlements
  <1>3. d # NoSettlement
    BY <1>1 DEF NoSettlement, Dispositions
  <1> QED BY <1>1, <1>2, <1>3

LEMMA PhaseOfTerminal ==
    ASSUME NEW d \in Dispositions
    PROVE  PhaseOf(d) \in Terminal
  BY DEF PhaseOf, Dispositions, Terminal

LEMMA NotQualified == ~IsQualified(NoCheckpoint)
  BY DEF IsQualified, NoCheckpoint

\* Gates are satisfied only in a context that was observed.
LEMMA QualifiedContext ==
    ASSUME NEW c, IsQualified(c)
    PROVE  c.identity.execution # NoContext
  BY DEF IsQualified, Satisfied, IsCurrentFor, BindingMatches, Kinds

LEMMA TakesFacts ==
    ASSUME NEW p, NEW q, NEW after, Takes(p, q, after),
           q.checkpoint = NoCheckpoint \/ Admissible(p.checkpoint, q.checkpoint)
    PROVE  recorder' = q /\ run' = after /\ q.sequence <= MaxSequence
  BY DEF Takes

----------------------------------------------------------------------------
(* The record.                                                             *)

LEMMA NoResumeOK == NoResume \in Resumes /\ Sound(NoResume.checkpoint)
                    /\ NoResume.checkpoint = NoCheckpoint
  BY NoCheckpointSound DEF NoResume, Resumes, Phases, Sound

LEMMA NewRecordSound ==
    /\ RecordSound(NewRecord) /\ RecordSound(Lost)
    /\ NewRecord.settlement = NoSettlement /\ Lost.settlement = NoSettlement
    /\ NewRecord.resume = NoResume /\ Lost.resume = NoResume
  <1>1. NewRecord \in Records /\ Lost \in Records
    BY NoResumeOK, NoCheckpointSound
       DEF NewRecord, Lost, Records, Terminal, Settlements, NoSettlement, Sound
  <1>2. \A r \in {NewRecord, Lost} :
            /\ r.checkpoint = NoCheckpoint /\ r.settlement = NoSettlement
            /\ r.resume = NoResume /\ r.deliverable = "none"
    BY DEF NewRecord, Lost
  <1> QED BY <1>1, <1>2, NoResumeOK, NoCheckpointSound DEF RecordSound

\* q is the record r but for its phase and whether it may be acted on.
SameFindings(q, r) ==
    /\ q.checkpoint = r.checkpoint /\ q.settlement = r.settlement
    /\ q.resume = r.resume /\ q.deliverable = r.deliverable

\* finish() keeps the record sound, whether the candidate is handed over or not.
LEMMA FinishedSound ==
    ASSUME NEW c, Sound(c), NEW cause \in Causes \union {"None"},
           NEW resume \in Resumes, Sound(resume.checkpoint),
           c # NoCheckpoint => resume # NoResume,
           NEW r \in Finished(c, Decide(c, cause), resume)
    PROVE  /\ RecordSound(r) /\ r.settlement = Decide(c, cause) /\ r.checkpoint = c
           /\ r.resume = resume
  <1> DEFINE d == Decide(c, cause)
             h == HandedOver(c, d, resume)
             w == [h EXCEPT !.deliverable = "none"]
             u == [w EXCEPT !.phase = "RecoveryRequired"]
             x == [u EXCEPT !.actionable = FALSE]
             f == [w EXCEPT !.phase = IF d.disposition = "Accepted" THEN "Failed" ELSE @]
             Settles(q) == /\ q \in Records /\ q.settlement = d /\ q.checkpoint = c
                           /\ q.resume = resume
  <1>1. d \in Settlements /\ d.disposition \in Dispositions /\ d # NoSettlement
    BY DecideFacts
  <1>2. PhaseOf(d.disposition) \in Terminal
    BY <1>1, PhaseOfTerminal
  <1>3. c \in Checkpoints
    BY DEF Sound
  <1>4. r = h \/ r \in NotHandedOver(c, d, resume)
    BY DEF Finished
  <1>5. r \in NotHandedOver(c, d, resume) => r \in {u, x, f}
    BY DEF NotHandedOver
  <1> HIDE DEF d
  <1>6. Settles(h) /\ (h.deliverable = "open" => c # NoCheckpoint)
    BY <1>1, <1>2, <1>3 DEF HandedOver, Records
  <1> HIDE DEF h
  <1>7. Settles(w) /\ w.deliverable = "none"
    BY <1>6 DEF Records
  <1> HIDE DEF w
  <1>8. Settles(u) /\ u.deliverable = "none"
    BY <1>7 DEF Records, Terminal
  <1>9. Settles(f) /\ f.deliverable = "none"
    BY <1>7 DEF Records, Terminal
  <1> HIDE DEF u
  <1>10. Settles(x) /\ x.deliverable = "none"
    BY <1>8 DEF Records
  <1> HIDE DEF x, f
  <1>11. Settles(r) /\ (r.deliverable = "open" => c # NoCheckpoint)
    BY <1>4, <1>5, <1>6, <1>8, <1>9, <1>10
  <1> QED BY <1>1, <1>11 DEF RecordSound, d

\* An error changes the phase, and perhaps what may be done with the candidate.
LEMMA ErroredSound ==
    ASSUME NEW r, RecordSound(r), NEW q \in Errored(r)
    PROVE  RecordSound(q) /\ SameFindings(q, r)
  <1>1. r \in Records
    BY DEF RecordSound
  <1>2. \E phase \in {"Failed", "RecoveryRequired"}, a \in BOOLEAN :
            q = [r EXCEPT !.phase = phase, !.actionable = a]
    <2>1. CASE q = [r EXCEPT !.phase = "Failed"]
      <3>1. q = [r EXCEPT !.phase = "Failed", !.actionable = r.actionable]
        BY <1>1, <2>1 DEF Records
      <3> QED BY <1>1, <3>1 DEF Records
    <2>2. CASE \E retained \in BOOLEAN :
                  q = [r EXCEPT !.phase = "RecoveryRequired", !.actionable = @ /\ retained]
      <3>1. PICK retained \in BOOLEAN :
                q = [r EXCEPT !.phase = "RecoveryRequired", !.actionable = r.actionable /\ retained]
        BY <2>2
      <3>2. (r.actionable /\ retained) \in BOOLEAN
        OBVIOUS
      <3> QED BY <3>1, <3>2
    <2> QED BY <2>1, <2>2 DEF Errored
  <1>3. q \in Records /\ SameFindings(q, r)
    BY <1>1, <1>2 DEF Records, Terminal, SameFindings
  <1> QED BY <1>3 DEF RecordSound, SameFindings

\* A changed checkpoint keeps its evidence.
LEMMA ChangedSound ==
    ASSUME NEW p, Sound(p), p # NoCheckpoint, NEW w, w.content \in Nat, w.head \in Nat,
           NEW execution \in Nat
    PROVE  LET c == ChangedCheckpoint(p, w, execution) IN
           /\ Sound(c) /\ c # NoCheckpoint /\ c.identity.execution = execution
           /\ SameEvidence(c, p)
  <1> DEFINE i == [content |-> w.content, repository |-> Repository(w),
                   execution |-> execution, requirements |-> p.identity.requirements,
                   sequence |-> p.identity.sequence + 1]
  <1>1. p.identity \in Identities
    BY DEF Sound, Checkpoints
  <1>2. i \in Identities /\ p.identity.sequence < i.sequence /\ i.execution = execution
    BY <1>1 DEF Identities, Repository
  <1>3. ChangedCheckpoint(p, w, execution) = Reobserve(p, i)
    BY DEF ChangedCheckpoint
  <1> HIDE DEF i
  <1> QED BY <1>2, <1>3, ReobserveSound

LEMMA ResumedOK ==
    ASSUME NEW resume \in Resumes
    PROVE  /\ Resumed(resume) \in Resumes /\ Resumed(resume).checkpoint = resume.checkpoint
           /\ resume # NoResume => Resumed(resume) # NoResume
  <1>1. CASE resume = NoResume
    BY <1>1 DEF Resumed
  <1>2. CASE resume # NoResume
    <2> DEFINE next == IF resume.next = "Writing" THEN resume.next ELSE "Checking"
    <2>1. Resumed(resume) = [resume EXCEPT !.report = FALSE, !.next = next]
      BY <1>2 DEF Resumed
    <2>2. next \in {"Writing", "Checking"}
      OBVIOUS
    <2> HIDE DEF next
    <2>3. /\ Resumed(resume) \in Resumes /\ Resumed(resume).checkpoint = resume.checkpoint
          /\ Resumed(resume).next = next
      BY <2>1, <2>2 DEF Resumes, Phases
    <2> QED BY <2>2, <2>3 DEF NoResume
  <1> QED BY <1>1, <1>2

\* What a restart reads back.
LEMMA LoadedSound ==
    ASSUME RecordSound(record)
    PROVE  /\ RecordSound(Loaded) /\ Loaded.checkpoint = record.checkpoint
           /\ Loaded.resume.checkpoint = record.resume.checkpoint
           /\ Loaded.deliverable = record.deliverable
           /\ Loaded.settlement = IF record.settlement = NoSettlement THEN NoSettlement
                                  ELSE Decide(record.checkpoint, record.settlement.cause)
           /\ Loaded.phase \in Terminal
  <1> DEFINE phase == IF record.phase \in Terminal THEN record.phase ELSE "RecoveryRequired"
             settlement == IF record.settlement = NoSettlement THEN record.settlement
                           ELSE Decide(record.checkpoint, record.settlement.cause)
             resume == Resumed(record.resume)
  <1>1. record \in Records /\ record.resume \in Resumes /\ record.settlement \in Settlements
    BY DEF RecordSound, Records
  <1>2. Loaded = [record EXCEPT !.phase = phase, !.settlement = settlement, !.resume = resume]
    BY <1>1 DEF Loaded
  <1>3. phase \in Terminal
    BY DEF Terminal
  <1>4. record.settlement.cause \in Causes \union {"None"}
    BY <1>1 DEF Settlements
  <1>5. settlement \in Settlements /\ (record.settlement # NoSettlement => settlement # NoSettlement)
    BY <1>1, <1>4, DecideFacts
  <1>6. /\ resume \in Resumes /\ resume.checkpoint = record.resume.checkpoint
        /\ record.resume # NoResume => resume # NoResume
    BY <1>1, ResumedOK
  <1> HIDE DEF phase, settlement, resume
  <1>7. Loaded \in Records
    BY <1>1, <1>2, <1>3, <1>5, <1>6 DEF Records
  <1>8. /\ Loaded.phase = phase /\ Loaded.settlement = settlement /\ Loaded.resume = resume
        /\ Loaded.checkpoint = record.checkpoint /\ Loaded.deliverable = record.deliverable
    BY <1>1, <1>2 DEF Records
  <1>9. record.settlement = NoSettlement => settlement = NoSettlement
    BY DEF settlement
  <1>10. RecordSound(Loaded)
    BY <1>5, <1>6, <1>7, <1>8, <1>9 DEF RecordSound
  <1> QED BY <1>3, <1>6, <1>8, <1>10 DEF settlement

LEMMA ProjectedSound ==
    ASSUME NEW l, RecordSound(l), NEW c, Sound(c), c # NoCheckpoint,
           NEW d \in Settlements, d.disposition \in Dispositions, d # NoSettlement
    PROVE  LET r == Projected(l, c, d) IN
           /\ RecordSound(r) /\ r.checkpoint = c /\ r.settlement = d
           /\ r.resume = l.resume /\ r.deliverable = l.deliverable
           /\ r.actionable => IsQualified(c)
  <1> DEFINE r == Projected(l, c, d)
             phase == IF l.phase = "RecoveryRequired" THEN l.phase ELSE PhaseOf(d.disposition)
             q == IsQualified(c)
  <1>1. l \in Records /\ c \in Checkpoints
    BY DEF RecordSound, Sound
  <1>2. phase \in Terminal
    BY PhaseOfTerminal DEF Terminal
  <1>3. q \in BOOLEAN
    BY DEF IsQualified
  <1>4. r = [l EXCEPT !.checkpoint = c, !.settlement = d, !.phase = phase, !.actionable = q]
    BY <1>1 DEF Projected, Records
  <1> HIDE DEF q, phase, r
  <1>5. r \in Records
    BY <1>1, <1>2, <1>3, <1>4 DEF Records
  <1>6. /\ r.checkpoint = c /\ r.settlement = d /\ r.resume = l.resume
        /\ r.deliverable = l.deliverable /\ r.actionable = q
    BY <1>1, <1>4 DEF Records
  <1>7. RecordSound(r)
    BY <1>5, <1>6 DEF RecordSound
  <1> QED BY <1>6, <1>7 DEF q, r

LEMMA ReboundOK ==
    ASSUME NEW resume \in Resumes, NEW c \in Checkpoints
    PROVE  /\ Rebound(resume, c) \in Resumes
           /\ Rebound(resume, c).checkpoint = resume.checkpoint \/ Rebound(resume, c).checkpoint = c
           /\ resume # NoResume => Rebound(resume, c) # NoResume
  <1>1. CASE resume = NoResume
    BY <1>1 DEF Rebound
  <1>2. CASE resume # NoResume
    <2> DEFINE same == SameContentAndRequirements(resume.checkpoint.identity, c.identity)
               next == IF same THEN "Checking" ELSE "Writing"
    <2>1. Rebound(resume, c) =
             [resume EXCEPT !.checkpoint = c, !.report = FALSE, !.next = next]
      BY <1>2 DEF Rebound
    <2>2. next \in {"Writing", "Checking"}
      OBVIOUS
    <2> HIDE DEF next
    <2>3. /\ Rebound(resume, c) \in Resumes /\ Rebound(resume, c).checkpoint = c
          /\ Rebound(resume, c).next = next
      BY <2>1, <2>2 DEF Resumes, Phases
    <2> QED BY <2>2, <2>3 DEF NoResume
  <1> QED BY <1>1, <1>2

\* Startup reconciliation: the record stays sound, the evidence stays what it
\* was, and no candidate that is still open is offered.
LEMMA ReconciledSound ==
    ASSUME scope \in Scopes, WorkspaceOK, NEW l, RecordSound(l), l.phase \in Terminal,
           NEW cause \in Causes \union {"None"},
           l.settlement # NoSettlement => l.settlement = Decide(l.checkpoint, cause),
           NEW validated
    PROVE  LET r == Reconciled(l, validated) IN
           /\ RecordSound(r)
           /\ ~Offered(r)
           /\ \/ r.checkpoint = l.checkpoint
              \/ l.settlement # NoSettlement /\ SameEvidence(r.checkpoint, l.checkpoint)
           /\ \/ r.resume.checkpoint = l.resume.checkpoint
              \/ /\ l.settlement # NoSettlement
                 /\ SameEvidence(r.resume.checkpoint, l.checkpoint)
           /\ r.settlement # NoSettlement => l.settlement # NoSettlement
           /\ Accepted(r) => IsQualified(r.checkpoint)
  <1> DEFINE r == Reconciled(l, validated)
             stale == ChangedCheckpoint(l.checkpoint, workspace, NoContext)
             changed == \/ l.checkpoint.identity.repository # Repository(workspace)
                        \/ l.checkpoint.identity.content # workspace.content
                        \/ l.checkpoint.identity.execution # NoContext
             open == l.deliverable = "open" /\ l.checkpoint # NoCheckpoint
  <1>1. /\ l \in Records /\ l.resume \in Resumes /\ l.settlement \in Settlements
        /\ l.checkpoint \in Checkpoints /\ Sound(l.checkpoint) /\ Sound(l.resume.checkpoint)
    BY DEF RecordSound, Records
  <1>2. workspace.content \in Nat /\ workspace.head \in Nat
    BY ScopeFacts DEF WorkspaceOK
  <1>3. l.settlement # NoSettlement => /\ l.settlement.disposition \in Dispositions
                                       /\ l.settlement.cause = cause
                                       /\ Accepted(l) => IsQualified(l.checkpoint)
    BY DecideFacts DEF Accepted
  <1>4. Accepted(l) => IsQualified(l.checkpoint)
    BY <1>3 DEF Accepted, NoSettlement
  <1>5. TerminalCandidate(l) <=> open
    BY DEF TerminalCandidate
  <1>6. CASE ~open
    <2>1. r = l
      BY <1>5, <1>6 DEF Reconciled
    <2>2. ~Offered(l)
      BY <1>6 DEF RecordSound, Offered
    <2> QED BY <1>4, <2>1, <2>2
  <1>7. CASE open /\ ~validated
    <2>1. r = [l EXCEPT !.actionable = FALSE]
      BY <1>5, <1>7 DEF Reconciled
    <2>2. r \in Records /\ SameFindings(r, l)
      BY <1>1, <2>1 DEF Records, SameFindings
    <2>3. ~r.actionable
      BY <1>1, <2>1 DEF Records
    <2>4. RecordSound(r)
      BY <2>2 DEF RecordSound, SameFindings
    <2> QED BY <1>4, <2>2, <2>3, <2>4 DEF SameFindings, Offered, Accepted
  <1>8. CASE open /\ validated /\ changed
    <2> DEFINE d == Decide(stale, l.settlement.cause)
               bound == Rebound(l.resume, stale)
               base == [l EXCEPT !.resume = bound]
    <2>1. r = Projected(base, stale, d)
      BY <1>1, <1>5, <1>8 DEF Reconciled
    <2>2. l.settlement # NoSettlement /\ l.resume # NoResume
      BY <1>8 DEF RecordSound
    <2>3. /\ Sound(stale) /\ stale # NoCheckpoint /\ stale.identity.execution = NoContext
          /\ SameEvidence(stale, l.checkpoint)
      BY <1>1, <1>2, <1>8, ChangedSound DEF NoContext
    <2> HIDE DEF stale
    <2>4. d \in Settlements /\ d.disposition \in Dispositions /\ d # NoSettlement
      BY <1>3, <2>2, DecideFacts
    <2>5. ~IsQualified(stale)
      BY <2>3, QualifiedContext
    <2>6. d.disposition # "Accepted"
      BY <1>3, <2>2, <2>5, DecideFacts
    <2> HIDE DEF d
    <2>7. /\ bound \in Resumes /\ bound # NoResume
          /\ bound.checkpoint = l.resume.checkpoint \/ bound.checkpoint = stale
      BY <1>1, <2>2, <2>3, ReboundOK DEF Sound
    <2> HIDE DEF bound
    <2>8. /\ base \in Records /\ base.resume = bound /\ base.deliverable = "open"
          /\ base.checkpoint = l.checkpoint /\ base.settlement = l.settlement
      BY <1>1, <1>8, <2>7 DEF Records
    <2> HIDE DEF base
    <2>9. RecordSound(base)
      BY <1>1, <1>8, <2>2, <2>3, <2>7, <2>8 DEF RecordSound
    <2>10. /\ RecordSound(r) /\ r.checkpoint = stale /\ r.settlement = d
           /\ r.resume = bound /\ ~r.actionable
      BY <2>1, <2>3, <2>4, <2>5, <2>8, <2>9, ProjectedSound
    <2> QED BY <2>2, <2>3, <2>6, <2>7, <2>10 DEF Accepted, Offered
  <1>9. CASE open /\ validated /\ ~changed
    <2>1. l.settlement # NoSettlement /\ l.resume # NoResume
      BY <1>9 DEF RecordSound
    <2>2. ~IsQualified(l.checkpoint)
      BY <1>9, QualifiedContext
    <2>3. r = Projected(l, l.checkpoint, l.settlement)
      BY <1>5, <1>9, <2>1 DEF Reconciled
    <2> HIDE DEF r
    <2>4. /\ l.checkpoint # NoCheckpoint /\ l.settlement \in Settlements
          /\ l.settlement.disposition \in Dispositions
      BY <1>1, <1>3, <1>9, <2>1
    <2>5. /\ RecordSound(r) /\ r.checkpoint = l.checkpoint /\ r.settlement = l.settlement
          /\ r.resume = l.resume /\ ~r.actionable
      BY <1>1, <2>1, <2>2, <2>3, <2>4, ProjectedSound
    <2>6. ~Offered(r) /\ (Accepted(r) <=> Accepted(l))
      BY <2>5 DEF Accepted, Offered
    <2> QED BY <1>4, <2>1, <2>5, <2>6 DEF r
  <1> QED BY <1>6, <1>7, <1>8, <1>9

----------------------------------------------------------------------------
(* Steps.                                                                  *)

\* The recorder's step when it observed w for `revision` and a was acquired.
Recording(w, revision, a) ==
    RecordedAs(recorder', recorder, w, revision, a) /\ recorder'.sequence <= MaxSequence

LEMMA TakesRecorded ==
    ASSUME RunInv, NEW w, w.content \in Nat, w.head \in Nat, NEW s \in Stages,
           NEW revision \in Nat, NEW a \in Results, NEW after,
           Takes(recorder, Recorded(w, recorder, s, revision, a), after)
    PROVE  run' = after /\ Recording(w, revision, a)
  <1> DEFINE q == Recorded(w, recorder, s, revision, a)
  <1>1. RecordedAs(q, recorder, w, revision, a)
    BY RecordedSound DEF RunInv
  <1> HIDE DEF q
  <1>2. Takes(recorder, q, after)
    BY DEF q
  <1>3. q.checkpoint = NoCheckpoint \/ Admissible(recorder.checkpoint, q.checkpoint)
    BY <1>1 DEF RecordedAs
  <1>4. recorder' = q /\ run' = after /\ q.sequence <= MaxSequence
    BY <1>2, <1>3, TakesFacts
  <1> QED BY <1>1, <1>4 DEF Recording

\* A step of the live attempt.
LEMMA AttemptStep ==
    ASSUME RunInv, run.pc \notin {"Off", "Down"}, scope' = scope, WorkspaceOK',
           conversation' = conversation, record' = record,
           run' \in Runs, run'.rev \in 1..conversation, run'.pc # "Refused",
           RecorderSound(recorder'), recorder'.sequence <= MaxSequence
    PROVE  RunInv'
  <1>1. RecordSound(record') /\ record'.settlement = NoSettlement
    BY DEF RunInv
  <1>2. AttemptOK'
    BY DEF AttemptOK
  <1>3. conversation' \in 1..MaxRevision' /\ recorder'.sequence <= MaxSequence'
    BY DEF RunInv, MaxRevision, MaxSequence
  <1> QED BY <1>1, <1>2, <1>3 DEF RunInv

\* What every step may use.
LEMMA StateFacts ==
    ASSUME RunInv
    PROVE  /\ workspace.content \in Nat /\ workspace.head \in Nat /\ workspace.context \in Nat
           /\ conversation \in Nat \ {0} /\ conversation \in 1..conversation
           /\ run \in Runs /\ run.rev \in Nat /\ run.rev \in 1..conversation
           /\ run.pc # "Refused"
           /\ RecorderSound(recorder) /\ recorder.sequence <= MaxSequence
           /\ Nothing \in Results /\ [Nothing EXCEPT !.kind = "effect"] \in Results
  <1>1. Nothing \in Results /\ [Nothing EXCEPT !.kind = "effect"] \in Results
    BY DEF Nothing, Results, NoContext
  <1>2. MaxRevision \in Nat /\ Contents \subseteq Nat /\ MaxHead \in Nat /\ MaxContext \in Nat
    BY ScopeFacts DEF RunInv
  <1>3. conversation \in Nat \ {0}
    BY <1>2 DEF RunInv
  <1>4. run \in Runs /\ run.rev \in 1..conversation /\ run.rev \in Nat /\ run.pc # "Refused"
    BY <1>3 DEF RunInv, AttemptOK
  <1>5. workspace.content \in Nat /\ workspace.head \in Nat /\ workspace.context \in Nat
    <2>1. workspace.content \in Contents /\ workspace.head \in 0..MaxHead
          /\ workspace.context \in 1..MaxContext
      BY DEF RunInv, WorkspaceOK
    <2>2. workspace.content \in Nat
      BY <1>2, <2>1
    <2>3. workspace.head \in Nat
      BY <1>2, <2>1
    <2>4. workspace.context \in Nat
      BY <1>2, <2>1
    <2> QED BY <2>2, <2>3, <2>4
  <1> QED BY <1>1, <1>3, <1>4, <1>5 DEF RunInv

LEMMA WorkspaceKept ==
    ASSUME RunInv, scope' = scope, workspace' = workspace
    PROVE  WorkspaceOK'
  BY DEF RunInv, WorkspaceOK, Contents, MaxHead, MaxContext

\* A turn and the end of the loop are states of an attempt.
LEMMA TurnOK ==
    ASSUME RunInv, NEW state \in Runs, NEW kind \in Phases
    PROVE  /\ Turn(state, kind) \in Runs /\ Turn(state, kind).rev = conversation
           /\ Turn(state, kind).pc = "Turn" /\ Turn(state, kind).next = kind
  BY StateFacts DEF Turn, Runs, Places

LEMMA ExitOK ==
    ASSUME NEW state \in Runs, NEW cause \in Causes, NEW next \in Phases
    PROVE  /\ Exit(state, cause, next) \in Runs /\ Exit(state, cause, next).rev = state.rev
           /\ Exit(state, cause, next).pc = "Exit"
  BY DEF Exit, Runs, Places, Phases

LEMMA EditWorkspaceInv ==
    ASSUME RunInv, EditWorkspace, scope' = scope
    PROVE  RunInv'
  <1>1. WorkspaceOK'
    <2>1. workspace \in [content : Contents, head : 0..MaxHead, context : 1..MaxContext]
      BY DEF RunInv, WorkspaceOK
    <2>2. MaxHead \in Nat /\ MaxContext \in Nat
      BY ScopeFacts DEF RunInv
    <2>3. Contents' = Contents /\ MaxHead' = MaxHead /\ MaxContext' = MaxContext
      BY DEF Contents, MaxHead, MaxContext
    <2>4. CASE \E c \in Contents \ {workspace.content} :
                   workspace' = [workspace EXCEPT !.content = c]
      BY <2>1, <2>3, <2>4 DEF WorkspaceOK
    <2>5. CASE \E e \in 1..MaxContext \ {workspace.context} :
                   workspace' = [workspace EXCEPT !.context = e]
      BY <2>1, <2>3, <2>5 DEF WorkspaceOK
    <2>6. CASE workspace.head < MaxHead /\ workspace' = [workspace EXCEPT !.head = @ + 1]
      BY <2>1, <2>2, <2>3, <2>6 DEF WorkspaceOK
    <2> QED BY <2>4, <2>5, <2>6 DEF EditWorkspace
  <1>2. UNCHANGED <<conversation, recorder, run, record>>
    BY DEF EditWorkspace
  <1> QED BY <1>1, <1>2 DEF RunInv, AttemptOK, MaxRevision, MaxSequence

LEMMA UserMessageInv ==
    ASSUME RunInv, UserMessage, scope' = scope
    PROVE  RunInv'
  <1>1. WorkspaceOK'
    BY WorkspaceKept DEF UserMessage
  <1>2. conversation' = conversation + 1 /\ conversation < MaxRevision /\ MaxRevision \in Nat
    BY ScopeFacts DEF UserMessage, RunInv
  <1>3. UNCHANGED <<recorder, run, record>>
    BY DEF UserMessage
  <1>4. AttemptOK'
    BY <1>2, <1>3, StateFacts DEF AttemptOK
  <1>5. conversation' \in 1..MaxRevision'
    BY <1>2, StateFacts DEF MaxRevision
  <1> QED BY <1>1, <1>3, <1>4, <1>5 DEF RunInv, MaxSequence

LEMMA ToolChangeStep ==
    ASSUME RunInv, ToolChange, scope' = scope
    PROVE  /\ WorkspaceOK' /\ run' = run /\ Recording(workspace', run.rev, Nothing)
  <1>1. PICK c \in Contents, stage \in scope.toolStages :
            /\ workspace' = [workspace EXCEPT !.content = c]
            /\ Takes(recorder, Recorded(workspace', recorder, stage, run.rev, Nothing), run)
    BY DEF ToolChange
  <1>2. WorkspaceOK'
    BY <1>1 DEF RunInv, WorkspaceOK, Contents, MaxHead, MaxContext
  <1>3. workspace'.content \in Nat /\ workspace'.head \in Nat
    BY <1>1, StateFacts, ScopeFacts DEF RunInv, WorkspaceOK
  <1>4. stage \in Stages
    BY ScopeFacts DEF RunInv, Stages
  <1> QED BY <1>1, <1>2, <1>3, <1>4, StateFacts, TakesRecorded

LEMMA ToolChangeInv ==
    ASSUME RunInv, ToolChange, scope' = scope
    PROVE  RunInv'
  <1>1. run.pc = "Turn" /\ conversation' = conversation /\ record' = record
    BY DEF ToolChange
  <1> QED BY <1>1, ToolChangeStep, StateFacts, AttemptStep DEF Recording, RecordedAs

LEMMA ToolEffectStep ==
    ASSUME RunInv, ToolEffect, scope' = scope
    PROVE  run' = run /\ Recording(workspace, run.rev, [Nothing EXCEPT !.kind = "effect"])
  <1> DEFINE marked == [recorder EXCEPT !.external = TRUE]
             effect == [Nothing EXCEPT !.kind = "effect"]
             q == Recorded(workspace, marked, "Changed", run.rev, effect)
  <1>1. Takes(recorder, q, run)
    BY DEF ToolEffect
  <1>2. /\ RecorderSound(marked) /\ marked.checkpoint = recorder.checkpoint
    BY StateFacts DEF RecorderSound, Recorders
  <1>3. "Changed" \in Stages
    BY DEF Stages
  <1>4. effect \in Results
    BY StateFacts
  <1> HIDE DEF marked, effect
  <1>5. RecordedAs(q, marked, workspace, run.rev, effect)
    BY <1>2, <1>3, <1>4, StateFacts, RecordedSound
  <1>6. marked.sequence = recorder.sequence
    BY StateFacts DEF RecorderSound, Recorders, marked
  <1> HIDE DEF q
  <1>7. RecordedAs(q, recorder, workspace, run.rev, effect)
    BY <1>2, <1>5, <1>6 DEF RecordedAs
  <1>8. q.checkpoint = NoCheckpoint \/ Admissible(recorder.checkpoint, q.checkpoint)
    BY <1>7 DEF RecordedAs
  <1>9. recorder' = q /\ run' = run /\ q.sequence <= MaxSequence
    BY <1>1, <1>8, TakesFacts
  <1>10. Recording(workspace, run.rev, effect)
    BY <1>7, <1>9 DEF Recording
  <1> QED BY <1>9, <1>10 DEF effect

LEMMA ToolEffectInv ==
    ASSUME RunInv, ToolEffect, scope' = scope
    PROVE  RunInv'
  <1>1. /\ run.pc = "Turn" /\ conversation' = conversation /\ record' = record
        /\ workspace' = workspace
    BY DEF ToolEffect
  <1> QED BY <1>1, ToolEffectStep, StateFacts, WorkspaceKept, AttemptStep DEF Recording, RecordedAs
LEMMA IncorporateInv ==
    ASSUME RunInv, Incorporate, scope' = scope
    PROVE  RunInv'
  <1>1. run' = [run EXCEPT !.rev = conversation] /\ run.pc = "Turn"
    BY DEF Incorporate
  <1>2. UNCHANGED <<workspace, conversation, recorder, record>>
    BY DEF Incorporate
  <1>3. run' \in Runs /\ run'.rev = conversation /\ run'.pc = "Turn"
    BY <1>1, StateFacts DEF Runs
  <1> QED BY <1>1, <1>2, <1>3, StateFacts, WorkspaceKept, AttemptStep

\* A turn that ends leaves its recorder as it is or records the turn.
LEMMA EndTurnStep ==
    ASSUME RunInv, EndTurn
    PROVE  /\ run' = [run EXCEPT !.pc = "Loop", !.next = "Checking"]
           /\ recorder' = recorder \/ Recording(workspace, run.rev, Nothing)
  <1> DEFINE checking == [run EXCEPT !.pc = "Loop", !.next = "Checking"]
  <1>1. CASE run.next = "FollowUp"
    BY <1>1 DEF EndTurn
  <1>2. CASE run.next # "FollowUp"
    <2>1. PICK stage \in (IF run.next = "Writing" THEN scope.toolStages ELSE {"Changed"}) :
              Takes(recorder, Recorded(workspace, recorder, stage, run.rev, Nothing), checking)
      BY <1>2 DEF EndTurn
    <2>2. stage \in Stages
      BY ScopeFacts DEF RunInv, Stages
    <2> HIDE DEF checking
    <2>3. run' = checking /\ Recording(workspace, run.rev, Nothing)
      BY <2>1, <2>2, StateFacts, TakesRecorded
    <2> QED BY <2>3 DEF checking
  <1> QED BY <1>1, <1>2

LEMMA EndTurnInv ==
    ASSUME RunInv, EndTurn, scope' = scope
    PROVE  RunInv'
  <1>1. run.pc = "Turn" /\ UNCHANGED <<workspace, conversation, record>>
    BY DEF EndTurn
  <1>2. run' \in Runs /\ run'.rev = run.rev /\ run'.pc = "Loop"
    BY EndTurnStep, StateFacts DEF Runs, Places, Phases
  <1>3. RecorderSound(recorder') /\ recorder'.sequence <= MaxSequence
    BY EndTurnStep, StateFacts DEF Recording, RecordedAs
  <1> QED BY <1>1, <1>2, <1>3, StateFacts, WorkspaceKept, AttemptStep

\* The steps of the loop that record nothing.
LEMMA LoopInv ==
    ASSUME RunInv, scope' = scope,
           \/ LoopFinalizing \/ FollowUp \/ BeginInvestigation \/ EndInvestigation
           \/ BeginGates \/ BeginFix
           \/ \E cause \in scope.interruptions : Interrupt(cause)
    PROVE  RunInv' /\ recorder' = recorder
  <1>1. UNCHANGED <<workspace, conversation, recorder, record>> /\ run.pc \notin {"Off", "Down"}
    BY DEF LoopFinalizing, FollowUp, BeginInvestigation, EndInvestigation, BeginGates, BeginFix,
           Interrupt, AtLoop
  <1>2. /\ \A kind \in {"FollowUp", "Fixing"} :
              Turn(run, kind) \in Runs /\ Turn(run, kind).rev = conversation
              /\ Turn(run, kind).pc = "Turn"
    BY StateFacts, TurnOK DEF Phases
  <1>5. ASSUME NEW cause \in Causes, NEW next \in {"Finalizing", "Checking"}
        PROVE  Exit(run, cause, next) \in Runs /\ Exit(run, cause, next).rev = run.rev
               /\ Exit(run, cause, next).pc = "Exit"
    <2>1. next \in Phases /\ run \in Runs
      BY StateFacts DEF Phases
    <2> QED BY <2>1, ExitOK
  <1>3. /\ "Completed" \in Causes /\ "Provider" \in Causes /\ "NoChangeComplete" \in Causes
        /\ scope.interruptions \subseteq Causes
    BY ScopeFacts DEF Causes, RunInv
  <1>4. run' \in Runs /\ run'.rev \in 1..conversation /\ run'.pc # "Refused"
    <2>1. CASE LoopFinalizing
      BY <1>3, <1>5, <2>1, StateFacts DEF LoopFinalizing
    <2>2. CASE FollowUp
      BY <1>2, <2>2, StateFacts DEF FollowUp
    <2>3. CASE BeginInvestigation
      <3>1. run' = [run EXCEPT !.pc = "Investigate"]
        BY <2>3 DEF BeginInvestigation
      <3> QED BY <3>1, StateFacts DEF Runs, Places
    <2>4. CASE EndInvestigation
      <3>1. \/ run' = Turn(run, "FollowUp") \/ run' = Turn(run, "Fixing")
            \/ run' = Exit(run, "Provider", "Checking")
            \/ run' = Exit(run, "NoChangeComplete", "Finalizing")
        BY <2>4 DEF EndInvestigation
      <3> QED BY <1>2, <1>3, <1>5, <3>1, StateFacts
    <2>5. CASE BeginGates
      <3>1. run' = [run EXCEPT !.pc = "Gates", !.seen = [content |-> workspace.content,
                                                        context |-> workspace.context]]
        BY <2>5 DEF BeginGates
      <3> QED BY <3>1, StateFacts DEF Runs, Places
    <2>6. CASE BeginFix
      <3>1. run' = Turn(run, "Fixing") \/ run' = [run EXCEPT !.pc = "Error"]
        BY <2>6 DEF BeginFix
      <3>2. CASE run' = [run EXCEPT !.pc = "Error"]
        BY <3>2, StateFacts DEF Runs, Places
      <3> QED BY <1>2, <3>1, <3>2, StateFacts
    <2>7. ASSUME NEW cause \in scope.interruptions, Interrupt(cause)
          PROVE  run' \in Runs /\ run'.rev \in 1..conversation /\ run'.pc # "Refused"
      <3> DEFINE state == [run EXCEPT !.seen = [content |-> 0, context |-> NoContext]]
      <3>1. run' = Exit(state, cause, run.next)
        BY <2>7 DEF Interrupt
      <3>2. state \in Runs /\ state.rev = run.rev /\ run.next \in Phases
        BY StateFacts DEF Runs, NoContext
      <3> HIDE DEF state
      <3> QED BY <1>3, <3>1, <3>2, StateFacts, ExitOK
    <2> QED BY <2>1, <2>2, <2>3, <2>4, <2>5, <2>6, <2>7
  <1> QED BY <1>1, <1>4, StateFacts, WorkspaceKept, AttemptStep
LEMMA ResultOK ==
    ASSUME NEW kind \in Kinds, NEW ok \in BOOLEAN, NEW context \in Nat
    PROVE  /\ Result(kind, ok, context) \in Results /\ Result(kind, ok, context).kind = kind
           /\ Result(kind, ok, context).ok = ok /\ Result(kind, ok, context).context = context
  BY DEF Result, Results

\* The gates that end are recorded, and the retained diff is the source as it
\* is then.
LEMMA EndGatesStep ==
    ASSUME RunInv, NEW ok \in BOOLEAN, EndGates(ok)
    PROVE  /\ Recording(workspace, run.rev, Result("gates", ok, run.seen.context))
           /\ run' \in Runs /\ run'.rev \in 1..conversation /\ run'.diff = workspace.content
           /\ run'.pc \in {"Turn", "Error", "Qualify", "Loop"}
  <1> DEFINE a == Result("gates", ok, run.seen.context)
             s == IF ok THEN "GatesPassed" ELSE "SelfChecked"
             r == Recorded(workspace, recorder, s, run.rev, a)
             inspected == [run EXCEPT !.seen = [content |-> 0, context |-> NoContext],
                                      !.diff = workspace.content, !.report = TRUE]
             after == IF conversation # run.rev THEN Turn(inspected, "FollowUp")
                      ELSE IF r.checkpoint = NoCheckpoint THEN [inspected EXCEPT !.pc = "Error"]
                      ELSE IF ok /\ Current(r, "obligations") /\ Current(r, "review")
                      THEN [inspected EXCEPT !.pc = "Qualify"]
                      ELSE [inspected EXCEPT !.pc = "Loop", !.next = "Reviewing"]
  <1>1. Takes(recorder, r, after)
    BY DEF EndGates
  <1>2. a \in Results /\ s \in Stages
    BY StateFacts, ResultOK DEF Runs, Kinds, Stages
  <1>3. inspected \in Runs /\ inspected.rev = run.rev /\ inspected.diff = workspace.content
    BY StateFacts DEF Runs, NoContext
  <1> HIDE DEF inspected
  <1>4. /\ after \in Runs /\ after.rev \in 1..conversation /\ after.diff = workspace.content
        /\ after.pc \in {"Turn", "Error", "Qualify", "Loop"}
    <2>1. CASE after = Turn(inspected, "FollowUp")
      <3>1. after.diff = workspace.content
        BY <1>3, <2>1 DEF Turn, Runs
      <3>2. "FollowUp" \in Phases
        BY DEF Phases
      <3> HIDE DEF after
      <3> QED BY <1>3, <2>1, <3>1, <3>2, StateFacts, TurnOK
    <2>2. ASSUME NEW pc \in {"Error", "Qualify"}, after = [inspected EXCEPT !.pc = pc]
          PROVE  /\ after \in Runs /\ after.rev \in 1..conversation
                 /\ after.diff = workspace.content /\ after.pc = pc
      <3> HIDE DEF after
      <3>1. pc \in Places
        BY DEF Places
      <3> QED BY <1>3, <2>2, <3>1, StateFacts DEF Runs
    <2>3. CASE after = [inspected EXCEPT !.pc = "Loop", !.next = "Reviewing"]
      <3> HIDE DEF after
      <3> QED BY <1>3, <2>3, StateFacts DEF Runs, Places, Phases
    <2>4. \/ after = Turn(inspected, "FollowUp")
          \/ \E pc \in {"Error", "Qualify"} : after = [inspected EXCEPT !.pc = pc]
          \/ after = [inspected EXCEPT !.pc = "Loop", !.next = "Reviewing"]
      OBVIOUS
    <2> HIDE DEF after
    <2> QED BY <2>1, <2>2, <2>3, <2>4
  <1> HIDE DEF a, s, after
  <1>5. run' = after /\ Recording(workspace, run.rev, a)
    BY <1>1, <1>2, StateFacts, TakesRecorded
  <1> QED BY <1>4, <1>5 DEF a

LEMMA EndGatesInv ==
    ASSUME RunInv, NEW ok \in BOOLEAN, EndGates(ok), scope' = scope
    PROVE  RunInv'
  <1>1. run.pc = "Gates" /\ UNCHANGED <<workspace, conversation, record>>
    BY DEF EndGates
  <1>2. RecorderSound(recorder') /\ recorder'.sequence <= MaxSequence
    BY EndGatesStep DEF Recording, RecordedAs
  <1> QED BY <1>1, <1>2, EndGatesStep, WorkspaceKept, AttemptStep

LEMMA QualifyStep ==
    ASSUME RunInv, Qualify
    PROVE  /\ Recording(workspace, run.rev, Nothing)
           /\ run' = Exit(run, "Completed", "Finalizing")
           /\ run' \in Runs /\ run'.rev = run.rev /\ run'.pc = "Exit"
  <1> DEFINE after == Exit(run, "Completed", "Finalizing")
  <1>1. Takes(recorder, Recorded(workspace, recorder, "Qualified", run.rev, Nothing), after)
    BY DEF Qualify
  <1>2. "Qualified" \in Stages /\ "Completed" \in Causes /\ "Finalizing" \in Phases
    BY DEF Stages, Causes, Phases
  <1>3. after \in Runs /\ after.rev = run.rev /\ after.pc = "Exit"
    BY <1>2, StateFacts, ExitOK
  <1> HIDE DEF after
  <1>4. run' = after /\ Recording(workspace, run.rev, Nothing)
    BY <1>1, <1>2, StateFacts, TakesRecorded
  <1> QED BY <1>3, <1>4 DEF after

LEMMA QualifyInv ==
    ASSUME RunInv, Qualify, scope' = scope
    PROVE  RunInv'
  <1>1. run.pc = "Qualify" /\ UNCHANGED <<workspace, conversation, record>>
    BY DEF Qualify
  <1>2. RecorderSound(recorder') /\ recorder'.sequence <= MaxSequence
    BY QualifyStep DEF Recording, RecordedAs
  <1> QED BY <1>1, <1>2, QualifyStep, StateFacts, WorkspaceKept, AttemptStep

LEMMA BeginReviewStep ==
    ASSUME RunInv, BeginReview
    PROVE  /\ recorder' = recorder \/ Recording(workspace, run.rev, Nothing)
           /\ run' \in Runs /\ run'.rev = run.rev /\ run'.diff = run.diff
           /\ run'.pc \in {"Error", "Review"}
  <1> DEFINE reviewing == [run EXCEPT !.pc = "Review", !.gatesOk = Current(recorder, "gates")]
             stopped == [run EXCEPT !.pc = "Error"]
  <1>1. Current(recorder, "gates") \in BOOLEAN
    BY DEF Current, Satisfied, IsCurrentFor
  <1>2. /\ reviewing \in Runs /\ reviewing.rev = run.rev /\ reviewing.diff = run.diff
        /\ reviewing.pc = "Review"
    BY <1>1, StateFacts DEF Runs, Places
  <1>3. /\ stopped \in Runs /\ stopped.rev = run.rev /\ stopped.diff = run.diff
        /\ stopped.pc = "Error"
    BY StateFacts DEF Runs, Places
  <1>4. \/ run' = stopped /\ recorder' = recorder
        \/ run' = reviewing /\ recorder' = recorder
        \/ Takes(recorder, Recorded(workspace, recorder, "ReviewPending", run.rev, Nothing),
                 reviewing)
    BY DEF BeginReview
  <1> HIDE DEF reviewing, stopped
  <1>5. "ReviewPending" \in Stages
    BY DEF Stages
  <1>6. CASE Takes(recorder, Recorded(workspace, recorder, "ReviewPending", run.rev, Nothing),
                   reviewing)
    <2>1. run' = reviewing /\ Recording(workspace, run.rev, Nothing)
      BY <1>5, <1>6, StateFacts, TakesRecorded
    <2> QED BY <1>2, <2>1
  <1> QED BY <1>2, <1>3, <1>4, <1>6

LEMMA BeginReviewInv ==
    ASSUME RunInv, BeginReview, scope' = scope
    PROVE  RunInv'
  <1>1. run.pc = "Loop" /\ UNCHANGED <<workspace, conversation, record>>
    BY DEF BeginReview, AtLoop
  <1>2. RecorderSound(recorder') /\ recorder'.sequence <= MaxSequence
    BY BeginReviewStep, StateFacts DEF Recording, RecordedAs
  <1> QED BY <1>1, <1>2, BeginReviewStep, StateFacts, WorkspaceKept, AttemptStep
\* Recording the obligations and then the review is recording the review.
LEMMA RecordedTwice ==
    ASSUME NEW q0, RecorderSound(q0), NEW q1, NEW q2, NEW w, NEW revision, NEW b, NEW a,
           a.kind = "review", b.kind = "obligations",
           RecordedAs(q1, q0, w, revision, b), RecordedAs(q2, q1, w, revision, a)
    PROVE  RecordedAs(q2, q0, w, revision, a)
  <1>1. /\ q0.sequence \in Nat /\ q1.sequence \in Nat /\ q2.sequence \in Nat
        /\ q0.checkpoint.identity.sequence \in Nat /\ q2.checkpoint.identity.sequence \in Nat
        /\ q0.checkpoint.identity.sequence <= q0.sequence /\ Sound(q2.checkpoint)
    BY DEF RecordedAs, RecorderSound, Recorders, Sound, Checkpoints, Identities
  <1>2. q0.sequence <= q1.sequence /\ q1.sequence <= q2.sequence
    BY DEF RecordedAs
  <1>3. q2.checkpoint # NoCheckpoint => q1.sequence < q2.checkpoint.identity.sequence
    BY DEF RecordedAs
  <1>4. q2.checkpoint # NoCheckpoint => Admissible(q0.checkpoint, q2.checkpoint)
    BY <1>1, <1>2, <1>3, SoundAdmissible
  <1>5. q2.checkpoint # NoCheckpoint => Inherits(q2.checkpoint, q0.checkpoint, a)
    <2> SUFFICES ASSUME q2.checkpoint # NoCheckpoint
                 PROVE  Inherits(q2.checkpoint, q0.checkpoint, a)
      OBVIOUS
    <2>1. Inherits(q2.checkpoint, q1.checkpoint, a)
      BY DEF RecordedAs
    <2>2. CASE q1.checkpoint = NoCheckpoint
      <3>1. ~q1.checkpoint.gates.ok
        BY <2>2 DEF NoCheckpoint, Missing
      <3> QED BY <2>1, <3>1 DEF Inherits
    <2>3. CASE q1.checkpoint # NoCheckpoint
      <3>1. Inherits(q1.checkpoint, q0.checkpoint, b)
        BY <2>3 DEF RecordedAs
      <3> QED BY <2>1, <3>1 DEF Inherits
    <2> QED BY <2>2, <2>3
  <1>6. q0.sequence <= q2.sequence
    BY <1>1, <1>2
  <1>7. q2.checkpoint # NoCheckpoint => q0.sequence < q2.checkpoint.identity.sequence
    BY <1>1, <1>2, <1>3
  <1> QED BY <1>4, <1>5, <1>6, <1>7 DEF RecordedAs

\* A review that ends is dropped, concerns no candidate, or is recorded.
LEMMA EndReviewStep ==
    ASSUME RunInv, NEW ok \in BOOLEAN, EndReview(ok)
    PROVE  /\ \/ conversation # run.rev /\ recorder' = recorder /\ UNCHANGED <<passed, failed>>
              \/ /\ recorder.checkpoint = NoCheckpoint /\ recorder' = recorder
                 /\ Remember(Check("review", run.diff, run.rev, NoContext), ok)
              \/ /\ Recording(workspace, run.rev, Result("review", ok, NoContext))
                 /\ Remember(Check("review", run.diff, run.rev, NoContext), ok)
           /\ run' \in Runs /\ run'.rev \in 1..conversation
           /\ \/ run'.pc \in {"Turn", "Exit"}
              \/ run'.pc = "Loop" /\ run'.next = "Fixing"
  <1> DEFINE qualified == run.gatesOk /\ ok
             b == Result("obligations", qualified, NoContext)
             a == Result("review", ok, NoContext)
             s == IF run.gatesOk THEN "GatesPassed" ELSE "SelfChecked"
             t == IF qualified THEN "Qualified"
                  ELSE IF run.gatesOk THEN "ReviewPending" ELSE "SelfChecked"
             obliged == Recorded(workspace, recorder, s, run.rev, b)
             r == Recorded(workspace, obliged, t, run.rev, a)
             reviewed == [run EXCEPT !.gatesOk = FALSE]
             fixing == [reviewed EXCEPT !.pc = "Loop", !.next = "Fixing"]
             done == Exit(reviewed, "Completed", "Finalizing")
             talk == Turn(reviewed, "FollowUp")
             check == Check("review", run.diff, run.rev, NoContext)
  <1>1. \/ conversation # run.rev /\ run' = talk /\ UNCHANGED <<recorder, passed, failed>>
        \/ /\ recorder.checkpoint = NoCheckpoint /\ run' = fixing /\ UNCHANGED recorder
           /\ Remember(check, ok)
        \/ Takes(recorder, r, IF qualified THEN done ELSE fixing) /\ Remember(check, ok)
    BY DEF EndReview
  <1>2. reviewed \in Runs /\ reviewed.rev = run.rev
    BY StateFacts DEF Runs
  <1>3. "Completed" \in Causes /\ "Finalizing" \in Phases /\ "FollowUp" \in Phases
    BY DEF Causes, Phases
  <1> HIDE DEF reviewed
  <1>4. fixing \in Runs /\ fixing.rev = run.rev /\ fixing.pc = "Loop" /\ fixing.next = "Fixing"
    BY <1>2 DEF Runs, Places, Phases
  <1>5. done \in Runs /\ done.rev = run.rev /\ done.pc = "Exit"
    BY <1>2, <1>3, ExitOK
  <1>6. talk \in Runs /\ talk.rev = conversation /\ talk.pc = "Turn"
    BY <1>2, <1>3, TurnOK
  <1>7. run.gatesOk \in BOOLEAN /\ qualified \in BOOLEAN
    BY StateFacts DEF Runs
  <1>8. s \in Stages /\ t \in Stages
    BY DEF Stages
  <1>9. /\ a \in Results /\ b \in Results /\ a.kind = "review" /\ b.kind = "obligations"
    BY <1>7, ResultOK DEF Kinds, NoContext
  <1> HIDE DEF qualified, a, b, s, t, fixing, done, talk, check
  <1>10. RecordedAs(obliged, recorder, workspace, run.rev, b)
    BY <1>8, <1>9, StateFacts, RecordedSound
  <1>11. RecorderSound(obliged)
    BY <1>10 DEF RecordedAs
  <1> HIDE DEF obliged
  <1>12. RecordedAs(r, obliged, workspace, run.rev, a)
    BY <1>8, <1>9, <1>11, StateFacts, RecordedSound
  <1> HIDE DEF r
  <1>13. RecordedAs(r, recorder, workspace, run.rev, a)
    BY <1>9, <1>10, <1>12, StateFacts, RecordedTwice
  <1>14. CASE conversation # run.rev /\ run' = talk /\ UNCHANGED <<recorder, passed, failed>>
    BY <1>6, <1>14, StateFacts
  <1>15. CASE /\ recorder.checkpoint = NoCheckpoint /\ run' = fixing /\ UNCHANGED recorder
              /\ Remember(check, ok)
    BY <1>4, <1>15, StateFacts DEF check
  <1>16. CASE Takes(recorder, r, IF qualified THEN done ELSE fixing) /\ Remember(check, ok)
    <2> DEFINE after == IF qualified THEN done ELSE fixing
    <2>1. r.checkpoint = NoCheckpoint \/ Admissible(recorder.checkpoint, r.checkpoint)
      BY <1>13 DEF RecordedAs
    <2>2. after = done \/ after = fixing
      OBVIOUS
    <2>3. Takes(recorder, r, after)
      BY <1>16
    <2> HIDE DEF after
    <2>4. recorder' = r /\ run' = after /\ r.sequence <= MaxSequence
      BY <2>1, <2>3, TakesFacts
    <2>5. Recording(workspace, run.rev, a)
      BY <1>13, <2>4 DEF Recording
    <2> QED BY <1>4, <1>5, <1>16, <2>2, <2>4, <2>5, StateFacts DEF a, check
  <1> QED BY <1>1, <1>14, <1>15, <1>16

LEMMA EndReviewInv ==
    ASSUME RunInv, NEW ok \in BOOLEAN, EndReview(ok), scope' = scope
    PROVE  RunInv'
  <1>1. run.pc = "Review" /\ UNCHANGED <<workspace, conversation, record>>
    BY DEF EndReview
  <1>2. RecorderSound(recorder') /\ recorder'.sequence <= MaxSequence
    BY EndReviewStep, StateFacts DEF Recording, RecordedAs
  <1>3. run' \in Runs /\ run'.rev \in 1..conversation /\ run'.pc # "Refused"
    BY EndReviewStep
  <1> QED BY <1>1, <1>2, <1>3, WorkspaceKept, AttemptStep
----------------------------------------------------------------------------
(* The end of an attempt and the daemon.                                   *)

LEMMA PublishInv ==
    ASSUME RunInv, Publish, scope' = scope
    PROVE  RunInv'
  <1> DEFINE c == IF recorder.checkpoint = NoCheckpoint THEN record.checkpoint
                  ELSE recorder.checkpoint
  <1>1. /\ run.pc = "Exit" /\ run' = [run EXCEPT !.pc = "Final"]
        /\ record' = [record EXCEPT !.checkpoint = c]
        /\ UNCHANGED <<workspace, conversation, recorder>>
    BY DEF Publish
  <1>2. /\ record \in Records /\ record.settlement = NoSettlement /\ RecordSound(record)
    BY <1>1 DEF RunInv, RecordSound
  <1>3. Sound(c) /\ c \in Checkpoints
    BY StateFacts, <1>2 DEF RecorderSound, RecordSound, Sound
  <1> HIDE DEF c
  <1>4. /\ record' \in Records /\ record'.checkpoint = c /\ record'.settlement = NoSettlement
        /\ record'.resume = record.resume /\ record'.deliverable = record.deliverable
    BY <1>1, <1>2, <1>3 DEF Records
  <1>5. RecordSound(record')
    BY <1>2, <1>3, <1>4 DEF RecordSound
  <1>6. run' \in Runs /\ run'.rev = run.rev /\ run'.pc = "Final"
    BY <1>1, StateFacts DEF Runs, Places
  <1>7. AttemptOK'
    BY <1>1, <1>6, StateFacts DEF AttemptOK
  <1>8. WorkspaceOK'
    BY <1>1, WorkspaceKept
  <1> QED BY <1>1, <1>4, <1>5, <1>7, <1>8 DEF RunInv, MaxRevision, MaxSequence

LEMMA FinalCauseOK ==
    ASSUME RunInv, NEW observed
    PROVE  /\ FinalCause(observed) \in Causes \union {"None"}
           /\ FinalCause(observed) = "NoChangeComplete" => run.rev = conversation /\ observed
           /\ ~observed => FinalCause(observed) # "Completed"
  BY StateFacts DEF FinalCause, Runs, Causes

\* Finalization settles the candidate as it is now for the request as it is now,
\* or as it was last recorded.
LEMMA FinalizeStep ==
    ASSUME RunInv, Finalize
    PROVE  \E r, observed :
           /\ \/ observed /\ RecordedAs(r, recorder, workspace, conversation, Nothing)
              \/ ~observed /\ r = recorder
           /\ run' = Idle("Off", run.rev) /\ RecordSound(record')
           /\ record'.checkpoint = r.checkpoint /\ record'.resume.checkpoint = r.checkpoint
           /\ record'.settlement = Decide(r.checkpoint, FinalCause(observed))
  <1>1. "Observed" \in Stages
    BY DEF Stages
  <1>2. RecordedAs(Refreshed(recorder), recorder, workspace, conversation, Nothing)
    BY <1>1, StateFacts, RecordedSound DEF Refreshed
  <1>3. PICK observed \in Outcomes :
            LET r == IF observed THEN Refreshed(recorder) ELSE recorder
                resume == IF r.checkpoint = NoCheckpoint THEN NoResume
                          ELSE [checkpoint |-> r.checkpoint, next |-> run.next,
                                report |-> run.report]
            IN  /\ run' = Idle(IF r.checkpoint = NoCheckpoint \/ r = recorder
                                  \/ Admissible(recorder.checkpoint, r.checkpoint)
                               THEN "Off" ELSE "Refused", run.rev)
                /\ record' \in Finished(r.checkpoint,
                                        Decide(r.checkpoint, FinalCause(observed)), resume)
    BY DEF Finalize
  <1> DEFINE r == IF observed THEN Refreshed(recorder) ELSE recorder
             resume == IF r.checkpoint = NoCheckpoint THEN NoResume
                       ELSE [checkpoint |-> r.checkpoint, next |-> run.next, report |-> run.report]
  <1>4. \/ observed /\ RecordedAs(r, recorder, workspace, conversation, Nothing)
        \/ ~observed /\ r = recorder
    BY <1>2
  <1>5. /\ run' = Idle(IF r.checkpoint = NoCheckpoint \/ r = recorder
                          \/ Admissible(recorder.checkpoint, r.checkpoint)
                       THEN "Off" ELSE "Refused", run.rev)
        /\ record' \in Finished(r.checkpoint, Decide(r.checkpoint, FinalCause(observed)), resume)
    BY <1>3
  <1> HIDE DEF r
  <1>6. Sound(r.checkpoint) /\ r.checkpoint \in Checkpoints
    BY <1>4 DEF RecordedAs, RecorderSound, Sound, RunInv
  <1>7. /\ resume \in Resumes /\ resume.checkpoint = r.checkpoint
        /\ r.checkpoint # NoCheckpoint => resume # NoResume
    <2>1. CASE r.checkpoint = NoCheckpoint
      BY <2>1, NoResumeOK
    <2>2. CASE r.checkpoint # NoCheckpoint
      BY <1>6, <2>2, StateFacts, NoResumeOK DEF Resumes, Runs
    <2> QED BY <2>1, <2>2
  <1> HIDE DEF resume
  <1>8. run' = Idle("Off", run.rev)
    BY <1>4, <1>5 DEF RecordedAs
  <1>9. FinalCause(observed) \in Causes \union {"None"}
    BY FinalCauseOK
  <1>10. /\ RecordSound(record') /\ record'.checkpoint = r.checkpoint /\ record'.resume = resume
         /\ record'.settlement = Decide(r.checkpoint, FinalCause(observed))
    BY <1>5, <1>6, <1>7, <1>9, FinishedSound
  <1> QED BY <1>4, <1>7, <1>8, <1>10

\* An attempt is over: its recorder and its state are dropped.
LEMMA IdleStep ==
    ASSUME RunInv, NEW pc \in {"Off", "Down"}, run' = Idle(pc, run.rev), scope' = scope,
           recorder' = NewRecorder(NoCheckpoint) \/ recorder' = recorder,
           UNCHANGED <<workspace, conversation>>, RecordSound(record')
    PROVE  RunInv'
  <1>1. pc \in Places
    BY DEF Places
  <1>2. run' \in Runs /\ run'.rev = run.rev /\ run'.pc = pc
    BY <1>1, StateFacts, IdleOK
  <1>3. AttemptOK'
    BY <1>2, StateFacts DEF AttemptOK
  <1>4. WorkspaceOK'
    BY WorkspaceKept
  <1>5. RecorderSound(recorder') /\ recorder'.sequence <= MaxSequence
    BY EmptyRecorder, StateFacts, ScopeFacts DEF RunInv
  <1> QED BY <1>2, <1>3, <1>4, <1>5 DEF RunInv, MaxRevision, MaxSequence

LEMMA FinalizeInv ==
    ASSUME RunInv, Finalize, scope' = scope
    PROVE  RunInv'
  <1>1. recorder' = NewRecorder(NoCheckpoint) /\ UNCHANGED <<workspace, conversation>>
    BY DEF Finalize
  <1> QED BY <1>1, FinalizeStep, IdleStep

LEMMA FinishErrorInv ==
    ASSUME RunInv, FinishError, scope' = scope
    PROVE  RunInv'
  <1>1. /\ run.pc = "Error" /\ recorder' = NewRecorder(NoCheckpoint)
        /\ UNCHANGED <<workspace, conversation>>
        /\ run' = Idle("Off", run.rev) /\ record' \in Errored(record)
    BY DEF FinishError
  <1>2. RecordSound(record')
    BY <1>1, ErroredSound DEF RunInv
  <1> QED BY <1>1, <1>2, IdleStep

LEMMA CrashInv ==
    ASSUME RunInv, Crash, scope' = scope
    PROVE  RunInv'
  <1>1. /\ recorder' = NewRecorder(NoCheckpoint) /\ UNCHANGED <<workspace, conversation>>
        /\ run' = Idle("Down", run.rev) /\ record' = record
    BY DEF Crash
  <1>2. RecordSound(record')
    BY <1>1 DEF RunInv
  <1> QED BY <1>1, <1>2, IdleStep

\* A restart reconciles what was stored, or loses it.
LEMMA RestartStep ==
    ASSUME RunInv, Restart
    PROVE  /\ RecordSound(record')
           /\ ~Offered(record')
           /\ record'.settlement # NoSettlement =>
                 /\ record.settlement # NoSettlement
                 /\ \/ record'.checkpoint = record.checkpoint
                    \/ SameEvidence(record'.checkpoint, record.checkpoint)
           /\ \/ record'.resume.checkpoint \in {NoCheckpoint, record.resume.checkpoint}
              \/ /\ record.settlement # NoSettlement
                 /\ SameEvidence(record'.resume.checkpoint, record.checkpoint)
           /\ Accepted(record') => IsQualified(record'.checkpoint)
  <1>1. PICK validated : record' = Lost \/ record' = Reconciled(Loaded, validated)
    BY DEF Restart
  <1>2. CASE record' = Lost
    <2>1. ~Accepted(Lost) /\ ~Offered(Lost)
      BY NewRecordSound DEF Accepted, NoSettlement, Offered, Lost, NewRecord
    <2> QED BY <1>2, <2>1, NewRecordSound, NoResumeOK
  <1>3. CASE record' = Reconciled(Loaded, validated)
    <2>1. RecordSound(record) /\ record.settlement \in Settlements
      BY DEF RunInv, RecordSound, Records
    <2>2. PICK l : l = Loaded
      OBVIOUS
    <2>3. PICK cause : cause = record.settlement.cause
      OBVIOUS
    <2>4. cause \in Causes \union {"None"}
      BY <2>1, <2>3 DEF Settlements
    <2>5. /\ RecordSound(l) /\ l.phase \in Terminal /\ l.checkpoint = record.checkpoint
          /\ l.resume.checkpoint = record.resume.checkpoint
          /\ l.settlement = IF record.settlement = NoSettlement THEN NoSettlement
                            ELSE Decide(record.checkpoint, cause)
      BY <2>1, <2>2, <2>3, LoadedSound
    <2>6. l.settlement # NoSettlement => /\ l.settlement = Decide(l.checkpoint, cause)
                                         /\ record.settlement # NoSettlement
      BY <2>5
    <2>7. scope \in Scopes /\ WorkspaceOK
      BY DEF RunInv
    <2>8. LET r == Reconciled(l, validated) IN
           /\ RecordSound(r)
           /\ ~Offered(r)
           /\ \/ r.checkpoint = l.checkpoint
              \/ l.settlement # NoSettlement /\ SameEvidence(r.checkpoint, l.checkpoint)
           /\ \/ r.resume.checkpoint = l.resume.checkpoint
              \/ /\ l.settlement # NoSettlement
                 /\ SameEvidence(r.resume.checkpoint, l.checkpoint)
           /\ r.settlement # NoSettlement => l.settlement # NoSettlement
           /\ Accepted(r) => IsQualified(r.checkpoint)
      BY <2>4, <2>5, <2>6, <2>7, ReconciledSound
    <2>9. record' = Reconciled(l, validated)
      BY <1>3, <2>2
    <2> QED BY <2>5, <2>6, <2>8, <2>9
  <1> QED BY <1>1, <1>2, <1>3

LEMMA RestartInv ==
    ASSUME RunInv, Restart, scope' = scope
    PROVE  RunInv'
  <1>1. /\ recorder' = recorder /\ UNCHANGED <<workspace, conversation>>
        /\ run' = Idle("Off", run.rev)
    BY DEF Restart
  <1> QED BY <1>1, RestartStep, IdleStep
\* A retry records the retained candidate again and goes on with it or writes.
LEMMA RetryStep ==
    ASSUME RunInv, Retry
    PROVE  /\ RecordedAs(recorder', NewRecorder(record.resume.checkpoint), workspace,
                         conversation, Nothing)
           /\ recorder'.sequence <= MaxSequence
           /\ run' \in Runs /\ run'.rev = conversation /\ run'.pc \in {"Turn", "Loop"}
           /\ run'.pc = "Loop" => run'.diff = workspace.content
           /\ record' \in Records /\ record'.checkpoint = record.checkpoint
           /\ record'.settlement = NoSettlement /\ record'.resume = record.resume
           /\ record'.deliverable = "none"
  <1> DEFINE resume == record.resume
             prior == NewRecorder(resume.checkpoint)
             r == Recorded(workspace, prior, "Observed", conversation, Nothing)
             launched == [Idle("Turn", conversation) EXCEPT !.ledger = conversation]
             same == /\ resume # NoResume /\ r.checkpoint # NoCheckpoint
                     /\ SameContentAndRequirements(resume.checkpoint.identity,
                                                   r.checkpoint.identity)
             goes == [launched EXCEPT !.pc = "Loop", !.next = resume.next,
                                      !.rev = resume.checkpoint.identity.requirements,
                                      !.diff = resume.checkpoint.identity.content,
                                      !.report = resume.report]
             after == IF same /\ resume.next # "Writing" THEN goes
                      ELSE Turn(launched, "Writing")
  <1>1. Takes(prior, r, after) /\ record' = Retrying
    BY DEF Retry
  <1>2. record \in Records /\ resume \in Resumes /\ Sound(resume.checkpoint) /\ scope \in Scopes
    BY DEF RunInv, RecordSound, Records
  <1>3. "Observed" \in Stages /\ "Turn" \in Places /\ "Writing" \in Phases
    BY DEF Stages, Places, Phases
  <1>4. launched \in Runs /\ launched.rev = conversation
    <2>1. Idle("Turn", conversation) \in Runs /\ Idle("Turn", conversation).rev = conversation
      BY <1>3, StateFacts, IdleOK
    <2> QED BY <2>1, StateFacts DEF Runs
  <1>5. RecorderSound(prior)
    BY <1>2, NewRecorderSound
  <1> HIDE DEF prior
  <1>6. RecordedAs(r, prior, workspace, conversation, Nothing)
    BY <1>3, <1>5, StateFacts, RecordedSound
  <1> HIDE DEF r, launched
  <1>7. /\ resume.next \in Phases /\ resume.report \in BOOLEAN
        /\ resume.checkpoint.identity.requirements \in Nat
        /\ resume.checkpoint.identity.content \in Nat
    BY <1>2 DEF Resumes, Checkpoints, Identities
  <1>8. same => /\ resume.checkpoint.identity.requirements = conversation
                /\ resume.checkpoint.identity.content = workspace.content
    BY <1>6 DEF RecordedAs, SameContentAndRequirements
  <1>9. goes \in Runs /\ goes.pc = "Loop"
        /\ goes.rev = resume.checkpoint.identity.requirements
        /\ goes.diff = resume.checkpoint.identity.content
    BY <1>4, <1>7 DEF Runs, Places
  <1>10. /\ Turn(launched, "Writing") \in Runs /\ Turn(launched, "Writing").rev = conversation
         /\ Turn(launched, "Writing").pc = "Turn"
    BY <1>3, <1>4, TurnOK
  <1>11. (same /\ after = goes) \/ after = Turn(launched, "Writing")
    OBVIOUS
  <1> HIDE DEF after, goes, same, resume
  <1>12. /\ after \in Runs /\ after.rev = conversation /\ after.pc \in {"Turn", "Loop"}
         /\ after.pc = "Loop" => after.diff = workspace.content
    BY <1>8, <1>9, <1>10, <1>11
  <1>13. r.checkpoint = NoCheckpoint \/ Admissible(prior.checkpoint, r.checkpoint)
    BY <1>6 DEF RecordedAs
  <1>14. recorder' = r /\ run' = after /\ r.sequence <= MaxSequence
    BY <1>1, <1>13, TakesFacts
  <1>15. NoSettlement \in Settlements
    BY DEF NoSettlement, Settlements
  <1>16. /\ record' \in Records /\ record'.checkpoint = record.checkpoint
         /\ record'.settlement = NoSettlement /\ record'.resume = record.resume
         /\ record'.deliverable = "none"
    BY <1>1, <1>2, <1>15 DEF Retrying, Records
  <1> QED BY <1>6, <1>12, <1>14, <1>16 DEF prior, resume

LEMMA RetryInv ==
    ASSUME RunInv, Retry, scope' = scope
    PROVE  RunInv'
  <1>1. UNCHANGED <<workspace, conversation>>
    BY DEF Retry
  <1>2. RecordSound(record)
    BY DEF RunInv
  <1>3. RecordSound(record')
    BY <1>2, RetryStep DEF RecordSound
  <1>4. AttemptOK'
    BY <1>1, StateFacts, RetryStep DEF AttemptOK
  <1>5. RecorderSound(recorder') /\ recorder'.sequence <= MaxSequence
    BY RetryStep DEF RecordedAs
  <1>6. WorkspaceOK'
    BY <1>1, WorkspaceKept
  <1> QED BY <1>1, <1>3, <1>4, <1>5, <1>6, RetryStep DEF RunInv, MaxRevision, MaxSequence

\* A change of the record while no attempt lives.
LEMMA RecordStep ==
    ASSUME RunInv, run.pc = "Off", scope' = scope, WorkspaceOK',
           UNCHANGED <<conversation, recorder, run>>, RecordSound(record')
    PROVE  RunInv'
  BY DEF RunInv, AttemptOK, MaxRevision, MaxSequence

\* A retry that fails at once settles the retained candidate again, or settles
\* nothing.
LEMMA RetryFailsStep ==
    ASSUME RunInv, RetryFails
    PROVE  /\ RecordSound(record') /\ record'.resume = record.resume
           /\ \/ /\ record'.checkpoint = record.resume.checkpoint
                 /\ record'.settlement = Decide(record.resume.checkpoint, "Provider")
              \/ record'.settlement = NoSettlement
  <1>1. /\ record \in Records /\ RecordSound(record)
        /\ record.resume \in Resumes /\ Sound(record.resume.checkpoint)
    BY DEF RunInv, RecordSound, Records
  <1>2. CASE record' \in Finished(record.resume.checkpoint,
                                  Decide(record.resume.checkpoint, "Provider"), record.resume)
    <2>1. "Provider" \in Causes \union {"None"}
      BY DEF Causes
    <2>2. record.resume.checkpoint # NoCheckpoint => record.resume # NoResume
      BY NoResumeOK
    <2> QED BY <1>1, <1>2, <2>1, <2>2, FinishedSound
  <1>3. CASE record' \in Errored(Retrying)
    <2>1. NoSettlement \in Settlements
      BY DEF NoSettlement, Settlements
    <2>2. /\ Retrying \in Records /\ Retrying.checkpoint = record.checkpoint
          /\ Retrying.settlement = NoSettlement /\ Retrying.resume = record.resume
          /\ Retrying.deliverable = "none"
      BY <1>1, <2>1 DEF Retrying, Records
    <2>3. RecordSound(Retrying)
      BY <1>1, <2>2 DEF RecordSound
    <2> QED BY <1>3, <2>2, <2>3, ErroredSound DEF SameFindings
  <1> QED BY <1>2, <1>3 DEF RetryFails

\* A commit binds the candidate to the new repository, or records only itself.
LEMMA CommitStep ==
    ASSUME RunInv, Commit, scope' = scope
    PROVE  /\ WorkspaceOK' /\ RecordSound(record')
           /\ record.settlement # NoSettlement /\ record'.settlement # NoSettlement
           /\ \/ record'.checkpoint = record.checkpoint /\ record'.settlement = record.settlement
              \/ /\ SameEvidence(record'.checkpoint, record.checkpoint)
                 /\ record'.settlement = Decide(record'.checkpoint, record.settlement.cause)
           /\ record'.resume.checkpoint \in {NoCheckpoint, record.resume.checkpoint}
  <1>1. record.deliverable = "open" /\ run.pc = "Off"
    BY DEF Commit
  <1>2. /\ workspace' \in [content : Contents, head : 0..MaxHead, context : 1..MaxContext]
        /\ Contents \subseteq Nat /\ MaxHead \in Nat
    <2>1. /\ workspace \in [content : Contents, head : 0..MaxHead, context : 1..MaxContext]
          /\ Contents \subseteq Nat /\ MaxHead \in Nat
      BY ScopeFacts DEF RunInv, WorkspaceOK
    <2>2. CASE UNCHANGED workspace
      BY <2>1, <2>2
    <2>3. CASE /\ workspace.head < MaxHead
               /\ \E c \in Contents : workspace' = [workspace EXCEPT !.content = c, !.head = @ + 1]
      <3>1. workspace.head + 1 \in 0..MaxHead
        BY <2>1, <2>3
      <3> QED BY <2>1, <2>3, <3>1
    <2> QED BY <2>1, <2>2, <2>3 DEF Commit
  <1>4. WorkspaceOK'
    BY <1>2 DEF WorkspaceOK, Contents, MaxHead, MaxContext
  <1>5. PICK w : w = workspace'
    OBVIOUS
  <1>6. w.content \in Nat /\ w.head \in Nat
    <2>1. w \in [content : Contents, head : 0..MaxHead, context : 1..MaxContext]
      BY <1>2, <1>5
    <2>2. w.content \in Contents /\ w.head \in 0..MaxHead
      BY <2>1
    <2>3. w.content \in Nat
      BY <1>2, <2>2
    <2>4. w.head \in Nat
      BY <1>2, <2>2
    <2> QED BY <2>3, <2>4
  <1>7. /\ record \in Records /\ RecordSound(record) /\ Sound(record.checkpoint)
        /\ record.checkpoint # NoCheckpoint /\ record.settlement # NoSettlement
        /\ record.settlement.cause \in Causes \union {"None"}
        /\ record.checkpoint.identity.execution \in Nat
    BY <1>1 DEF RunInv, RecordSound, Records, Settlements, Checkpoints, Identities
  <1> DEFINE changed == ChangedCheckpoint(record.checkpoint, w,
                                          record.checkpoint.identity.execution)
             d == Decide(changed, record.settlement.cause)
  <1>8. Sound(changed) /\ changed # NoCheckpoint /\ SameEvidence(changed, record.checkpoint)
    BY <1>6, <1>7, ChangedSound
  <1> HIDE DEF changed
  <1>9. d \in Settlements /\ d # NoSettlement
    BY <1>7, DecideFacts
  <1>10. record' = Bound(w)
    BY <1>5 DEF Commit
  <1>11. CASE \/ w.content # workspace.content
              \/ Repository(w) = record.checkpoint.identity.repository
    <2>1. record' = [record EXCEPT !.deliverable = "committed"]
      BY <1>10, <1>11 DEF Bound
    <2>2. /\ record' \in Records /\ record'.checkpoint = record.checkpoint
          /\ record'.settlement = record.settlement /\ record'.resume = record.resume
          /\ record'.deliverable = "committed"
      BY <1>7, <2>1 DEF Records
    <2>3. RecordSound(record')
      BY <1>7, <2>2 DEF RecordSound
    <2> QED BY <1>4, <1>7, <2>2, <2>3
  <1>12. CASE /\ w.content = workspace.content
              /\ Repository(w) # record.checkpoint.identity.repository
    <2>1. record' = [record EXCEPT !.deliverable = "committed", !.checkpoint = changed,
                                   !.settlement = d, !.resume = NoResume, !.actionable = TRUE]
      BY <1>7, <1>10, <1>12 DEF Bound, Records, changed
    <2> HIDE DEF d
    <2>2. changed \in Checkpoints
      BY <1>8 DEF Sound
    <2>3. /\ record' \in Records /\ record'.checkpoint = changed /\ record'.settlement = d
          /\ record'.resume = NoResume /\ record'.deliverable = "committed"
      BY <1>7, <1>9, <2>1, <2>2, NoResumeOK DEF Records
    <2>4. RecordSound(record')
      BY <1>8, <2>3, NoResumeOK DEF RecordSound
    <2> QED BY <1>4, <1>7, <1>8, <1>9, <2>3, <2>4, NoResumeOK DEF d
  <1> QED BY <1>11, <1>12

LEMMA DaemonInv ==
    ASSUME RunInv, RetryFails \/ CancelWaiting \/ Commit, scope' = scope
    PROVE  RunInv'
  <1>1. CASE RetryFails
    <2>1. run.pc = "Off" /\ UNCHANGED <<workspace, conversation, recorder, run>>
      BY <1>1 DEF RetryFails, Retryable
    <2> QED BY <1>1, <2>1, RetryFailsStep, WorkspaceKept, RecordStep
  <1>2. CASE CancelWaiting
    <2>1. /\ run.pc = "Off" /\ UNCHANGED <<workspace, conversation, recorder, run>>
          /\ record' = [record EXCEPT !.phase = "Cancelled"]
      BY <1>2 DEF CancelWaiting
    <2>2. RecordSound(record) /\ record \in Records
      BY DEF RunInv, RecordSound
    <2>3. /\ record' \in Records /\ record'.checkpoint = record.checkpoint
          /\ record'.settlement = record.settlement /\ record'.resume = record.resume
          /\ record'.deliverable = record.deliverable
      BY <2>1, <2>2 DEF Records, Terminal
    <2>4. RecordSound(record')
      BY <2>2, <2>3 DEF RecordSound
    <2> QED BY <2>1, <2>4, WorkspaceKept, RecordStep
  <1>3. CASE Commit
    <2>1. run.pc = "Off" /\ UNCHANGED <<conversation, recorder, run>>
      BY <1>3 DEF Commit
    <2> QED BY <1>3, <2>1, CommitStep, RecordStep
  <1> QED BY <1>1, <1>2, <1>3
----------------------------------------------------------------------------
(* The invariant, and what it says of the record.                          *)

LEMMA RunInvInit ==
    ASSUME Init
    PROVE  RunInv
  <1>1. scope \in Scopes /\ 0 \in Contents /\ MaxHead \in Nat /\ MaxContext \in Nat \ {0}
        /\ MaxRevision \in Nat \ {0} /\ MaxSequence \in Nat
    BY ScopeFacts DEF Init
  <1>2. WorkspaceOK
    BY <1>1 DEF Init, WorkspaceOK
  <1>3. "Turn" \in Places
    BY DEF Places
  <1>4. Idle("Turn", 1) \in Runs /\ Idle("Turn", 1).rev = 1 /\ Idle("Turn", 1).pc = "Turn"
    BY <1>3, IdleOK
  <1>5. run \in Runs /\ run.rev = 1 /\ run.pc = "Turn"
    BY <1>4 DEF Init, Runs, Phases
  <1>6. AttemptOK
    BY <1>5 DEF AttemptOK, Init
  <1>7. RecorderSound(recorder) /\ recorder.sequence <= MaxSequence
    BY <1>1, EmptyRecorder DEF Init
  <1>8. RecordSound(record) /\ record.settlement = NoSettlement
    BY NewRecordSound DEF Init
  <1>9. conversation \in 1..MaxRevision
    BY <1>1 DEF Init
  <1> QED BY <1>1, <1>2, <1>6, <1>7, <1>8, <1>9 DEF RunInv

LEMMA RunInvStep ==
    ASSUME RunInv, Next
    PROVE  RunInv'
  <1>1. scope' = scope
    BY DEF Next
  <1>2. ASSUME NEW ok \in BOOLEAN, EndGates(ok)
        PROVE  RunInv'
    BY <1>1, <1>2, EndGatesInv
  <1>3. ASSUME NEW ok \in BOOLEAN, EndReview(ok)
        PROVE  RunInv'
    BY <1>1, <1>3, EndReviewInv
  <1>4. CASE EditWorkspace \/ UserMessage \/ ToolChange \/ ToolEffect \/ Incorporate \/ EndTurn
    BY <1>1, <1>4, EditWorkspaceInv, UserMessageInv, ToolChangeInv, ToolEffectInv,
       IncorporateInv, EndTurnInv
  <1>5. CASE \/ LoopFinalizing \/ FollowUp \/ BeginInvestigation \/ EndInvestigation
             \/ BeginGates \/ BeginFix
             \/ \E cause \in scope.interruptions : Interrupt(cause)
    BY <1>1, <1>5, LoopInv
  <1>6. CASE Qualify \/ BeginReview
    BY <1>1, <1>6, QualifyInv, BeginReviewInv
  <1>7. CASE Publish \/ Finalize \/ FinishError \/ Retry \/ Crash \/ Restart
    BY <1>1, <1>7, PublishInv, FinalizeInv, FinishErrorInv, RetryInv, CrashInv, RestartInv
  <1>8. CASE RetryFails \/ CancelWaiting \/ Commit
    BY <1>1, <1>8, DaemonInv
  <1> QED BY <1>2, <1>3, <1>4, <1>5, <1>6, <1>7, <1>8 DEF Next, Step

LEMMA RunInvStutter ==
    ASSUME RunInv, UNCHANGED vars
    PROVE  RunInv'
  <1>1. UNCHANGED <<scope, workspace, conversation, recorder, run, record>>
    BY DEF vars
  <1>2. WorkspaceOK'
    BY <1>1, WorkspaceKept
  <1> QED BY <1>1, <1>2 DEF RunInv, AttemptOK, MaxRevision, MaxSequence

\* What is recorded of a run is always a sound checkpoint, whatever the scope:
\* the inductive invariant of the recorder, the attempt and the record.
THEOREM RunInvariant == Spec => []RunInv
  <1>1. Init => RunInv
    BY RunInvInit
  <1>2. RunInv /\ [Next]_vars => RunInv'
    BY RunInvStep, RunInvStutter
  <1> QED BY <1>1, <1>2, PTL DEF Spec

\* No checkpoint that the recorder builds is refused, in a first attempt or a
\* resumed one, and every record with an open deliverable can be reconciled at
\* startup.
THEOREM RecordsStaySound == Spec => []RecordTruth
  <1>1. RunInv => RecordTruth
    BY DEF RunInv, RecordTruth, NeverRefused, AttemptOK, ReconcilableAtStartup, RecordSound
  <1> QED BY <1>1, RunInvariant, PTL

LEMMA PcOfSteps ==
    ASSUME RunInv, Next, run.pc \in {"Final", "Down"}
    PROVE  \/ run.pc = "Final" /\ Finalize
           \/ run.pc = "Down" /\ Restart
           \/ record' = record /\ run' = run
           \/ record' = record /\ run'.pc = "Down"
  <1>1. ASSUME NEW ok \in BOOLEAN
        PROVE  ~EndGates(ok) /\ ~EndReview(ok)
    BY DEF EndGates, EndReview
  <1>2. ASSUME NEW cause \in scope.interruptions
        PROVE  ~Interrupt(cause)
    BY DEF Interrupt
  <1>3. /\ ~ToolChange /\ ~ToolEffect /\ ~Incorporate /\ ~EndTurn /\ ~LoopFinalizing /\ ~FollowUp
        /\ ~BeginInvestigation /\ ~EndInvestigation /\ ~BeginGates /\ ~Qualify /\ ~BeginReview
        /\ ~BeginFix /\ ~Publish /\ ~FinishError /\ ~Retry /\ ~RetryFails /\ ~CancelWaiting
        /\ ~Commit
    BY DEF ToolChange, ToolEffect, Incorporate, EndTurn, LoopFinalizing, FollowUp,
           BeginInvestigation, EndInvestigation, BeginGates, Qualify, BeginReview, BeginFix,
           Publish, FinishError, Retry, RetryFails, Retryable, CancelWaiting, Commit, AtLoop
  <1>4. Finalize \/ Restart \/ EditWorkspace \/ UserMessage \/ Crash
    BY <1>1, <1>2, <1>3 DEF Next, Step
  <1>5. CASE EditWorkspace \/ UserMessage
    BY <1>5 DEF EditWorkspace, UserMessage
  <1>6. CASE Crash
    <2>1. record' = record /\ run' = Idle("Down", run.rev)
      BY <1>6 DEF Crash
    <2> QED BY <2>1 DEF Idle
  <1>7. CASE Finalize
    BY <1>7 DEF Finalize
  <1>8. CASE Restart
    BY <1>8 DEF Restart
  <1> QED BY <1>4, <1>5, <1>6, <1>7, <1>8

\* Settlements look at the present, whatever the scope: a restart leaves no
\* uncommitted candidate on offer, an attempt that settles as accepted does so for
\* the source and the request as they are or says that it could not observe them,
\* and "no change" is said only of unchanged source and of the request that was
\* investigated.
THEOREM SettlementsAreObservations == Spec => SettlementsObserve
  <1>1. ASSUME RunInv, [Next]_vars
        PROVE  [run.pc = "Down" /\ run'.pc = "Off" => ~Offered(record')]_vars
    <2> SUFFICES ASSUME Next, run.pc = "Down", run'.pc = "Off"
                 PROVE  ~Offered(record')
      BY <1>1
    <2>1. Restart
      BY <1>1, PcOfSteps
    <2> QED BY <1>1, <2>1, RestartStep
  <1>2. ASSUME RunInv, [Next]_vars
        PROVE  [run.pc = "Final" /\ run'.pc = "Off" /\ Accepted(record')
                => \/ /\ record'.checkpoint.identity.content = workspace.content
                      /\ record'.checkpoint.identity.requirements = conversation
                   \/ /\ record'.checkpoint = recorder.checkpoint
                      /\ record'.settlement.cause # "Completed"]_vars
    <2> SUFFICES ASSUME Next, run.pc = "Final", run'.pc = "Off", Accepted(record')
                 PROVE  \/ /\ record'.checkpoint.identity.content = workspace.content
                           /\ record'.checkpoint.identity.requirements = conversation
                        \/ /\ record'.checkpoint = recorder.checkpoint
                           /\ record'.settlement.cause # "Completed"
      BY <1>2
    <2>1. Finalize
      BY <1>2, PcOfSteps
    <2>2. PICK r, observed :
             /\ \/ observed /\ RecordedAs(r, recorder, workspace, conversation, Nothing)
                \/ ~observed /\ r = recorder
             /\ record'.checkpoint = r.checkpoint
             /\ record'.settlement = Decide(r.checkpoint, FinalCause(observed))
      BY <1>2, <2>1, FinalizeStep
    <2>3. CASE observed /\ RecordedAs(r, recorder, workspace, conversation, Nothing)
      <3>1. IsQualified(r.checkpoint)
        BY <1>2, <2>2, FinalCauseOK, DecideFacts DEF Accepted
      <3>2. r.checkpoint # NoCheckpoint
        BY <3>1, NotQualified
      <3> QED BY <2>2, <2>3, <3>2 DEF RecordedAs
    <2>4. CASE ~observed /\ r = recorder
      <3>1. record'.settlement.cause = FinalCause(observed)
        BY <1>2, <2>2, FinalCauseOK, DecideFacts
      <3> QED BY <1>2, <2>2, <2>4, <3>1, FinalCauseOK
    <2> QED BY <2>2, <2>3, <2>4
  <1>3. ASSUME RunInv, [Next]_vars
        PROVE  [run.pc = "Final" /\ record'.settlement.disposition = "CompletedWithoutCandidate"
                => workspace.content = 0 /\ run.rev = conversation]_vars
    <2> SUFFICES ASSUME Next, run.pc = "Final",
                        record'.settlement.disposition = "CompletedWithoutCandidate"
                 PROVE  workspace.content = 0 /\ run.rev = conversation
      BY <1>3
    <2>1. record' # record
      BY <1>3 DEF RunInv, NoSettlement
    <2>2. Finalize
      BY <1>3, <2>1, PcOfSteps
    <2>3. PICK r, observed :
             /\ \/ observed /\ RecordedAs(r, recorder, workspace, conversation, Nothing)
                \/ ~observed /\ r = recorder
             /\ record'.settlement = Decide(r.checkpoint, FinalCause(observed))
      BY <1>3, <2>2, FinalizeStep
    <2>4. FinalCause(observed) = "NoChangeComplete" /\ r.checkpoint = NoCheckpoint
      BY <1>3, <2>3, FinalCauseOK, DecideFacts
    <2>5. observed /\ run.rev = conversation
      BY <1>3, <2>4, FinalCauseOK
    <2> QED BY <2>3, <2>4, <2>5 DEF RecordedAs
  <1>4. Spec => RestartWithdraws
    BY <1>1, RunInvariant, PTL DEF Spec, RestartWithdraws
  <1>5. Spec => FinalizeObserves
    BY <1>2, RunInvariant, PTL DEF Spec, FinalizeObserves
  <1>6. Spec => NoChangeTruth
    BY <1>3, RunInvariant, PTL DEF Spec, NoChangeTruth
  <1> QED BY <1>4, <1>5, <1>6 DEF SettlementsObserve
----------------------------------------------------------------------------
(* What evidence is worth.                                                 *)

\* Nobody edits the source while gates or a review look at it.
EditsOutsideChecks == \A s \in Scopes : s.editedAt \intersect {"Loop", "Gates", "Review"} = {}

Vouched(kind, from, execution, ps, fs) ==
    LET check == Check(kind, from.content, from.requirements, execution) IN
    check \in ps /\ check \notin fs

\* The positive gate and review evidence of c is a check that passed and has not
\* failed since, also when it is stale.
Backed(c, ps, fs) ==
    /\ c.gates.ok => Vouched("gates", c.gates.from, c.gates.from.execution, ps, fs)
    /\ c.review.ok => Vouched("review", c.review.from, NoContext, ps, fs)

\* The inductive invariant of the evidence: what the live attempt has is backed
\* by everything that was checked, what the record has by what was known at the
\* last settlement, a run is accepted for a qualified candidate, and a check that
\* runs looks at the source as it is.
EvidenceInv ==
    /\ Backed(recorder.checkpoint, passed, failed)
    /\ Backed(record.resume.checkpoint, kept.passed, kept.failed)
    /\ record.settlement # NoSettlement => Backed(record.checkpoint, kept.passed, kept.failed)
    /\ Accepted(record) => IsQualified(record.checkpoint)
    /\ run.pc \in {"Off", "Down"} => passed = kept.passed /\ failed = kept.failed
    /\ run.pc = "Gates" => run.seen.content = workspace.content
    /\ run.pc = "Review" \/ (run.pc = "Loop" /\ run.next = "Reviewing")
          => run.diff = workspace.content

LEMMA NothingBacked ==
    ASSUME NEW ps, NEW fs
    PROVE  Backed(NoCheckpoint, ps, fs)
  BY DEF Backed, NoCheckpoint, Missing

LEMMA SameBacked ==
    ASSUME NEW c, NEW p, SameEvidence(c, p), NEW ps, NEW fs, Backed(p, ps, fs)
    PROVE  Backed(c, ps, fs)
  BY DEF SameEvidence, Backed

\* A record that acquires neither gates nor a review keeps evidence backed, also
\* when an effect revokes the reviews.
LEMMA InheritedBacked ==
    ASSUME NEW q, NEW r, NEW w, NEW revision, NEW a, RecordedAs(q, r, w, revision, a),
           a.kind \notin {"gates", "review"}, NEW ps, NEW fs, NEW qs,
           Backed(r.checkpoint, ps, fs),
           qs = ps \/ (a.kind = "effect" /\ qs = {x \in ps : x.kind = "gates"})
    PROVE  Backed(q.checkpoint, qs, fs)
  <1>1. CASE q.checkpoint = NoCheckpoint
    BY <1>1, NothingBacked
  <1>2. CASE q.checkpoint # NoCheckpoint
    <2>1. Inherits(q.checkpoint, r.checkpoint, a)
      BY <1>2 DEF RecordedAs
    <2>2. ASSUME q.checkpoint.gates.ok
          PROVE  Vouched("gates", q.checkpoint.gates.from, q.checkpoint.gates.from.execution,
                         qs, fs)
      <3>1. r.checkpoint.gates.ok /\ q.checkpoint.gates.from = r.checkpoint.gates.from
        BY <2>1, <2>2 DEF Inherits
      <3> QED BY <3>1 DEF Backed, Vouched, Check
    <2>3. ASSUME q.checkpoint.review.ok
          PROVE  Vouched("review", q.checkpoint.review.from, NoContext, qs, fs)
      <3>1. /\ r.checkpoint.review.ok /\ q.checkpoint.review.from = r.checkpoint.review.from
            /\ a.kind # "effect"
        BY <2>1, <2>3 DEF Inherits
      <3> QED BY <3>1 DEF Backed, Vouched, Check
    <2> QED BY <2>2, <2>3 DEF Backed
  <1> QED BY <1>1, <1>2

\* What passed and what failed once the result of `check` is remembered.
Noted(ps, fs, qs, gs, check, ok) ==
    /\ qs = IF ok THEN ps \union {check} ELSE ps
    /\ gs = IF ok THEN fs \ {check} ELSE fs \union {check}

\* A recorded result is backed by the check it is the result of.
LEMMA AcquiredBacked ==
    ASSUME NEW q, NEW r, NEW w, NEW revision, NEW kind \in {"gates", "review"},
           NEW ok \in BOOLEAN, NEW context \in Nat, NEW ps, NEW fs, NEW qs, NEW gs,
           RecordedAs(q, r, w, revision, Result(kind, ok, context)),
           Backed(r.checkpoint, ps, fs), NEW execution,
           kind = "gates" => execution = context, kind = "review" => execution = NoContext,
           NEW check, check = Check(kind, w.content, revision, execution),
           Noted(ps, fs, qs, gs, check, ok)
    PROVE  Backed(q.checkpoint, qs, gs)
  <1> DEFINE a == Result(kind, ok, context)
  <1>1. a.kind = kind /\ a.ok = ok /\ a.context = context
    BY DEF Result
  <1> HIDE DEF a
  <1>2. CASE q.checkpoint = NoCheckpoint
    BY <1>2, NothingBacked
  <1>3. CASE q.checkpoint # NoCheckpoint
    <2>1. /\ q.checkpoint.identity.content = w.content
          /\ q.checkpoint.identity.requirements = revision
          /\ kind = "gates" => q.checkpoint.identity.execution = context
          /\ Inherits(q.checkpoint, r.checkpoint, a)
      BY <1>1, <1>3 DEF RecordedAs, a
    <2>2. ASSUME q.checkpoint.gates.ok
          PROVE  Vouched("gates", q.checkpoint.gates.from, q.checkpoint.gates.from.execution,
                         qs, gs)
      <3>1. CASE kind = "gates"
        <4>1. ok /\ q.checkpoint.gates.from = q.checkpoint.identity
          BY <1>1, <2>1, <2>2, <3>1 DEF Inherits
        <4> QED BY <2>1, <3>1, <4>1 DEF Vouched, Noted
      <3>2. CASE kind = "review"
        <4>1. r.checkpoint.gates.ok /\ q.checkpoint.gates.from = r.checkpoint.gates.from
          BY <1>1, <2>1, <2>2, <3>2 DEF Inherits
        <4> QED BY <3>2, <4>1 DEF Backed, Vouched, Check, Noted
      <3> QED BY <3>1, <3>2
    <2>3. ASSUME q.checkpoint.review.ok
          PROVE  Vouched("review", q.checkpoint.review.from, NoContext, qs, gs)
      <3>1. CASE kind = "review"
        <4>1. ok /\ q.checkpoint.review.from = q.checkpoint.identity
          BY <1>1, <2>1, <2>3, <3>1 DEF Inherits
        <4> QED BY <2>1, <3>1, <4>1 DEF Vouched, Noted
      <3>2. CASE kind = "gates"
        <4>1. r.checkpoint.review.ok /\ q.checkpoint.review.from = r.checkpoint.review.from
          BY <1>1, <2>1, <2>3, <3>2 DEF Inherits
        <4> QED BY <3>2, <4>1 DEF Backed, Vouched, Check, Noted
      <3> QED BY <3>1, <3>2
    <2> QED BY <2>2, <2>3 DEF Backed
  <1> QED BY <1>2, <1>3

LEMMA GatesBacked ==
    ASSUME NEW q, NEW r, NEW w, NEW revision, NEW ok \in BOOLEAN, NEW context \in Nat,
           NEW ps, NEW fs, NEW qs, NEW gs,
           RecordedAs(q, r, w, revision, Result("gates", ok, context)),
           Backed(r.checkpoint, ps, fs),
           NEW check, check = Check("gates", w.content, revision, context),
           Noted(ps, fs, qs, gs, check, ok)
    PROVE  Backed(q.checkpoint, qs, gs)
  <1>1. PICK kind : kind = "gates"
    OBVIOUS
  <1>2. kind \in {"gates", "review"} /\ kind # "review"
    BY <1>1
  <1>3. /\ RecordedAs(q, r, w, revision, Result(kind, ok, context))
        /\ check = Check(kind, w.content, revision, context)
    BY <1>1
  <1> QED BY <1>1, <1>2, <1>3, AcquiredBacked

LEMMA ReviewBacked ==
    ASSUME NEW q, NEW r, NEW w, NEW revision, NEW ok \in BOOLEAN, NEW ps, NEW fs, NEW qs, NEW gs,
           RecordedAs(q, r, w, revision, Result("review", ok, NoContext)),
           Backed(r.checkpoint, ps, fs),
           NEW check, check = Check("review", w.content, revision, NoContext),
           Noted(ps, fs, qs, gs, check, ok)
    PROVE  Backed(q.checkpoint, qs, gs)
  <1>1. PICK kind, context : kind = "review" /\ context = NoContext
    OBVIOUS
  <1>2. kind \in {"gates", "review"} /\ context \in Nat /\ kind # "gates"
    BY <1>1 DEF NoContext
  <1>3. /\ RecordedAs(q, r, w, revision, Result(kind, ok, context))
        /\ check = Check(kind, w.content, revision, context)
    BY <1>1
  <1> QED BY <1>1, <1>2, <1>3, AcquiredBacked

\* A step of the live attempt.
LEMMA LiveEvidence ==
    ASSUME EvidenceInv, record' = record, kept' = kept, run'.pc \notin {"Off", "Down"},
           Backed(recorder'.checkpoint, passed', failed'),
           run'.pc = "Gates" => run'.seen.content = workspace'.content,
           run'.pc = "Review" \/ (run'.pc = "Loop" /\ run'.next = "Reviewing")
              => run'.diff = workspace'.content
    PROVE  EvidenceInv'
  BY DEF EvidenceInv

LEMMA AroundEvidence ==
    ASSUME RunInv, EvidenceInv, EditsOutsideChecks, EditWorkspace \/ UserMessage
    PROVE  EvidenceInv'
  <1>1. UNCHANGED <<recorder, run, record, passed, failed, kept>>
    BY DEF EditWorkspace, UserMessage, history
  <1>2. CASE UserMessage
    <2>1. workspace' = workspace
      BY <1>2 DEF UserMessage
    <2> QED BY <1>1, <2>1 DEF EvidenceInv
  <1>3. CASE EditWorkspace
    <2>1. run.pc \notin {"Loop", "Gates", "Review"}
      BY <1>3 DEF EditWorkspace, EditsOutsideChecks, RunInv
    <2> QED BY <1>1, <2>1 DEF EvidenceInv
  <1> QED BY <1>2, <1>3

LEMMA NothingKind == Nothing.kind = "None" /\ [Nothing EXCEPT !.kind = "effect"].kind = "effect"
  BY DEF Nothing

LEMMA TurnEvidence ==
    ASSUME RunInv, EvidenceInv, scope' = scope,
           ToolChange \/ ToolEffect \/ Incorporate \/ EndTurn
    PROVE  EvidenceInv'
  <1>1. Backed(recorder.checkpoint, passed, failed)
    BY DEF EvidenceInv
  <1>2. CASE ToolChange
    <2>1. run' = run /\ run.pc = "Turn" /\ record' = record
          /\ UNCHANGED <<passed, failed, kept>>
      BY <1>2, ToolChangeStep DEF ToolChange, history
    <2>2. PICK w : w = workspace'
      OBVIOUS
    <2>3. RecordedAs(recorder', recorder, w, run.rev, Nothing)
      BY <1>2, <2>2, ToolChangeStep DEF Recording
    <2>4. Backed(recorder'.checkpoint, passed, failed)
      BY <1>1, <2>3, NothingKind, InheritedBacked
    <2> QED BY <2>1, <2>4, LiveEvidence
  <1>3. CASE ToolEffect
    <2>1. /\ run' = run /\ run.pc = "Turn" /\ record' = record /\ UNCHANGED <<failed, kept>>
          /\ passed' = {x \in passed : x.kind = "gates"}
      BY <1>3, ToolEffectStep DEF ToolEffect
    <2>2. PICK a : a = [Nothing EXCEPT !.kind = "effect"]
      OBVIOUS
    <2>3. a.kind = "effect"
      BY <2>2, NothingKind
    <2>4. RecordedAs(recorder', recorder, workspace, run.rev, a)
      BY <1>3, <2>2, ToolEffectStep DEF Recording
    <2>5. Backed(recorder'.checkpoint, passed', failed)
      BY <1>1, <2>1, <2>3, <2>4, InheritedBacked
    <2> QED BY <2>1, <2>5, LiveEvidence
  <1>4. CASE Incorporate
    <2>1. /\ run' = [run EXCEPT !.rev = conversation] /\ run.pc = "Turn"
          /\ UNCHANGED <<recorder, record, passed, failed, kept>>
      BY <1>4 DEF Incorporate, history
    <2>2. run'.pc = "Turn"
      BY <2>1, StateFacts DEF Runs
    <2> QED BY <1>1, <2>1, <2>2, LiveEvidence
  <1>5. CASE EndTurn
    <2>1. UNCHANGED <<record, passed, failed, kept>>
      BY <1>5 DEF EndTurn, history
    <2>2. run'.pc = "Loop" /\ run'.next = "Checking"
      BY <1>5, EndTurnStep, StateFacts DEF Runs
    <2>3. recorder' = recorder \/ RecordedAs(recorder', recorder, workspace, run.rev, Nothing)
      BY <1>5, EndTurnStep DEF Recording
    <2>4. Backed(recorder'.checkpoint, passed, failed)
      BY <1>1, <2>3, NothingKind, InheritedBacked
    <2> QED BY <2>1, <2>2, <2>4, LiveEvidence
  <1> QED BY <1>2, <1>3, <1>4, <1>5

LEMMA LoopEvidence ==
    ASSUME RunInv, EvidenceInv,
           \/ LoopFinalizing \/ FollowUp \/ BeginInvestigation \/ EndInvestigation
           \/ BeginGates \/ BeginFix
           \/ \E cause \in scope.interruptions : Interrupt(cause)
    PROVE  EvidenceInv'
  <1>1. UNCHANGED <<workspace, recorder, record, passed, failed, kept>>
    BY DEF LoopFinalizing, FollowUp, BeginInvestigation, EndInvestigation, BeginGates, BeginFix,
           Interrupt, history
  <1>2. ASSUME NEW state, NEW kind
        PROVE  Turn(state, kind).pc = "Turn" \/ state \notin Runs
    BY DEF Turn, Runs
  <1>3. ASSUME NEW state \in Runs, NEW cause, NEW next
        PROVE  Exit(state, cause, next).pc = "Exit"
    BY DEF Exit, Runs
  <1>4. run'.pc \in {"Turn", "Exit", "Investigate", "Error"} \/ BeginGates
    <2>1. CASE LoopFinalizing \/ FollowUp
      BY <1>2, <1>3, <2>1, StateFacts DEF LoopFinalizing, FollowUp
    <2>2. CASE EndInvestigation
      BY <1>2, <1>3, <2>2, StateFacts DEF EndInvestigation
    <2>3. CASE BeginInvestigation
      <3>1. run' = [run EXCEPT !.pc = "Investigate"]
        BY <2>3 DEF BeginInvestigation
      <3> QED BY <3>1, StateFacts DEF Runs
    <2>4. CASE BeginFix
      <3>1. run' = Turn(run, "Fixing") \/ run' = [run EXCEPT !.pc = "Error"]
        BY <2>4 DEF BeginFix
      <3>2. CASE run' = [run EXCEPT !.pc = "Error"]
        BY <3>2, StateFacts DEF Runs
      <3> QED BY <1>2, <3>1, <3>2, StateFacts
    <2>5. ASSUME NEW cause \in scope.interruptions, Interrupt(cause)
          PROVE  run'.pc = "Exit"
      <3> DEFINE state == [run EXCEPT !.seen = [content |-> 0, context |-> NoContext]]
      <3>1. run' = Exit(state, cause, run.next)
        BY <2>5 DEF Interrupt
      <3>2. state \in Runs
        BY StateFacts DEF Runs, NoContext
      <3> HIDE DEF state
      <3> QED BY <1>3, <3>1, <3>2
    <2> QED BY <2>1, <2>2, <2>3, <2>4, <2>5
  <1>5. Backed(recorder'.checkpoint, passed', failed')
    BY <1>1 DEF EvidenceInv
  <1>6. CASE BeginGates
    <2>1. run' = [run EXCEPT !.pc = "Gates", !.seen = [content |-> workspace.content,
                                                      context |-> workspace.context]]
      BY <1>6 DEF BeginGates
    <2>2. run'.pc = "Gates" /\ run'.seen.content = workspace'.content
      BY <1>1, <2>1, StateFacts DEF Runs
    <2> QED BY <1>1, <1>5, <2>2, LiveEvidence
  <1>7. CASE run'.pc \in {"Turn", "Exit", "Investigate", "Error"}
    BY <1>1, <1>5, <1>7, LiveEvidence
  <1> QED BY <1>4, <1>6, <1>7

LEMMA GatesEvidence ==
    ASSUME RunInv, EvidenceInv, NEW ok \in BOOLEAN, EndGates(ok)
    PROVE  EvidenceInv'
  <1> DEFINE check == Check("gates", run.seen.content, run.rev, run.seen.context)
  <1>1. /\ UNCHANGED <<workspace, record, kept>> /\ Remember(check, ok) /\ run.pc = "Gates"
    BY DEF EndGates
  <1>2. run.seen.content = workspace.content /\ Backed(recorder.checkpoint, passed, failed)
    BY <1>1 DEF EvidenceInv
  <1>3. check = Check("gates", workspace.content, run.rev, run.seen.context)
    BY <1>2
  <1>4. run.seen.context \in Nat
    BY StateFacts DEF Runs
  <1>5. RecordedAs(recorder', recorder, workspace, run.rev,
                   Result("gates", ok, run.seen.context))
    BY EndGatesStep DEF Recording
  <1> HIDE DEF check
  <1>6. /\ passed' = IF ok THEN passed \union {check} ELSE passed
        /\ failed' = IF ok THEN failed \ {check} ELSE failed \union {check}
    BY <1>1 DEF Remember
  <1>7. Backed(recorder'.checkpoint, passed', failed')
    <2>1. PICK q, qs, gs, context :
             q = recorder' /\ qs = passed' /\ gs = failed' /\ context = run.seen.context
      OBVIOUS
    <2>2. context \in Nat /\ check = Check("gates", workspace.content, run.rev, context)
      BY <1>3, <1>4, <2>1
    <2>3. RecordedAs(q, recorder, workspace, run.rev, Result("gates", ok, context))
      BY <1>5, <2>1
    <2>4. Noted(passed, failed, qs, gs, check, ok)
      BY <1>6, <2>1 DEF Noted
    <2>5. Backed(q.checkpoint, qs, gs)
      BY <1>2, <2>2, <2>3, <2>4, GatesBacked
    <2> QED BY <2>1, <2>5
  <1>8. /\ run'.pc \in {"Turn", "Error", "Qualify", "Loop"} /\ run'.diff = workspace'.content
    BY <1>1, EndGatesStep
  <1> QED BY <1>1, <1>7, <1>8, LiveEvidence

LEMMA ReviewEvidence ==
    ASSUME RunInv, EvidenceInv, Qualify \/ BeginReview
    PROVE  EvidenceInv'
  <1>1. UNCHANGED <<workspace, record, passed, failed, kept>>
    BY DEF Qualify, BeginReview, history
  <1>2. recorder' = recorder \/ RecordedAs(recorder', recorder, workspace, run.rev, Nothing)
    BY QualifyStep, BeginReviewStep DEF Recording
  <1>3. Backed(recorder'.checkpoint, passed', failed')
    BY <1>1, <1>2, NothingKind, InheritedBacked DEF EvidenceInv
  <1>4. CASE Qualify
    <2>1. run'.pc = "Exit"
      BY <1>4, QualifyStep
    <2> QED BY <1>1, <1>3, <2>1, LiveEvidence
  <1>5. CASE BeginReview
    <2>1. run'.pc \in {"Error", "Review"} /\ run'.diff = run.diff
      BY <1>5, BeginReviewStep
    <2>2. run.diff = workspace.content
      BY <1>5 DEF BeginReview, AtLoop, EvidenceInv
    <2> QED BY <1>1, <1>3, <2>1, <2>2, LiveEvidence
  <1> QED BY <1>4, <1>5

LEMMA EndReviewEvidence ==
    ASSUME RunInv, EvidenceInv, NEW ok \in BOOLEAN, EndReview(ok)
    PROVE  EvidenceInv'
  <1> DEFINE check == Check("review", run.diff, run.rev, NoContext)
  <1>1. UNCHANGED <<workspace, record, kept>> /\ run.pc = "Review"
    BY DEF EndReview
  <1>2. run.diff = workspace.content /\ Backed(recorder.checkpoint, passed, failed)
    BY <1>1 DEF EvidenceInv
  <1>3. check = Check("review", workspace.content, run.rev, NoContext)
    BY <1>2
  <1>4. /\ \/ recorder' = recorder /\ UNCHANGED <<passed, failed>>
           \/ recorder.checkpoint = NoCheckpoint /\ recorder' = recorder
           \/ /\ Recording(workspace, run.rev, Result("review", ok, NoContext))
              /\ Remember(check, ok)
        /\ run'.pc \in {"Turn", "Exit"} \/ (run'.pc = "Loop" /\ run'.next = "Fixing")
    BY EndReviewStep
  <1>5. NoContext \in Nat
    BY DEF NoContext
  <1> HIDE DEF check
  <1>6. Backed(recorder'.checkpoint, passed', failed')
    <2>1. CASE recorder' = recorder /\ UNCHANGED <<passed, failed>>
      BY <1>2, <2>1
    <2>2. CASE recorder.checkpoint = NoCheckpoint /\ recorder' = recorder
      BY <2>2, NothingBacked
    <2>3. CASE /\ Recording(workspace, run.rev, Result("review", ok, NoContext))
               /\ Remember(check, ok)
      <3>1. RecordedAs(recorder', recorder, workspace, run.rev,
                       Result("review", ok, NoContext))
        BY <2>3 DEF Recording
      <3>2. /\ passed' = IF ok THEN passed \union {check} ELSE passed
            /\ failed' = IF ok THEN failed \ {check} ELSE failed \union {check}
        BY <2>3 DEF Remember
      <3>3. PICK ps, fs : ps = passed' /\ fs = failed'
        OBVIOUS
      <3>4. Noted(passed, failed, ps, fs, check, ok)
        BY <3>2, <3>3 DEF Noted
      <3>5. Backed(recorder'.checkpoint, ps, fs)
        BY <1>2, <1>3, <1>5, <3>1, <3>4, ReviewBacked
      <3> QED BY <3>3, <3>5
    <2> QED BY <1>4, <2>1, <2>2, <2>3
  <1> QED BY <1>1, <1>4, <1>6, LiveEvidence

LEMMA IdleEvidence ==
    ASSUME EvidenceInv, NEW pc \in {"Off", "Down"}, NEW revision, run' = Idle(pc, revision),
           recorder'.checkpoint = NoCheckpoint,
           passed' = kept'.passed /\ failed' = kept'.failed,
           Backed(record'.resume.checkpoint, kept'.passed, kept'.failed),
           record'.settlement # NoSettlement =>
              Backed(record'.checkpoint, kept'.passed, kept'.failed),
           Accepted(record') => IsQualified(record'.checkpoint)
    PROVE  EvidenceInv'
  <1>1. run'.pc = pc
    BY DEF Idle
  <1>2. Backed(recorder'.checkpoint, passed', failed')
    BY NothingBacked
  <1> QED BY <1>1, <1>2 DEF EvidenceInv, Accepted

LEMMA EmptyChecks ==
    ASSUME RunInv
    PROVE  NewRecorder(NoCheckpoint).checkpoint = NoCheckpoint
  BY EmptyRecorder DEF RunInv

LEMMA PublishEvidence ==
    ASSUME RunInv, EvidenceInv, Publish
    PROVE  EvidenceInv'
  <1>1. /\ UNCHANGED <<workspace, recorder, passed, failed, kept>> /\ run.pc = "Exit"
        /\ run' = [run EXCEPT !.pc = "Final"]
        /\ record' = [record EXCEPT !.checkpoint =
                         IF recorder.checkpoint = NoCheckpoint THEN @ ELSE recorder.checkpoint]
    BY DEF Publish, history
  <1>2. run'.pc = "Final"
    BY <1>1, StateFacts DEF Runs
  <1>3. record \in Records /\ record.settlement = NoSettlement
    BY <1>1 DEF RunInv, RecordSound
  <1>4. record'.settlement = NoSettlement /\ record'.resume = record.resume
    BY <1>1, <1>3 DEF Records
  <1>5. ~Accepted(record')
    BY <1>4 DEF Accepted, NoSettlement
  <1> QED BY <1>1, <1>2, <1>4, <1>5 DEF EvidenceInv, Accepted

LEMMA FinalizeEvidence ==
    ASSUME RunInv, EvidenceInv, Finalize
    PROVE  EvidenceInv'
  <1>1. /\ UNCHANGED <<passed, failed>> /\ recorder' = NewRecorder(NoCheckpoint)
        /\ kept' = [passed |-> passed, failed |-> failed]
    BY DEF Finalize
  <1>2. kept'.passed = passed' /\ kept'.failed = failed'
    BY <1>1
  <1>3. PICK r, observed :
           /\ \/ observed /\ RecordedAs(r, recorder, workspace, conversation, Nothing)
              \/ ~observed /\ r = recorder
           /\ run' = Idle("Off", run.rev)
           /\ record'.checkpoint = r.checkpoint /\ record'.resume.checkpoint = r.checkpoint
           /\ record'.settlement = Decide(r.checkpoint, FinalCause(observed))
    BY FinalizeStep
  <1>4. Backed(recorder.checkpoint, passed, failed)
    BY DEF EvidenceInv
  <1>5. Backed(r.checkpoint, passed, failed)
    BY <1>3, <1>4, NothingKind, InheritedBacked
  <1>6. Backed(r.checkpoint, kept'.passed, kept'.failed)
    BY <1>1, <1>2, <1>5
  <1>7. Accepted(record') => IsQualified(record'.checkpoint)
    BY <1>3, FinalCauseOK, DecideFacts DEF Accepted
  <1> QED BY <1>1, <1>2, <1>3, <1>6, <1>7, EmptyChecks, IdleEvidence

LEMMA StopEvidence ==
    ASSUME RunInv, EvidenceInv, FinishError \/ Crash
    PROVE  EvidenceInv'
  <1>1. /\ kept' = kept /\ passed' = kept.passed /\ failed' = kept.failed
        /\ recorder' = NewRecorder(NoCheckpoint)
        /\ run' = Idle("Off", run.rev) \/ run' = Idle("Down", run.rev)
    BY DEF FinishError, Crash, Forget
  <1>2. RecordSound(record)
    BY DEF RunInv
  <1>3. /\ record'.checkpoint = record.checkpoint /\ record'.resume = record.resume
        /\ record'.settlement = record.settlement
    BY <1>2, ErroredSound DEF FinishError, Crash, SameFindings
  <1>4. Accepted(record') => IsQualified(record'.checkpoint)
    BY <1>3 DEF EvidenceInv, Accepted
  <1>5. /\ Backed(record'.resume.checkpoint, kept'.passed, kept'.failed)
        /\ record'.settlement # NoSettlement =>
              Backed(record'.checkpoint, kept'.passed, kept'.failed)
    BY <1>1, <1>3 DEF EvidenceInv
  <1> QED BY <1>1, <1>4, <1>5, EmptyChecks, IdleEvidence

LEMMA RestartEvidence ==
    ASSUME RunInv, EvidenceInv, Restart
    PROVE  EvidenceInv'
  <1>1. /\ run.pc = "Down" /\ run' = Idle("Off", run.rev)
        /\ UNCHANGED <<recorder, passed, failed, kept>>
    BY DEF Restart
  <1>2. run'.pc = "Off"
    BY <1>1 DEF Idle
  <1>3. ASSUME record'.settlement # NoSettlement
        PROVE  Backed(record'.checkpoint, kept.passed, kept.failed)
    <2>1. /\ record.settlement # NoSettlement
          /\ \/ record'.checkpoint = record.checkpoint
             \/ SameEvidence(record'.checkpoint, record.checkpoint)
      BY <1>3, RestartStep
    <2>2. Backed(record.checkpoint, kept.passed, kept.failed)
      BY <2>1 DEF EvidenceInv
    <2> QED BY <2>1, <2>2, SameBacked
  <1>4. Backed(record'.resume.checkpoint, kept.passed, kept.failed)
    <2>1. CASE record'.resume.checkpoint \in {NoCheckpoint, record.resume.checkpoint}
      BY <2>1, NothingBacked DEF EvidenceInv
    <2>2. CASE /\ record.settlement # NoSettlement
               /\ SameEvidence(record'.resume.checkpoint, record.checkpoint)
      <3>1. Backed(record.checkpoint, kept.passed, kept.failed)
        BY <2>2 DEF EvidenceInv
      <3> QED BY <2>2, <3>1, SameBacked
    <2> QED BY <2>1, <2>2, RestartStep
  <1>5. Accepted(record') => IsQualified(record'.checkpoint)
    BY RestartStep
  <1> QED BY <1>1, <1>2, <1>3, <1>4, <1>5 DEF EvidenceInv, Accepted

LEMMA RetryEvidence ==
    ASSUME RunInv, EvidenceInv, Retry
    PROVE  EvidenceInv'
  <1>1. UNCHANGED <<workspace, passed, failed, kept>> /\ run.pc = "Off"
    BY DEF Retry, Retryable, history
  <1>2. passed = kept.passed /\ failed = kept.failed
    BY <1>1 DEF EvidenceInv
  <1>3. PICK prior : prior = NewRecorder(record.resume.checkpoint)
    OBVIOUS
  <1>4. RecordedAs(recorder', prior, workspace, conversation, Nothing)
    BY <1>3, RetryStep
  <1>5. prior.checkpoint = record.resume.checkpoint
    BY <1>3, NewRecorderSound DEF RunInv, RecordSound
  <1>6. Backed(prior.checkpoint, passed, failed)
    BY <1>2, <1>5 DEF EvidenceInv
  <1>7. Backed(recorder'.checkpoint, passed, failed)
    BY <1>4, <1>6, NothingKind, InheritedBacked
  <1>8. /\ run'.pc \in {"Turn", "Loop"}
        /\ run'.pc = "Loop" => run'.diff = workspace.content
        /\ record'.settlement = NoSettlement /\ record'.resume = record.resume
    BY RetryStep
  <1>9. ~Accepted(record')
    BY <1>8 DEF Accepted, NoSettlement
  <1> QED BY <1>1, <1>7, <1>8, <1>9 DEF EvidenceInv, Accepted

LEMMA DaemonEvidence ==
    ASSUME RunInv, EvidenceInv, RetryFails \/ CancelWaiting \/ Commit, scope' = scope
    PROVE  EvidenceInv'
  <1>1. UNCHANGED <<recorder, run, passed, failed, kept>> /\ run.pc = "Off"
    BY DEF RetryFails, CancelWaiting, Commit, Retryable, history
  <1>2. SUFFICES /\ Backed(record'.resume.checkpoint, kept.passed, kept.failed)
                 /\ record'.settlement # NoSettlement =>
                       Backed(record'.checkpoint, kept.passed, kept.failed)
                 /\ Accepted(record') => IsQualified(record'.checkpoint)
    BY <1>1 DEF EvidenceInv, Accepted
  <1>3. CASE RetryFails
    <2>1. /\ record'.resume = record.resume
          /\ \/ /\ record'.checkpoint = record.resume.checkpoint
                /\ record'.settlement = Decide(record.resume.checkpoint, "Provider")
             \/ record'.settlement = NoSettlement
      BY <1>3, RetryFailsStep
    <2>2. "Provider" \in Causes \union {"None"}
      BY DEF Causes
    <2>3. Accepted(record') => IsQualified(record'.checkpoint)
      BY <2>1, <2>2, DecideFacts DEF Accepted, NoSettlement
    <2> QED BY <2>1, <2>3 DEF EvidenceInv
  <1>4. CASE CancelWaiting
    <2>1. record \in Records
      BY DEF RunInv, RecordSound
    <2>2. /\ record'.checkpoint = record.checkpoint /\ record'.resume = record.resume
          /\ record'.settlement = record.settlement
      BY <1>4, <2>1 DEF CancelWaiting, Records
    <2> QED BY <2>2 DEF EvidenceInv, Accepted
  <1>5. CASE Commit
    <2>1. /\ record.settlement # NoSettlement
          /\ \/ record'.checkpoint = record.checkpoint /\ record'.settlement = record.settlement
             \/ /\ SameEvidence(record'.checkpoint, record.checkpoint)
                /\ record'.settlement = Decide(record'.checkpoint, record.settlement.cause)
          /\ record'.resume.checkpoint \in {NoCheckpoint, record.resume.checkpoint}
      BY <1>5, CommitStep
    <2>2. Backed(record.checkpoint, kept.passed, kept.failed)
      BY <2>1 DEF EvidenceInv
    <2>3. Backed(record'.checkpoint, kept.passed, kept.failed)
      BY <2>1, <2>2, SameBacked
    <2>4. Backed(record'.resume.checkpoint, kept.passed, kept.failed)
      BY <2>1, NothingBacked DEF EvidenceInv
    <2>5. record.settlement.cause \in Causes \union {"None"}
      BY DEF RunInv, RecordSound, Records, Settlements
    <2>6. Accepted(record') => IsQualified(record'.checkpoint)
      <3>1. CASE record'.checkpoint = record.checkpoint /\ record'.settlement = record.settlement
        BY <3>1 DEF EvidenceInv, Accepted
      <3>2. CASE record'.settlement = Decide(record'.checkpoint, record.settlement.cause)
        BY <2>5, <3>2, DecideFacts DEF Accepted
      <3> QED BY <2>1, <3>1, <3>2
    <2> QED BY <2>3, <2>4, <2>6
  <1> QED BY <1>3, <1>4, <1>5

LEMMA EvidenceStep ==
    ASSUME RunInv, EvidenceInv, EditsOutsideChecks, Next
    PROVE  EvidenceInv'
  <1>1. Step /\ scope' = scope
    BY DEF Next
  <1>2. CASE \/ EditWorkspace \/ UserMessage
             \/ ToolChange \/ ToolEffect \/ Incorporate \/ EndTurn
    BY <1>1, <1>2, AroundEvidence, TurnEvidence
  <1>3. CASE \/ LoopFinalizing \/ FollowUp \/ BeginInvestigation \/ EndInvestigation
             \/ BeginGates \/ BeginFix
             \/ \E cause \in scope.interruptions : Interrupt(cause)
    BY <1>3, LoopEvidence
  <1>4. CASE \/ (\E ok \in BOOLEAN : EndGates(ok)) \/ Qualify
             \/ BeginReview \/ (\E ok \in BOOLEAN : EndReview(ok))
    BY <1>4, GatesEvidence, ReviewEvidence, EndReviewEvidence
  <1>5. CASE Publish \/ Finalize \/ FinishError \/ Crash
    BY <1>5, PublishEvidence, FinalizeEvidence, StopEvidence
  <1>6. CASE Retry \/ Restart \/ RetryFails \/ CancelWaiting \/ Commit
    BY <1>1, <1>6, RetryEvidence, RestartEvidence, DaemonEvidence
  <1> QED BY <1>1, <1>2, <1>3, <1>4, <1>5, <1>6 DEF Step

LEMMA EvidenceInit ==
    ASSUME Init
    PROVE  EvidenceInv
  <1>1. RunInv
    BY RunInvInit
  <1>2. /\ recorder = NewRecorder(NoCheckpoint) /\ record = NewRecord
        /\ run = [Idle("Turn", 1) EXCEPT !.next = "Writing", !.ledger = 1]
    BY DEF Init
  <1>3. Backed(recorder.checkpoint, passed, failed)
    BY <1>1, <1>2, EmptyChecks, NothingBacked
  <1>4. /\ record.settlement = NoSettlement
        /\ Backed(record.resume.checkpoint, kept.passed, kept.failed)
    BY <1>2, NewRecordSound, NoResumeOK, NothingBacked
  <1>5. ~Accepted(record)
    BY <1>4 DEF Accepted, NoSettlement
  <1>6. run.pc = "Turn"
    BY <1>2 DEF Idle
  <1> QED BY <1>3, <1>4, <1>5, <1>6 DEF EvidenceInv

\* What the evidence of an accepted candidate says about it.
LEMMA AcceptedVouched ==
    ASSUME RunInv, EvidenceInv, Accepted(record)
    PROVE  LET i == record.checkpoint.identity IN
           /\ Vouched("gates", i, i.execution, passed, failed)
           /\ Vouched("review", i, NoContext, passed, failed)
  <1>1. record.settlement # NoSettlement
    BY DEF Accepted, NoSettlement
  <1>2. passed = kept.passed /\ failed = kept.failed
    BY <1>1 DEF RunInv, EvidenceInv
  <1>3. Backed(record.checkpoint, passed, failed) /\ IsQualified(record.checkpoint)
    BY <1>1, <1>2 DEF EvidenceInv
  <1> DEFINE c == record.checkpoint
  <1>4. /\ Satisfied("gates", c["gates"], c.identity) /\ Satisfied("review", c["review"], c.identity)
    BY <1>3 DEF IsQualified, Kinds
  <1>5. /\ c.gates.ok /\ BindingMatches("gates", c.gates.from, c.identity)
        /\ c.review.ok /\ BindingMatches("review", c.review.from, c.identity)
    BY <1>4 DEF Satisfied, IsCurrentFor
  <1>6. /\ c.gates.from.content = c.identity.content
        /\ c.gates.from.requirements = c.identity.requirements
        /\ c.gates.from.execution = c.identity.execution
        /\ c.review.from.content = c.identity.content
        /\ c.review.from.requirements = c.identity.requirements
    BY <1>5 DEF BindingMatches, SameContentAndRequirements
  <1>7. /\ Vouched("gates", c.gates.from, c.gates.from.execution, passed, failed)
        /\ Vouched("review", c.review.from, NoContext, passed, failed)
    BY <1>3, <1>5 DEF Backed
  <1> QED BY <1>6, <1>7 DEF Vouched

LEMMA RunInvTypes ==
    ASSUME RunInv
    PROVE  TypeOK
  <1>1. /\ Sound(recorder.checkpoint) /\ Sound(record.checkpoint)
        /\ Sound(record.resume.checkpoint)
    BY DEF RunInv, RecorderSound, RecordSound
  <1>2. \A c \in {recorder.checkpoint, record.checkpoint, record.resume.checkpoint} :
          c # NoCheckpoint => c.stage \in Stages /\ Admissible(NoCheckpoint, c)
    BY <1>1, SoundAdmissible DEF Sound
  <1>3. recorder.sequence \in 0..MaxSequence
    BY ScopeFacts DEF RunInv, RecorderSound, Recorders
  <1>4. /\ record.phase \in Terminal \union {"Running", "Lost"}
        /\ record.deliverable \in {"none", "open", "committed"}
    BY DEF RunInv, RecordSound, Records
  <1>5. run.pc \in Places
    BY DEF RunInv, AttemptOK, Runs
  <1> QED BY <1>2, <1>3, <1>4, <1>5 DEF TypeOK, RunInv, WorkspaceOK, AttemptOK

\* As long as nobody edits the source while it is being checked, a run is accepted
\* only for source, requirements and host context on which the gates passed and
\* source and requirements that a review passed, and neither of them has failed
\* on it since in an attempt whose result the daemon kept: record() and
\* reconcile_for attribute evidence to the candidate it was produced from through
\* refreshes, retries, restarts and commits.
THEOREM CandidateIsTruthful ==
    ASSUME EditsOutsideChecks
    PROVE  Spec => []CandidateTruth
  <1>1. Init => RunInv /\ EvidenceInv
    BY RunInvInit, EvidenceInit
  <1>2. RunInv /\ EvidenceInv /\ [Next]_vars => (RunInv /\ EvidenceInv)'
    <2>1. ASSUME RunInv, EvidenceInv, Next
          PROVE  (RunInv /\ EvidenceInv)'
      BY <2>1, RunInvStep, EvidenceStep
    <2>2. ASSUME RunInv, EvidenceInv, UNCHANGED vars
          PROVE  (RunInv /\ EvidenceInv)'
      BY <2>2, RunInvStutter DEF EvidenceInv, vars, Accepted
    <2> QED BY <2>1, <2>2
  <1>3. RunInv /\ EvidenceInv => CandidateTruth
    <2> SUFFICES ASSUME RunInv, EvidenceInv
                 PROVE  CandidateTruth
      OBVIOUS
    <2>1. AcceptedTruth /\ NegativeRevokes
      BY AcceptedVouched DEF AcceptedTruth, NegativeRevokes, Vouched
    <2> QED BY <2>1, RunInvTypes DEF CandidateTruth
  <1> QED BY <1>1, <1>2, <1>3, PTL DEF Spec
=============================================================================
