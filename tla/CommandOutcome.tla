---------------------------- MODULE CommandOutcome ----------------------------
(***************************************************************************)
(* What command submission promises a client: every submitted command gets  *)
(* at most one outcome, the outcome never changes, and whatever the client  *)
(* is told, however often it asks, is that outcome ("exactly one command    *)
(* effect and the retained A3 result", .design/g0-daemon.md:293-294).       *)
(***************************************************************************)

CONSTANT Request

VARIABLES
  outcome,   \* outcome[r]: what became of r
  told       \* told[r]: the final answers given to submitters of r

Outcome == {"Open", "Applied", "Refused"}

Init ==
  /\ outcome = [r \in Request |-> "Open"]
  /\ told = [r \in Request |-> {}]

Answered(r) == [told EXCEPT ![r] = @ \cup {outcome'[r]}]

\* An open command is applied or refused, and its submitter is told now or later.
Decide(r) ==
  /\ outcome[r] = "Open"
  /\ \E o \in {"Applied", "Refused"} : outcome' = [outcome EXCEPT ![r] = o]
  /\ told' \in {told, Answered(r)}

Answer(r) ==
  /\ outcome[r] # "Open"
  /\ outcome' = outcome
  /\ told' = Answered(r)

Next == \E r \in Request : Decide(r) \/ Answer(r)

Spec == Init /\ [][Next]_<<outcome, told>>
=============================================================================
