------------------------- MODULE MCCollaboration -------------------------
(* A small instance of the collaboration aggregate.                        *)
EXTENDS Collaboration, TLC

CONSTANTS Root0, T1, T2, A1, A2, M1, M2, W0, W1, W2

\* Children, works and messages are interchangeable; owners are too.
InterchangeableIdentities ==
    Permutations(Tasks \ {Root}) \cup Permutations(Works)
        \cup Permutations(Messages) \cup Permutations(Actors)

\* With CommandBytes = 0 nothing the aggregate does depends on the event
\* sequence, so states that differ only in it are one state.
WithoutSequence ==
    <<phase, assignment, taskPhase, reserved, outcome, handoff, message,
      acknowledged, terminal>>
==========================================================================
