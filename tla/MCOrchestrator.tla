-------------------------- MODULE MCOrchestrator --------------------------
(* A small instance of the orchestrator.                                   *)
EXTENDS Orchestrator

\* Two revisions of one candidate, directives for two lifecycles and one
\* pause, observations enough for all of it.
TwoRevisions ==
    [c \in Counter |->
        CASE c = "Revisions" -> 2
          [] c \in {"WriterCycles", "FixerCycles"} -> 1
          [] c \in {"GateCycles", "ReviewCycles"} -> 2
          [] c = "Handoffs" -> 4
          [] c = "ChildDirectives" -> 16
          [] c = "RetainedObservations" -> 18
          [] OTHER -> 6]
===========================================================================
