----------------------------- MODULE MCScheduler -----------------------------
(***************************************************************************)
(* An instance of the scheduler with three work items and two workers: a    *)
(* retry-safe root, a dependent child that must not be retried after a      *)
(* loss, and an independent item that competes with the root for capacity.  *)
(***************************************************************************)
EXTENDS Scheduler, TLC

CONSTANTS d1, d2, d3

MCDispatchId == {d1, d2, d3}
MCWorkId == 1..3
MCWorkerId == 1..2
MCResourceKind == {"cpu"}
MCActor == {"owner"}
MCExecutionClass == {"model", "tool"}

MCWorkSpec ==
  [w \in MCWorkId |->
     [owner |-> "owner",
      class |-> IF w = 3 THEN "tool" ELSE "model",
      revision |-> 0,
      priority |-> IF w = 3 THEN 1 ELSE 0,
      request |-> [x \in MCResourceKind |-> IF w = 3 THEN 2 ELSE 1],
      dependencies |-> IF w = 2 THEN {1} ELSE {},
      parent |-> IF w = 2 THEN {1} ELSE {},
      maximumAttempts |-> IF w = 2 THEN 1 ELSE 2,
      recovery |-> CASE w = 1 -> "RetrySafe" [] w = 2 -> "Ambiguous" [] w = 3 -> "Fail"]]

MCDescriptor ==
  [k \in MCWorkerId |->
     [owner |-> "owner",
      classes |-> IF k = 1 THEN {"model", "tool"} ELSE {"model"},
      capacity |-> [x \in MCResourceKind |-> IF k = 1 THEN 2 ELSE 1],
      concurrency |-> IF k = 1 THEN 2 ELSE 1]]

MCCapacity == [x \in MCResourceKind |-> 2]

Symmetry == Permutations(MCDispatchId)
=============================================================================
