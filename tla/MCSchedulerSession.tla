-------------------------- MODULE MCSchedulerSession --------------------------
(***************************************************************************)
(* Two aggregates and three commands.  Four generations are enough: three   *)
(* can be alive at once.  Addresses are interchangeable.                    *)
(***************************************************************************)
EXTENDS SchedulerSession, TLC

CONSTANTS g1, g2, g3, g4, r1, r2, a, b, c

MCToken == {g1, g2, g3, g4}
MCRun == {r1, r2}
MCCommandId == {a, b, c}
MCSymmetry == Permutations(MCToken) \cup Permutations(MCRun) \cup Permutations(MCCommandId)
=============================================================================
