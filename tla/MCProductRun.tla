---------------------------- MODULE MCProductRun ----------------------------
(***************************************************************************)
(* The scopes TLC explores.  A source content is distinguished from the    *)
(* others only by equality; 0 is the baseline.                             *)
(***************************************************************************)
EXTENDS ProductRun

\* Crashes, restarts, commits and questions to the user.
Restarts ==
    [contents |-> {0, 1}, head |-> 1, context |-> 2, revision |-> 1, sequence |-> 9,
     crash |-> 1, retry |-> 2, edit |-> 1, tool |-> 2, effects |-> FALSE,
     investigation |-> FALSE, faults |-> FALSE, interruptions |-> {"Provider", "UserWait"},
     editedAt |-> {"Final", "Off", "Down"}, toolStages |-> {"Changed"}]

\* Three contents, so that a candidate can be replaced and come back.
Replacements ==
    [Restarts EXCEPT !.contents = {0, 1, 2}, !.head = 0, !.context = 1, !.sequence = 11,
                     !.tool = 1, !.interruptions = {"Provider"}]

\* Messages at any moment, and investigations that end without a patch.
Messages ==
    [Restarts EXCEPT !.head = 0, !.context = 1, !.revision = 2, !.sequence = 11,
                     !.crash = 0, !.investigation = TRUE, !.interruptions = {"Provider"},
                     !.editedAt = {"Investigate", "Exit", "Final", "Off"}]

\* A message, then a retry, then a crash: a settled candidate is continued for
\* another request in another process.
Continuations ==
    [Restarts EXCEPT !.revision = 2, !.head = 0, !.context = 1, !.tool = 1,
                     !.interruptions = {"Provider"}, !.editedAt = {"Off", "Down"}]

\* External effects, without crashes.
ExternalEffects ==
    [Replacements EXCEPT !.crash = 0, !.retry = 1, !.tool = 2,
                         !.effects = TRUE, !.editedAt = {"Final", "Off"},
                         !.toolStages = {"Changed", "SelfChecked"}]

\* A retry that ends on a fatal error, and a retry after it.
Errors ==
    [Restarts EXCEPT !.head = 0, !.context = 1, !.sequence = 14, !.crash = 0, !.edit = 2,
                     !.tool = 3, !.interruptions = {"Provider"}, !.editedAt = {"Off", "Final"}]

\* Workspaces that cannot be observed or validated, and candidates that are
\* settled but not handed over.
Faults ==
    [Restarts EXCEPT !.context = 1, !.investigation = TRUE, !.faults = TRUE,
                     !.tool = 1, !.interruptions = {"Provider"}, !.editedAt = {"Final", "Off", "Down"}]

MCScopes ==
    {Restarts, Replacements, Messages, Continuations, ExternalEffects, Errors, Faults}
=============================================================================
