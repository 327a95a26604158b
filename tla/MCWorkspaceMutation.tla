------------------------- MODULE MCWorkspaceMutation -------------------------
(***************************************************************************)
(* An instance of WorkspaceMutation: a plan that creates a file in a new     *)
(* directory, replaces one and deletes one.                                *)
(***************************************************************************)
EXTENDS WorkspaceMutation

CONSTANT a1

MCKind == <<"Create", "Replace", "Delete">>
MCHome == <<2, 0, 0>>
MCOuter == <<0, 1>>
=============================================================================
