--------------------------- MODULE MCCommandLedger ---------------------------
(***************************************************************************)
(* Three requests: b reuses the key of a with other content, c reuses the   *)
(* command identity of a under a key of its own.                            *)
(***************************************************************************)
EXTENDS CommandLedger

MCRequest == {"a", "b", "c"}
MCKeyOf == [r \in MCRequest |-> IF r = "c" THEN "k2" ELSE "k1"]
MCCommandOf == [r \in MCRequest |-> IF r = "b" THEN "c2" ELSE "c1"]
=============================================================================
