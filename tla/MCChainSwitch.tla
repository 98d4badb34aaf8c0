--------------------------- MODULE MCChainSwitch ---------------------------
(***************************************************************************)
(* Small instances of ChainSwitch: one noise suppression that gives each   *)
(* block at once, and one that holds back two.                             *)
(***************************************************************************)
EXTENDS ChainSwitch

MCDelay == [selection \in Selections |-> IF selection = "model" THEN 2 ELSE 0]
=============================================================================
