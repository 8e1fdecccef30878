------------------------- MODULE MCDestructiveReset -------------------------
(***************************************************************************)
(* A small instance of DestructiveReset: two commits, and a server whose   *)
(* floor may lie above or below the numbers drawn meanwhile.               *)
(***************************************************************************)
EXTENDS DestructiveReset
=============================================================================
