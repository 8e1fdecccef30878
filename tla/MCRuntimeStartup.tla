-------------------------- MODULE MCRuntimeStartup --------------------------
(***************************************************************************)
(* A small instance of RuntimeStartup.  The clock may be set back by the   *)
(* step that is tolerated and by one that is not, and forward.             *)
(***************************************************************************)
EXTENDS RuntimeStartup

MCErrors == {-2, 0, 1}
=============================================================================
