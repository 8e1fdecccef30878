---------------------------- MODULE MCOtaUpdate ----------------------------
(***************************************************************************)
(* Small instances of OtaUpdate; its constants are plain numbers.          *)
(***************************************************************************)
EXTENDS OtaUpdate

=============================================================================
