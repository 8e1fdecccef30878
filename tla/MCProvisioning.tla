--------------------------- MODULE MCProvisioning ---------------------------
(***************************************************************************)
(* Small instances of Provisioning: two settings, so that a candidate can  *)
(* differ from what is selected, and few transaction ids, so that the      *)
(* counter wraps.                                                          *)
(***************************************************************************)
EXTENDS Provisioning

TwoSettings == {"home", "office"}

=============================================================================
