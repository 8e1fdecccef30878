------------------------- MODULE MCBacklogDelivery -------------------------
(***************************************************************************)
(* Small instances of BacklogDelivery: segments of two records, a card     *)
(* that reclaims from two on, request bodies with room for two.            *)
(***************************************************************************)
EXTENDS BacklogDelivery

\* Bound: a behaviour has at most two mishaps, of one kind or of two.
TwoMishaps == faults + crashes + overlaps + timeouts <= 2
=============================================================================
