------------------------ MODULE MCTelemetryDelivery ------------------------
(***************************************************************************)
(* Small instances of TelemetryDelivery.  One tick is a second.  The delay *)
(* of the third failure reaches the cap, where the jitter matters, and two *)
(* cadences let the server change it in the middle of a lag.               *)
(***************************************************************************)
EXTENDS TelemetryDelivery

TwoPeriods == {2, 3}

=============================================================================
