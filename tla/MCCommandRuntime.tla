-------------------------- MODULE MCCommandRuntime --------------------------
(***************************************************************************)
(* Small instances of CommandRuntime.  The envelopes cover each kind of    *)
(* handling: a reboot, a probe that may be requeued after a reset, an OTA  *)
(* installation, and a probe that reuses the reboot's idempotency key.       *)
(***************************************************************************)
EXTENDS CommandRuntime

Envelope(id, key, type) == [id |-> id, key |-> key, type |-> type]

RebootCmd == Envelope("r", "kr", "reboot")
ProbeCmd == Envelope("p", "kp", "meter_self_test")
ReusedKeyCmd == Envelope("p", "kr", "meter_self_test")
OtaCmd == Envelope("o", "ko", "ota_install")
SecondOtaCmd == Envelope("o2", "ko2", "ota_install")
ThirdOtaCmd == Envelope("o3", "ko3", "ota_install")

MixedCommands == {RebootCmd, ReusedKeyCmd, OtaCmd}
ThreeCommands == {RebootCmd, ProbeCmd, OtaCmd}
OtaTrio == {OtaCmd, SecondOtaCmd, ThirdOtaCmd}

=============================================================================
