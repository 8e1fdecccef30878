---------------------------- MODULE AtomicConfig ----------------------------
(***************************************************************************)
(* What provisioning promises (docs/POWERSHELL_PROVISIONING.md:29 "Only    *)
(* after all stages pass does it atomically select that slot"): the device *)
(* has one current configuration, and only a configuration that passed     *)
(* every test may replace it, in one step.                                 *)
(***************************************************************************)
CONSTANTS Configs, NoConfig

VARIABLES current,   \* the configuration a boot would load, or NoConfig
          vetted     \* the configurations that passed every test

Init == current = NoConfig /\ vetted = {}

Vet == /\ \E c \in Configs : vetted' = vetted \cup {c}
       /\ UNCHANGED current

Switch == /\ current' \in vetted
          /\ UNCHANGED vetted

Next == Vet \/ Switch

Spec == Init /\ [][Next]_<<current, vetted>>

=============================================================================
