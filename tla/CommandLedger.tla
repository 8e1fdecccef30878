--------------------------- MODULE CommandLedger ---------------------------
(***************************************************************************)
(* The bounded command ledger of components/pm_commands/pm_commands.c: a   *)
(* fixed array of command entries in RAM, mirrored into two NVS slots that *)
(* are written alternately, the parity of the generation number selecting  *)
(* the slot.  Each operation is an action on <<ledger, nvs, failures>>     *)
(* that a composing module performs while it owns the command lock.        *)
(*                                                                         *)
(* A payload is abstracted to its digest, an identifier to a model value;  *)
(* CRC-protected slot contents to "missing", "invalid" or the ledger       *)
(* written there.                                                          *)
(***************************************************************************)
EXTENDS Naturals, FiniteSets

CONSTANTS LedgerSize,     \* PM_COMMAND_LEDGER_SIZE
          Commands,       \* the command envelopes the server may deliver
          NoCommand,      \* the content of an empty entry (command_id[0] = 0)
          MaxGeneration,  \* stands for UINT32_MAX, where persist refuses
          MaxFailures     \* bound on the NVS failures of a behaviour

CommandTypes == {"reboot", "diagnostics_snapshot", "network_self_test",
                 "meter_self_test", "ota_install"}

ASSUME LedgerSizeAssumption == LedgerSize \in Nat \ {0}

ASSUME GenerationAssumption == MaxGeneration \in Nat \ {0}

ASSUME FailuresAssumption == MaxFailures \in Nat

ASSUME CommandAssumption ==
    /\ \A c \in Commands : c.type \in CommandTypes
    /\ NoCommand \notin Commands

VARIABLES ledger,    \* s_commands: [entries, next, generation]
          nvs,       \* the NVS namespace "pm_commands": slot_a and slot_b
          failures   \* how many NVS writes have failed so far (bounded)

ledgerVars == <<ledger, nvs, failures>>

-----------------------------------------------------------------------------
\* The states the active image writes (pm_command_state_t).
CommandStates == {"empty", "accepted", "running", "succeeded", "failed",
                  "expired", "awaiting_reboot", "rolled_back"}

\* command_terminal(): states that a later boot or task never leaves.
Terminal == {"succeeded", "failed", "expired", "rolled_back"}

\* command_result_state(): the states a telemetry request reports.
Reportable == CommandStates \ {"empty", "expired"}

Slots == 1 .. LedgerSize

Entry == [cmd : Commands \cup {NoCommand}, state : CommandStates,
          progress : 0 .. 100]

EmptyEntry == [cmd |-> NoCommand, state |-> "empty", progress |-> 0]

Ledger == [entries : [Slots -> Entry], next : Slots,
           generation : 0 .. MaxGeneration]

\* secure_zero_memory(ledger, sizeof(*ledger)).
ZeroLedger == [entries |-> [i \in Slots |-> EmptyEntry], next |-> 1,
               generation |-> 0]

Missing == [status |-> "missing"]
Invalid == [status |-> "invalid"]
Valid(l) == [status |-> "valid", ledger |-> l]

SlotContent == {Missing, Invalid} \cup [status : {"valid"}, ledger : Ledger]

Keys == {"slot_a", "slot_b"}

-----------------------------------------------------------------------------
(***************************************************************************)
(* persist(): the NVS key written by a generation, and the three ways a    *)
(* write that reports an error may leave the slot (untouched, unreadable,  *)
(* or already holding the new ledger).                                     *)
(***************************************************************************)
\* Fault of SlotKey: every generation goes to the same slot.
SlotKeySame(g) == "slot_a"

SlotKey(g) == IF g % 2 = 1 THEN "slot_a" ELSE "slot_b"

Numbered(l) == [l EXCEPT !.generation = @ + 1]

\* persist(new) returns ESP_OK.
Saved(new) ==
    /\ new.generation < MaxGeneration
    /\ ledger' = Numbered(new)
    /\ nvs' = [nvs EXCEPT ![SlotKey(new.generation + 1)] = Valid(Numbered(new))]
    /\ UNCHANGED failures

\* persist(new) returns an error and the caller restores what it had changed,
\* the generation included.
NotSaved(new) ==
    /\ \/ /\ new.generation = MaxGeneration
          /\ UNCHANGED <<nvs, failures>>
       \/ /\ new.generation < MaxGeneration
          /\ failures < MaxFailures
          /\ failures' = failures + 1
          /\ \E left \in {nvs[SlotKey(new.generation + 1)], Invalid,
                          Valid(Numbered(new))} :
                nvs' = [nvs EXCEPT ![SlotKey(new.generation + 1)] = left]
    /\ UNCHANGED ledger

-----------------------------------------------------------------------------
(***************************************************************************)
(* commands_load_locked(): which slot a boot reads.                        *)
(***************************************************************************)
IsValid(k) == nvs[k].status = "valid"

NeverWritten == \A k \in Keys : nvs[k].status = "missing"

\* The loader finds a slot it accepts.
Loadable ==
    /\ \E k \in Keys : IsValid(k)
    /\ ~ /\ \A k \in Keys : IsValid(k)
         /\ nvs["slot_a"].ledger.generation = nvs["slot_b"].ledger.generation
         /\ nvs["slot_a"].ledger # nvs["slot_b"].ledger

SelectedKey ==
    IF /\ IsValid("slot_a")
       /\ \/ ~ IsValid("slot_b")
          \/ nvs["slot_a"].ledger.generation >= nvs["slot_b"].ledger.generation
    THEN "slot_a" ELSE "slot_b"

\* Both slots read back: the newest valid one becomes the RAM ledger.
LoadNewest ==
    /\ ~NeverWritten
    /\ Loadable
    /\ ledger' = nvs[SelectedKey].ledger
    /\ UNCHANGED <<nvs, failures>>

\* Neither slot was ever written: a zeroed ledger is persisted first.
LoadFresh ==
    /\ NeverWritten
    /\ Saved(ZeroLedger)

\* pm_commands_load() fails: app_main logs "failed closed" and returns.
LoadFails ==
    \/ NeverWritten /\ NotSaved(ZeroLedger)
    \/ ~NeverWritten /\ ~Loadable /\ UNCHANGED ledgerVars

-----------------------------------------------------------------------------
(***************************************************************************)
(* command_accept_locked().                                                *)
(***************************************************************************)
\* Fault of Matches: the idempotency key is not compared.
MatchesIdOnly(c) ==
    {i \in Slots : /\ ledger.entries[i].cmd # NoCommand
                   /\ ledger.entries[i].cmd.id = c.id}

\* The entries that carry the incoming command's id or idempotency key.
Matches(c) ==
    {i \in Slots : /\ ledger.entries[i].cmd # NoCommand
                   /\ \/ ledger.entries[i].cmd.id = c.id
                      \/ ledger.entries[i].cmd.key = c.key}

\* A match is a duplicate only if type and payload digest agree with the first
\* matching entry; otherwise the call returns ESP_ERR_INVALID_CRC.  Both ways
\* the ledger is left alone and no callback runs.
AlreadyKnown(c) == Matches(c) # {}

\* Fault of Reusable: a command that has not started yet may be evicted.
ReusableUnlessStarted(i) ==
    \/ ledger.entries[i].cmd = NoCommand
    \/ ledger.entries[i].state \in Terminal \cup {"accepted"}

Reusable(i) == \/ ledger.entries[i].cmd = NoCommand
               \/ ledger.entries[i].state \in Terminal

\* The search visits the entries from ledger->next on, wrapping around.
Successor(i) == (i % LedgerSize) + 1
Distance(i) == (i + LedgerSize - ledger.next) % LedgerSize

\* The entry a new command takes: the first reusable one of the search.
IsVictim(i) ==
    /\ Reusable(i)
    /\ \A j \in Slots : Reusable(j) => Distance(i) <= Distance(j)

NoRoom == \A i \in Slots : ~Reusable(i)

\* Fault of WithCommand: the search position does not wrap around.
WithCommandNoWrap(i, c, late) ==
    [entries |-> [ledger.entries EXCEPT ![i] =
                    [cmd |-> c, progress |-> 0,
                     state |-> IF late THEN "expired" ELSE "accepted"]],
     next |-> i + 1, generation |-> ledger.generation]

\* The ledger with the new command in entry i; late says that
\* now_utc_ms > expires_utc_ms.
WithCommand(i, c, late) ==
    [entries |-> [ledger.entries EXCEPT ![i] =
                    [cmd |-> c, progress |-> 0,
                     state |-> IF late THEN "expired" ELSE "accepted"]],
     next |-> Successor(i), generation |-> ledger.generation]

-----------------------------------------------------------------------------
(***************************************************************************)
(* command_transition_locked(): progress never decreases and a terminal    *)
(* state is never left.                                                    *)
(***************************************************************************)
MayTransition(i, state, progress) ==
    /\ progress >= ledger.entries[i].progress
    /\ \/ ledger.entries[i].state \notin Terminal
       \/ ledger.entries[i].state = state

WithState(i, state, progress) ==
    [ledger EXCEPT !.entries[i] = [cmd |-> ledger.entries[i].cmd,
                                   state |-> state, progress |-> progress]]

\* pm_command_transition() returns ESP_OK.
Transitioned(i, state, progress) ==
    /\ MayTransition(i, state, progress)
    /\ Saved(WithState(i, state, progress))

\* pm_command_transition() returns an error.
NotTransitioned(i, state, progress) ==
    \/ /\ MayTransition(i, state, progress)
       /\ NotSaved(WithState(i, state, progress))
    \/ /\ ~MayTransition(i, state, progress)
       /\ UNCHANGED ledgerVars

\* pm_command_acknowledge_result(): the active image never sets
\* result_ack_required, so the function returns before it writes anything.
Acknowledged == UNCHANGED ledgerVars

-----------------------------------------------------------------------------
(***************************************************************************)
(* pm_command_boot_action(): what a boot does with an entry it finds.      *)
(***************************************************************************)
\* Faults of BootAction: a settled entry is taken for an interrupted one, a reboot
\* that happened is executed again, an interrupted installation is overlooked.
BootActionForgetsTerminal(e) ==
    IF e.state = "empty" THEN "ignore" ELSE "fail_interrupted"
BootActionReboots(e) ==
    IF e.state \in Terminal \cup {"empty"} THEN "ignore" ELSE "requeue"
BootActionSkipsOta(e) ==
    CASE e.state \in Terminal \cup {"empty"} -> "ignore"
      [] e.cmd.type = "ota_install" -> "ignore"
      [] OTHER -> "fail_interrupted"

BootAction(e) ==
    CASE e.state = "running" /\ e.cmd.type = "ota_install" -> "reconcile_ota"
      [] e.state \in {"accepted", "running"} /\ e.cmd.type \in
            {"diagnostics_snapshot", "network_self_test", "meter_self_test"}
            -> "requeue"
      [] e.state = "awaiting_reboot" /\ e.cmd.type = "reboot"
            -> "complete_reboot"
      [] e.state = "awaiting_reboot" /\ e.cmd.type = "ota_install"
            -> "reconcile_ota"
      [] e.state \in Terminal \cup {"empty"} -> "ignore"
      [] OTHER -> "fail_interrupted"

\* command_reconcile_boot_locked(): SUCCEEDED means 100 percent, the other
\* outcomes keep the progress reached.
Reconciled(i, state) ==
    WithState(i, state,
              IF state = "succeeded" THEN 100 ELSE ledger.entries[i].progress)

=============================================================================
