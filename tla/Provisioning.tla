---------------------------- MODULE Provisioning ----------------------------
(***************************************************************************)
(* Configuration of the device over USB: the two-slot store of             *)
(* components/pm_config/pm_config.c, the session of                        *)
(* components/pm_provisioning/pm_provisioning.c, the enrollment stage of   *)
(* components/pm_network/pm_network_v2.c, and the part of app_main() that  *)
(* loads the configuration and the identity.                               *)
(*                                                                         *)
(* In a maintenance boot only the USB task runs, and it handles one line   *)
(* at a time.  s_mutation_in_progress is therefore never seen set by       *)
(* another caller, and one line is one step: a reset in the middle of a    *)
(* line leaves the store as one of the failing outcomes of that line does. *)
(* A configuration is abstracted to its generation, its settings and the   *)
(* credential (device id and secret) it carries.                           *)
(***************************************************************************)
EXTENDS Naturals, FiniteSets

CONSTANTS Settings,        \* settings an operator may send
          NoConfig,        \* content of a slot that holds nothing that validates
          MaxGeneration,   \* stands for UINT32_MAX: no further generation
          LastTransaction, \* stands for UINT32_MAX: transaction ids wrap here
          MaxCredentials,  \* bound on the device's identities
          MaxFailures,     \* bound on failing NVS writes
          MaxResets        \* bound on unplanned resets

ASSUME ProvisioningAssumption ==
    /\ MaxGeneration \in Nat \ {0} /\ LastTransaction \in Nat \ {0}
    /\ MaxCredentials \in Nat \ {0} /\ MaxFailures \in Nat /\ MaxResets \in Nat

\* Credential 1 is the identity created on first boot, the others are those that
\* enrollments grant.
Credentials == 1 .. MaxCredentials

Configs == [generation : 1 .. MaxGeneration, settings : Settings,
            credential : Credentials]

ASSUME NoConfigAssumption == NoConfig \notin Configs

Slots == {"A", "B"}

VARIABLES slots,     \* NVS "pm_config": slot_a and slot_b
          selector,  \* NVS "pm_config": active
          identity,  \* NVS "pm_identity": the device's credential; 0 before the first boot
          owner,     \* s_active_transaction_id (0: none)
          nextTxn,   \* s_next_transaction_id
          txn,       \* session->transaction
          active,    \* session->active; NoConfig before the first provisioning
          candidate, \* session->candidate, NoConfig unless candidate_present
          passed,    \* session->tests_passed
          token,     \* session->factory_token
          reboot,    \* session->reboot_requested
          phase,     \* "off", "halted", "maintenance" or "running"
          issued,    \* the last credential that came into use
          vetted,    \* configurations that test_config answered "verified" for
          failures, resets

store == <<slots, selector, identity>>
session == <<owner, nextTxn, txn, active, candidate, passed, token, reboot>>
bounds == <<failures, resets>>
vars == <<store, session, phase, issued, vetted, bounds>>

NoTxn == [stage |-> "none", id |-> 0, slot |-> "none", content |-> NoConfig]

Txns == [stage : {"readback_verified", "network_tested"},
         id : 0 .. LastTransaction, slot : Slots, content : Configs]

\* The type invariant: transaction ids survive the wrap of their counter, and
\* every slot holds a whole configuration or nothing that validates.
TypeOK ==
    /\ slots \in [Slots -> Configs \cup {NoConfig}]
    /\ selector \in Slots \cup {"none"}
    /\ identity \in Credentials \cup {0}
    /\ owner \in 0 .. LastTransaction
    /\ nextTxn \in 0 .. LastTransaction
    /\ txn \in Txns \cup {NoTxn}
    /\ active \in Configs \cup {NoConfig}
    /\ candidate \in Configs \cup {NoConfig}
    /\ passed \in BOOLEAN
    /\ token \in {"none", "issued", "expired"}
    /\ reboot \in BOOLEAN
    /\ phase \in {"off", "halted", "maintenance", "running"}
    /\ issued \in Credentials
    /\ vetted \in SUBSET Configs
    /\ failures \in 0 .. MaxFailures
    /\ resets \in 0 .. MaxResets

Init ==
    /\ slots = [s \in Slots |-> NoConfig] /\ selector = "none" /\ identity = 0
    /\ owner = 0 /\ nextTxn = 1 /\ txn = NoTxn
    /\ active = NoConfig /\ candidate = NoConfig /\ passed = FALSE
    /\ token = "none" /\ reboot = FALSE
    /\ phase = "off"
    /\ issued = 1 /\ vetted = {}
    /\ failures = 0 /\ resets = 0

-----------------------------------------------------------------------------
(***************************************************************************)
(* pm_config.c.                                                            *)
(***************************************************************************)
\* pm_config_load(): the selected slot, never the other one.
Loaded == IF selector = "none" THEN NoConfig ELSE slots[selector]

Fails == /\ failures < MaxFailures
         /\ failures' = failures + 1
         /\ UNCHANGED resets

\* claim_new_transaction(): the next id, skipping zero when the counter wraps.
After(n) == (n + 1) % (LastTransaction + 1)
NewId == IF nextTxn = 0 THEN 1 ELSE nextTxn
IdUsed == nextTxn' = After(NewId)

\* pm_config_begin() with a verified transaction rewrites that one's slot.
Restaging(t) == t.stage = "readback_verified"

\* Fault of Inactive: once a slot is selected it is the one rewritten.
InactiveSelected == IF selector = "A" THEN "A" ELSE "B"

\* A new transaction takes the slot that is not selected.
Inactive == IF selector = "B" THEN "A" ELSE "B"

\* A failed write leaves the old content, an unreadable slot or the new content.
Torn(slot, c) == \E left \in {slots[slot], NoConfig, c} :
                    slots' = [slots EXCEPT ![slot] = left]

\* Fault of Released: only a tested transaction is given up.
ReleasedTested(t) ==
    IF t.id # 0 /\ owner = t.id /\ t.stage = "network_tested" THEN 0 ELSE owner

\* pm_config_abort(): release_transaction() of the transaction, if it owns.
Released(t) == IF t.id # 0 /\ owner = t.id THEN 0 ELSE owner

-----------------------------------------------------------------------------
(***************************************************************************)
(* pm_provisioning_handle_line(), one action per outcome of an operation.  *)
(***************************************************************************)
\* clear_candidate_state().
Cleared ==
    /\ owner' = Released(txn)
    /\ txn' = NoTxn /\ candidate' = NoConfig /\ passed' = FALSE

Line == phase = "maintenance" /\ ~reboot
KeepSession == UNCHANGED <<active, token, reboot>>
KeepWorld == UNCHANGED <<identity, phase>>

\* parse_candidate(): a copy of the active configuration with new settings and
\* the next generation.  The credential stays until enrollment replaces it.
Candidate(s) ==
    IF active = NoConfig
    THEN [generation |-> 1, settings |-> s, credential |-> identity]
    ELSE [active EXCEPT !.generation = @ + 1, !.settings = s]

HasNext == active # NoConfig => active.generation < MaxGeneration

\* begin_config: the candidate is staged in the inactive slot and read back.
BeginConfig(s) ==
    /\ Line /\ HasNext /\ Released(txn) = 0
    /\ owner' = NewId /\ IdUsed
    /\ slots' = [slots EXCEPT ![Inactive] = Candidate(s)]
    /\ candidate' = Candidate(s) /\ passed' = FALSE
    /\ txn' = [stage |-> "readback_verified", id |-> NewId, slot |-> Inactive,
               content |-> Candidate(s)]
    /\ KeepSession /\ KeepWorld /\ UNCHANGED <<selector, issued, vetted, bounds>>

\* begin_config: staging fails.
BeginConfigFails(s) ==
    /\ Line /\ HasNext /\ Released(txn) = 0
    /\ IdUsed /\ Cleared
    /\ Torn(Inactive, Candidate(s)) /\ Fails
    /\ KeepSession /\ KeepWorld /\ UNCHANGED <<selector, issued, vetted>>

\* begin_config with an unacceptable candidate, at the last generation, or while
\* another transaction is open; test_config without a candidate; commit_config
\* without passed tests; rollback_config.
Refused ==
    /\ Line
    /\ Cleared
    /\ KeepSession /\ KeepWorld
    /\ UNCHANGED <<slots, selector, nextTxn, issued, vetted, bounds>>

Grantable == issued < MaxCredentials
Enrolled == [candidate EXCEPT !.credential = issued + 1]

\* test_config: a stage fails, or the enrollment answer is lost after the server
\* granted it.
TestFails ==
    /\ Line /\ candidate # NoConfig
    /\ Cleared
    /\ issued' \in {issued, IF Grantable THEN issued + 1 ELSE issued}
    /\ KeepSession /\ KeepWorld
    /\ UNCHANGED <<slots, selector, nextTxn, vetted, bounds>>

\* test_config: all stages pass, the enrolled candidate is staged again in the
\* slot of its transaction and marked as tested.
TestConfig ==
    /\ Line /\ candidate # NoConfig /\ Grantable
    /\ Restaging(txn) /\ owner = txn.id /\ selector # txn.slot
    /\ issued' = issued + 1
    /\ slots' = [slots EXCEPT ![txn.slot] = Enrolled]
    /\ candidate' = Enrolled /\ passed' = TRUE
    /\ txn' = [txn EXCEPT !.stage = "network_tested", !.content = Enrolled]
    /\ vetted' = vetted \cup {Enrolled}
    /\ KeepSession /\ KeepWorld /\ UNCHANGED <<selector, owner, nextTxn, bounds>>

\* test_config: the stages pass, but staging again fails.
TestWriteFails ==
    /\ Line /\ candidate # NoConfig /\ Grantable
    /\ Restaging(txn) /\ owner = txn.id /\ selector # txn.slot
    /\ issued' = issued + 1
    /\ Torn(txn.slot, Enrolled) /\ Fails
    /\ Cleared
    /\ KeepSession /\ KeepWorld /\ UNCHANGED <<selector, nextTxn, vetted>>

\* test_config once more after it passed: the transaction is no longer one to
\* stage again and it still owns the store, so no new one is granted.
TestRefused ==
    /\ Line /\ candidate # NoConfig /\ Grantable
    /\ ~Restaging(txn) /\ owner # 0
    /\ issued' = issued + 1
    /\ Cleared
    /\ KeepSession /\ KeepWorld
    /\ UNCHANGED <<slots, selector, nextTxn, vetted, bounds>>

\* Fault of Committable: the transaction need not have passed the tests.
CommittableUntested ==
    /\ txn.stage # "none" /\ owner = txn.id
    /\ slots[txn.slot] = txn.content

\* pm_config_commit() reads the slot back before it moves the selector.
Committable ==
    /\ passed
    /\ txn.stage = "network_tested" /\ owner = txn.id
    /\ slots[txn.slot] = txn.content

CommitConfig ==
    /\ Line /\ Committable
    /\ selector' = txn.slot
    /\ active' = candidate
    /\ Cleared
    /\ KeepWorld
    /\ UNCHANGED <<slots, nextTxn, token, reboot, issued, vetted, bounds>>

\* The selector cannot be written, or is written and not committed.
CommitFails ==
    /\ Line /\ Committable
    /\ selector' \in {selector, txn.slot}
    /\ Fails
    /\ Cleared
    /\ KeepSession /\ KeepWorld
    /\ UNCHANGED <<slots, nextTxn, issued, vetted>>

\* factory_reset_prepare; a maintenance boot is always physically authorized.
FactoryPrepare ==
    /\ Line
    /\ token' = "issued"
    /\ KeepWorld
    /\ UNCHANGED <<slots, selector, owner, nextTxn, txn, active, candidate,
                   passed, reboot, issued, vetted, bounds>>

\* A minute passes.
TokenExpires ==
    /\ token = "issued"
    /\ token' = "expired"
    /\ KeepWorld
    /\ UNCHANGED <<slots, selector, owner, nextTxn, txn, active, candidate,
                   passed, reboot, issued, vetted, bounds>>

\* factory_reset_commit: the active image registers no reset, so it is rejected
\* whatever the token is; the token is spent.
FactoryCommit ==
    /\ Line
    /\ token' = "none"
    /\ KeepWorld
    /\ UNCHANGED <<slots, selector, owner, nextTxn, txn, active, candidate,
                   passed, reboot, issued, vetted, bounds>>

\* safe_reboot: candidate state is cleared, the reboot waits for the response.
SafeReboot ==
    /\ Line
    /\ Cleared
    /\ reboot' = TRUE
    /\ KeepWorld
    /\ UNCHANGED <<slots, selector, nextTxn, active, token, issued, vetted, bounds>>

\* usb_task(): the response could not be sent completely.
RebootDropped ==
    /\ phase = "maintenance" /\ reboot
    /\ reboot' = FALSE
    /\ KeepWorld
    /\ UNCHANGED <<slots, selector, owner, nextTxn, txn, active, candidate,
                   passed, token, issued, vetted, bounds>>

-----------------------------------------------------------------------------
(***************************************************************************)
(* Resets and app_main().                                                  *)
(***************************************************************************)
PowerOff ==
    /\ phase' = "off"
    /\ owner' = 0 /\ nextTxn' = 1 /\ txn' = NoTxn
    /\ active' = NoConfig /\ candidate' = NoConfig /\ passed' = FALSE
    /\ token' = "none" /\ reboot' = FALSE
    /\ UNCHANGED <<store, issued, vetted>>

\* esp_restart() after a safe reboot, or in normal operation; a power cycle of a
\* device that stopped.
Restart ==
    /\ \/ phase = "maintenance" /\ reboot
       \/ phase \in {"running", "halted"}
    /\ PowerOff
    /\ UNCHANGED bounds

Reset ==
    /\ phase = "maintenance"
    /\ resets < MaxResets
    /\ resets' = resets + 1
    /\ PowerOff
    /\ UNCHANGED failures

\* load_or_create_identity() in the device's first boot.
CreateIdentity ==
    /\ phase = "off" /\ identity = 0
    /\ \/ identity' = 1 /\ UNCHANGED <<bounds, phase>>
       \/ identity' \in {0, 1} /\ Fails /\ phase' = "halted"
    /\ UNCHANGED <<slots, selector, session, issued, vetted>>

\* persist_identity(): the enrolled identity becomes the device's.
AdoptIdentity ==
    /\ phase = "off" /\ identity # 0
    /\ Loaded # NoConfig /\ Loaded.credential # identity
    /\ \/ identity' = Loaded.credential /\ UNCHANGED <<bounds, phase>>
       \/ identity' \in {identity, Loaded.credential} /\ Fails /\ phase' = "halted"
    /\ UNCHANGED <<slots, selector, session, issued, vetted>>

\* Fault of Start: the configuration's credential is not adopted first.
StartUnadopted ==
    /\ phase = "off" /\ identity # 0
    /\ phase' \in IF Loaded = NoConfig THEN {"maintenance"}
                  ELSE {"maintenance", "running"}
    /\ active' = Loaded
    /\ UNCHANGED <<store, owner, nextTxn, txn, candidate, passed, token, reboot,
                   issued, vetted, bounds>>

\* Without a readable configuration, or on the operator's request, the device
\* starts the USB session and nothing else.
Start ==
    /\ phase = "off" /\ identity # 0
    /\ Loaded # NoConfig => Loaded.credential = identity
    /\ phase' \in IF Loaded = NoConfig THEN {"maintenance"}
                  ELSE {"maintenance", "running"}
    /\ active' = Loaded
    /\ UNCHANGED <<store, owner, nextTxn, txn, candidate, passed, token, reboot,
                   issued, vetted, bounds>>

-----------------------------------------------------------------------------
Usb == \/ \E s \in Settings : BeginConfig(s) \/ BeginConfigFails(s)
       \/ Refused \/ TestFails \/ TestConfig \/ TestWriteFails \/ TestRefused
       \/ CommitConfig \/ CommitFails \/ FactoryPrepare \/ TokenExpires
       \/ FactoryCommit \/ SafeReboot \/ RebootDropped

Boot == CreateIdentity \/ AdoptIdentity \/ Start

Next == Usb \/ Boot \/ Restart \/ Reset

Spec == Init /\ [][Next]_vars

-----------------------------------------------------------------------------
(***************************************************************************)
(* Properties.                                                             *)
(***************************************************************************)
\* The comment at pm_config.c:212-214: the selector is the commit point, so what
\* it names is always complete and passed the network and enrollment tests,
\* whatever writes fail and whenever the device resets.
SelectedIsVetted == selector # "none" => slots[selector] \in vetted

\* docs/POWERSHELL_PROVISIONING.md:29 "preserves the prior committed slot": no
\* step writes the slot that is selected.
SelectedSlotUntouched ==
    [][selector # "none" => slots'[selector] = slots[selector]]_vars

\* Every way out of a transaction releases it: an open transaction belongs to the
\* session, so no sequence of lines locks begin_config out.
NoOrphanTransaction == owner # 0 => txn.id = owner

\* The device operates under the identity its configuration was enrolled with.
IdentityFollowsConfig == phase = "running" => identity = active.credential

\* Provisioning implements the atomic replacement of a vetted configuration.
Abstract == INSTANCE AtomicConfig
               WITH current <- Loaded

ReplacesAtomically == Abstract!Spec

=============================================================================
