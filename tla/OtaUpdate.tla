------------------------------ MODULE OtaUpdate ------------------------------
(***************************************************************************)
(* An over-the-air update end to end: components/pm_ota/pm_ota.c (the      *)
(* installation, its A/B checkpoint, post-boot validation, cancellation),  *)
(* the OTA part of main/app_main_stateless.c (ota_task and the boot        *)
(* sequence around it), and, as external parts, the two application        *)
(* partitions and the ESP-IDF bootloader with rollback enabled.            *)
(*                                                                         *)
(* Only one OTA command is in flight; CommandRuntime treats the ledger and *)
(* the OTA claim.  Image k is the one that the k-th OTA command installs,  *)
(* image 0 the factory image; the factory image always starts up well.     *)
(***************************************************************************)
EXTENDS Naturals, FiniteSets

CONSTANTS Images,       \* images delivered by OTA commands: 1 .. Images
          Chunks,       \* blocks of a download
          MaxFaults,    \* bound on failing flash, NVS and resource operations
          MaxCrashes    \* bound on unplanned resets

ASSUME OtaAssumption ==
    /\ Images \in Nat \ {0} /\ Chunks \in Nat \ {0}
    /\ MaxFaults \in Nat /\ MaxCrashes \in Nat

VARIABLES flash,     \* content of the two application partitions
          otadata,   \* the two entries that select a partition
          lead,      \* the entry with the higher number, the first on a tie
          running,   \* partition of the running image
          healthy,   \* images whose runtime starts up and validates
          ck,        \* NVS namespace "pm_ota": slot_a and slot_b
          cp,        \* the checkpoint in pm_ota_install()'s frame
          job,       \* where the OTA task is
          cmd,       \* the OTA command's ledger entry in RAM
          saved,     \* the OTA command's ledger entry in NVS
          phase,     \* where the boot is: "off" .. "up"
          faults, crashes

flashVars == <<flash, otadata, lead>>
bounds == <<faults, crashes>>
vars == <<flashVars, running, healthy, ck, cp, job, cmd, saved, phase, bounds>>

Partitions == {0, 1}
Other(p) == 1 - p
Keys == {"slot_a", "slot_b"}
SlotKey(g) == IF g % 2 = 1 THEN "slot_a" ELSE "slot_b"

Stages == {"idle", "manifest_verified", "downloading", "image_verified",
           "boot_selected", "valid", "rolled_back", "failed"}

Checkpoint == [stage : Stages, image : 0 .. Images, bytes : 0 .. Chunks,
               generation : Nat]

Missing == [generation |-> 0, stage |-> "missing", image |-> 0, bytes |-> 0]

ZeroCheckpoint == [stage |-> "idle", image |-> 0, bytes |-> 0, generation |-> 0]

NoCommand == [state |-> "none", image |-> 0]

\* An otadata entry: a partition and its ESP_OTA_IMG_* state.
OtaEntry == [part : Partitions, state : {"blank", "valid", "new", "pending", "aborted"}]
Sectors == {0, 1}

Final == {"succeeded", "failed", "rolled_back"}

Jobs == {"none", "begin", "manifest", "erase", "request", "download", "block",
         "verify", "select", "record", "abort", "abort_report", "await",
         "restart", "cancel", "cancel_record", "cancel_report"}

\* The type invariant: a download never runs past its image, and every stored
\* checkpoint is one checkpoint_valid() accepts.
TypeOK ==
    /\ flash \in [Partitions -> [image : 0 .. Images, whole : BOOLEAN]]
    /\ otadata \in [Sectors -> OtaEntry] /\ lead \in Sectors
    /\ running \in Partitions
    /\ healthy \in SUBSET (0 .. Images)
    /\ ck \in [Keys -> Checkpoint \cup {Missing}]
    /\ cp \in Checkpoint
    /\ job \in Jobs
    /\ cmd \in [state : {"none", "accepted", "running", "awaiting_reboot"} \cup Final,
                image : 0 .. Images]
    /\ saved \in [state : {"none", "accepted", "running", "awaiting_reboot"} \cup Final,
                  image : 0 .. Images]
    /\ phase \in {"off", "startup", "validate", "confirm", "rollback", "reconcile", "up"}
    /\ faults \in 0 .. MaxFaults /\ crashes \in 0 .. MaxCrashes

Init ==
    /\ flash = [p \in Partitions |-> [image |-> 0, whole |-> p = 0]]
    /\ otadata = [s \in Sectors |-> [part |-> 0, state |-> "blank"]] /\ lead = 0
    /\ running = 0
    /\ healthy \in {h \in SUBSET (0 .. Images) : 0 \in h}
    /\ ck = [k \in Keys |-> Missing]
    /\ cp = ZeroCheckpoint
    /\ job = "none"
    /\ cmd = NoCommand /\ saved = NoCommand
    /\ phase = "off"
    /\ faults = 0 /\ crashes = 0

-----------------------------------------------------------------------------
(***************************************************************************)
(* Faults and NVS.  A write that reports an error may have reached the     *)
(* flash all the same; NVS replaces a blob atomically, so no slot is torn. *)
(***************************************************************************)
Fault == /\ faults < MaxFaults
         /\ faults' = faults + 1
         /\ UNCHANGED crashes

NoFault == UNCHANGED bounds

\* persist_checkpoint() of a checkpoint returns ESP_OK.
Next1(c) == [c EXCEPT !.generation = @ + 1]

Store(c) == ck' = [ck EXCEPT ![SlotKey(c.generation + 1)] = Next1(c)]

\* persist_checkpoint() fails: the slot is as it was or already written.
StoreFails(c) == Fault /\ (UNCHANGED ck \/ Store(c))

\* pm_ota_load_checkpoint(): the newer slot; an empty store reads as IDLE.
Loaded ==
    LET a == ck["slot_a"]
        b == ck["slot_b"]
    IN  CASE a = Missing /\ b = Missing -> Next1(ZeroCheckpoint)
          [] a # Missing /\ (b = Missing \/ a.generation >= b.generation) -> a
          [] OTHER -> b

At(c, stage) == [c EXCEPT !.stage = stage]

\* pm_command_transition() or pm_command_reconcile_boot() of the OTA command.
LedgerSaves(state) == /\ cmd' = [cmd EXCEPT !.state = state]
                      /\ saved' = cmd'

LedgerFails(state) == /\ Fault
                      /\ UNCHANGED cmd
                      /\ saved' \in {saved, [cmd EXCEPT !.state = state]}

\* ota_progress(): RUNNING is recorded again.  It matters when execute_command()
\* could not record it; percentages are CommandRuntime's.
Report ==
    \/ cmd.state = "accepted" /\ LedgerSaves("running") /\ NoFault
    \/ cmd.state = "accepted" /\ LedgerFails("running")
    \/ cmd.state # "accepted" /\ NoFault /\ UNCHANGED <<cmd, saved>>

-----------------------------------------------------------------------------
(***************************************************************************)
(* The bootloader and otadata (external, ESP-IDF with                      *)
(* CONFIG_BOOTLOADER_APP_ROLLBACK_ENABLE and no factory partition).        *)
(***************************************************************************)
\* An entry that was never written or was given up is not looked at.
Usable(e) == e.state \notin {"blank", "aborted"}

\* The entry that decides, of two entries.
ActiveOf(entries) ==
    IF Usable(entries[lead]) \/ ~Usable(entries[Other(lead)]) THEN lead ELSE Other(lead)
Active == ActiveOf(otadata)
Deciding == Usable(otadata[Active])

\* esp_ota_set_boot_partition() writes a NEW entry over the one that does not
\* decide.  Its number is the next of that partition: the same as that of the
\* deciding entry when that one selects the partition already.
SetBoot(p) ==
    LET s == IF Deciding THEN Other(Active) ELSE 0
    IN  /\ otadata' = [otadata EXCEPT ![s] = [part |-> p, state |-> "new"]]
        /\ lead' = IF Deciding /\ otadata[Active].part = p THEN 0 ELSE s

\* An entry still on trial when the device resets is given up.
Spent(e) == IF e.state = "pending" THEN [e EXCEPT !.state = "aborted"] ELSE e
Started(e) == IF e.state = "new" THEN [e EXCEPT !.state = "pending"] ELSE e

\* The deciding entry goes on trial if it is NEW; partition 0 if none decides; a
\* partition whose image does not verify is skipped for the other one.
PowerOn ==
    /\ phase = "off"
    /\ LET spent == [s \in Sectors |-> Spent(otadata[s])]
           a == ActiveOf(spent)
           p == IF Usable(spent[a]) THEN spent[a].part ELSE 0
       IN  /\ otadata' = [spent EXCEPT ![a] = Started(@)]
           /\ running' = IF flash[p].whole THEN p ELSE Other(p)
    /\ phase' = "startup"
    /\ cmd' = saved
    /\ UNCHANGED <<flash, lead, healthy, ck, cp, job, saved, bounds>>

\* RAM is lost.
PowerOff == phase' = "off" /\ job' = "none" /\ cp' = ZeroCheckpoint

Crash ==
    /\ phase # "off" /\ crashes < MaxCrashes
    /\ crashes' = crashes + 1
    /\ PowerOff
    /\ UNCHANGED <<flashVars, running, healthy, ck, cmd, saved, faults>>

-----------------------------------------------------------------------------
(***************************************************************************)
(* Boot: app_main() from runtime readiness to reconciliation.              *)
(***************************************************************************)
BootOnly == UNCHANGED <<flash, running, healthy, cp, job>>
Restarts == PowerOff /\ UNCHANGED <<flash, running, healthy>>

\* esp_ota_get_state_partition(): the first entry of the running partition.
Named == {s \in Sectors : otadata[s].part = running /\ otadata[s].state # "blank"}
StateRead == IF Named = {} THEN "blank"
             ELSE otadata[CHOOSE s \in Named : \A r \in Named : s <= r].state
Fit == flash[running].image \in healthy

\* An image whose tasks do not become ready restarts before any validation.
StartupFails ==
    /\ phase = "startup" /\ ~Fit
    /\ Restarts
    /\ UNCHANGED <<otadata, lead, ck, cmd, saved, bounds>>

Ready ==
    /\ phase = "startup"
    /\ phase' = IF StateRead = "pending" THEN "validate" ELSE "reconcile"
    /\ BootOnly /\ UNCHANGED <<otadata, lead, ck, cmd, saved, bounds>>

\* Fault of ValidateRecords: the readiness flags are not looked at.
ValidateRecordsUnchecked ==
    /\ phase = "validate"
    /\ Store(At(Loaded, "valid"))
    /\ phase' = "confirm"
    /\ BootOnly /\ UNCHANGED <<otadata, lead, cmd, saved, bounds>>

\* pm_ota_post_boot_validate() with every flag set: VALID is recorded first.
ValidateRecords ==
    /\ phase = "validate" /\ Fit
    /\ Store(At(Loaded, "valid"))
    /\ phase' = "confirm"
    /\ BootOnly /\ UNCHANGED <<otadata, lead, cmd, saved, bounds>>

\* Recording VALID or ROLLED_BACK fails: app_main() restarts.
ValidateFails ==
    /\ phase = "validate"
    /\ StoreFails(At(Loaded, IF Fit THEN "valid" ELSE "rolled_back"))
    /\ Restarts
    /\ UNCHANGED <<otadata, lead, cmd, saved>>

\* esp_ota_mark_app_valid_cancel_rollback().
Confirm ==
    /\ phase = "confirm"
    /\ \/ /\ otadata' = [otadata EXCEPT ![Active].state = "valid"]
          /\ phase' = "reconcile"
          /\ NoFault /\ BootOnly
       \/ Fault /\ Restarts /\ UNCHANGED otadata
    /\ UNCHANGED <<lead, ck, cmd, saved>>

\* A flag is missing (the network task could not be created): ROLLED_BACK.
RollbackRecords ==
    /\ phase = "validate" /\ ~Fit
    /\ Store(At(Loaded, "rolled_back"))
    /\ phase' = "rollback"
    /\ BootOnly /\ UNCHANGED <<otadata, lead, cmd, saved, bounds>>

\* esp_ota_mark_app_invalid_rollback_and_reboot() needs another entry to start;
\* the caller restarts if it fails.
Fallback == otadata[Other(Active)]
Returnable == Usable(Fallback) /\ flash[Fallback.part].whole

RollBack ==
    /\ phase = "rollback"
    /\ \/ /\ Returnable
          /\ otadata' = [otadata EXCEPT ![Active].state = "aborted"]
          /\ NoFault
       \/ ~Returnable /\ NoFault /\ UNCHANGED otadata
       \/ Fault /\ UNCHANGED otadata
    /\ Restarts
    /\ UNCHANGED <<lead, ck, cmd, saved>>

\* reconcile_interrupted_commands() for the OTA command.
Outcome ==
    IF cmd.state # "accepted" /\ Loaded.stage \in {"valid", "rolled_back"}
    THEN IF Loaded.stage = "valid" THEN "succeeded" ELSE "rolled_back"
    ELSE "failed"

Interrupted == cmd.state \in {"accepted", "running", "awaiting_reboot"}

\* The load writes an IDLE checkpoint into an empty store.
Initialise == ck' = IF ck["slot_a"] = Missing /\ ck["slot_b"] = Missing
                    THEN [ck EXCEPT !["slot_a"] = Next1(ZeroCheckpoint)] ELSE ck

\* Fault of Reconcile: an entry that has its outcome counts as a failure.
ReconcileRefusesSettled ==
    /\ phase = "reconcile"
    /\ Initialise
    /\ \/ /\ Interrupted /\ LedgerSaves(Outcome)
          /\ phase' = "up" /\ NoFault /\ BootOnly
       \/ /\ cmd.state \in Final /\ NoFault
          /\ Restarts /\ UNCHANGED <<cmd, saved>>
       \/ /\ cmd.state = "none" /\ phase' = "up"
          /\ NoFault /\ BootOnly /\ UNCHANGED <<cmd, saved>>
    /\ UNCHANGED <<otadata, lead>>

Reconcile ==
    /\ phase = "reconcile"
    /\ Initialise
    /\ \/ /\ Interrupted /\ LedgerSaves(Outcome)
          /\ phase' = "up" /\ NoFault /\ BootOnly
       \/ /\ Interrupted /\ LedgerFails(Outcome)
          /\ Restarts
       \/ /\ ~Interrupted /\ phase' = "up"
          /\ NoFault /\ BootOnly /\ UNCHANGED <<cmd, saved>>
    /\ UNCHANGED <<otadata, lead>>

-----------------------------------------------------------------------------
(***************************************************************************)
(* The command arrives and the OTA task runs: execute_command(),           *)
(* ota_task() and pm_ota_install().                                        *)
(***************************************************************************)
JobOnly == UNCHANGED <<running, healthy, phase>>
KeepLedger == UNCHANGED <<cmd, saved>>
KeepFlash == UNCHANGED flashVars

\* The server issues the next update once the last one has its result.
Accept ==
    /\ phase = "up" /\ job = "none"
    /\ cmd.state \in Final \cup {"none"} /\ cmd.image < Images
    /\ cmd' = [state |-> "accepted", image |-> cmd.image + 1]
    /\ saved' = cmd'
    /\ job' = "begin"
    /\ JobOnly /\ KeepFlash /\ UNCHANGED <<ck, cp, bounds>>

\* RUNNING is recorded (a failure is ignored) and the OTA task starts.
Begin ==
    /\ job = "begin"
    /\ \/ LedgerSaves("running") /\ NoFault
       \/ LedgerFails("running")
    /\ job' = "manifest"
    /\ JobOnly /\ KeepFlash /\ UNCHANGED <<ck, cp>>

\* Payload, time or manifest is refused, or signing fails; no checkpoint.
ManifestRefused ==
    /\ job = "manifest"
    /\ job' = "cancel"
    /\ JobOnly /\ KeepLedger /\ KeepFlash /\ UNCHANGED <<ck, cp, bounds>>

\* The checkpoint starts from generation zero: it is not the loaded one.
ManifestVerified ==
    /\ job = "manifest"
    /\ LET c == [stage |-> "manifest_verified", image |-> cmd.image,
                 bytes |-> 0, generation |-> 0]
       IN  \/ /\ Store(c) /\ cp' = Next1(c) /\ job' = "erase" /\ Report
           \/ /\ StoreFails(c) /\ job' = "cancel" /\ KeepLedger /\ UNCHANGED cp
    /\ JobOnly /\ KeepFlash

\* Fault of Erase: the partition selected for the next boot is overwritten.
EraseSelected ==
    /\ job = "erase"
    /\ flash' = [flash EXCEPT ![otadata[Active].part] =
                   [image |-> cmd.image, whole |-> FALSE]]
    /\ job' \in {"request", "cancel"}
    /\ JobOnly /\ KeepLedger /\ UNCHANGED <<otadata, lead, ck, cp, bounds>>

\* esp_ota_begin() erases the partition that is not running.  It, the partition
\* lookup or the HTTP client may fail: these returns write no checkpoint.
Erase ==
    /\ job = "erase"
    /\ \/ /\ flash' = [flash EXCEPT ![Other(running)] =
                         [image |-> cmd.image, whole |-> FALSE]]
          /\ job' \in {"request", "cancel"}
       \/ /\ UNCHANGED flash
          /\ job' = "cancel"
    /\ JobOnly /\ KeepLedger /\ UNCHANGED <<otadata, lead, ck, cp, bounds>>

\* persist_checkpoint(&checkpoint) within the installation, and report().
Persisted(c, next) == Store(c) /\ cp' = Next1(c) /\ job' = next
NotPersisted(c) == StoreFails(c) /\ cp' = c /\ job' = "abort" /\ KeepLedger

Advance(c, next) == (Persisted(c, next) /\ Report) \/ NotPersisted(c)

\* The response headers are good: DOWNLOADING.
Request ==
    /\ job = "request"
    /\ LET c == At(cp, "downloading")
       IN  \/ Persisted(c, "download") /\ NoFault /\ KeepLedger
           \/ NotPersisted(c)
    /\ JobOnly /\ KeepFlash

\* A block arrived, was written and is reported.
Download ==
    /\ job = "download" /\ cp.bytes < Chunks
    /\ cp' = [cp EXCEPT !.bytes = @ + 1]
    /\ Report /\ job' = "block"
    /\ JobOnly /\ KeepFlash /\ UNCHANGED ck

\* The block is checkpointed if it completes 64 KiB.
Block ==
    /\ job = "block"
    /\ LET next == IF cp.bytes = Chunks THEN "verify" ELSE "download"
       IN  \/ Persisted(cp, next) /\ NoFault
           \/ NotPersisted(cp)
           \/ job' = next /\ NoFault /\ UNCHANGED <<ck, cp>>
    /\ JobOnly /\ KeepLedger /\ KeepFlash

\* Transport, write, hash, signature or metadata failure.
InstallFails ==
    /\ job \in {"request", "download", "verify"}
    /\ job' = "abort"
    /\ JobOnly /\ KeepLedger /\ KeepFlash /\ UNCHANGED <<ck, cp, bounds>>

\* Digest, response signature, esp_ota_end() and metadata are good.
Verify ==
    /\ job = "verify"
    /\ flash' = [flash EXCEPT ![Other(running)].whole = TRUE]
    /\ Advance(At(cp, "image_verified"), "select")
    /\ JobOnly /\ UNCHANGED <<otadata, lead>>

Select ==
    /\ job = "select"
    /\ \/ SetBoot(Other(running)) /\ job' = "record" /\ NoFault
       \/ Fault /\ job' = "abort" /\ UNCHANGED <<otadata, lead>>
    /\ JobOnly /\ KeepLedger /\ UNCHANGED <<flash, ck, cp>>

\* BOOT_SELECTED; if it cannot be recorded the running image is selected again.
Record ==
    /\ job = "record"
    /\ LET c == At(cp, "boot_selected")
       IN  \/ /\ Persisted(c, "await") /\ Report
              /\ UNCHANGED <<otadata, lead>>
           \/ /\ NotPersisted(c)
              /\ SetBoot(running) \/ UNCHANGED <<otadata, lead>>
    /\ JobOnly /\ UNCHANGED flash

\* The cleanup of pm_ota_install(): FAILED is recorded if it can be ...
Abort ==
    /\ job = "abort"
    /\ \/ Store(At(cp, "failed")) /\ NoFault
       \/ StoreFails(At(cp, "failed"))
    /\ job' = "abort_report"
    /\ JobOnly /\ KeepLedger /\ KeepFlash /\ UNCHANGED cp

\* ... and reported either way.
AbortReport ==
    /\ job = "abort_report"
    /\ Report
    /\ job' = "cancel"
    /\ JobOnly /\ KeepFlash /\ UNCHANGED <<ck, cp>>

\* ota_task(): AWAITING_REBOOT must be durable before the restart.
Await ==
    /\ job = "await"
    /\ \/ LedgerSaves("awaiting_reboot") /\ job' = "restart" /\ NoFault
       \/ LedgerFails("awaiting_reboot") /\ job' = "cancel"
    /\ JobOnly /\ KeepFlash /\ UNCHANGED <<ck, cp>>

Restart ==
    /\ job = "restart"
    /\ Restarts
    /\ KeepLedger /\ UNCHANGED <<otadata, lead, ck, bounds>>

\* Fault of Cancel: the running partition is not selected again.
CancelKeepsSelection ==
    /\ job = "cancel"
    /\ job' = "cancel_record"
    /\ NoFault /\ UNCHANGED <<otadata, lead>>
    /\ JobOnly /\ KeepLedger /\ UNCHANGED <<flash, ck, cp>>

\* pm_ota_cancel_pending_boot(): the running partition is selected again ...
Cancel ==
    /\ job = "cancel"
    /\ \/ SetBoot(running) /\ job' = "cancel_record" /\ NoFault
       \/ Fault /\ job' = "cancel_report" /\ UNCHANGED <<otadata, lead>>
    /\ JobOnly /\ KeepLedger /\ UNCHANGED <<flash, ck, cp>>

\* ... and FAILED recorded on top of the stored checkpoint.
CancelRecord ==
    /\ job = "cancel_record"
    /\ \/ Store(At(Loaded, "failed")) /\ NoFault
       \/ StoreFails(At(Loaded, "failed"))
    /\ job' = "cancel_report"
    /\ JobOnly /\ KeepLedger /\ KeepFlash /\ UNCHANGED cp

\* Fault of CancelReport: the task ends without recording FAILED.
CancelReportSilent ==
    /\ job = "cancel_report"
    /\ NoFault /\ KeepLedger
    /\ job' = "none" /\ cp' = ZeroCheckpoint
    /\ JobOnly /\ KeepFlash /\ UNCHANGED ck

\* The ledger entry becomes FAILED; a failure to record that is ignored.
CancelReport ==
    /\ job = "cancel_report"
    /\ \/ LedgerSaves("failed") /\ NoFault
       \/ LedgerFails("failed")
    /\ job' = "none" /\ cp' = ZeroCheckpoint
    /\ JobOnly /\ KeepFlash /\ UNCHANGED ck

-----------------------------------------------------------------------------
Boot == PowerOn \/ StartupFails \/ Ready \/ ValidateRecords \/ ValidateFails
           \/ Confirm \/ RollbackRecords \/ RollBack \/ Reconcile

OtaTask == Begin \/ ManifestRefused \/ ManifestVerified \/ Erase \/ Request
              \/ Download \/ Block \/ InstallFails \/ Verify \/ Select \/ Record
              \/ Abort \/ AbortReport \/ Await \/ Restart \/ Cancel \/ CancelRecord \/ CancelReport

Next == Boot \/ Accept \/ OtaTask \/ Crash

Spec == Init /\ [][Next]_vars

\* The boot sequence and the OTA task are scheduled.
FairSpec == Spec /\ WF_vars(Boot) /\ WF_vars(OtaTask)

-----------------------------------------------------------------------------
(***************************************************************************)
(* Properties.                                                             *)
(***************************************************************************)
Serving == phase = "up"
Unsettled == cmd.state \in {"accepted", "running", "awaiting_reboot"}

\* otadata still has an entry of a confirmed image, or one that was never written
\* and leaves the factory image.  pm_ota_cancel_pending_boot() takes the last one
\* away when it puts the running image on trial again, and a fault or a reset in
\* the trial can then leave an image that was never validated.
Backed == \E s \in Sectors : otadata[s].state \in {"valid", "blank"}

\* A complete image that starts up is always in one of the partitions: an update
\* never overwrites the last image that works.
WorkingImageKept ==
    Backed => \E p \in Partitions : flash[p].whole /\ flash[p].image \in healthy

\* An image that cannot run is not left in service: whatever is running once the
\* boot is over passed pm_ota_post_boot_validate() now or in an earlier boot, also
\* after faults and crashes.
OnlyFitImagesServe == Backed /\ Serving => Fit

\* At most one operation failed and one unplanned reset happened so far.  When the
\* ledger write of ota_task() and then the reselection of
\* pm_ota_cancel_pending_boot() fail, or two resets interrupt the trial of the image
\* that was selected again, an image whose command was given up is started.
OneMishap == faults <= 1 /\ crashes <= 1

\* The negative outcomes reconcile_interrupted_commands() and ota_task() report
\* are true, also after a fault and a crash: an update reported as failed or rolled
\* back is not running.
FailedUpdateIsNotRunning ==
    Backed /\ OneMishap /\ Serving /\ cmd.state \in {"failed", "rolled_back"} =>
        flash[running].image # cmd.image

\* No reboot loop: whatever image is installed and wherever faults and crashes
\* interrupt the update, the device gets through its boot again.
AlwaysComesBack == []<>(Serving \/ ~Backed)

\* As long as storage works every accepted update gets an outcome, however the
\* installation ends and wherever a reset interrupts it.
UpdateSettles == Unsettled ~> (cmd.state \in Final \/ faults > 0 \/ ~Backed)

=============================================================================
