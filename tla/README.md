# Verification of the power-monitor sensor firmware

The repository holds the firmware of a mains power sensor (ESP32-S3, ESP-IDF,
FreeRTOS). The active image measures, sends the newest reading to its server in a
signed HTTPS request, executes the few commands the response may carry, updates
itself over the air, and is configured over USB. It keeps no history of samples;
what it does keep (configuration, identity, command ledger, OTA checkpoint) lives
in NVS and has to survive a power cut at any moment.

The modules here model that part: what is persisted and in which order, which task
does what while the others run, and what a reset, a failing write, a lost answer or
an outage leaves behind. The repository also keeps, with its tests, the runtime that
came before, with a journal on a card, persistent sequence numbers and destructive
commands; its crash-safe parts are modelled too. TLC checks small instances; TLAPS
proves every safety property but one for every value of the constants. `PROJECT.json`
lists the runs, the source lines of every definition, the hazards, the findings and the
theorems.

## 1. Inventory

### Built into the active image

| component | source | state | operations |
|---|---|---|---|
| command ledger | `components/pm_commands/pm_commands.c` | entries of commands in RAM, copies `slot_a`/`slot_b` in NVS with generation and CRC | load, accept, transition, acknowledge, boot reconciliation, persist |
| command runtime | `main/app_main_stateless.c` | command queue, acknowledgement queue, command lock, OTA claim | `command_received`, `control_task`, `execute_command`, `ota_task`, `reconcile_interrupted_commands` |
| OTA update | `components/pm_ota/pm_ota.c` | inactive partition, otadata, A/B checkpoint in NVS | manifest check, install, cancel, post-boot validation |
| OTA version policy | `components/pm_ota/pm_ota_version.c` | none | parse and compare semantic versions |
| configuration store | `components/pm_config/pm_config.c` | two slots and a selector in NVS, the open transaction id | load, begin, mark tested, commit, rollback |
| runtime state table | `components/pm_config/pm_state.c` | one enum | transition |
| USB provisioning | `components/pm_provisioning/pm_provisioning.c` | session: transaction, candidate, tests passed, factory token, deferred reboot | one line of JSON per request |
| device identity | `main/app_main_stateless.c` | NVS `pm_identity` | create, adopt the enrolled identity |
| telemetry slot | `components/pm_telemetry/pm_telemetry.c` | pending sample, sample in flight, counters, backoffs | offer, begin, complete, backoff, fixed deadline |
| network task | `components/pm_network/pm_network_v2.c` | Wi-Fi events, deadlines, cadence, credentials, health flags | connect, send, validate the response, accept commands |
| wire protocol | `components/pm_protocol/*.c` | nonce ring | canonical form, signatures, header capture |
| time keeper | `components/pm_protocol/pm_time.c` | trusted time, NVS checkpoint | synchronise, read |
| startup gate | `main/runtime_startup.c`, `app_main()` | readiness bits | create all tasks or none, validate the image |
| meter driver | `components/pm_meter/*.c` | UART | read, frame check |
| diagnostics | `components/pm_diagnostics/` | none | heap counters, redaction |

Five tasks share them: measurement (fills the slot), network (everything that goes
over Wi-Fi), control (executes commands), supervisor (watchdogs, time) and, for the
time of an update, an OTA task. In a maintenance boot the USB task runs alone.

* The network task offers commands to the ledger and passes the **address of the
  ledger entry** to the control task through a queue, after it has released the lock.
* The control task hands an OTA entry on to the OTA task, which updates the entry
  while both other tasks go on.
* The measurement task writes the slot that the network task sends from.
* The USB session stages a configuration, calls the network's provisioning test on
  it, and commits; the next boot loads configuration and identity.
* A boot loads the ledger and the OTA checkpoint, starts the tasks, validates the
  image, and only then settles what the reset interrupted.

### In the repository and not built

The build files do not list the retired runtime with local storage; its sources, host
tests and models of the tests are in the repository.

| component | source | state | operations |
|---|---|---|---|
| storage journal | `components/pm_storage/pm_storage.c`, `pm_journal.c` | `current.tmp`, sealed and quarantined segments, index and status in RAM, a prepared format | recover, append, seal, reclaim, read a batch, rebuild the index, format |
| sequence store | `components/pm_storage/pm_sequence.c` | next number, reservation, acknowledgement and reset generation in two NVS slots and a selector | load, next, acknowledge, raise the floor |
| backlog policy and delivery | `pm_backlog_policy.c`, `pm_network.c`, `interval_task()` of `main/app_main.c` | numbers on the card, queue of the storage task, loss reported so far | store an interval, heartbeat, loss report, upload, acknowledgement |
| destructive commands | `main/app_main.c` | prepare record in two NVS slots, its phase, configuration's reset generation | prepare, commit, resume, cancel, cleanup |
| measurement aggregation | `components/pm_measurement/` | one interval | accumulate |

Its interval task draws a number and appends the record through the queue of the
storage task, the network task uploads and acknowledges, and the control task formats
and resets; all three call into `pm_sequence.c`.

### What is hard here

* Six A/B stores with different rules for choosing a slot: highest generation
  (ledger, OTA checkpoint, time, prepare record), explicit selector (configuration),
  both of them (sequence store).
* An update writes the flash, otadata, the checkpoint and the ledger one after the
  other; a reset between any two of them must still lead to a working image and a
  truthful result.
* Raw pointers into the ledger outlive the lock that protected them.
* The server may repeat a command, reuse an idempotency key, lose a response, or
  store a request the sensor has given up on.
* Two timers gate one request; one of them is reset on reconnection.
* Counters that end (generations) or wrap (transaction ids).
* The time is written field by field without the lock its readers take.
* The retired runtime derives from an index in RAM which records are lost for good,
  and deletes files on the word of an acknowledgement.
* A destructive commit has up to five effects, each followed by a record that it is
  done; a repeated effect must do no harm.

The list with lines is under "hazards" in `PROJECT.json`.

## 2. Modules

| module | models | state | extended by |
|---|---|---|---|
| `CommandLedger` | `pm_commands.c`: the ledger and its two NVS slots | `ledger`, `nvs`, `failures` | `CommandRuntime` |
| `CommandRuntime` | tasks, queues, lock and boot around the ledger | `phase`, `at`, `lock`, `queue`, `net`, `ctl`, `ota`, ... | `MCCommandRuntime`, `CommandRuntimeProofs` |
| `OtaUpdate` | `pm_ota.c`, `ota_task`, the boot sequence, the bootloader | `flash`, `otadata`, `lead`, `ck`, `cp`, `job`, `cmd`, `saved`, `phase` | `MCOtaUpdate`, `OtaUpdateProofs` |
| `AtomicConfig` | what provisioning promises: one current configuration, replaced in one step by a tested one | `current`, `vetted` | instantiated by `Provisioning` |
| `Provisioning` | `pm_config.c`, `pm_provisioning.c`, the enrollment test, the identity part of `app_main()` | `slots`, `selector`, `identity`, the session, `phase` | `MCProvisioning`, `ProvisioningProofs` |
| `TelemetryDelivery` | `pm_telemetry.c`, scheduling and Wi-Fi recovery of `pm_network_v2.c` | the slot, the timers, the link, the server | `MCTelemetryDelivery`, `RuntimeProofs` |
| `TimeKeeper` | `pm_time.c`, the supervisor's observation, the readers | `time`, `marks`, `clock`, `observer`, `reader` | `RuntimeStartup` |
| `RuntimeStartup` | `runtime_startup.c`, the gate, `app_main()` from the tasks to the network | `main`, `task`, `gateBits`, `unverified` | `MCRuntimeStartup`, `RuntimeProofs` |
| `StorageJournal` | `pm_storage.c`, `pm_journal.c` | `cur`, `sealed`, `quar`, `health`, `ram`, `format`, `batch` | `MCStorageJournal`, `JournalProofs` |
| `SequenceStore` | `pm_sequence.c` | `slots`, `selector`, `ram`, `call` of each task, `overlaps` | `BacklogDelivery`, `DestructiveReset`, `SequenceProofs` |
| `BacklogDelivery` | interval, storage and network task of the retired runtime, composed with `SequenceStore` | `card`, `late`, `health`, `net`, the server | `MCBacklogDelivery`, `BacklogProofs` |
| `DestructiveReset` | the journalled format and data reset of `app_main.c`, composed with `SequenceStore` | `ctl`, `prep`, `journal`, `config`, `commits`, `entry` | `MCDestructiveReset`, `ResetProofs` |

The `MC` modules only name the constants of the instances. The `Proofs` modules hold
the theorems (section 4); `SequenceProofs` holds the lemmas on the sequence store that
`BacklogProofs` and `ResetProofs` share, and `RuntimeProofs` is about both
`RuntimeStartup` and `TelemetryDelivery`, which is why the formulas of the former are
called `BootInit`, `BootNext`, `BootSpec` and so on. Operators introduced by
a comment "Fault of X" are deliberately wrong variants of X that show that a
property notices such a mistake; no specification uses them.

### CommandLedger and CommandRuntime

`Saved(new)` is a `persist()` that succeeds, `NotSaved(new)` one that fails; after a
failure the slot holds the old blob, the new one, or something that does not
validate, because `nvs_set_blob` and `nvs_commit` may fail in the middle. The RAM
ledger is put back as the code does. `LoadNewest`, `LoadFresh` and `LoadFails` are
the three outcomes of `commands_load_locked()`.

The command lock is recursive. The network task and the OTA task hold it for one
ledger operation, which is one step. The control task holds it over a whole
execution and the boot over the whole reconciliation: these are several steps, with
`lock` saying who owns it, so that a reset can fall between any two of them.
`NetEnqueue` is a step of its own because `command_received()` runs after the lock
was released. A command is an id, an idempotency key and a type; the payload digest
follows from the envelope. Of the acknowledgement queue only whether it is empty is
kept. `committed` and `reboots` are observers: what the server has stored, and how
often each reboot command restarted the device.

The server is external: it answers a committed request with any command it has no
final result for, again and again if it likes.

### OtaUpdate

The installation is cut where a reset makes a difference: every flash, otadata,
NVS or ledger write is its own step, and every one may fail. A download is a number
of blocks, each followed by a checkpoint or not, since only every 64 KiB are
recorded. `healthy` decides at the start which images start up. `otadata` is its two
entries, each a partition and a state, and `lead` the entry with the higher sequence
number; a selection overwrites the entry that does not decide. The bootloader is
modelled from ESP-IDF's rollback rules as the code uses them: an image started once
without confirmation is aborted and the other entry started. NVS is assumed to
replace a blob atomically here; torn blobs are treated in `CommandLedger`.

### Provisioning

In a maintenance boot only the USB task works, one line at a time, so one line is
one step; a reset inside a line leaves the store as one of the failing outcomes of
that line does (`Torn` is a slot overwritten half way). A configuration is its
generation, its settings and the credential in it; `vetted` records what the tests
passed. `LastTransaction` and `MaxGeneration` stand for `UINT32_MAX`: ids wrap there
and generations end.

### TelemetryDelivery

Deadlines are relative to the present (`due`, `srv.wait`, `wifi.wait`), so the state
space stays finite without a bound on time. The task polls every 100 ms, hence a
tick passes only when it is waiting (`Idle`). `Word` is the number of values of a
`uint32_t`, in which the backoff is computed. The sample is its sequence number. An
outage covers everything the access point and the server may do wrong: refuse,
disconnect, answer late or not at all. Without one they answer before the timeout.
`esp_wifi_connect()` on a station that is already up brings an event or none: what the
driver does then is outside the repository, so `Connect` has both.

### TimeKeeper and RuntimeStartup

`Observe` and the steps after it are the supervisor's loop: each assignment to a field
of `s_time` is a step, and a call of `pm_time_now()` may fall between any two of them.
The checkpoint on flash is two slots with generations; a failing write leaves the slot
as it was, new, or unreadable. One reader at a time: `pm_time_now()` is a few
instructions, and its two callers are assumed not to meet inside it.

`RuntimeStartup` follows `app_main()` step by step: the task set, the network task, the
wait for the readiness bits, validation, reconciliation, release of the network. Every
step may fail, which ends in a restart, in `main = "stopped"` where the code returns,
or goes on as the code does. What validation and reconciliation do inside is in
`OtaUpdate` and `CommandRuntime`.

### StorageJournal

One task owns the card, so a request is one action, but a power cut may fall inside it:
each action that writes has the outcomes a cut or a failure can leave. A file is its
header and a sequence of units: a whole record, a fragment, or a record's worth of
bytes that does not decode. `Start` mounts, recovers the current file and rebuilds the
index; a batch read inserts the files' records in any order of the directory.
A failing reclaim leaves any of the segments it would delete, the oldest going first,
and a write may fail after a successful one. `unsaved` says that a failed format left the
card identity in RAM only: what is appended under it is set aside by the next start
(`StartForeign`). `kept` is an observer of the appends answered with
`ESP_OK`; `exposed` marks those written behind a fragment or under such an identity.

### SequenceStore, BacklogDelivery and DestructiveReset

A call into `pm_sequence.c` is a copy of the RAM state, a plan, the slot, the selector
and the assignment, each a step, per task. No lock is held meanwhile, and the calls of
different tasks interleave as they do in `app_main.c`. `overlaps` counts the calls that
began while another was under way; it is an observer that guards nothing but its bound.
So a property of the form `overlaps = 0 => P` says that an overlap is the only way to
break P, and `sequence_reuse` and `generations_diverge` show that it is one. A failing write leaves the slot old, new or unreadable.

`BacklogDelivery` adds the three tasks around it. The card is the numbers in each file,
since `StorageJournal` has the detail. A storage request may outlive its caller's wait
(`late`) and is carried out later; its completion is then taken for the next request's of
the same task, an append's by the interval task, a refresh's or a batch's by the network
task. A batch whose read was never carried out is what was on the stack: the numbers the
server takes from it are `phantoms`. One that is written after its reader left either
does no harm or crashes the device.
The server acknowledges the highest number below which it has, or was told is lost,
everything; its answers may be lost.

`DestructiveReset` has the control task's loop with one step per effect and per phase
record, the resumption by the next pass or boot, and the interval task drawing numbers
meanwhile. A prepare and its commit match or not; tokens are not modelled further.
`entry` is what the ledger on flash has of a commit that runs: RUNNING, or still ACCEPTED
because `execute_command()` ignores a failing transition. It is written once more at the
end of `execute_command()` (`MarkRunning`).

## 3. Runs

| run | instance | distinct states | shows |
|---|---|---|---|
| `cmd_mixed` | ledger of 2; a reboot, a probe, an OTA; 1 failing write, 1 reset | 1,729,653 | crash safety, nothing stranded, committed results final, a reboot at most once; entries are reused, and still no dangling pointer, one holder per entry |
| `cmd_fair` | ledger of 2; a reboot, a probe with the same key, an OTA; 1 reset; fair | 244,550 | unique identities, every accepted command is settled |
| `ota_update` | 3 updates of 2 blocks, 1 fault, 2 crashes; fair | 1,324,316 | while otadata backs an image: a working image is left, only fit images serve, no boot loop, every update settles; after at most one fault and one crash a failed update does not run |
| `provisioning` | 2 settings, 3 generations, ids wrapping at 2, 3 credentials, 2 failures, 2 resets | 51,166 | vetted selection, no orphan transaction, identity, refinement of `AtomicConfig` |
| `telemetry` | cadences 2 and 3 s, cap 5 s, 3 offers, 2 outages; fair | 196,805 | samples accounted for, newest sent, timers agree, no drift, delivery resumes |
| `journal` | 4 numbers, segments of 2, card of 2 records, batches of 2; 1 fault, 2 power cuts | about 930,000 | stored records stay, the index covers the card, batches are the next records in order |
| `backlog` | 4 numbers in blocks of 2, segments of 2, card of 2, batches of 2; a fault, a power cut, an overlap, a timeout, at most two of them | 1,065,971 | only an overlap brings a number or an older acknowledgement back, power cuts alone stop no boot, the acknowledgement is never ahead of the server, nothing is given up or deleted too early, whichever completion a request takes for its own |
| `startup` | observations every 2 ticks, clock off by up to 1, 4 ticks per boot, 5 in all; 1 fault, 1 power cut; fair | about 529,000 | the network starts last, the persisted time ascends, no reader gets less, the device settles |
| `reset` | 2 numbers, 2 commits, a floor of 1; 1 fault, 1 power cut, 1 overlap; fair | 358,808 | success is complete, failure harmless, generations agree until calls overlap, commits finish |
| `cmd_ota_flight`, `sequence_reuse`, `generations_diverge` | the smallest that suffice | | the findings of section 6 |

### Bounds and why they are enough

* Ledger of two: with three commands (`cmd_mixed`) one entry is reused while a task
  holds the other, `next` wraps and the ledger is full. Eight entries add more of the
  same.
* `MaxGeneration` is reached in `cmd_mixed` (5), so the end of the numbering, where
  `persist()` refuses for good, is part of the runs. `cmd_fair` allows 20 and asks for a
  final state only as long as the numbering lasts.
* One reset in the command runs, besides the restarts that the reboot and the update
  cause themselves. The invariants of `cmd_mixed` and `UniqueIdentities` are proved for
  any number of them (section 4). Two in `provisioning`: one that interrupts an operation,
  one that interrupts the recovery.
* Three updates: each starts from the checkpoint and the otadata of the one before,
  and the third meets both partitions used and an otadata without a blank entry; two
  blocks give a partial image.
* Transaction ids that wrap at 2 and 3 generations let the wrap and the end of the
  numbering happen within a few lines.
* A cap of 5 ticks is reached by the third failure, so that growth, cap and jitter
  at the cap occur; a request takes up to 3 ticks, longer than a period.
* A card that fills with two records under segments of two makes sealing, reclaiming and
  FULL happen with four numbers, and a batch of two cuts an answer short. In `backlog`
  four numbers in blocks of two include a reservation that is used in part when the
  power goes and the end of the numbering.
* One fault and one or two power cuts: a fault followed by a cut in the recovery is what
  the A/B stores are built for. Two faults make several of these stores refuse to load,
  as they are meant to.
* Five ticks with observations every two let the clock be set back in one boot and be
  observed again in the next.
* Two commits: the second meets what the first left in the journal. Two numbers leave one
  to draw beside a commit and one behind it.
* One overlap: two calls that meet.
* One timeout puts one request behind the task that gave it up: an append, a refresh or a
  batch.
* `backlog` follows a behaviour up to two mishaps (`TwoMishaps`): each of a fault, a power
  cut, an overlap and a timeout, and each pair. Its safety properties are proved for any
  number of them (section 4).
* The number of resets, failures, faults, crashes, outages and samples is bounded
  by a constant in the guard of the action concerned.

Deadlock is checked in `cmd_fair`, `cmd_ota_flight`, `provisioning` and `telemetry`.
Elsewhere a behaviour may really stop: with failing writes a ledger that cannot be
read ends `app_main()` (`cmd_mixed`); in `ota_update` the last image may
be installed and in service; in the runs of the time keeper and of the retired runtime
the numbers, ticks or commands of the instance are used up, or the boot has given up.

### What holds only within a limit

* `WorkingImageKept`, `OnlyFitImagesServe`, `AlwaysComesBack` and `UpdateSettles` have
  the premise `Backed`: otadata has an entry of a confirmed image, or one never written.
  The cancellation of an update can take the last such entry away (section 6).
* `FailedUpdateIsNotRunning` also has the premise `OneMishap`: at most one failing
  operation and one unplanned reset so far. If the ledger write in `ota_task()` and the
  reselection in `pm_ota_cancel_pending_boot()` both fail, the new image stays selected
  although its command is reported as failed.
* `FailureIsHarmless` holds while fewer than two operations failed (section 6).
* `UpdateSettles` and `NothingStranded` are conditional on working storage: the code
  ignores the error of the last ledger write, and the entry then waits for the next
  boot.
* `InTurnNumbersUsedOnce`, `InTurnAcknowledgementKept`, `PrefixIsMissing`,
  `DeletesOnlyKnown` and `InTurnGenerationsAgree` have the premise that no two calls into
  `pm_sequence.c` overlapped so far. `AcknowledgedIsKnown`, `SuccessIsComplete` and
  `FailureIsHarmless` have not.
* `DeletesOnlyKnown` is also about batches that were read: the server may acknowledge what
  it took from one that was not.
* `DurableAppends` excepts the `exposed` records: those behind the fragment a full card
  left in the same file, which the recovery cuts through because it counts records from
  the header, and those under a card identity that could not be stored.
* `DeliveryResumes` excepts a driver that is up and posts no event (`Unheard`).
* `PowerCutsNeverHalt` is about power cuts alone. After a failing write, or after two
  overlapping calls, the load may refuse two slots, and the device stops at every boot.
* `CommitFinishes` excepts the ends the code has no way out of: a boot that gave up, a
  command whose RUNNING was never written, a floor overtaken by a number drawn between
  prepare and commit, a sequence store whose very first slot was written without its
  selector, and one to which an overlapping call put an older state back.

### Fairness

* `CommandRuntime`: weak fairness of the boot, the control task, each OTA task and
  the callback that enqueues. Each of them blocks on a queue, an event or the lock
  most of the time, so FreeRTOS gets to run every one of them. Nothing is assumed of the server,
  of delivery or of resets.
* `OtaUpdate`: weak fairness of the boot and of the OTA task. Faults and crashes are
  not fair and are bounded.
* `TelemetryDelivery`: weak fairness of the network task, of time, of the driver's
  event for an association under way, and of the server storing what is on the wire.
  Outages need not end: `DeliveryResumes` speaks of times without one.
* `RuntimeStartup`: weak fairness of `app_main()`'s next step and of each created task
  reaching the gate. A failing operation and a power cut are not fair and are bounded.
* `DestructiveReset`: weak fairness of the control task, of a number being drawn to its
  end, of the calls into the store and of the boot. Nobody has to send a command,
  acknowledge a result or switch the power.

## 4. Theorems

Each theorem is about `Spec` (`BootSpec` for the startup), without fairness, and holds
for every value of the constants that satisfies their assumptions: any ledger size, any
set of commands, any number of updates, faults, resets and power cuts. The proofs follow
one pattern: an invariant that is inductive, one lemma per action and conjunct, and a
last step that reads the property off the invariant.

### CommandRuntimeProofs

* `TypeCorrect`: `[]TypeOK`.
* `CrashSafety`: `[]BootSeesLatest`. The property says nothing of the slot that is not
  selected, hence `Durable`: the slot of the current generation holds exactly the RAM
  ledger, and no readable slot is more than one generation ahead. `LedgerSteps` first
  reduces every action of the runtime to a handful of ledger steps, so that
  `DurableStep` is proved once for those and not for thirty actions.
* `Identities` (`UniqueIdentities`), `PointersStayGood` (`HeldEntriesAreLive`),
  `HoldersAreSingle` (`OneHolder`), `AcceptedIsKept` (`NothingStranded`), from `Inv`:
  `GoodLedgers` (entries are distinct and the free ones empty, in RAM and in every slot
  that may be loaded), `Holders` (who has the address of which entry, and of what type
  and state it is; before the boot is over nobody has one) and `Kept`.
* `CommittedStays` (`CommittedResultIsFinal`) and `RebootsOnce` (`RebootAtMostOnce`), from
  `Inv2`. They have to hold in the ledger the *next* boot loads, which may be a write
  whose failure was reported; `Futures` is the set of those ledgers. `Results`: all of
  them agree with what the server has committed or was sent. `Rebooted`: a command that
  restarted the device is remembered in all of them until its result is committed. It
  cannot be evicted before, because a request reports the results before its answer
  brings commands, and a committed command is not offered again. So neither depends on
  the size of the ledger.

### OtaUpdateProofs

* `OtaTypes`: `[]TypeOK`.
* `UpdateKeepsWorkingImage` (`WorkingImageKept`) and `UnfitNeverServes`
  (`OnlyFitImagesServe`). `Inv` says what otadata stands for: a confirmed entry that
  decides is that of a sound image, and of the running one (`Confirmed`); behind an image
  on trial the confirmed one is sound (`OnTrial`) or the factory image is (`Factory`); and
  the boot is about the image the bootloader chose (`Trial`). The update erases the
  partition that is not running, and these conjuncts say that it is not the sound one.
* `FailedNotRunning` (`FailedUpdateIsNotRunning`), for every number of updates and every
  placement of one fault and one reset. The invariant `Story` says what a boot of the
  command's image (`Fresh`) would mean. Images are numbered by their commands and go next
  to the running one (`Numbered`); a selected update was not given up, neither in RAM nor
  in the saved ledger (`SelectedHonest`); once confirmed, its checkpoint says VALID until
  the ledger has the outcome (`Proven`), which takes that an update on trial is really
  validated (`Unhidden`). The hard part is an update given up after it was selected: the
  running image is selected again in front of it, and the bootloader returns to the update
  if that trial is cut short. `Reselected` counts: getting there took the fault, cutting
  the trial short took the reset, so the next trial succeeds. That needs what holds before
  any mishap (`Unharmed`), what stands behind a trial otherwise (`Behind`), and where the
  selection points during an installation (`Placed`, `Selecting`).

### ProvisioningProofs

* `ProvisioningTypes`: `[]TypeOK`, the wrapping counter included.
* `SelectionIsVetted`: the inductive invariant `Inv` adds `Staged`: an open transaction is
  on the slot that is not selected, the slot and the candidate hold its content, and a
  transaction marked as tested has a vetted content.
* `PriorSlotPreserved`: no step writes the selected slot.
* `Refinement`: `Provisioning` implements `AtomicConfig`, by `Inv` and the facts that
  the selected slot is untouched (`SelectedKept`), that the selector only moves to a
  vetted slot (`SelectorMoves`) and that `vetted` only grows (`VettedGrows`).
* `NothingOrphaned` (`NoOrphanTransaction`) and `IdentityAdopted`
  (`IdentityFollowsConfig`), which are inductive with `Inv` and by themselves.

### RuntimeProofs

About `RuntimeStartup` (`BootSpec`), from `BootInv`:

* `StartupTypes`: `[]BootTypeOK`.
* `NetworkLast` (`NetworkStartsLast`) from `Gate`: which bits are set, and what each step
  of `app_main()` has waited for.
* `FlashTimeAscends` (`CheckpointAscends`) and `ReadersAheadOfFlash`
  (`NoTimeBeforeCheckpoint`), from `Marks` (a checkpoint is in the slot of its generation)
  and `Floor` (every copy of the last time, in the supervisor and in the reader, is at
  least the one on flash).

About `TelemetryDelivery` (`Spec`), from `Inv`:

* `TelemetryTypes`: `[]TypeOK`, with the bounds on backoff and deadlines (`DelayBound`).
* `SamplesAccounted` (`EverySampleAccounted`), `TimersStayTogether` (`TimersAgree`) and
  the action properties `NewestFirst` (`NewestIsSent`) and `NoDrift` (`CadenceKept`), from
  `Samples`: a sample is in flight exactly during a request, the pending one is the
  newest and was never sent. `NoDrift` rests on the division in
  `pm_telemetry_next_fixed_deadline()`.

### JournalProofs

`AppendsSurvive` (`DurableAppends`) and `IndexIsSound` (`IndexCoversCard`), for every
segment size, card size and batch size and any number of records, faults and power cuts.
Neither property is inductive: what is on the card now says nothing of what reclaiming,
recovery or a format will take away. `Inv` adds

* `Named`: the last number in a segment's name, and the one in RAM that would become
  current.tmp's, is at least every answered record in the file; so
  `reclaim_acknowledged_segments()`, which goes by the name, deletes only acknowledged
  ones (`ReclaimKeeps`). A power cut loses the number in RAM, and recovery takes it from
  the last record of the file again, which needs
* `Ascends`: the whole records of current.tmp stand in the order in which they were drawn,
  the last one being the greatest; and with it `Drawn`: no number on the card or answered
  is one still to be drawn;
* `Marked`: an answered record behind a fragment is an exposed one, and (`Unkept`) so is
  everything answered under an identity that is not on the card; so
  `recover_current()`, which costs at most the last record its end if there is a fragment
  in front of it, loses no other answered record (`TruncationView`, `RecoveredView`);
* `Headed`: while the storage serves, it never appends to a file without a good header,
  whose records no scan would find;
* `Indexed`: the index covers the card, and a missing oldest number (0) means an empty
  card, which is what makes the update of the index by an append right
  (`ExtendedCovers`). A rebuilt index is complete or leaves the bounds as they were
  (`RebuiltView`).

`OnCard(c, s, q)` is the set of records in a current file, segments and quarantined
files, by membership; `CardRecordsAre` shows that it is what the scan of `Intact` finds.
TLC checked `Inv` as an invariant on a small instance before it was proved.

### SequenceProofs and BacklogProofs

The invariant is `VouchInv`, which holds however calls overlap, and `BacklogInv` and
`CardInv` while `overlaps = 0`. The count only grows (`OverlapsGrow`), so a step to a
state without an overlap is one from such a state, and a call that begins in it finds no
other under way.

* `OnlyKnownAcknowledged` (`AcknowledgedIsKnown`), without a premise: the acknowledgements
  held anywhere, in RAM, in a slot or in a call under way (`Acks`), come from the server's
  answers (`Vouched`). A call that puts an older copy back brings an older answer back.
* `NoNumberTwice` (`InTurnNumbersUsedOnce`), `AcksSurvive` (`InTurnAcknowledgementKept`),
  `CutsNeverHalt` (`PowerCutsNeverHalt`). The invariant `SeqInv` is about the slot a boot
  would load (`Elected`). It *covers* what was handed out and acknowledged, because a
  write is numbered one above the RAM state and no slot is further ahead: after any write
  the elected slot is the one from before, or the candidate, which covers it too.
* `PrefixesAreMissing` (`PrefixIsMissing`) and the action property `OnlyKnownDeleted`
  (`DeletesOnlyKnown`), from `CardInv`. Every file and the queue of the storage task
  ascend, and a number still coming, queued or in the hand of a task, is above those on
  the card (`Shape`); so what lies below the first record of the card never gets there
  (`Flow`). The last record of a file is its highest, so a file whose last record is
  acknowledged holds nothing else (`Trusted`).

### ResetProofs

* `SuccessMeansDone` (`SuccessIsComplete`) and `FailedMeansUntouched`
  (`FailureIsHarmless`), for calls that overlap as well. The records a commit can go on
  from, in RAM or in the journal, are its `Chances`. Each is `Honest`: the effects its
  phase vouches for are done. The legible ones are of one transaction, the younger the
  further (`OneTransaction`), a commit that destroyed something has one (`Resumable`),
  and one that failed has none (`Harmless`).
* `GenerationsMatch` (`InTurnGenerationsAgree`). `AgreeInv`, which holds while
  `overlaps = 0`, follows the reset generation from the record through a call of the
  control task into the RAM state, the slots and the configuration: every elected slot
  carries the configuration's generation, or that of the record the boot goes on with
  (`Rightful`), and a record says of both only what is true (`Configured`, `Floored`).

### Assumptions

Those on the constants, which TLC evaluates in every run: sizes and limits are positive
numbers, counts are naturals, commands have a known type, the null values are no values,
the cadences have a longest one, and the clock's error is such that a time is positive
and an observation period is longer than a step back. No theorem has a hypothesis of its
own: `Backed`, `OneMishap`, `faults < 2` and `overlaps = 0` are part of the properties.

### Only model-checked

* Liveness, which is out of the prover's reach: `AcceptedIsSettled`, `AlwaysComesBack`,
  `UpdateSettles`, `DeliveryResumes`, `Settles` of the startup, `CommitFinishes`.
* `BatchIsNext` of the journal. The batch is the fold of `insert_sorted()` over the
  records of all files, in the order of the directory; what a fold computes for every
  sequence takes induction over sequences. The same holds of the type of the batch, so
  `Inv` of `JournalProofs` leaves `batch` out; nothing else depends on it.

`ProvisioningTypes`, `PriorSlotPreserved`, `TelemetryTypes`, `StartupTypes` and `OtaTypes`
are not repeated in a run: the theorems hold for every instance.

## 5. Not modelled

* Bytes: JSON, canonical forms, signatures, digests, CRCs and TLS, the USB framer, the
  meter's frames. A check of this kind is a choice between its outcomes.
* `pm_ota_version.c`, `pm_command_envelope.c`: pure functions without state.
* Health flags: several tasks update them by read-modify-write without a lock, so an
  update can be lost; they only go into a report and nothing depends on them.
* `pm_state.c`: the active image writes the state and never reads it.
* The meter driver and diagnostics: serial I/O and formatting.
* `pm_command_zeroize_payload()` and the staged operations of `pm_config.c`, which only
  the retired runtime calls; its credential rotation, remote configuration, heartbeat
  contents and measurement aggregation.
* A failing `mkdir()` after a format (`pm_storage.c:702`) and an exchange of the card while
  the device is off, in `StorageJournal`; `BacklogDelivery` has the exchange.
* The copy of a `pm_sequence_state_t` is one step: a copy torn by another task's assignment
  is not modelled.
* A checkpoint slot torn by a power cut inside NVS: `pm_ota_load_checkpoint()` would
  then fail on every boot.
* Two calls of `pm_time_now()` at once (`ota_task()` takes no lock): a later reader may
  then get a time earlier by what passed between them.

## 6. Findings and known disagreements

Three runs end in a violation:

1. `cmd_ota_flight`: a refused OTA claim releases the claim of the running task, so
   a third OTA command starts a second task on the same partition.

The others are in retired code and have one cause, the missing lock of `pm_sequence.c`.

2. `sequence_reuse`: an acknowledgement by the network task that copied the sequence
   state before, and assigns it after, the interval task drew a number puts the older
   number back, in RAM and in NVS, and the number is handed out again. The other way
   round, a number drawn from a copy older than the acknowledgement takes the
   acknowledgement back: without its premise `InTurnAcknowledgementKept` is false, on the
   same interleaving.
3. `generations_diverge`: a number drawn from a copy older than the raised floor puts the
   old reset generation back, and the configuration gets the new one.

Further places where the code and a document, a comment or an expectation differ. The
models reach these states; no property denies them.

* `pm_commands.c:323`: a full ledger evicts the first entry in a final state, reported or
  not; docs/COMMANDS.md:15 promises that a result remains until it is committed.
* `pm_commands.c:415`: acknowledged results are never removed from the ledger and are
  reported again in every request.
* `pm_ota.c:605`: a reset between the reselection of the running image and the `FAILED`
  checkpoint of a cancelled update makes the next boot report the update as succeeded.
* `pm_ota.c:605`: the reselection of the running image, which was confirmed, enters it as
  new. It is on trial again and the entry it replaces or leaves behind may be no
  confirmed one, so that a fault or a reset in this trial can end in an image that was
  never validated (`Backed` is false then).
* `pm_ota.c:359`: a second installation numbers its checkpoints from one again, and the
  loader keeps preferring the old ones.
* `pm_config.c:353`: after a commit whose selector reached the flash and whose
  `nvs_commit()` failed, `status` reports the old configuration while the next boot loads
  the new one.
* `pm_storage.c:318`: once FULL, an append is refused before it could reclaim a segment,
  also when everything has been acknowledged, although the comment at lines 93-96 calls
  FULL not permanent; only a restart or a format leaves it.
* `pm_network.c:1501`: a gap inside a segment is reported before the records in front of
  it were uploaded; the answer lies below the reported range and counts as a refusal, and
  the report is repeated before any backlog is sent.
* `pm_sequence.c:113`: two overlapping calls copy the same generation; the second reads the
  selector the first has moved and writes the other slot, so that both slots have one
  generation and different contents, and every later boot refuses them.
* `pm_sequence.c:48`: after a power cut between the first slot and its selector every later
  write is refused.
* `app_main.c:1263`: cleanup erases slot `a` before slot `b`; if the newest record is in
  `a`, a power cut in between brings back a finished record whose command is gone, and
  every later prepare is refused.
* `app_main.c:1290`: an intent whose write reports an error and reached the flash, and
  whose erasure fails too, is resumed by the next boot although its commit was refused.
* `app_main.c:1653`: the transition to RUNNING may fail unnoticed; if its repetition at the
  end of `execute_command()` fails too, or the power goes before, the boot finds the commit
  ACCEPTED and `persist_destructive_command_result()` refuses it in every pass.
* `pm_storage.c:707`: a format whose `card_identity()` fails leaves a new identity in RAM;
  what is appended then is set aside by the next start.
* `pm_storage.c:804`: a completion that came too late is taken for the next request's, and
  `send_backlog()` may send a batch that was never read.
* `app_main.c:1890`: a number drawn between prepare and commit overtakes the floor, and
  every pass refuses to raise it.

## 7. Plan

Done: the ledger and its runtime, provisioning, the OTA update, telemetry delivery, time
and startup, and the retired journal, sequence store, delivery and destructive commands;
all of them checked, and every invariant that a run checks stated by a theorem
(section 4). Next, in this order:

1. *Algorithms*: version comparison against an order on triples, the meter's frame check,
   the transition table of `pm_state.c`.
2. *Network details*: the snapshot of credentials, the nonce ring, and the staged
   operations of `pm_config.c`.
