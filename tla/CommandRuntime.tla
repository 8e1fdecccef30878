--------------------------- MODULE CommandRuntime ---------------------------
(***************************************************************************)
(* How the active image (main/app_main_stateless.c) moves commands through *)
(* the ledger: the network task reports results and accepts commands, the  *)
(* control task executes them, OTA tasks run beside it, and every boot     *)
(* reloads the ledger and reconciles what a reset interrupted.             *)
(*                                                                         *)
(* The command lock is a recursive mutex.  The network and OTA tasks hold  *)
(* it for a single ledger operation, which is one step here; the control   *)
(* task holds it across a whole execution and the boot across the whole    *)
(* reconciliation, so their steps are separate and a reset may fall        *)
(* between any two of them.                                                *)
(***************************************************************************)
EXTENDS CommandLedger, Sequences

CONSTANTS MaxResets   \* bound on the unplanned resets of a behaviour

ASSUME ResetsAssumption == MaxResets \in Nat

VARIABLES phase,      \* "off", "reconcile", "up" or "halted"
          at,         \* the entry the boot reconciles next
          checkpoint, \* the OTA stage pm_ota_load_checkpoint() found
          lock,       \* owner of the command lock: "free", "boot", "control"
          queue,      \* s_command_queue: entries waiting for the control task
          acks,       \* whether s_result_ack_queue holds an acknowledgement
          net,        \* the network task
          ctl,        \* the control task
          ota,        \* the OTA task working for each entry, if any
          otaActive,  \* s_ota_task_active
          committed,  \* the final result the server has committed per command
          reboots,    \* how often a reboot command has restarted the device
          resets      \* unplanned resets so far (bounded)

taskVars == <<queue, acks, net, ctl, ota, otaActive>>
bootVars == <<phase, at, checkpoint, lock>>
observed == <<committed, reboots, resets>>
vars == <<ledgerVars, bootVars, taskVars, observed>>

QueueDepth == LedgerSize   \* PM_COMMAND_QUEUE_DEPTH

\* The stages of the OTA checkpoint that the reconciliation tells apart.
Stages == {"valid", "rolled_back", "other"}

\* The network task between the steps of send_current_telemetry(): the results in
\* its request, the commands of the response, the entry being handed on.
NetStates == [pc : {"idle", "sent", "replied", "accepting", "enqueue"},
              reported : SUBSET ((Commands \cup {NoCommand}) \X Reportable),
              offer : SUBSET Commands, entry : Slots]

\* The control task between the steps of control_task() and execute_command().
CtlStates == [pc : {"acks", "receive", "begin", "effect", "finish", "restart"},
              entry : Slots, ok : BOOLEAN]

NetIdle == [pc |-> "idle", reported |-> {}, offer |-> {}, entry |-> 1]
CtlLoop == [pc |-> "acks", entry |-> 1, ok |-> TRUE]

\* Percentages pm_ota_install() reports: 0 when the manifest is verified (less
\* than the 1 percent already recorded, so refused), then those of the download.
OtaPercents == {0, 50}

\* The type invariant: the ledger's generation stays below its limit and its next
\* index within the array (command_accept_locked() wraps it).
TypeOK ==
    /\ ledger \in Ledger
    /\ nvs \in [Keys -> SlotContent]
    /\ failures \in 0 .. MaxFailures
    /\ phase \in {"off", "reconcile", "up", "halted"}
    /\ at \in 1 .. LedgerSize + 1
    /\ checkpoint \in Stages
    /\ lock \in {"free", "boot", "control"}
    /\ queue \in Seq(Slots)
    /\ acks \in BOOLEAN
    /\ net \in NetStates
    /\ ctl \in CtlStates
    /\ ota \in [Slots -> {"none", "install", "cancel", "restart"}]
    /\ otaActive \in BOOLEAN
    /\ committed \in [Commands -> (Terminal \ {"expired"}) \cup {"none"}]
    /\ reboots \in [Commands -> Nat]
    /\ resets \in 0 .. MaxResets

Init ==
    /\ ledger = ZeroLedger
    /\ nvs = [k \in Keys |-> Missing]
    /\ failures = 0
    /\ phase = "off" /\ at = 1 /\ checkpoint = "other" /\ lock = "free"
    /\ queue = <<>> /\ acks = FALSE
    /\ net = NetIdle /\ ctl = CtlLoop
    /\ ota = [i \in Slots |-> "none"] /\ otaActive = FALSE
    /\ committed = [c \in Commands |-> "none"]
    /\ reboots = [c \in Commands |-> 0]
    /\ resets = 0

-----------------------------------------------------------------------------
(***************************************************************************)
(* Resets.  RAM is lost: queues, tasks, lock and flags start afresh.       *)
(***************************************************************************)
PowerOff ==
    /\ phase' = "off" /\ at' = 1 /\ lock' = "free"
    /\ queue' = <<>> /\ acks' = FALSE
    /\ net' = NetIdle /\ ctl' = CtlLoop
    /\ ota' = [i \in Slots |-> "none"] /\ otaActive' = FALSE
    /\ UNCHANGED checkpoint

\* A power cut, a watchdog reset or a panic, at any moment.
Reset ==
    /\ phase # "off" /\ resets < MaxResets
    /\ resets' = resets + 1
    /\ PowerOff
    /\ UNCHANGED <<ledgerVars, committed, reboots>>

-----------------------------------------------------------------------------
(***************************************************************************)
(* Boot: pm_commands_load(), then the checkpoint, then one reconciliation  *)
(* step per entry.  The tasks already run while entries are reconciled,    *)
(* but the network task is held back until the end.                        *)
(***************************************************************************)
BootLoad ==
    /\ phase = "off"
    /\ LoadNewest \/ LoadFresh
    /\ phase' = "reconcile" /\ at' = 1 /\ lock' = "boot"
    /\ checkpoint' \in Stages
    /\ UNCHANGED <<taskVars, observed>>

\* The load fails: app_main returns and nothing of the runtime is started.
BootHalts ==
    /\ phase = "off"
    /\ LoadFails
    /\ phase' = "halted"
    /\ UNCHANGED <<at, checkpoint, lock, taskVars, observed>>

\* The outcome reconcile_interrupted_commands() writes for an entry.
BootOutcome(e) ==
    IF BootAction(e) = "reconcile_ota"
    THEN CASE checkpoint = "valid" -> "succeeded"
           [] checkpoint = "rolled_back" -> "rolled_back"
           [] OTHER -> "failed"
    ELSE IF BootAction(e) = "complete_reboot" THEN "succeeded" ELSE "failed"

Reconciling == phase = "reconcile" /\ at \in Slots

BootSkip ==
    /\ Reconciling
    /\ BootAction(ledger.entries[at]) = "ignore"
    /\ at' = at + 1
    /\ UNCHANGED <<ledgerVars, phase, checkpoint, lock, taskVars, observed>>

\* A full queue would make the reconciliation fail and the device restart.
BootRequeue ==
    /\ Reconciling
    /\ BootAction(ledger.entries[at]) = "requeue"
    /\ Len(queue) < QueueDepth
    /\ queue' = Append(queue, at)
    /\ at' = at + 1
    /\ UNCHANGED <<ledgerVars, phase, checkpoint, lock, acks, net, ctl, ota,
                   otaActive, observed>>

Unsettled == BootAction(ledger.entries[at]) \in
                {"complete_reboot", "fail_interrupted", "reconcile_ota"}

BootSettle ==
    /\ Reconciling
    /\ Unsettled
    /\ Saved(Reconciled(at, BootOutcome(ledger.entries[at])))
    /\ at' = at + 1
    /\ UNCHANGED <<phase, checkpoint, lock, taskVars, observed>>

\* An outcome that cannot be persisted ends the boot in esp_restart().
BootRestart ==
    /\ Reconciling
    /\ Unsettled
    /\ NotSaved(Reconciled(at, BootOutcome(ledger.entries[at])))
    /\ PowerOff
    /\ UNCHANGED observed

\* PM_NETWORK_START_BIT releases the network task.
BootDone ==
    /\ phase = "reconcile" /\ at = LedgerSize + 1
    /\ phase' = "up" /\ lock' = "free"
    /\ UNCHANGED <<ledgerVars, at, checkpoint, taskVars, observed>>

-----------------------------------------------------------------------------
(***************************************************************************)
(* The network task: send_current_telemetry().                             *)
(***************************************************************************)
NetOnly == UNCHANGED <<bootVars, acks, queue, ctl, ota, otaActive, observed>>

\* append_command_results() under the lock, then the request goes out.
NetSend ==
    /\ phase = "up" /\ lock = "free" /\ net.pc = "idle"
    /\ net' = [net EXCEPT !.pc = "sent",
                 !.reported = {<<e.cmd, e.state>> : e \in
                     {ledger.entries[i] : i \in {j \in Slots :
                         ledger.entries[j].state \in Reportable}}}]
    /\ NetOnly /\ UNCHANGED ledgerVars

Final(c) == {s \in Terminal : <<c, s>> \in net.reported}

\* The server commits the request and answers with commands it has no final
\* result for: an earlier delivery may be repeated.  (The server is external.)
ServerCommits ==
    /\ net.pc = "sent"
    /\ committed' = [c \in Commands |->
                       IF committed[c] = "none" /\ Final(c) # {}
                       THEN CHOOSE s \in Final(c) : TRUE ELSE committed[c]]
    /\ \E offer \in SUBSET {c \in Commands : committed'[c] = "none"} :
          net' = [net EXCEPT !.pc = "replied", !.offer = offer]
    /\ UNCHANGED <<ledgerVars, bootVars, acks, queue, ctl, ota, otaActive,
                   reboots, resets>>

\* The request or the response is lost, times out or fails validation.
NetLost ==
    /\ net.pc \in {"sent", "replied"}
    /\ net' = NetIdle
    /\ NetOnly /\ UNCHANGED ledgerVars

\* notify_result_acceptance(): one acknowledgement event per reported result;
\* only whether any is waiting is kept, a full queue drops the rest.
NetNotify ==
    /\ net.pc = "replied"
    /\ acks' = (acks \/ net.reported # {})
    /\ net' = [net EXCEPT !.pc = "accepting", !.reported = {}]
    /\ UNCHANGED <<ledgerVars, bootVars, queue, ctl, ota, otaActive, observed>>

Accepting(c) == /\ net.pc = "accepting" /\ c \in net.offer /\ lock = "free"

Dropped(c) == net' = [net EXCEPT !.offer = @ \ {c}]

\* parse_commands(): a duplicate, a conflicting duplicate and a command without
\* room in the ledger are dropped.
NetIgnore(c) ==
    /\ Accepting(c)
    /\ AlreadyKnown(c) \/ NoRoom
    /\ Dropped(c)
    /\ NetOnly /\ UNCHANGED ledgerVars

\* A new command is stored; only one that has not expired is handed on.
NetAccept(c) ==
    /\ Accepting(c)
    /\ ~AlreadyKnown(c)
    /\ \E i \in Slots, late \in BOOLEAN :
          /\ IsVictim(i)
          /\ Saved(WithCommand(i, c, late))
          /\ IF late THEN Dropped(c)
             ELSE net' = [net EXCEPT !.offer = @ \ {c}, !.pc = "enqueue",
                                     !.entry = i]
    /\ NetOnly

\* The ledger could not be persisted: the old entry is back, nothing is queued.
NetAcceptFails(c) ==
    /\ Accepting(c)
    /\ ~AlreadyKnown(c)
    /\ \E i \in Slots, late \in BOOLEAN :
          IsVictim(i) /\ NotSaved(WithCommand(i, c, late))
    /\ Dropped(c)
    /\ NetOnly

\* Fault of NetEnqueue: the entry is queued only if nothing else waits.
NetEnqueueDrops ==
    /\ net.pc = "enqueue"
    /\ queue' = IF queue = <<>> THEN <<net.entry>> ELSE queue
    /\ net' = [net EXCEPT !.pc = "accepting"]
    /\ UNCHANGED <<ledgerVars, bootVars, acks, ctl, ota, otaActive, observed>>

\* command_received(), called after the lock was released: the entry's address
\* goes to the control task unless its queue is full.
NetEnqueue ==
    /\ net.pc = "enqueue"
    /\ queue' = IF Len(queue) < QueueDepth THEN Append(queue, net.entry)
                ELSE queue
    /\ net' = [net EXCEPT !.pc = "accepting"]
    /\ UNCHANGED <<ledgerVars, bootVars, acks, ctl, ota, otaActive, observed>>

NetDone ==
    /\ net.pc = "accepting" /\ net.offer = {}
    /\ net' = NetIdle
    /\ NetOnly /\ UNCHANGED ledgerVars

-----------------------------------------------------------------------------
(***************************************************************************)
(* The control task: control_task() and execute_command().                 *)
(***************************************************************************)
CtlOnly == UNCHANGED <<phase, at, checkpoint, acks, queue, net, observed>>

Running == phase \in {"reconcile", "up"}

\* process_result_acknowledgements() drains its queue into the ledger.
CtlAcks ==
    /\ Running /\ ctl.pc = "acks" /\ lock = "free"
    /\ Acknowledged /\ acks' = FALSE
    /\ ctl' = [ctl EXCEPT !.pc = "receive"]
    /\ UNCHANGED <<bootVars, queue, net, ota, otaActive, observed>>

\* Fault of CtlReceive: the queue is peeked at, the entry stays in it.
CtlReceivePeek ==
    /\ ctl.pc = "receive" /\ queue # <<>>
    /\ ctl' = [pc |-> "begin", entry |-> Head(queue), ok |-> TRUE]
    /\ UNCHANGED <<ledgerVars, bootVars, queue, acks, net, ota, otaActive, observed>>

\* xQueueReceive() returns an entry.  No lock is needed for this step.
CtlReceive ==
    /\ ctl.pc = "receive" /\ queue # <<>>
    /\ ctl' = [pc |-> "begin", entry |-> Head(queue), ok |-> TRUE]
    /\ queue' = Tail(queue)
    /\ UNCHANGED <<ledgerVars, bootVars, acks, net, ota, otaActive, observed>>

\* xQueueReceive() times out after a second.
CtlTimeout ==
    /\ ctl.pc = "receive" /\ queue = <<>>
    /\ ctl' = [ctl EXCEPT !.pc = "acks"]
    /\ CtlOnly /\ UNCHANGED <<ledgerVars, lock, ota, otaActive>>

\* The lock is taken and RUNNING recorded; a failure to record it is ignored.
CtlBegin ==
    /\ ctl.pc = "begin" /\ lock = "free"
    /\ \/ Transitioned(ctl.entry, "running", 1)
       \/ NotTransitioned(ctl.entry, "running", 1)
    /\ lock' = "control"
    /\ ctl' = [ctl EXCEPT !.pc = "effect"]
    /\ CtlOnly /\ UNCHANGED <<ota, otaActive>>

CtlType == ledger.entries[ctl.entry].cmd.type

\* Diagnostics and self tests; only the meter self test can fail.
CtlProbe ==
    /\ ctl.pc = "effect"
    /\ CtlType \in {"diagnostics_snapshot", "network_self_test",
                    "meter_self_test"}
    /\ \E ok \in {TRUE, CtlType # "meter_self_test"} :
          ctl' = [ctl EXCEPT !.pc = "finish", !.ok = ok]
    /\ CtlOnly /\ UNCHANGED <<ledgerVars, lock, ota, otaActive>>

\* A reboot is recorded as AWAITING_REBOOT before anything happens.
CtlReboot ==
    /\ ctl.pc = "effect" /\ CtlType = "reboot"
    /\ \/ /\ Transitioned(ctl.entry, "awaiting_reboot", 100)
          /\ ctl' = [ctl EXCEPT !.pc = "restart"]
          /\ lock' = "free"
       \/ /\ NotTransitioned(ctl.entry, "awaiting_reboot", 100)
          /\ ctl' = [ctl EXCEPT !.pc = "finish", !.ok = FALSE]
          /\ UNCHANGED lock
    /\ CtlOnly /\ UNCHANGED <<ota, otaActive>>

\* esp_restart() half a second later.
CtlRestart ==
    /\ ctl.pc = "restart"
    /\ reboots' = [reboots EXCEPT ![ledger.entries[ctl.entry].cmd] = @ + 1]
    /\ PowerOff
    /\ UNCHANGED <<ledgerVars, committed, resets>>

\* claim_ota_task() and xTaskCreate() succeed: the OTA task owns the entry now.
CtlOtaStart ==
    /\ ctl.pc = "effect" /\ CtlType = "ota_install"
    /\ ~otaActive
    /\ otaActive' = TRUE
    /\ ota' = [ota EXCEPT ![ctl.entry] = "install"]
    /\ lock' = "free"
    /\ ctl' = CtlLoop
    /\ CtlOnly /\ UNCHANGED ledgerVars

\* The claim is refused, or memory, the credential snapshot or the task cannot
\* be had.  Every one of these paths runs release_ota_task().
CtlOtaRefused ==
    /\ ctl.pc = "effect" /\ CtlType = "ota_install"
    /\ otaActive' = FALSE
    /\ ctl' = [ctl EXCEPT !.pc = "finish", !.ok = FALSE]
    /\ CtlOnly /\ UNCHANGED <<ledgerVars, lock, ota>>

\* The final transition; its result is ignored and the lock released.
CtlFinish ==
    /\ ctl.pc = "finish"
    /\ LET e == ledger.entries[ctl.entry]
           state == IF ctl.ok THEN "succeeded" ELSE "failed"
           progress == IF ctl.ok THEN 100 ELSE e.progress
       IN  \/ Transitioned(ctl.entry, state, progress)
           \/ NotTransitioned(ctl.entry, state, progress)
    /\ lock' = "free"
    /\ ctl' = CtlLoop
    /\ CtlOnly /\ UNCHANGED <<ota, otaActive>>

-----------------------------------------------------------------------------
(***************************************************************************)
(* The OTA task: ota_task() and ota_progress().  What pm_ota_install() does *)
(* to the flash is the subject of OtaUpdate.                               *)
(***************************************************************************)
OtaOnly == UNCHANGED <<bootVars, queue, acks, net, ctl, observed>>

\* A report of an unchanged percentage rewrites the same record and is left out.
OtaProgress(i) ==
    /\ ota[i] = "install" /\ lock = "free"
    /\ \E p \in OtaPercents \ {ledger.entries[i].progress} :
          \/ Transitioned(i, "running", p)
          \/ NotTransitioned(i, "running", p)
    /\ OtaOnly /\ UNCHANGED <<ota, otaActive>>

\* The image is installed and selected; the restart waits for the ledger.
OtaInstalled(i) ==
    /\ ota[i] = "install" /\ lock = "free"
    /\ \/ /\ Transitioned(i, "awaiting_reboot", 100)
          /\ ota' = [ota EXCEPT ![i] = "restart"]
       \/ /\ NotTransitioned(i, "awaiting_reboot", 100)
          /\ ota' = [ota EXCEPT ![i] = "cancel"]
    /\ OtaOnly /\ UNCHANGED otaActive

\* The manifest is rejected, the time is untrusted or pm_ota_install() fails.
OtaInstallFails(i) ==
    /\ ota[i] = "install"
    /\ ota' = [ota EXCEPT ![i] = "cancel"]
    /\ OtaOnly /\ UNCHANGED <<ledgerVars, otaActive>>

\* pm_ota_cancel_pending_boot(), the FAILED transition and the release.
OtaCancel(i) ==
    /\ ota[i] = "cancel" /\ lock = "free"
    /\ \/ Transitioned(i, "failed", ledger.entries[i].progress)
       \/ NotTransitioned(i, "failed", ledger.entries[i].progress)
    /\ ota' = [ota EXCEPT ![i] = "none"]
    /\ otaActive' = FALSE
    /\ OtaOnly

OtaRestart(i) ==
    /\ ota[i] = "restart"
    /\ PowerOff
    /\ UNCHANGED <<ledgerVars, observed>>

-----------------------------------------------------------------------------
Boot == BootLoad \/ BootHalts \/ BootSkip \/ BootRequeue \/ BootSettle
            \/ BootRestart \/ BootDone

Network == \/ NetSend \/ NetLost \/ NetNotify \/ NetEnqueue \/ NetDone
           \/ \E c \in Commands :
                 NetIgnore(c) \/ NetAccept(c) \/ NetAcceptFails(c)

Control == CtlAcks \/ CtlReceive \/ CtlTimeout \/ CtlBegin \/ CtlProbe
              \/ CtlReboot \/ CtlRestart \/ CtlOtaStart \/ CtlOtaRefused
              \/ CtlFinish

OtaTask(i) == OtaProgress(i) \/ OtaInstalled(i) \/ OtaInstallFails(i)
                 \/ OtaCancel(i) \/ OtaRestart(i)

Next == \/ Boot \/ Network \/ ServerCommits \/ Control \/ Reset
        \/ \E i \in Slots : OtaTask(i)

Spec == Init /\ [][Next]_vars

\* Tasks are scheduled: FreeRTOS never starves the boot, the control task, an
\* OTA task or the network task's callback into the queue.  Nothing is assumed of
\* delivery, of the server or of resets.
FairSpec == /\ Spec
            /\ WF_vars(Boot) /\ WF_vars(Control) /\ WF_vars(NetEnqueue)
            /\ \A i \in Slots : WF_vars(OtaTask(i))

-----------------------------------------------------------------------------
(***************************************************************************)
(* Properties.                                                             *)
(***************************************************************************)
\* Crash safety of persist() and commands_load_locked(): whatever writes failed
\* and whenever the device resets, the loader accepts a slot and returns either
\* exactly the ledger last acknowledged to a caller, or the one write after it
\* whose failure was reported but which reached the flash.
BootSeesLatest ==
    ledger.generation > 0 =>
        /\ Loadable
        /\ \/ nvs[SelectedKey].ledger = ledger
           \/ nvs[SelectedKey].ledger.generation = ledger.generation + 1

\* The duplicate test of command_accept_locked() keeps identities unique: no two
\* entries share a command id or an idempotency key, so a redelivery or a
\* conflicting envelope never gets a second entry.
UniqueIdentities ==
    \A i, j \in Slots :
        i # j /\ ledger.entries[i].cmd # NoCommand
              /\ ledger.entries[j].cmd # NoCommand =>
            /\ ledger.entries[i].cmd.id # ledger.entries[j].cmd.id
            /\ ledger.entries[i].cmd.key # ledger.entries[j].cmd.key

\* Entries whose address some task holds: queued, about to be queued, being
\* executed, or handed to an OTA task.
InQueue(i) == \E k \in DOMAIN queue : queue[k] = i
InControl(i) == ctl.entry = i /\ ctl.pc \in {"begin", "effect", "finish", "restart"}
InNetwork(i) == net.entry = i /\ net.pc = "enqueue"
Held(i) == InQueue(i) \/ InControl(i) \/ InNetwork(i) \/ ota[i] # "none"

\* Raw pointers into the ledger stay good: an entry that a task still holds is
\* occupied and not settled, so accepting another command never overwrites it
\* under the task (queue of pm_command_t*, ota_task's context).
HeldEntriesAreLive ==
    \A i \in Slots : Held(i) =>
        ledger.entries[i].state \in {"accepted", "running", "awaiting_reboot"}

\* An entry has one holder: it is never queued twice nor executed by two tasks.
OneHolder ==
    /\ \A j, k \in DOMAIN queue : j # k => queue[j] # queue[k]
    /\ \A i \in Slots :
          Cardinality({h \in 1 .. 4 : \/ h = 1 /\ InQueue(i)
                                      \/ h = 2 /\ InControl(i)
                                      \/ h = 3 /\ InNetwork(i)
                                      \/ h = 4 /\ ota[i] # "none"}) <= 1

\* As long as NVS writes succeed, an unsettled entry always has a task that will
\* settle it: nothing accepted is forgotten while the device is up.
NothingStranded ==
    phase = "up" /\ failures = 0 /\ ledger.generation < MaxGeneration =>
        \A i \in Slots :
            ledger.entries[i].state \in {"accepted", "running", "awaiting_reboot"}
                => Held(i)

\* A result the server committed is final: no reset, failed write or redelivery
\* makes the ledger carry another state for that command.
CommittedResultIsFinal ==
    \A c \in Commands, i \in Slots :
        phase \in {"reconcile", "up"} /\ committed[c] # "none"
          /\ ledger.entries[i].cmd = c =>
            ledger.entries[i].state = committed[c]

\* A reboot command restarts the device at most once, however often it is
\* redelivered and wherever a reset interrupts it.
RebootAtMostOnce == \A c \in Commands : reboots[c] <= 1

\* With working storage, and until the generation numbers run out, every accepted
\* command gets a final state, although resets interrupt any task.
AcceptedIsSettled ==
    \A i \in Slots :
        (ledger.entries[i].state \in {"accepted", "running", "awaiting_reboot"})
            ~> (ledger.entries[i].state \in Terminal \/ ledger.generation = MaxGeneration)

\* test/host/test_firmware.py:394 "ota_is_single_flight": at most one OTA task.
OtaSingleFlight == Cardinality({i \in Slots : ota[i] # "none"}) <= 1

=============================================================================
