--------------------------- MODULE RuntimeStartup ---------------------------
(***************************************************************************)
(* How the runtime comes up: app_main() of main/app_main_stateless.c from  *)
(* the creation of the tasks (main/runtime_startup.c) to the start of the  *)
(* network, the gate at which the tasks wait (begin_runtime_task()), and   *)
(* the time they keep once they run (TimeKeeper).  The post-boot           *)
(* validation of an image is OtaUpdate's and the reconciliation of the     *)
(* commands CommandRuntime's; here they are steps that pass, fail or       *)
(* reject the image.                                                       *)
(***************************************************************************)
EXTENDS TimeKeeper, Sequences, SequencesExt

CONSTANT MaxCrashes   \* bound: power cuts

ASSUME StartupAssumption == MaxCrashes \in Nat

VARIABLES
  main,         \* where app_main() is
  task,         \* what became of each task
  gateBits,     \* s_runtime_start_gate
  unverified,   \* the running image waits for its verification
  crashes

startVars == <<main, task, gateBits, unverified, crashes>>
bootVars == <<timeVars, startVars>>

TaskSet == <<"measurement", "control", "supervisor">>
Gated == ToSet(TaskSet)
AllTasks == Gated \cup {"network"}
NoTasks == [t \in AllTasks |-> "none"]

BootInit ==
  /\ TimeInit
  /\ main = "off" /\ task = NoTasks /\ gateBits = {} /\ unverified = TRUE /\ crashes = 0

\* esp_restart(), or the power going and coming.
Restart ==
  /\ TimeRestarts
  /\ main' = "off" /\ task' = NoTasks /\ gateBits' = {}

\* app_main() as far as the task set.
PowerOn ==
  /\ main = "off"
  /\ time' = LoadedTime(uptime)
  /\ main' = "create"
  /\ UNCHANGED <<uptime, wall, clock, marks, observer, reader, faults, task, gateBits, unverified,
                 crashes>>

\* pm_runtime_create_task_set(): the tasks in order; they wait at the gate.
CreateTask ==
  /\ main = "create"
  /\ \E i \in DOMAIN TaskSet :
       /\ task[TaskSet[i]] = "none"
       /\ \A j \in 1..i - 1 : task[TaskSet[j]] # "none"
       /\ task' = [task EXCEPT ![TaskSet[i]] = "created"]
       /\ main' = IF i = Len(TaskSet) THEN "network" ELSE main
  /\ UNCHANGED <<timeVars, gateBits, unverified, crashes>>

\* pm_runtime_delete_task_set().
DeleteTaskSet == [t \in AllTasks |-> IF t \in Gated THEN "none" ELSE task[t]]

\* A task that cannot be created takes the others with it, and app_main()
\* returns.
CreateFails ==
  /\ main = "create" /\ Faulty
  /\ task' = DeleteTaskSet
  /\ main' = "stopped"
  /\ UNCHANGED <<uptime, wall, clock, time, marks, observer, reader, gateBits, unverified, crashes>>

\* pm_network_start(), whose failure is remembered, and the start bit.
StartNetwork ==
  /\ main = "network"
  /\ \/ task' = [task EXCEPT !["network"] = "created"] /\ NoFault
     \/ task' = task /\ Faulty
  /\ gateBits' = gateBits \cup {"start"}
  /\ main' = "await"
  /\ UNCHANGED <<uptime, wall, clock, time, marks, observer, reader, unverified, crashes>>

\* Fault of GateOpen: the tasks wait for the network's bit.
GateOpenLate == "network" \in gateBits

GateOpen == "start" \in gateBits

\* begin_runtime_task(): a task that the watchdog does not take ends.
BeginTask(t) ==
  /\ t \in Gated /\ task[t] = "created" /\ GateOpen
  /\ \/ /\ task' = [task EXCEPT ![t] = "running"]
        /\ gateBits' = gateBits \cup {t}
        /\ NoFault
     \/ /\ task' = [task EXCEPT ![t] = "ended"]
        /\ gateBits' = gateBits \cup {"failed"}
        /\ Faulty
  /\ UNCHANGED <<uptime, wall, clock, time, marks, observer, reader, main, unverified, crashes>>

\* Fault of AllReady: one ready task is enough.
AllReadyAny == gateBits \cap Gated # {} /\ "failed" \notin gateBits

AllReady == Gated \subseteq gateBits /\ "failed" \notin gateBits

BecomeReady ==
  /\ main = "await" /\ AllReady
  /\ main' = "validate"
  /\ UNCHANGED <<timeVars, task, gateBits, unverified, crashes>>

\* Five seconds pass: a task failed, or did not get to run.
ReadyTimesOut ==
  /\ main = "await" /\ ~AllReady
  /\ ("failed" \in gateBits /\ NoFault) \/ Faulty
  /\ Restart
  /\ UNCHANGED <<unverified, crashes>>

\* pm_ota_post_boot_validate(): an image that waits for it is confirmed, or
\* rejected when the network task is missing; an error restarts.
Validate ==
  /\ main = "validate"
  /\ \/ /\ unverified => task["network"] # "none"
        /\ unverified' = FALSE /\ main' = "reconcile" /\ NoFault
        /\ UNCHANGED <<uptime, wall, clock, time, marks, observer, reader, task, gateBits>>
     \/ /\ unverified /\ task["network"] = "none"
        /\ unverified' = FALSE /\ NoFault /\ Restart
     \/ /\ unverified /\ Faulty
        /\ Restart /\ UNCHANGED unverified
  /\ UNCHANGED crashes

\* What network_task() waits for.
Released == "network" \in gateBits

\* reconcile_interrupted_commands(), then the network's start bit.
Reconcile ==
  /\ main = "reconcile"
  /\ \/ /\ gateBits' = gateBits \cup {"network"}
        /\ main' = "up" /\ NoFault
        /\ UNCHANGED <<uptime, wall, clock, time, marks, observer, reader, task>>
     \/ Faulty /\ Restart
  /\ UNCHANGED <<unverified, crashes>>

BeginNetwork ==
  /\ task["network"] = "created" /\ Released
  /\ task' = [task EXCEPT !["network"] = "running"]
  /\ UNCHANGED <<timeVars, main, gateBits, unverified, crashes>>

\* The tasks use the time once they run (an OTA task never runs before the
\* measurement task), and SNTP starts with the network.
Timekeeping ==
  /\ \/ task["supervisor"] = "running" /\ (Observe \/ ObserveAssigns \/ Persist)
     \/ task["measurement"] = "running" /\ (ReadTime \/ ReturnTime)
     \/ task["network"] = "running" /\ Synchronise
     \/ main # "off" /\ ClockTick
  /\ UNCHANGED startVars

PowerCut ==
  /\ main # "off" /\ crashes < MaxCrashes
  /\ crashes' = crashes + 1
  /\ Restart /\ NoFault
  /\ UNCHANGED unverified

Startup == \/ PowerOn \/ CreateTask \/ CreateFails \/ StartNetwork \/ BecomeReady
           \/ ReadyTimesOut \/ Validate \/ Reconcile
Begin == \E t \in Gated : BeginTask(t)

BootNext == Startup \/ Begin \/ BeginNetwork \/ Timekeeping \/ PowerCut

BootSpec == BootInit /\ [][BootNext]_bootVars

\* The scheduler runs app_main() and every task that can go on.
BootFairSpec ==
  /\ BootSpec
  /\ WF_bootVars(Startup) /\ WF_bootVars(BeginNetwork)
  /\ \A t \in Gated : WF_bootVars(BeginTask(t))

-----------------------------------------------------------------------------
(* Properties.                                                             *)

\* The type invariant of the startup and of the time keeper.
BootTypeOK ==
  /\ TimeTypeOK
  /\ main \in {"off", "create", "network", "await", "validate", "reconcile", "up", "stopped"}
  /\ task \in [AllTasks -> {"none", "created", "running", "ended"}]
  /\ gateBits \subseteq AllTasks \cup {"start", "failed"}
  /\ unverified \in BOOLEAN /\ crashes \in 0..MaxCrashes

\* The network talks to the server only when every task of the runtime is
\* watched by the watchdog, the image is confirmed and the commands of the last
\* boot are settled.
NetworkStartsLast ==
  task["network"] = "running" =>
    (\A t \in Gated : task[t] = "running") /\ ~unverified /\ main = "up"

\* Whatever fails along the way, the device ends up running or stopped, and not
\* in a loop of restarts or at a gate.
Settles == <>[](main = "stopped" \/ (main = "up" /\ \A t \in AllTasks : task[t] # "created"))

=============================================================================
