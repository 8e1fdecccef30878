--------------------------- MODULE RuntimeProofs ---------------------------
(***************************************************************************)
(* Proofs about the runtime: how it comes up and keeps the time            *)
(* (RuntimeStartup with the TimeKeeper in it), and how it delivers         *)
(* telemetry once the network runs (TelemetryDelivery).  The two           *)
(* specifications share no variable; each has its own inductive invariant, *)
(* BootInv and Inv.                                                        *)
(***************************************************************************)
EXTENDS RuntimeStartup, TelemetryDelivery, FiniteSetTheorems, TLAPS

-----------------------------------------------------------------------------
(***************************************************************************)
(* RuntimeStartup: the types, that the network starts last, that the time  *)
(* on flash never goes back, and that no reader is given an earlier time   *)
(* than that.                                                              *)
(***************************************************************************)

\* The gate: a bit is set by the task it names, and app_main() is past a point
\* only with what that point waited for.
Gate ==
  /\ main \in {"off", "create", "network", "stopped"} => gateBits = {}
  /\ main = "off" => task = NoTasks
  /\ \A t \in Gated \cap gateBits : task[t] = "running"
  /\ main \in {"validate", "reconcile", "up"} => Gated \subseteq gateBits
  /\ main \in {"reconcile", "up"} => ~unverified
  /\ "network" \in gateBits => main = "up"
  /\ task["network"] = "running" => "network" \in gateBits

\* A checkpoint is in the slot of its generation, and no time in use is zero.
Marks ==
  /\ \A k \in Valid : k = NextSlot(marks[k].gen) /\ marks[k].utc > 0
  /\ observer.step = "utc" => observer.utc > 0
  /\ observer.step \in {"mono", "last"} => observer.utc > 0 /\ time.utc > 0
  /\ observer.step = "trust" => time.utc > 0
  /\ observer.step \in {"trust", "persist"} => time.last > 0
  /\ reader.step = "read" => reader.value > 0

\* Every copy of last_returned_utc_ms is at least the time on flash, and nobody
\* is at work on one before the boot.
Floor ==
  /\ main = "off" => observer.step = "wait" /\ reader.step = "idle"
  /\ main # "off" => time.last >= Checkpoint
  /\ observer.step = "last" => observer.last >= Checkpoint
  /\ reader.step = "read" => reader.value >= Checkpoint

BootInv == BootTypeOK /\ Gate /\ Marks /\ Floor

-----------------------------------------------------------------------------
(***************************************************************************)
(* Facts about the operators.                                              *)
(***************************************************************************)
LEMMA TaskNames ==
  /\ DOMAIN TaskSet = 1..3 /\ Len(TaskSet) = 3
  /\ TaskSet[1] = "measurement" /\ TaskSet[2] = "control" /\ TaskSet[3] = "supervisor"
  /\ Gated = {"measurement", "control", "supervisor"}
  /\ AllTasks = {"measurement", "control", "supervisor", "network"}
<1>1. /\ DOMAIN TaskSet = 1..3 /\ Len(TaskSet) = 3
      /\ TaskSet[1] = "measurement" /\ TaskSet[2] = "control" /\ TaskSet[3] = "supervisor"
  BY DEF TaskSet
<1>2. Gated = {"measurement", "control", "supervisor"}
  BY <1>1 DEF Gated, ToSet
<1>. QED BY <1>1, <1>2 DEF AllTasks

\* load_newest(): the newest valid slot exists and is at least as new as the other.
LEMMA NewestIsValid ==
  ASSUME TimeTypeOK, Valid # {}
  PROVE  NewestMark \in Valid /\ \A j \in Valid : marks[NewestMark].gen >= marks[j].gen
<1>1. Valid \subseteq {"a", "b"} /\ \A k \in Valid : marks[k].gen \in Nat
  BY DEF TimeTypeOK, Valid
<1>2. \E k \in Valid : \A j \in Valid : marks[k].gen >= marks[j].gen
  <2>1. CASE Valid = {"a"} \/ Valid = {"b"}
    BY <1>1, <2>1
  <2>2. CASE Valid = {"a", "b"} /\ marks["a"].gen >= marks["b"].gen
    BY <1>1, <2>2
  <2>3. CASE Valid = {"a", "b"} /\ ~(marks["a"].gen >= marks["b"].gen)
    BY <1>1, <2>3
  <2>4. Valid = {"a"} \/ Valid = {"b"} \/ Valid = {"a", "b"}
    BY <1>1
  <2>. QED BY <2>1, <2>2, <2>3, <2>4
<1>. QED BY <1>2 DEF NewestMark

LEMMA CheckpointType ==
  ASSUME TimeTypeOK
  PROVE  Checkpoint \in Nat
BY NewestIsValid DEF Checkpoint, TimeTypeOK, Valid

\* Slots alternate with the parity of the generation.
LEMMA SlotsAlternate ==
  ASSUME NEW g \in Nat
  PROVE  NextSlot(g) \in {"a", "b"} /\ NextSlot(g + 1) # NextSlot(g)
BY DEF NextSlot

-----------------------------------------------------------------------------
(***************************************************************************)
(* persist() spares the newest slot, so that a write that succeeds moves   *)
(* the checkpoint to the time it was given, and one that fails leaves the  *)
(* old checkpoint or that one.                                             *)
(***************************************************************************)
NextGeneration == IF Valid = {} THEN 1 ELSE marks[NewestMark].gen + 1
NewMark == [read |-> TRUE, utc |-> time.last, gen |-> NextGeneration]

LEMMA PersistShape ==
  ASSUME TimeTypeOK, Marks, Persist
  PROVE  LET key == NextSlot(NextGeneration)
         IN  /\ NextGeneration \in Nat /\ key \in {"a", "b"}
             /\ Valid # {} => key # NewestMark
             /\ \E left \in {marks[key], NewMark, Empty} :
                   marks' = [marks EXCEPT ![key] = left]
<1>. DEFINE key == NextSlot(NextGeneration)
<1>1. NextGeneration \in Nat /\ (Valid # {} => key # NewestMark)
  <2>1. CASE Valid = {}
    BY <2>1 DEF NextGeneration
  <2>2. CASE Valid # {}
    <3>1. NewestMark \in Valid /\ marks[NewestMark].gen \in Nat
      BY <2>2, NewestIsValid DEF TimeTypeOK, Valid
    <3>2. NewestMark = NextSlot(marks[NewestMark].gen)
      BY <3>1 DEF Marks
    <3>. QED BY <2>2, <3>1, <3>2, SlotsAlternate DEF NextGeneration
  <2>. QED BY <2>1, <2>2
<1>2. key \in {"a", "b"}
  BY <1>1, SlotsAlternate
<1>3. \E left \in {marks[key], NewMark, Empty} : marks' = [marks EXCEPT ![key] = left]
  BY DEF Persist, NewMark, NextGeneration
<1>. QED BY <1>1, <1>2, <1>3

LEMMA PersistMarks ==
  ASSUME TimeTypeOK, Marks, Persist
  PROVE  /\ marks' \in [{"a", "b"} -> [read : BOOLEAN, utc : Nat, gen : Nat]]
         /\ \A k \in Valid' : k = NextSlot(marks'[k].gen) /\ marks'[k].utc > 0
         /\ Checkpoint' = Checkpoint \/ Checkpoint' = time.last
<1>. DEFINE key == NextSlot(NextGeneration)
<1>0. /\ NextGeneration \in Nat /\ key \in {"a", "b"}
      /\ Valid # {} => key # NewestMark
  BY PersistShape
<1>1. PICK left \in {marks[key], NewMark, Empty} : marks' = [marks EXCEPT ![key] = left]
  BY PersistShape
<1>2. NewMark \in [read : BOOLEAN, utc : Nat, gen : Nat]
  BY <1>0 DEF NewMark, TimeTypeOK
<1>3. Empty \in [read : BOOLEAN, utc : Nat, gen : Nat] /\ ~Empty.read
  BY DEF Empty
<1>4. marks' \in [{"a", "b"} -> [read : BOOLEAN, utc : Nat, gen : Nat]]
      /\ marks'[key] = left /\ \A k \in {"a", "b"} : k # key => marks'[k] = marks[k]
  BY <1>0, <1>1, <1>2, <1>3 DEF TimeTypeOK
<1>5. Valid = {k \in {"a", "b"} : marks[k].read}
      /\ Valid' = {k \in {"a", "b"} : marks'[k].read}
  BY <1>4 DEF Valid, TimeTypeOK
<1>. HIDE DEF key
<1>6. ASSUME NEW k \in Valid' PROVE k = NextSlot(marks'[k].gen) /\ marks'[k].utc > 0
  <2>1. CASE k # key
    BY <1>4, <1>5, <2>1 DEF Marks
  <2>2. CASE k = key /\ left = marks[key]
    BY <1>4, <1>5, <2>2 DEF Marks
  <2>3. CASE k = key /\ left = NewMark
    <3>1. time.last > 0
      BY DEF Persist, Marks
    <3>. QED BY <1>4, <2>3, <3>1 DEF key, NewMark
  <2>4. CASE k = key /\ left = Empty
    BY <1>3, <1>4, <1>5, <2>4
  <2>. QED BY <2>1, <2>2, <2>3, <2>4
<1>7. Checkpoint' = Checkpoint \/ Checkpoint' = time.last
  <2>1. CASE left = marks[key]
    <3>1. marks' = marks
      BY <1>0, <1>1, <2>1 DEF TimeTypeOK
    <3>. QED BY <3>1 DEF Checkpoint, NewestMark, Valid
  <2>2. CASE left = NewMark
    <3>1. key \in Valid' /\ marks'[key].gen = NextGeneration
      BY <1>0, <1>4, <1>5, <2>2 DEF NewMark
    <3>2. ASSUME NEW k \in Valid', k # key PROVE marks'[k].gen < NextGeneration
      <4>1. k \in Valid /\ marks'[k].gen = marks[k].gen /\ marks[k].gen \in Nat
        BY <1>4, <1>5, <3>2 DEF TimeTypeOK
      <4>2. marks[NewestMark].gen >= marks[k].gen /\ marks[NewestMark].gen \in Nat
        BY <4>1, NewestIsValid DEF TimeTypeOK, Valid
      <4>. QED BY <4>1, <4>2 DEF NextGeneration
    <3>3. NewestMark' = key
      <4>1. key \in Valid' /\ \A j \in Valid' : marks'[key].gen >= marks'[j].gen
        <5>. SUFFICES ASSUME NEW j \in Valid' PROVE marks'[key].gen >= marks'[j].gen
          BY <3>1
        <5>1. marks'[j].gen \in Nat /\ marks'[key].gen \in Nat
          BY <1>0, <1>4, <1>5, <3>1
        <5>. QED BY <3>1, <3>2, <5>1
      <4>2. ASSUME NEW j \in Valid', j # key PROVE ~(marks'[j].gen >= marks'[key].gen)
        BY <1>0, <1>4, <1>5, <3>1, <3>2, <4>2
      <4>3. NewestMark' \in Valid' /\ \A j \in Valid' : marks'[NewestMark'].gen >= marks'[j].gen
        BY <4>1 DEF NewestMark
      <4>. QED BY <4>1, <4>2, <4>3
    <3>. QED BY <1>4, <2>2, <3>1, <3>3 DEF Checkpoint, NewMark
  <2>3. CASE left = Empty
    <3>1. Valid' = Valid \ {key}
      BY <1>3, <1>4, <1>5, <2>3
    <3>2. CASE Valid = {}
      BY <3>1, <3>2 DEF Checkpoint
    <3>3. CASE Valid # {}
      <4>1. NewestMark \in Valid'
        BY <1>0, <3>1, <3>3, NewestIsValid
      <4>2. Valid' = {NewestMark}
        BY <1>0, <1>5, <3>1, <4>1
      <4>3. NewestMark' \in Valid'
        <5>1. marks'[NewestMark].gen >= marks'[NewestMark].gen
          BY <1>4, <1>5, <4>1
        <5>. QED BY <4>1, <4>2, <5>1 DEF NewestMark
      <4>4. marks'[NewestMark] = marks[NewestMark]
        BY <1>0, <1>4, <1>5, <3>3, <4>1
      <4>. QED BY <3>3, <4>1, <4>2, <4>3, <4>4 DEF Checkpoint
    <3>. QED BY <3>2, <3>3
  <2>. QED BY <2>1, <2>2, <2>3
<1>. QED BY <1>4, <1>6, <1>7

-----------------------------------------------------------------------------
(***************************************************************************)
(* The steps of the time keeper: its types, the times in use and the       *)
(* floor under them.                                                       *)
(***************************************************************************)
TimeGood == TimeTypeOK /\ Marks /\ Floor

\* What is on flash alone decides the checkpoint.
LEMMA CheckpointKept ==
  ASSUME marks' = marks
  PROVE  Valid' = Valid /\ Checkpoint' = Checkpoint
BY DEF Checkpoint, NewestMark, Valid

LEMMA LatestIsLatest ==
  ASSUME NEW m \in Int, NEW n \in Int
  PROVE  Latest(m, n) \in {m, n} /\ Latest(m, n) >= m /\ Latest(m, n) >= n
BY DEF Latest

LEMMA ObserveGood ==
  ASSUME TimeGood, Observe, main' = main, main # "off"
  PROVE  TimeGood'
<1>1. Valid' = Valid /\ Checkpoint' = Checkpoint
  BY CheckpointKept DEF Observe
<1>2. TimeTypeOK'
  <2>1. uptime \in Nat /\ clock \in Nat
    BY DEF TimeGood, TimeTypeOK
  <2>. QED BY <2>1 DEF TimeGood, Observe, TimeTypeOK
<1>3. Marks'
  BY <1>1 DEF TimeGood, Observe, TimeTypeOK, Marks, Plausible
<1>4. Floor'
  BY <1>1 DEF TimeGood, Observe, TimeTypeOK, Floor
<1>. QED BY <1>2, <1>3, <1>4 DEF TimeGood

LEMMA AssignGood ==
  ASSUME TimeGood, ObserveAssigns, main' = main, main # "off"
  PROVE  TimeGood'
<1>1. Valid' = Valid /\ Checkpoint' = Checkpoint /\ Checkpoint \in Nat
  BY CheckpointKept, CheckpointType DEF ObserveAssigns, TimeGood
<1>2. /\ NextLast \in Nat /\ NextLast >= observer.utc /\ NextLast >= observer.last
  BY LatestIsLatest DEF NextLast, TimeGood, TimeTypeOK
<1>u. UNCHANGED <<uptime, wall, clock, marks, reader, faults>>
  BY DEF ObserveAssigns
<1>3. CASE observer.step = "utc"
  <2>1. /\ time' = [time EXCEPT !.utc = observer.utc]
        /\ observer' = [observer EXCEPT !.step = "mono"]
    BY <1>3 DEF ObserveAssigns, Assign
  <2>. QED BY <1>1, <1>3, <1>u, <2>1 DEF TimeGood, TimeTypeOK, Marks, Floor
<1>4. CASE observer.step = "mono"
  <2>1. /\ time' = [time EXCEPT !.mono = observer.mono]
        /\ observer' = [observer EXCEPT !.step = "last", !.last = time.last]
    BY <1>4 DEF ObserveAssigns, Assign
  <2>. QED BY <1>1, <1>4, <1>u, <2>1 DEF TimeGood, TimeTypeOK, Marks, Floor
<1>5. CASE observer.step = "last"
  <2>1. /\ time' = [time EXCEPT !.last = NextLast]
        /\ observer' = [observer EXCEPT !.step = "trust"]
    BY <1>5 DEF ObserveAssigns, Assign
  <2>. QED BY <1>1, <1>2, <1>5, <1>u, <2>1 DEF TimeGood, TimeTypeOK, Marks, Floor
<1>6. CASE observer.step = "trust"
  <2>1. /\ time' = [time EXCEPT !.trusted = TRUE]
        /\ observer' = [observer EXCEPT !.step = "persist"]
    BY <1>6 DEF ObserveAssigns, Assign
  <2>. QED BY <1>1, <1>6, <1>u, <2>1 DEF TimeGood, TimeTypeOK, Marks, Floor
<1>. QED BY <1>3, <1>4, <1>5, <1>6 DEF ObserveAssigns, Assign

LEMMA FaultTypes ==
  ASSUME faults \in 0..MaxFaults, Faulty \/ NoFault
  PROVE  faults' \in 0..MaxFaults
BY TimeAssumption DEF Faulty, NoFault

LEMMA PersistGood ==
  ASSUME TimeGood, Persist, main' = main, main # "off"
  PROVE  TimeGood' /\ Checkpoint' >= Checkpoint
<1>1. /\ marks' \in [{"a", "b"} -> [read : BOOLEAN, utc : Nat, gen : Nat]]
      /\ \A k \in Valid' : k = NextSlot(marks'[k].gen) /\ marks'[k].utc > 0
      /\ Checkpoint' = Checkpoint \/ Checkpoint' = time.last
  BY PersistMarks DEF TimeGood
<1>2. \E checked \in Nat : observer' = IdleObserver(checked)
  BY DEF Persist, TimeGood, TimeTypeOK
<1>3. faults' \in 0..MaxFaults
  BY FaultTypes DEF Persist, TimeGood, TimeTypeOK
<1>4. UNCHANGED <<uptime, wall, clock, time, reader>> /\ reader.step = "idle"
  BY DEF Persist
<1>5. Checkpoint \in Nat /\ time.last >= Checkpoint /\ time.last \in Nat
  BY CheckpointType DEF TimeGood, Floor, TimeTypeOK
<1>6. TimeTypeOK'
  BY <1>1, <1>2, <1>3, <1>4 DEF TimeGood, TimeTypeOK, IdleObserver
<1>7. Marks'
  BY <1>1, <1>2, <1>4 DEF TimeGood, Marks, IdleObserver
<1>8. Floor'
  BY <1>1, <1>2, <1>4, <1>5 DEF Floor, IdleObserver
<1>. QED BY <1>1, <1>5, <1>6, <1>7, <1>8 DEF TimeGood

\* pm_time_now() returns no less than last_returned_utc_ms.
LEMMA ReadGood ==
  ASSUME TimeGood, ReadTime, main' = main, main # "off"
  PROVE  TimeGood' /\ reader'.value >= Checkpoint
<1>1. Valid' = Valid /\ Checkpoint' = Checkpoint /\ Checkpoint \in Nat
  BY CheckpointKept, CheckpointType DEF ReadTime, TimeGood
<1>2. Projected(uptime) \in Nat /\ Projected(uptime) > 0 /\ time.last \in Nat
  BY DEF TimeGood, TimeTypeOK, ReadTime, Projected
<1>3. /\ TimeOf(uptime) \in Nat /\ TimeOf(uptime) >= time.last
      /\ TimeOf(uptime) > 0
  BY <1>2, LatestIsLatest DEF TimeOf
<1>4. TimeOf(uptime) >= Checkpoint
  BY <1>1, <1>2, <1>3 DEF TimeGood, Floor
<1>5. /\ reader' = [step |-> "read", value |-> TimeOf(uptime)]
      /\ UNCHANGED <<uptime, wall, clock, time, marks, observer, faults>>
  BY DEF ReadTime
<1>6. TimeTypeOK'
  BY <1>3, <1>5 DEF TimeGood, TimeTypeOK
<1>7. Marks'
  BY <1>1, <1>3, <1>5 DEF TimeGood, Marks
<1>8. Floor'
  BY <1>1, <1>4, <1>5 DEF TimeGood, Floor
<1>. QED BY <1>4, <1>5, <1>6, <1>7, <1>8 DEF TimeGood

LEMMA ReturnGood ==
  ASSUME TimeGood, ReturnTime, main' = main, main # "off"
  PROVE  TimeGood'
<1>1. Valid' = Valid /\ Checkpoint' = Checkpoint /\ Checkpoint \in Nat
  BY CheckpointKept, CheckpointType DEF ReturnTime, TimeGood
<1>2. TimeTypeOK'
  BY DEF TimeGood, TimeTypeOK, ReturnTime, IdleReader
<1>3. Marks'
  BY <1>1 DEF TimeGood, TimeTypeOK, ReturnTime, IdleReader, Marks
<1>4. Floor'
  BY <1>1 DEF TimeGood, TimeTypeOK, ReturnTime, IdleReader, Floor
<1>. QED BY <1>2, <1>3, <1>4 DEF TimeGood

LEMMA ClockGood ==
  ASSUME TimeGood, ClockTick \/ Synchronise, main' = main
  PROVE  TimeGood'
<1>1. Valid' = Valid /\ Checkpoint' = Checkpoint
  BY CheckpointKept DEF ClockTick, Synchronise
<1>2. uptime' \in 0..MaxUptime /\ wall' \in 1..MaxWall /\ clock' \in Nat
  <2>1. CASE ClockTick
    BY <2>1, TimeAssumption DEF ClockTick, TimeGood, TimeTypeOK
  <2>2. CASE Synchronise
    <3>1. PICK e \in Errors : clock' = wall + e
      BY <2>2 DEF Synchronise
    <3>. QED BY <2>2, <3>1, TimeAssumption DEF Synchronise, TimeGood, TimeTypeOK
  <2>. QED BY <2>1, <2>2
<1>3. UNCHANGED <<time, marks, observer, reader, faults>>
  BY DEF ClockTick, Synchronise
<1>. QED BY <1>1, <1>2, <1>3 DEF TimeGood, TimeTypeOK, Marks, Floor

\* A restart forgets every time but the one on flash.
LEMMA RestartGood ==
  ASSUME TimeGood, TimeRestarts, Faulty \/ NoFault, main' = "off"
  PROVE  TimeGood' /\ Checkpoint' = Checkpoint
<1>1. Valid' = Valid /\ Checkpoint' = Checkpoint
  BY CheckpointKept DEF TimeRestarts
<1>2. faults' \in 0..MaxFaults
  BY FaultTypes DEF TimeGood, TimeTypeOK
<1>3. TimeTypeOK'
  BY <1>2, TimeAssumption DEF TimeGood, TimeTypeOK, TimeRestarts, Untrusted, IdleObserver, IdleReader
<1>4. Marks'
  BY <1>1 DEF TimeGood, TimeTypeOK, TimeRestarts, Untrusted, IdleObserver, IdleReader, Marks
<1>5. Floor'
  BY DEF TimeRestarts, IdleObserver, IdleReader, Floor
<1>. QED BY <1>1, <1>3, <1>4, <1>5 DEF TimeGood

\* Loading takes the time on flash for the time now.
LEMMA LoadGood ==
  ASSUME TimeGood, PowerOn
  PROVE  TimeGood'
<1>1. Valid' = Valid /\ Checkpoint' = Checkpoint /\ Checkpoint \in Nat
  BY CheckpointKept, CheckpointType DEF PowerOn, TimeGood
<1>2. Valid # {} => Checkpoint > 0
  BY NewestIsValid DEF Checkpoint, TimeGood, Marks
<1>3. time' \in [trusted : BOOLEAN, utc : Nat, mono : Nat, last : Nat]
      /\ (time'.trusted => time'.utc > 0) /\ time'.last >= Checkpoint
  <2>1. uptime \in Nat
    BY DEF TimeGood, TimeTypeOK
  <2>2. CASE Valid = {}
    BY <1>1, <2>1, <2>2 DEF PowerOn, LoadedTime, Untrusted, Checkpoint
  <2>3. CASE Valid # {}
    BY <1>1, <1>2, <2>1, <2>3 DEF PowerOn, LoadedTime
  <2>. QED BY <2>2, <2>3
<1>4. UNCHANGED <<uptime, wall, clock, marks, observer, reader, faults>>
  BY DEF PowerOn
<1>5. observer.step = "wait" /\ reader.step = "idle"
  BY DEF PowerOn, TimeGood, Floor
<1>6. TimeTypeOK'
  BY <1>3, <1>4 DEF TimeGood, TimeTypeOK
<1>7. Marks'
  BY <1>1, <1>4, <1>5 DEF TimeGood, Marks
<1>8. Floor'
  BY <1>1, <1>3, <1>4, <1>5 DEF TimeGood, Floor
<1>. QED BY <1>6, <1>7, <1>8 DEF TimeGood

-----------------------------------------------------------------------------
(***************************************************************************)
(* The steps of the startup: app_main(), the gate and the tasks at it.     *)
(***************************************************************************)
StartTypes ==
  /\ main \in {"off", "create", "network", "await", "validate", "reconcile", "up", "stopped"}
  /\ task \in [AllTasks -> {"none", "created", "running", "ended"}]
  /\ gateBits \subseteq AllTasks \cup {"start", "failed"}
  /\ unverified \in BOOLEAN /\ crashes \in 0..MaxCrashes

StartGood == StartTypes /\ Gate

LEMMA Rebooted ==
  ASSUME StartGood, main' = "off", task' = NoTasks, gateBits' = {},
         unverified' \in BOOLEAN, crashes' \in 0..MaxCrashes
  PROVE  StartGood'
BY TaskNames DEF StartGood, StartTypes, Gate, NoTasks

LEMMA PowerOnGate ==
  ASSUME StartGood, PowerOn
  PROVE  StartGood'
BY TaskNames DEF StartGood, StartTypes, Gate, PowerOn, NoTasks

LEMMA CreateTaskGate ==
  ASSUME StartGood, CreateTask
  PROVE  StartGood'
<1>1. PICK i \in DOMAIN TaskSet :
         /\ task' = [task EXCEPT ![TaskSet[i]] = "created"]
         /\ main' = IF i = Len(TaskSet) THEN "network" ELSE main
  BY DEF CreateTask
<1>2. main = "create" /\ gateBits = {} /\ UNCHANGED <<gateBits, unverified, crashes>>
      /\ main' \in {"create", "network"}
  BY <1>1 DEF CreateTask, StartGood, Gate
<1>3. TaskSet[i] \in Gated
  BY TaskNames
<1>4. task' \in [AllTasks -> {"none", "created", "running", "ended"}]
      /\ task'["network"] = task["network"]
  BY <1>1, <1>3, TaskNames DEF StartGood, StartTypes
<1>. QED BY <1>2, <1>4 DEF StartGood, StartTypes, Gate

LEMMA CreateFailsGate ==
  ASSUME StartGood, CreateFails
  PROVE  StartGood'
<1>1. task' \in [AllTasks -> {"none", "created", "running", "ended"}]
      /\ task'["network"] = task["network"]
  BY TaskNames DEF CreateFails, DeleteTaskSet, StartGood, StartTypes
<1>. QED BY <1>1 DEF CreateFails, StartGood, StartTypes, Gate

LEMMA StartNetworkGate ==
  ASSUME StartGood, StartNetwork
  PROVE  StartGood'
<1>1. task' \in [AllTasks -> {"none", "created", "running", "ended"}]
      /\ (task'["network"] = "running" => task["network"] = "running")
  BY TaskNames DEF StartNetwork, StartGood, StartTypes
<1>2. /\ main = "network" /\ gateBits = {} /\ gateBits' = {"start"} /\ main' = "await"
      /\ UNCHANGED <<unverified, crashes>>
  BY DEF StartNetwork, StartGood, Gate
<1>. QED BY <1>1, <1>2, TaskNames DEF StartGood, StartTypes, Gate

\* A task that begins is past the gate, so no step of app_main() before it is
\* undone; it sets the bit of no other task.
LEMMA BeginTaskGate ==
  ASSUME StartGood, NEW t \in Gated, BeginTask(t)
  PROVE  StartGood'
<1>1. /\ task[t] = "created" /\ "start" \in gateBits /\ t \notin gateBits
      /\ UNCHANGED <<main, unverified, crashes>>
  BY DEF BeginTask, GateOpen, StartGood, Gate
<1>2. main \notin {"off", "create", "network", "stopped", "validate", "reconcile", "up"}
  BY <1>1 DEF StartGood, Gate
<1>3. \/ task' = [task EXCEPT ![t] = "running"] /\ gateBits' = gateBits \cup {t}
      \/ task' = [task EXCEPT ![t] = "ended"] /\ gateBits' = gateBits \cup {"failed"}
  BY DEF BeginTask
<1>4. /\ task' \in [AllTasks -> {"none", "created", "running", "ended"}]
      /\ task'["network"] = task["network"]
      /\ gateBits' \subseteq AllTasks \cup {"start", "failed"}
      /\ "network" \in gateBits' => "network" \in gateBits
      /\ gateBits \subseteq gateBits'
  BY <1>3, TaskNames DEF StartGood, StartTypes
<1>5. ASSUME NEW u \in Gated \cap gateBits' PROVE task'[u] = "running"
  BY <1>1, <1>3, TaskNames DEF StartGood, StartTypes, Gate
<1>. QED BY <1>1, <1>2, <1>4, <1>5 DEF StartGood, StartTypes, Gate

LEMMA BecomeReadyGate ==
  ASSUME StartGood, BecomeReady
  PROVE  StartGood'
BY DEF StartGood, StartTypes, Gate, BecomeReady, AllReady

LEMMA ValidateGate ==
  ASSUME StartGood, Validate
  PROVE  StartGood'
<1>1. CASE main' = "reconcile"
  <2>1. /\ main = "validate" /\ unverified' = FALSE /\ UNCHANGED <<task, gateBits, crashes>>
    BY <1>1 DEF Validate, Restart
  <2>. QED BY <1>1, <2>1 DEF StartGood, StartTypes, Gate
<1>2. CASE main' # "reconcile"
  <2>1. Restart /\ unverified' \in BOOLEAN /\ crashes' \in 0..MaxCrashes
    BY <1>2 DEF Validate, StartGood, StartTypes
  <2>. QED BY <2>1, Rebooted DEF Restart
<1>. QED BY <1>1, <1>2

LEMMA ReconcileGate ==
  ASSUME StartGood, Reconcile
  PROVE  StartGood'
<1>1. CASE main' = "up"
  <2>1. /\ main = "reconcile" /\ gateBits' = gateBits \cup {"network"}
        /\ UNCHANGED <<task, unverified, crashes>>
    BY <1>1 DEF Reconcile, Restart
  <2>. QED BY <1>1, <2>1, TaskNames DEF StartGood, StartTypes, Gate
<1>2. CASE main' # "up"
  <2>1. Restart /\ unverified' \in BOOLEAN /\ crashes' \in 0..MaxCrashes
    BY <1>2 DEF Reconcile, StartGood, StartTypes
  <2>. QED BY <2>1, Rebooted DEF Restart
<1>. QED BY <1>1, <1>2

LEMMA BeginNetworkGate ==
  ASSUME StartGood, BeginNetwork
  PROVE  StartGood'
<1>1. /\ "network" \in gateBits /\ task' = [task EXCEPT !["network"] = "running"]
      /\ UNCHANGED <<main, gateBits, unverified, crashes>>
  BY DEF BeginNetwork, Released
<1>2. main = "up"
  BY <1>1 DEF StartGood, Gate
<1>3. task' \in [AllTasks -> {"none", "created", "running", "ended"}]
      /\ \A t \in Gated : task'[t] = task[t]
  BY <1>1, TaskNames DEF StartGood, StartTypes
<1>. QED BY <1>1, <1>2, <1>3 DEF StartGood, StartTypes, Gate

LEMMA PowerCutGate ==
  ASSUME StartGood, PowerCut
  PROVE  StartGood'
<1>1. crashes' \in 0..MaxCrashes /\ unverified' \in BOOLEAN
  BY StartupAssumption DEF PowerCut, StartGood, StartTypes
<1>. QED BY <1>1, Rebooted DEF PowerCut, Restart

-----------------------------------------------------------------------------
(***************************************************************************)
(* Together.                                                               *)
(***************************************************************************)
LEMMA InvParts == BootInv <=> TimeGood /\ StartGood
BY DEF BootInv, BootTypeOK, TimeGood, StartGood, StartTypes

LEMMA BootInitInv == BootInit => BootInv
<1>. SUFFICES ASSUME BootInit PROVE TimeGood /\ StartGood
  BY InvParts
<1>1. Valid = {}
  BY DEF BootInit, TimeInit, Valid, Empty
<1>2. TimeTypeOK
  BY TimeAssumption DEF BootInit, TimeInit, TimeTypeOK, Untrusted, Empty, IdleObserver, IdleReader
<1>3. Marks /\ Floor
  BY <1>1 DEF BootInit, TimeInit, Marks, Floor, IdleObserver, IdleReader
<1>4. StartGood
  BY TaskNames, StartupAssumption DEF BootInit, NoTasks, StartGood, StartTypes, Gate
<1>. QED BY <1>2, <1>3, <1>4 DEF TimeGood

\* A step that leaves the time alone, whatever it does to the fault budget.
LEMMA TimeAlone ==
  ASSUME TimeGood, UNCHANGED <<uptime, wall, clock, time, marks, observer, reader>>,
         main # "off", main' # "off", faults' \in 0..MaxFaults
  PROVE  TimeGood' /\ Checkpoint' = Checkpoint
<1>1. Valid' = Valid /\ Checkpoint' = Checkpoint
  BY CheckpointKept
<1>. QED BY <1>1 DEF TimeGood, TimeTypeOK, Marks, Floor

\* Each step keeps the invariant, and neither takes the checkpoint back nor hands
\* out a time before it.
Promise ==
  /\ Checkpoint' >= Checkpoint
  /\ reader.step = "idle" /\ reader'.step = "read" => reader'.value >= Checkpoint

LEMMA InvStep ==
  ASSUME BootInv, BootNext
  PROVE  BootInv' /\ Promise
<1>. USE DEF Promise
<1>0. TimeGood /\ StartGood /\ Checkpoint \in Nat /\ faults \in 0..MaxFaults
  BY InvParts, CheckpointType DEF TimeGood, TimeTypeOK
<1>f. NoFault \/ Faulty => faults' \in 0..MaxFaults
  BY <1>0, FaultTypes
<1>g. \A t \in AllTasks : task[t] = "running" => main # "off"
  BY <1>0 DEF StartGood, Gate, NoTasks
<1>. SUFFICES TimeGood' /\ StartGood' /\ Promise
  BY InvParts, PTL
<1>1. CASE PowerOn
  <2>1. Checkpoint' = Checkpoint /\ reader' = reader
    BY <1>1, CheckpointKept DEF PowerOn
  <2>. QED BY <1>0, <1>1, <2>1, LoadGood, PowerOnGate
<1>2. CASE CreateTask
  <2>1. UNCHANGED timeVars /\ main # "off" /\ main' # "off"
    BY <1>2 DEF CreateTask
  <2>. QED BY <1>0, <1>2, <2>1, CreateTaskGate, TimeAlone DEF timeVars
<1>3. CASE CreateFails
  <2>1. /\ UNCHANGED <<uptime, wall, clock, time, marks, observer, reader>> /\ Faulty
        /\ main # "off" /\ main' # "off"
    BY <1>3 DEF CreateFails
  <2>. QED BY <1>0, <1>f, <1>3, <2>1, CreateFailsGate, TimeAlone
<1>4. CASE StartNetwork
  <2>1. /\ UNCHANGED <<uptime, wall, clock, time, marks, observer, reader>>
        /\ Faulty \/ NoFault
        /\ main # "off" /\ main' # "off"
    BY <1>4 DEF StartNetwork
  <2>. QED BY <1>0, <1>f, <1>4, <2>1, StartNetworkGate, TimeAlone
<1>5. CASE BecomeReady
  <2>1. UNCHANGED timeVars /\ main # "off" /\ main' # "off"
    BY <1>5 DEF BecomeReady
  <2>. QED BY <1>0, <1>5, <2>1, BecomeReadyGate, TimeAlone DEF timeVars
<1>6. CASE ReadyTimesOut
  <2>1. Restart /\ (Faulty \/ NoFault) /\ UNCHANGED <<unverified, crashes>>
    BY <1>6 DEF ReadyTimesOut
  <2>2. StartGood'
    BY <1>0, <2>1, Rebooted DEF Restart, StartGood, StartTypes
  <2>. QED BY <1>0, <2>1, <2>2, RestartGood DEF Restart, TimeRestarts, IdleReader
<1>7. CASE Validate
  <2>1. CASE Restart
    <3>1. Faulty \/ NoFault
      BY <1>7 DEF Validate
    <3>. QED BY <1>0, <1>7, <2>1, <3>1, ValidateGate, RestartGood
             DEF Restart, TimeRestarts, IdleReader
  <2>2. CASE ~Restart
    <3>1. /\ UNCHANGED <<uptime, wall, clock, time, marks, observer, reader>> /\ NoFault
          /\ main # "off" /\ main' # "off"
      BY <1>7, <2>2 DEF Validate
    <3>. QED BY <1>0, <1>f, <1>7, <3>1, ValidateGate, TimeAlone
  <2>. QED BY <2>1, <2>2
<1>8. CASE Reconcile
  <2>1. CASE Restart
    <3>1. Faulty \/ NoFault
      BY <1>8 DEF Reconcile
    <3>. QED BY <1>0, <1>8, <2>1, <3>1, ReconcileGate, RestartGood
             DEF Restart, TimeRestarts, IdleReader
  <2>2. CASE ~Restart
    <3>1. /\ UNCHANGED <<uptime, wall, clock, time, marks, observer, reader>> /\ NoFault
          /\ main # "off" /\ main' # "off"
      BY <1>8, <2>2 DEF Reconcile
    <3>. QED BY <1>0, <1>f, <1>8, <3>1, ReconcileGate, TimeAlone
  <2>. QED BY <2>1, <2>2
<1>9. CASE Begin
  <2>1. PICK t \in Gated : BeginTask(t)
    BY <1>9 DEF Begin
  <2>2. /\ UNCHANGED <<uptime, wall, clock, time, marks, observer, reader, main>>
        /\ Faulty \/ NoFault
        /\ task[t] = "created"
    BY <2>1 DEF BeginTask
  <2>3. main # "off"
    BY <1>0, <2>2, TaskNames DEF StartGood, Gate, NoTasks
  <2>. QED BY <1>0, <1>f, <2>1, <2>2, <2>3, BeginTaskGate, TimeAlone
<1>10. CASE BeginNetwork
  <2>1. UNCHANGED timeVars /\ main' = main /\ task["network"] = "created"
    BY <1>10 DEF BeginNetwork
  <2>2. main # "off"
    BY <1>0, <2>1, TaskNames DEF StartGood, Gate, NoTasks
  <2>. QED BY <1>0, <1>10, <2>1, <2>2, BeginNetworkGate, TimeAlone DEF timeVars
<1>11. CASE Timekeeping
  <2>1. UNCHANGED startVars /\ main' = main /\ StartGood'
    BY <1>0, <1>11 DEF Timekeeping, startVars, StartGood, StartTypes, Gate
  <2>2. main # "off"
    BY <1>11, <1>g, TaskNames DEF Timekeeping
  <2>3. CASE Observe
    BY <1>0, <2>1, <2>2, <2>3, ObserveGood, CheckpointKept DEF Observe
  <2>4. CASE ObserveAssigns
    BY <1>0, <2>1, <2>2, <2>4, AssignGood, CheckpointKept DEF ObserveAssigns
  <2>5. CASE Persist
    BY <1>0, <2>1, <2>2, <2>5, PersistGood DEF Persist
  <2>6. CASE ReadTime
    BY <1>0, <2>1, <2>2, <2>6, ReadGood, CheckpointKept DEF ReadTime
  <2>7. CASE ReturnTime
    BY <1>0, <2>1, <2>2, <2>7, ReturnGood, CheckpointKept DEF ReturnTime
  <2>8. CASE ClockTick \/ Synchronise
    <3>1. reader' = reader /\ marks' = marks
      BY <2>8 DEF ClockTick, Synchronise
    <3>. QED BY <1>0, <2>1, <2>2, <2>8, <3>1, ClockGood, CheckpointKept
  <2>. QED BY <1>11, <2>3, <2>4, <2>5, <2>6, <2>7, <2>8 DEF Timekeeping
<1>12. CASE PowerCut
  <2>1. Restart /\ NoFault
    BY <1>12 DEF PowerCut
  <2>. QED BY <1>0, <1>12, <2>1, PowerCutGate, RestartGood DEF Restart, TimeRestarts, IdleReader
<1>. QED BY <1>1, <1>2, <1>3, <1>4, <1>5, <1>6, <1>7, <1>8, <1>9, <1>10, <1>11, <1>12
         DEF BootNext, Startup

LEMMA InvStutter ==
  ASSUME BootInv, UNCHANGED bootVars
  PROVE  BootInv'
BY DEF bootVars, timeVars, startVars, BootInv, BootTypeOK, TimeTypeOK, Gate, Marks, Floor, Valid,
       Checkpoint, NewestMark

LEMMA Inductive == BootSpec => []BootInv
<1>1. BootInv /\ [BootNext]_bootVars => BootInv'
  BY InvStep, InvStutter
<1>. QED BY BootInitInv, <1>1, PTL DEF BootSpec

-----------------------------------------------------------------------------
(* Theorems.                                                               *)

\* The startup and the time keeper keep their types, for every period, bound
\* and error of the clock.
THEOREM StartupTypes == BootSpec => []BootTypeOK
BY Inductive, PTL DEF BootInv

\* begin_runtime_task() and network_task(): the network runs only when every task
\* is watched, the image confirmed and the commands settled.
THEOREM NetworkLast == BootSpec => []NetworkStartsLast
<1>1. BootInv => NetworkStartsLast
  BY TaskNames DEF BootInv, Gate, NetworkStartsLast
<1>. QED BY Inductive, <1>1, PTL

\* pm_time_store_checkpoint(): the time on flash never goes back.
THEOREM FlashTimeAscends == BootSpec => CheckpointAscends
<1>1. BootInv /\ [BootNext]_bootVars => [Checkpoint' >= Checkpoint]_timeVars
  <2>. SUFFICES ASSUME BootInv, [BootNext]_bootVars PROVE [Checkpoint' >= Checkpoint]_timeVars
    OBVIOUS
  <2>1. CASE BootNext
    BY <2>1, InvStep DEF Promise
  <2>2. CASE UNCHANGED bootVars
    BY <2>2 DEF bootVars
  <2>. QED BY <2>1, <2>2
<1>. QED BY Inductive, <1>1, PTL DEF BootSpec, CheckpointAscends

\* pm_time_now(): a caller is never given a time before the one on flash, also in
\* the middle of pm_time_observe().
THEOREM ReadersAheadOfFlash == BootSpec => NoTimeBeforeCheckpoint
<1>1. BootInv /\ [BootNext]_bootVars =>
        [reader.step = "idle" /\ reader'.step = "read" => reader'.value >= Checkpoint]_timeVars
  <2>. SUFFICES ASSUME BootInv, [BootNext]_bootVars
       PROVE [reader.step = "idle" /\ reader'.step = "read"
                => reader'.value >= Checkpoint]_timeVars
    OBVIOUS
  <2>1. CASE BootNext
    BY <2>1, InvStep DEF Promise
  <2>2. CASE UNCHANGED bootVars
    BY <2>2 DEF bootVars
  <2>. QED BY <2>1, <2>2
<1>. QED BY Inductive, <1>1, PTL DEF BootSpec, NoTimeBeforeCheckpoint

-----------------------------------------------------------------------------
(***************************************************************************)
(* TelemetryDelivery: its types, with the bounds on backoff and deadline;  *)
(* that no sample disappears unnoticed; that a request carries the newest  *)
(* sample; that the two timers agree; and that the cadence does not drift. *)
(***************************************************************************)

\* Where the samples are: one is in flight exactly during a request and was sent,
\* the pending one is the newest and was never sent, and nothing was sent that was
\* not issued.
Samples ==
    /\ inFlight # 0 <=> pc = "request"
    /\ pending # 0 => pending = next - 1 /\ pending \notin wire \cup stored
    /\ inFlight # 0 => inFlight \in wire \cup stored
    /\ \A s \in wire \cup stored : s < next

\* A request was due when it was sent, and stays so until it is over.
Overdue == pc = "request" => due <= 0

Inv == TypeOK /\ Samples /\ EverySampleAccounted /\ TimersAgree /\ Overdue

-----------------------------------------------------------------------------
(***************************************************************************)
(* Facts about the operators.                                              *)
(***************************************************************************)
\* How many of the two places of the slot are taken.
LEMMA Residents ==
    ASSUME NEW p \in Nat, NEW q \in Nat
    PROVE  Cardinality({s \in {p, q} : s # 0}) =
             IF p = 0 THEN IF q = 0 THEN 0 ELSE 1
             ELSE IF q = 0 \/ q = p THEN 1 ELSE 2
<1>. DEFINE S == {s \in {p, q} : s # 0}
<1>1. CASE p = 0 /\ q = 0
  <2>1. S = {} BY <1>1
  <2>. QED BY <1>1, <2>1, FS_EmptySet
<1>2. CASE p = 0 /\ q # 0
  <2>1. S = {q} BY <1>2
  <2>. QED BY <1>2, <2>1, FS_Singleton
<1>3. CASE p # 0 /\ (q = 0 \/ q = p)
  <2>1. S = {p} BY <1>3
  <2>. QED BY <1>3, <2>1, FS_Singleton
<1>4. CASE p # 0 /\ q # 0 /\ q # p
  <2>1. S = {p} \cup {q} BY <1>4
  <2>2. IsFiniteSet({p}) /\ Cardinality({p}) = 1
    BY FS_Singleton
  <2>3. Cardinality({p} \cup {q}) = 2
    BY <1>4, <2>2, FS_AddElement
  <2>. QED BY <1>4, <2>1, <2>3
<1>. QED BY <1>1, <1>2, <1>3, <1>4

\* pm_telemetry_backoff_fail() never waits longer than the cap.
LEMMA DelayBound ==
    ASSUME NEW f \in Nat, NEW random \in Nat
    PROVE  Delay(f, random) \in 0 .. Cap
<1>. DEFINE base == (Second * 2 ^ Least(f, MaxExponent)) % Word
            capped == Least(base, Cap)
            jittered == capped - (capped \div 8) + (random % ((capped \div 4) + 1))
<1>1. base \in Nat
  <2>1. Least(f, MaxExponent) \in Nat
    BY TelemetryAssumption DEF Least
  <2>2. 2 ^ Least(f, MaxExponent) \in Int
    BY <2>1
  <2>3. Second * 2 ^ Least(f, MaxExponent) \in Int
    BY <2>2, TelemetryAssumption
  <2>. QED BY <2>3, TelemetryAssumption
<1>2. capped \in Nat
  BY <1>1, TelemetryAssumption DEF Least
<1>3. jittered \in Nat
  <2>. HIDE DEF capped
  <2>1. capped \div 8 \in Nat /\ capped \div 8 <= capped
    BY <1>2
  <2>2. random % ((capped \div 4) + 1) \in Nat
    BY <1>2
  <2>. QED BY <1>2, <2>1, <2>2
<1>. QED BY <1>3, TelemetryAssumption DEF Delay, Least

LEMMA FailedType ==
    ASSUME NEW b \in Backoff, NEW random \in Nat
    PROVE  Failed(b, random) \in Backoff
<1>1. b.failures \in Nat /\ b.failures \in 0 .. MaxFailures
  BY DEF Backoff
<1>2. Least(b.failures + 1, MaxFailures) \in 0 .. MaxFailures
  BY <1>1, TelemetryAssumption DEF Least
<1>3. Delay(b.failures, random) \in 0 .. Cap
  BY <1>1, DelayBound
<1>. QED BY <1>2, <1>3 DEF Failed, Backoff

LEMMA LaterType ==
    ASSUME NEW b \in Backoff
    PROVE  /\ Later(b) \in Backoff
           /\ Later(b).wait = IF b.wait > 0 THEN b.wait - 1 ELSE 0
BY TelemetryAssumption DEF Later, Backoff

LEMMA ResetType == Reset \in Backoff /\ Reset.wait = 0
BY TelemetryAssumption DEF Reset, Backoff

LEMMA Lag == MaxLag \in Nat \ {0}
BY TelemetryAssumption DEF MaxLag, Greatest

LEMMA Longest == /\ LongestPeriod \in Periods
                 /\ \A q \in Periods : q <= LongestPeriod
BY TelemetryAssumption DEF LongestPeriod

\* The smallest multiple of a period behind an elapsed time.
LEMMA NextMultiple ==
    ASSUME NEW a \in Nat, NEW p \in Nat \ {0}
    PROVE  LET m == (a \div p + 1) * p
           IN  m \in Nat /\ 0 < m - a /\ m - a <= p
OBVIOUS

LEMMA MultipleModulo ==
    ASSUME NEW k \in Int, NEW p \in Nat \ {0}
    PROVE  (k * p) % p = 0
OBVIOUS

\* pm_telemetry_next_fixed_deadline() after a request whose deadline had come:
\* in the future, within one period, and on the grid of the old deadline.
LEMMA NextDueOnGrid ==
    ASSUME due \in Int, -MaxLag <= due, due <= 0, NEW p \in Periods
    PROVE  /\ NextDue(p) \in Int
           /\ 0 < NextDue(p) /\ NextDue(p) <= p
           /\ (NextDue(p) - due) % p = 0
<1>. DEFINE a == MaxLag - (MaxLag + due)
            m == (a \div p + 1) * p
<1>1. p \in Nat \ {0}
  BY TelemetryAssumption
<1>2. a \in Nat /\ a = -due
  BY Lag
<1>3. m \in Nat /\ 0 < m - a /\ m - a <= p
  BY <1>1, <1>2, NextMultiple
<1>4. a \div p + 1 \in Int
  BY <1>1, <1>2
<1>5. m % p = 0
  BY <1>1, <1>4, MultipleModulo
<1>6. NextDue(p) = MaxLag + due + m - MaxLag
  <2>. HIDE DEF m
  <2>1. MaxLag + due \in Nat /\ ~(MaxLag + due > MaxLag)
    BY Lag
  <2>2. NextFixedDeadline(MaxLag + due, MaxLag, p) = MaxLag + due + m
    BY <1>1, <2>1, Lag DEF NextFixedDeadline, m
  <2>. QED BY <1>3, <2>2, Lag DEF NextDue
<1>7. NextDue(p) = due + m
  <2>. HIDE DEF m
  <2>. QED BY <1>3, <1>6, Lag
<1>. QED
  <2>. HIDE DEF m
  <2>1. NextDue(p) = m - a /\ NextDue(p) - due = m
    BY <1>2, <1>3, <1>7
  <2>. QED BY <1>2, <1>3, <1>5, <2>1

-----------------------------------------------------------------------------
LEMMA InitInv == Init => Inv
<1>. SUFFICES ASSUME Init PROVE Inv
  OBVIOUS
<1>1. TypeOK
  <2>1. due \in -MaxLag .. Greatest(Cap, LongestPeriod)
    BY Lag, Longest, TelemetryAssumption DEF Init, Greatest
  <2>2. spent \in 0 .. Greatest(RequestTimeout, JoinTimeout)
    BY TelemetryAssumption DEF Init, Greatest
  <2>3. /\ 0 \in 0 .. MaxSequence /\ 1 \in 1 .. MaxSequence /\ 0 \in 0 .. MaxOutages
        /\ FirstPeriod \in Periods /\ 0 \in Nat
    BY TelemetryAssumption
  <2>. QED BY <2>1, <2>2, <2>3, ResetType DEF Init, TypeOK
<1>2. Samples /\ Overdue
  BY DEF Init, Samples, Overdue
<1>3. EverySampleAccounted
  BY Residents DEF Init, EverySampleAccounted
<1>4. TimersAgree
  BY DEF Init, TimersAgree
<1>. QED BY <1>1, <1>2, <1>3, <1>4 DEF Inv

-----------------------------------------------------------------------------
(***************************************************************************)
(* Types.                                                                  *)
(***************************************************************************)
LEMMA TypeStep == TypeOK /\ Overdue /\ [Next]_vars => TypeOK'
<1>. SUFFICES ASSUME TypeOK, Overdue, [Next]_vars PROVE TypeOK'
  OBVIOUS
<1>. USE DEF slotVars, serverVars, timers, wifiVars, world
<1>0. /\ 0 \in -MaxLag .. Greatest(Cap, LongestPeriod)
      /\ 0 .. Cap \subseteq -MaxLag .. Greatest(Cap, LongestPeriod)
      /\ \A p \in Periods : 1 .. p \subseteq -MaxLag .. Greatest(Cap, LongestPeriod)
      /\ 0 \in 0 .. Greatest(RequestTimeout, JoinTimeout)
  BY Lag, Longest, TelemetryAssumption DEF Greatest
<1>1. CASE Offer
  <2>1. next \in 0 .. MaxSequence /\ next + 1 \in 1 .. MaxSequence
    BY <1>1, TelemetryAssumption DEF Offer, TypeOK
  <2>2. replaced' \in Nat
    BY <1>1 DEF Offer, TypeOK
  <2>. QED BY <1>1, <2>1, <2>2 DEF Offer, TypeOK
<1>2. CASE Connect
  BY <1>0, <1>2 DEF Connect, TypeOK
<1>3. ASSUME WifiFailed
      PROVE  /\ wifi' \in Backoff /\ pc' = "connect"
             /\ spent' \in 0 .. Greatest(RequestTimeout, JoinTimeout)
             /\ UNCHANGED <<due, period, srv>>
  <2>1. PICK random \in 0 .. Cap : wifi' = Failed(wifi, random)
    BY <1>3 DEF WifiFailed
  <2>2. random \in Nat /\ wifi \in Backoff
    BY TelemetryAssumption DEF TypeOK
  <2>. QED BY <1>0, <1>3, <2>1, <2>2, FailedType DEF WifiFailed
<1>4. CASE ConnectRefused
  BY <1>3, <1>4 DEF ConnectRefused, TypeOK
<1>5. CASE Joined
  BY <1>0, <1>5, ResetType DEF Joined, TypeOK
<1>6. CASE NotJoined
  BY <1>3, <1>6 DEF NotJoined, TypeOK
<1>7. CASE LinkLost
  BY <1>7 DEF LinkLost, TypeOK
<1>8. CASE Send
  <2>1. wire' \in SUBSET (1 .. MaxSequence)
    BY <1>8, TelemetryAssumption DEF Send, TypeOK
  <2>2. 0 \in 0 .. MaxSequence
    BY TelemetryAssumption
  <2>. QED BY <1>0, <1>8, <2>1, <2>2 DEF Send, TypeOK
<1>9. ASSUME NEW p \in Periods, Succeeded(p), due <= 0
      PROVE  /\ period' \in Periods /\ srv' \in Backoff /\ wifi' \in Backoff
             /\ due' \in -MaxLag .. Greatest(Cap, LongestPeriod)
             /\ pc' = "loop" /\ spent' \in 0 .. Greatest(RequestTimeout, JoinTimeout)
  <2>1. due \in Int /\ -MaxLag <= due
    BY Lag DEF TypeOK
  <2>2. NextDue(p) \in 1 .. p
    BY <1>9, <2>1, NextDueOnGrid, TelemetryAssumption
  <2>3. NextDue(p) \in -MaxLag .. Greatest(Cap, LongestPeriod)
    BY <1>0, <2>2
  <2>. QED BY <1>0, <1>9, <2>3, ResetType DEF Succeeded, TypeOK
<1>10. CASE NothingToSend
  <2>1. due <= 0 /\ period \in Periods /\ Succeeded(period)
    BY <1>10 DEF NothingToSend, TelemetryDue, TypeOK
  <2>. QED BY <1>9, <1>10, <2>1 DEF NothingToSend, TypeOK
<1>11. CASE Accepted
  <2>1. PICK p \in Periods : Succeeded(p)
    BY <1>11 DEF Accepted
  <2>2. due <= 0
    BY <1>11 DEF Accepted, Overdue
  <2>3. accepted' \in Nat /\ 0 \in 0 .. MaxSequence
    BY <1>11, TelemetryAssumption DEF Accepted, TypeOK
  <2>. QED BY <1>9, <1>11, <2>1, <2>2, <2>3 DEF Accepted, TypeOK
<1>12. CASE Rejected
  <2>1. PICK random \in 0 .. Cap : srv' = Failed(srv, random)
    BY <1>12 DEF Rejected
  <2>2. random \in Nat /\ srv \in Backoff
    BY TelemetryAssumption DEF TypeOK
  <2>3. srv' \in Backoff
    BY <2>1, <2>2, FailedType
  <2>4. due' \in 0 .. Cap
    BY <1>12, <2>3 DEF Rejected, Backoff
  <2>5. failed' \in Nat /\ 0 \in 0 .. MaxSequence
    BY <1>12, TelemetryAssumption DEF Rejected, TypeOK
  <2>. QED BY <1>0, <1>12, <2>3, <2>4, <2>5 DEF Rejected, TypeOK
<1>13. CASE GotIp \/ Disconnected
  BY <1>13 DEF GotIp, Disconnected, TypeOK
<1>14. ASSUME NEW s \in wire, ServerStores(s) PROVE TypeOK'
  BY <1>14 DEF ServerStores, TypeOK
<1>15. CASE OutageBegins \/ OutageEnds
  <2>1. outages' \in 0 .. MaxOutages
    BY <1>15, TelemetryAssumption DEF OutageBegins, OutageEnds, TypeOK
  <2>2. outage' \in BOOLEAN
    BY <1>15 DEF OutageBegins, OutageEnds
  <2>. QED BY <1>15, <2>1, <2>2 DEF OutageBegins, OutageEnds, TypeOK
<1>16. CASE Tick
  <2>1. due' \in -MaxLag .. Greatest(Cap, LongestPeriod)
    BY <1>16, Lag, Longest, TelemetryAssumption DEF Tick, TypeOK, Greatest
  <2>2. srv' \in Backoff /\ wifi' \in Backoff
    BY <1>16, LaterType DEF Tick, TypeOK
  <2>3. spent' \in 0 .. Greatest(RequestTimeout, JoinTimeout)
    <3>1. spent \in Nat /\ spent <= Greatest(RequestTimeout, JoinTimeout)
      BY TelemetryAssumption DEF TypeOK, Greatest
    <3>2. CASE pc = "joining"
      <4>1. spent < JoinTimeout
        BY <1>16, <3>1, <3>2, TelemetryAssumption DEF Tick, Idle, InTime
      <4>. QED BY <1>16, <3>1, <3>2, <4>1, TelemetryAssumption DEF Tick, Greatest
    <3>3. CASE pc = "request"
      <4>1. spent < RequestTimeout
        BY <1>16, <3>1, <3>3, TelemetryAssumption DEF Tick, Idle, InTime
      <4>. QED BY <1>16, <3>1, <3>3, <4>1, TelemetryAssumption DEF Tick, Greatest
    <3>. QED BY <1>16, <3>1, <3>2, <3>3 DEF Tick, TypeOK
  <2>. QED BY <1>16, <2>1, <2>2, <2>3 DEF Tick, TypeOK
<1>17. CASE UNCHANGED vars
  BY <1>17 DEF vars, TypeOK
<1>. QED BY <1>1, <1>2, <1>4, <1>5, <1>6, <1>7, <1>8, <1>10, <1>11, <1>12, <1>13,
            <1>14, <1>15, <1>16, <1>17 DEF Next, NetworkTask

-----------------------------------------------------------------------------
(***************************************************************************)
(* The samples.                                                            *)
(***************************************************************************)
LEMMA SampleStep ==
    TypeOK /\ Samples /\ EverySampleAccounted /\ [Next]_vars
      => Samples' /\ EverySampleAccounted'
<1>. SUFFICES ASSUME TypeOK, Samples, EverySampleAccounted, [Next]_vars
              PROVE  Samples' /\ EverySampleAccounted'
  OBVIOUS
<1>. USE DEF slotVars, serverVars
<1>0. /\ pending \in Nat /\ inFlight \in Nat /\ next \in Nat \ {0}
      /\ replaced \in Nat /\ failed \in Nat /\ accepted \in Nat
      /\ wire \cup stored \subseteq Nat \ {0}
      /\ inFlight # 0 => inFlight # pending
  BY TelemetryAssumption DEF TypeOK, Samples
<1>1. ASSUME UNCHANGED <<slotVars, serverVars>>, (pc' = "request") <=> (pc = "request")
      PROVE  Samples' /\ EverySampleAccounted'
  BY <1>1 DEF Samples, EverySampleAccounted
<1>2. CASE Offer
  <2>1. pending' \in Nat /\ inFlight' \in Nat /\ pending' # 0 /\ pending' = next
        /\ next' = next + 1 /\ inFlight' = inFlight /\ failed' = failed
        /\ accepted' = accepted /\ wire' = wire /\ stored' = stored /\ pc' = pc
    BY <1>0, <1>2 DEF Offer
  <2>2. Samples'
    BY <1>0, <2>1 DEF Samples
  <2>3. inFlight # 0 => inFlight # next
    BY <1>0 DEF Samples
  <2>4. EverySampleAccounted'
    BY <1>0, <1>2, <2>1, <2>3, Residents DEF Offer, EverySampleAccounted
  <2>. QED BY <2>2, <2>4
<1>3. CASE Send
  <2>1. pending' \in Nat /\ inFlight' \in Nat /\ pending' = 0 /\ inFlight' = pending
        /\ inFlight = 0 /\ pending # 0 /\ next' = next /\ failed' = failed
        /\ replaced' = replaced /\ accepted' = accepted
        /\ wire' = wire \cup {pending} /\ stored' = stored /\ pc' = "request"
    BY <1>0, <1>3 DEF Send
  <2>2. Samples'
    BY <1>0, <2>1 DEF Samples
  <2>3. EverySampleAccounted'
    BY <1>0, <2>1, Residents DEF EverySampleAccounted
  <2>. QED BY <2>2, <2>3
<1>4. ASSUME inFlight # 0, inFlight' = 0, pc' = "loop",
             UNCHANGED <<pending, next, replaced, serverVars>>,
             \/ accepted' = accepted + 1 /\ failed' = failed
             \/ failed' = failed + 1 /\ accepted' = accepted
      PROVE  Samples' /\ EverySampleAccounted'
  <2>1. Samples'
    BY <1>4 DEF Samples
  <2>2. EverySampleAccounted'
    BY <1>0, <1>4, Residents DEF EverySampleAccounted
  <2>. QED BY <2>1, <2>2
<1>5. CASE Accepted
  BY <1>4, <1>5 DEF Accepted, Succeeded, Samples
<1>6. CASE Rejected
  BY <1>4, <1>6 DEF Rejected, Samples
<1>7. ASSUME NEW s \in wire, ServerStores(s)
      PROVE  Samples' /\ EverySampleAccounted'
  <2>1. wire' \cup stored' = wire \cup stored
    BY <1>7 DEF ServerStores
  <2>. QED BY <1>7, <2>1 DEF ServerStores, Samples, EverySampleAccounted
<1>8. CASE \/ Connect \/ ConnectRefused \/ Joined \/ NotJoined \/ LinkLost
           \/ NothingToSend \/ GotIp \/ Disconnected \/ OutageBegins \/ OutageEnds
           \/ Tick \/ UNCHANGED vars
  BY <1>1, <1>8 DEF Connect, ConnectRefused, Joined, NotJoined, LinkLost, NothingToSend,
     GotIp, Disconnected, OutageBegins, OutageEnds, Tick, vars, WifiFailed, Succeeded,
     TelemetryDue
<1>. QED BY <1>2, <1>3, <1>5, <1>6, <1>7, <1>8 DEF Next, NetworkTask

-----------------------------------------------------------------------------
(***************************************************************************)
(* The timers.                                                             *)
(***************************************************************************)
LEMMA TimerStep ==
    TypeOK /\ TimersAgree /\ Overdue /\ [Next]_vars => TimersAgree' /\ Overdue'
<1>. SUFFICES ASSUME TypeOK, TimersAgree, Overdue, [Next]_vars
              PROVE  TimersAgree' /\ Overdue'
  OBVIOUS
<1>. USE DEF TimersAgree, Overdue, Greatest, timers
<1>0. due \in Int /\ srv \in Backoff /\ wifi \in Backoff /\ srv.wait \in Nat
  BY Lag DEF TypeOK, Backoff
<1>1. CASE Joined
  BY <1>1, ResetType DEF Joined
<1>2. CASE Send
  BY <1>2 DEF Send, TelemetryDue
<1>3. ASSUME NEW p \in Periods, Succeeded(p), due <= 0
      PROVE  TimersAgree' /\ Overdue'
  <2>1. -MaxLag <= due
    BY Lag DEF TypeOK
  <2>2. NextDue(p) \in Int /\ 0 < NextDue(p)
    BY <1>0, <1>3, <2>1, NextDueOnGrid
  <2>. QED BY <1>3, <2>2, ResetType DEF Succeeded
<1>4. CASE NothingToSend
  BY <1>3, <1>4 DEF NothingToSend, TelemetryDue, TypeOK
<1>5. CASE Accepted
  BY <1>3, <1>5 DEF Accepted
<1>6. CASE Rejected
  <2>1. PICK random \in 0 .. Cap : srv' = Failed(srv, random)
    BY <1>6 DEF Rejected
  <2>2. srv' \in Backoff
    BY <1>0, <2>1, FailedType, TelemetryAssumption
  <2>3. srv'.wait \in Nat
    BY <2>2 DEF Backoff
  <2>. QED BY <1>6, <2>3 DEF Rejected
<1>7. CASE Tick
  <2>1. srv'.wait = IF srv.wait > 0 THEN srv.wait - 1 ELSE 0
    BY <1>0, <1>7, LaterType DEF Tick
  <2>2. due' = IF due - 1 >= -MaxLag THEN due - 1 ELSE -MaxLag
    BY <1>7 DEF Tick
  <2>3. pc' = pc
    BY <1>7 DEF Tick
  <2>. QED BY <1>0, <2>1, <2>2, <2>3, Lag
<1>8. CASE \/ Connect \/ ConnectRefused \/ NotJoined \/ LinkLost
  BY <1>8 DEF Connect, ConnectRefused, NotJoined, LinkLost, WifiFailed
<1>9. CASE \/ Offer \/ GotIp \/ Disconnected \/ OutageBegins \/ OutageEnds
           \/ UNCHANGED vars \/ \E s \in wire : ServerStores(s)
  BY <1>9 DEF Offer, GotIp, Disconnected, OutageBegins, OutageEnds, vars, ServerStores
<1>. QED BY <1>1, <1>2, <1>4, <1>5, <1>6, <1>7, <1>8, <1>9 DEF Next, NetworkTask

-----------------------------------------------------------------------------
LEMMA Invariance == Spec => []Inv
<1>1. Inv /\ [Next]_vars => Inv'
  BY TypeStep, SampleStep, TimerStep DEF Inv
<1>. QED BY <1>1, InitInv, PTL DEF Spec

\* The types: among them that no delay of pm_telemetry_backoff_fail() exceeds the
\* cap for any failure count and random value, and that no deadline lies further
\* in the past than one request takes.
THEOREM TelemetryTypes == Spec => []TypeOK
<1>1. Inv => TypeOK
  BY DEF Inv
<1>. QED BY <1>1, Invariance, PTL

\* Every sample issued is resident in the slot or counted as replaced, failed or
\* accepted, for any number of samples and any interleaving of the measurement
\* task with a request.
THEOREM SamplesAccounted == Spec => []EverySampleAccounted
<1>1. Inv => EverySampleAccounted
  BY DEF Inv
<1>. QED BY <1>1, Invariance, PTL

\* A request whose deadline has come is never held up by a stale backoff.
THEOREM TimersStayTogether == Spec => []TimersAgree
<1>1. Inv => TimersAgree
  BY DEF Inv
<1>. QED BY <1>1, Invariance, PTL

\* Each request carries the newest sample, one that was never sent before:
\* pm_telemetry_begin_send() is the only step that puts a sample in flight.
THEOREM NewestFirst == Spec => NewestIsSent
<1>1. Inv /\ [Next]_vars
        => [inFlight' \notin {0, inFlight} =>
              inFlight' = next - 1 /\ inFlight' \notin wire \cup stored]_vars
  <2>. SUFFICES ASSUME Inv, [Next]_vars, inFlight' \notin {0, inFlight}
                PROVE  inFlight' = next - 1 /\ inFlight' \notin wire \cup stored
    OBVIOUS
  <2>1. Send
    BY DEF Next, NetworkTask, Offer, Connect, ConnectRefused, Joined, NotJoined, LinkLost,
       NothingToSend, Accepted, Rejected, GotIp, Disconnected, ServerStores,
       OutageBegins, OutageEnds, Tick, vars, slotVars
  <2>. QED BY <2>1 DEF Send, Inv, Samples
<1>. QED BY <1>1, Invariance, PTL DEF Spec, NewestIsSent

\* The deadline after a completed request is in the future, within one period and
\* a whole number of periods after the last one, whatever the latency was and
\* whichever cadence the server chose.
THEOREM NoDrift == Spec => CadenceKept
<1>1. Inv /\ [Next]_vars
        => [Accepted \/ NothingToSend =>
              0 < due' /\ due' <= period' /\ (due' - due) % period' = 0]_vars
  <2>. SUFFICES ASSUME Inv, Accepted \/ NothingToSend
                PROVE  0 < due' /\ due' <= period' /\ (due' - due) % period' = 0
    OBVIOUS
  <2>1. due \in Int /\ -MaxLag <= due /\ period \in Periods
    BY Lag DEF Inv, TypeOK
  <2>2. due <= 0
    BY DEF Inv, Overdue, Accepted, NothingToSend, TelemetryDue
  <2>3. PICK p \in Periods : Succeeded(p)
    BY <2>1 DEF Accepted, NothingToSend
  <2>. QED BY <2>1, <2>2, <2>3, NextDueOnGrid DEF Succeeded
<1>. QED BY <1>1, Invariance, PTL DEF Spec, CadenceKept

=============================================================================
