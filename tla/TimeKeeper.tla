----------------------------- MODULE TimeKeeper -----------------------------
(***************************************************************************)
(* components/pm_protocol/pm_time.c and its users in app_main_stateless.c: *)
(* the supervisor observes the system clock, the measurement task and the  *)
(* OTA task ask for the time, and an A/B pair of NVS slots keeps the       *)
(* latest time that was handed out.  The supervisor takes no lock: the     *)
(* fields of s_time are written one by one while another task reads them   *)
(* and notes what it returned.  A call of pm_time_now() is a few           *)
(* instructions: it may fall between any two assignments, but lasts no     *)
(* tick and no flash write, and two calls do not overlap.                  *)
(*                                                                         *)
(* Ticks stand for the microseconds of esp_timer and the milliseconds of   *)
(* UTC alike, and 0 for every UTC before 2024, which the code refuses.     *)
(* The clock and its synchronisation (SNTP, the RTC) are external.         *)
(***************************************************************************)
EXTENDS Integers

CONSTANTS
  Period,      \* ticks between two observations, an hour in the code
  BackStep,    \* maximum_backward_step_ms, five minutes in the code
  Errors,      \* how far a synchronised clock may be off
  MaxUptime,   \* bound: ticks of one boot
  MaxWall,     \* bound: ticks of a behaviour
  MaxFaults    \* bound: operations that fail

ASSUME TimeAssumption ==
  /\ {Period, BackStep, MaxUptime, MaxFaults} \subseteq Nat
  /\ BackStep < Period
  /\ Errors \subseteq Int /\ 0 \in Errors
  /\ MaxWall \in Nat /\ \A e \in Errors : MaxWall + e > 0

VARIABLES
  uptime,    \* esp_timer_get_time()
  wall,      \* true time
  clock,     \* time(NULL), 0 until it is synchronised
  time,      \* s_time
  marks,     \* NVS "slot_a" and "slot_b"
  observer,  \* the supervisor's loop, and its local variables
  reader,    \* a call of pm_time_now()
  faults

timeVars == <<uptime, wall, clock, time, marks, observer, reader, faults>>

Empty == [read |-> FALSE, utc |-> 0, gen |-> 0]
Untrusted(mono) == [trusted |-> FALSE, utc |-> 0, mono |-> mono, last |-> 0]
IdleObserver(checked) == [step |-> "wait", utc |-> 0, mono |-> 0, last |-> 0, checked |-> checked]
IdleReader == [step |-> "idle", value |-> 0]

Latest(m, n) == IF m > n THEN m ELSE n

Faulty == faults < MaxFaults /\ faults' = faults + 1
NoFault == faults' = faults

-----------------------------------------------------------------------------
(* The checkpoint.                                                         *)

Valid == {k \in DOMAIN marks : marks[k].read}

NewestMark == CHOOSE k \in Valid : \A j \in Valid : marks[k].gen >= marks[j].gen

Checkpoint == IF Valid = {} THEN 0 ELSE marks[NewestMark].utc

\* Fault of NextSlot: always the same slot is written.
NextSlotFirst(gen) == "a"

\* Odd generations go to slot_a.
NextSlot(gen) == IF gen % 2 = 1 THEN "a" ELSE "b"

\* pm_time_init() and pm_time_load_checkpoint(), which takes the loaded time for
\* the time now.
LoadedTime(mono) ==
  IF Valid = {} THEN Untrusted(mono)
  ELSE [trusted |-> TRUE, utc |-> Checkpoint, mono |-> mono, last |-> Checkpoint]

-----------------------------------------------------------------------------
(* supervisor_task() and pm_time_observe().                                *)

Projected(mono) == time.utc + (mono - time.mono)

\* The bounds of 2024 and 2100; 2100 is out of reach here.
Plausible(utc) == utc > 0

\* The loop looks at the clock: at once while no time is trusted, else hourly.
\* An observation too far behind the projection is refused.
Observe ==
  /\ observer.step = "wait"
  /\ ~time.trusted \/ uptime - observer.checked >= Period
  /\ Plausible(clock)
  /\ time.trusted => clock + BackStep >= Projected(uptime)
  /\ observer' = [observer EXCEPT !.step = "utc", !.utc = clock, !.mono = uptime]
  /\ UNCHANGED <<uptime, wall, clock, time, marks, reader, faults>>

\* last_returned_utc_ms after an observation, from the value read before.
NextLast == Latest(observer.utc, observer.last)

\* The assignments of pm_time_observe(), in order.
Assign ==
  \/ /\ observer.step = "utc"
     /\ time' = [time EXCEPT !.utc = observer.utc]
     /\ observer' = [observer EXCEPT !.step = "mono"]
  \/ /\ observer.step = "mono"
     /\ time' = [time EXCEPT !.mono = observer.mono]
     /\ observer' = [observer EXCEPT !.step = "last", !.last = time.last]
  \/ /\ observer.step = "last"
     /\ time' = [time EXCEPT !.last = NextLast]
     /\ observer' = [observer EXCEPT !.step = "trust"]
  \/ /\ observer.step = "trust"
     /\ time' = [time EXCEPT !.trusted = TRUE]
     /\ observer' = [observer EXCEPT !.step = "persist"]

ObserveAssigns == Assign /\ UNCHANGED <<uptime, wall, clock, marks, reader, faults>>

\* persist(): the result decides when the next observation is due, not what is
\* believed.
Persist ==
  /\ observer.step = "persist" /\ reader.step = "idle"
  /\ LET gen == IF Valid = {} THEN 1 ELSE marks[NewestMark].gen + 1
         key == NextSlot(gen)
         new == [read |-> TRUE, utc |-> time.last, gen |-> gen]
     IN  \/ /\ marks' = [marks EXCEPT ![key] = new]
            /\ observer' = IdleObserver(observer.mono)
            /\ NoFault
         \/ /\ Faulty
            /\ \E left \in {marks[key], new, Empty} : marks' = [marks EXCEPT ![key] = left]
            /\ observer' = IdleObserver(observer.checked)
  /\ UNCHANGED <<uptime, wall, clock, time, reader>>

-----------------------------------------------------------------------------
(* pm_time_now().                                                          *)

\* Fault of TimeOf: the time handed out before is not looked at.
TimeOfProjected(mono) == Projected(mono)

TimeOf(mono) == Latest(Projected(mono), time.last)

\* The caller reads s_time; without trust it gets no time.
ReadTime ==
  /\ reader.step = "idle"
  /\ time.trusted /\ uptime >= time.mono
  /\ reader' = [step |-> "read", value |-> TimeOf(uptime)]
  /\ UNCHANGED <<uptime, wall, clock, time, marks, observer, faults>>

\* It notes what it returns.
ReturnTime ==
  /\ reader.step = "read"
  /\ time' = [time EXCEPT !.last = reader.value]
  /\ reader' = IdleReader
  /\ UNCHANGED <<uptime, wall, clock, marks, observer, faults>>

-----------------------------------------------------------------------------
(* The clock.                                                              *)

ClockTick ==
  /\ reader.step = "idle" /\ observer.step = "wait"
  /\ uptime < MaxUptime /\ wall < MaxWall
  /\ uptime' = uptime + 1 /\ wall' = wall + 1
  /\ clock' = IF clock = 0 THEN 0 ELSE clock + 1
  /\ UNCHANGED <<time, marks, observer, reader, faults>>

\* SNTP answers.
Synchronise ==
  /\ \E e \in Errors : clock' = wall + e
  /\ clock' > 0
  /\ UNCHANGED <<uptime, wall, time, marks, observer, reader, faults>>

TimeInit ==
  /\ uptime = 0 /\ wall = 1 /\ clock = 0
  /\ time = Untrusted(0) /\ marks = [k \in {"a", "b"} |-> Empty]
  /\ observer = IdleObserver(0) /\ reader = IdleReader /\ faults = 0

\* A restart keeps the NVS, and the clock unless the power was gone.
TimeRestarts ==
  /\ uptime' = 0 /\ clock' \in {0, clock}
  /\ wall' \in {wall, wall + 1} /\ wall' <= MaxWall
  /\ time' = Untrusted(0)
  /\ observer' = IdleObserver(0) /\ reader' = IdleReader
  /\ UNCHANGED marks

\* The types of the time keeper and of its checkpoint slots.
TimeTypeOK ==
  /\ uptime \in 0..MaxUptime /\ wall \in 1..MaxWall /\ clock \in Nat
  /\ time \in [trusted : BOOLEAN, utc : Nat, mono : Nat, last : Nat]
  /\ time.trusted => time.utc > 0
  /\ marks \in [{"a", "b"} -> [read : BOOLEAN, utc : Nat, gen : Nat]]
  /\ observer \in [step : {"wait", "utc", "mono", "last", "trust", "persist"},
                   utc : Nat, mono : Nat, last : Nat, checked : Nat]
  /\ reader \in [step : {"idle", "read"}, value : Nat]
  /\ faults \in 0..MaxFaults

-----------------------------------------------------------------------------
(* Properties.                                                             *)

\* The time kept on flash never goes back, over restarts, clock corrections,
\* failed writes and the unlocked updates of last_returned_utc_ms: persist() is
\* given the latest time that was returned, and spares the newest good slot.
CheckpointAscends == [][Checkpoint' >= Checkpoint]_timeVars

\* No caller is given a time earlier than the one on flash, also while an
\* observation is half assigned and whatever the clock was set back to.
NoTimeBeforeCheckpoint ==
  [][reader.step = "idle" /\ reader'.step = "read" => reader'.value >= Checkpoint]_timeVars

=============================================================================
