--------------------------- MODULE SequenceProofs ---------------------------
(***************************************************************************)
(* What every step of the sequence store preserves as long as the calls of *)
(* its tasks do not overlap.  The modules that compose the store cite      *)
(* these lemmas, one per action of SequenceStore and one for each thing a  *)
(* caller does to a call: begin it and take its result.                    *)
(*                                                                         *)
(* The heart of the argument is what a boot may load.  A slot is elected   *)
(* when pm_sequence_load() would take it; persist() numbers what it writes *)
(* one above the RAM state, and no slot is further ahead.  So whatever a   *)
(* write leaves behind, the elected slot either has not changed or is the  *)
(* candidate that was being written, which covers all that the device has  *)
(* handed out and acted on.                                                *)
(***************************************************************************)
EXTENDS SequenceStore, WellFoundedInduction, TLAPS

-----------------------------------------------------------------------------
(* Numbers: a set of naturals has a least member, a bounded one a greatest. *)

LEMMA LeastNumber ==
    ASSUME NEW T \in SUBSET Nat, T # {}
    PROVE  \E x \in T : \A y \in T : x <= y
  <1> DEFINE R == OpToRel(<, Nat)
  <1>1. IsWellFoundedOn(R, Nat)
    BY NatLessThanWellFounded
  <1>2. R = {ss \in Nat \X Nat : ss[1] < ss[2]}
    BY DEF OpToRel
  <1> HIDE DEF R
  <1>3. PICK x \in T : \A y \in T : ~(<<y, x>> \in R)
    BY <1>1, WFMin
  <1>4. \A y \in T : ~(y < x)
    BY <1>2, <1>3
  <1>5. QED BY <1>4

LEMMA GreatestNumber ==
    ASSUME NEW m \in Nat, NEW T \in SUBSET (0 .. m), T # {}
    PROVE  Max(T) \in T /\ \A y \in T : Max(T) >= y
  <1> DEFINE U == {m - y : y \in T}
  <1>1. \A y \in T : y \in 0 .. m
    OBVIOUS
  <1>2. U \in SUBSET Nat /\ U # {}
    <2>1. \A y \in T : m - y \in Nat
      BY <1>1
    <2>2. QED BY <2>1
  <1>3. PICK u \in U : \A v \in U : u <= v
    BY <1>2, LeastNumber
  <1>4. m - u \in T /\ \A y \in T : m - u >= y
    BY <1>1, <1>3
  <1>5. QED BY <1>4 DEF Max

-----------------------------------------------------------------------------
(* The invariant of the store.                                             *)

InFlight == {"copied", "planned", "written", "selected"}
Busy(t) == call[t].pc \in InFlight

\* A state from which nothing is handed out or forgotten a second time.
Covers(s) == best <= s.ack /\ \A n \in DOMAIN handed : handed[n] <= s.seen

\* What an operation makes of the RAM state.
Candidate(op, s) ==
  /\ s.gen = ram.gen /\ SlotValid(s)
  /\ s.ack >= ram.ack /\ s.seen >= ram.seen
  /\ op = "allocate" => s.seen = ram.next
  /\ op = "reserve" => s.next < Limit /\ s.reserved >= s.next

\* One call at a time is inside pm_sequence.c.
Turns == \A t, u \in Tasks : Busy(t) /\ Busy(u) => t = u

Phases ==
  /\ power \in {"off", "halted"} => \A t \in Tasks : call[t].pc = "idle"
  /\ power = "loading" =>
       /\ Busy("boot") /\ ram = Fresh
       /\ \A t \in Tasks \ {"boot"} : call[t].pc = "idle"
  /\ power = "on" => call["boot"].pc = "idle"
  /\ \A t \in Tasks : Busy(t) => (t = "boot" <=> call[t].op = "fresh")

Running == power \in {"loading", "on"}

Working ==
  Running => /\ SlotValid(ram) /\ Covers(ram)
             /\ \A k \in Keys : slots[k].read = "ok" => slots[k].state.gen <= ram.gen + 1

Candidates == \A t \in Tasks : Busy(t) => Candidate(call[t].op, call[t].copy)

Written ==
  \A t \in Tasks : call[t].pc \in {"written", "selected"} =>
      slots[call[t].key] = Holding(Persisted(call[t].copy))

\* pm_sequence_load() would take this slot.
Elected(k) ==
  /\ slots[k].read = "ok"
  /\ \A j \in Keys : slots[j].read # "missing" =>
       /\ slots[j].read = "ok"
       /\ slots[j].state.gen < slots[k].state.gen \/ slots[j].state = slots[k].state

Latest == \A k \in Keys : Elected(k) => Covers(slots[k].state)

\* A store that was never written has given nothing away.
Blank == (\A k \in Keys : slots[k].read = "missing") => handed = <<>> /\ best = 0

SlotsValid == \A k \in Keys : slots[k].read = "ok" => SlotValid(slots[k].state)

\* Without failing writes the slots differ in generation, and only a write that is
\* being selected is ahead of the RAM state.
Clean ==
  faults = 0 =>
    /\ \A k \in Keys : slots[k].read # "invalid"
    /\ \A j, k \in Keys : j # k /\ slots[j].read = "ok" /\ slots[k].read = "ok" =>
                              slots[j].state.gen # slots[k].state.gen
    /\ Running => \A k \in Keys : slots[k].read = "ok" =>
                     \/ slots[k].state.gen <= ram.gen
                     \/ \E t \in Tasks : call[t].pc \in {"written", "selected"} /\ call[t].key = k

Once == \A m, n \in DOMAIN handed : m # n => handed[m] # handed[n]

Sound == Turns /\ Phases /\ Working /\ Candidates /\ Written /\ Latest /\ Blank /\ SlotsValid
            /\ Clean /\ Once

SeqInv == SeqTypeOK /\ Sound

-----------------------------------------------------------------------------
(* Types.                                                                  *)

CallType == [pc : {"idle", "copied", "planned", "written", "selected", "done", "failed"},
             op : {"none", "fresh", "reserve", "allocate", "ack", "floor"},
             copy : SequenceState, key : Keys]

LEMMA FreshType == Fresh \in SequenceState /\ SlotValid(Fresh)
  BY SequenceAssumption DEF Fresh, SequenceState, SlotValid

LEMMA IdleCallType == IdleCall \in CallType /\ IdleCall.pc = "idle"
  BY FreshType DEF IdleCall, CallType, Keys

LEMMA StateNumbers ==
    ASSUME NEW s \in SequenceState
    PROVE  /\ s.next \in 1 .. Limit + 1 /\ s.reserved \in 0 .. Limit /\ s.seen \in 0 .. Limit
           /\ s.ack \in 0 .. Limit
           /\ {s.next, s.reserved, s.seen, s.ack, s.gen, s.reset, Limit} \subseteq Nat
  <1>1. /\ s.next \in 1 .. Limit + 1 /\ s.reserved \in 0 .. Limit /\ s.seen \in 0 .. Limit
        /\ s.ack \in 0 .. Limit /\ s.gen \in Nat /\ s.reset \in Nat
    BY DEF SequenceState
  <1>2. QED BY <1>1, SequenceAssumption

LEMMA PersistedType ==
    ASSUME NEW s \in SequenceState
    PROVE  /\ Persisted(s) \in SequenceState
           /\ Persisted(s).gen = s.gen + 1 /\ Persisted(s).next = s.next
           /\ Persisted(s).reserved = s.reserved /\ Persisted(s).seen = s.seen
           /\ Persisted(s).ack = s.ack
           /\ SlotValid(s) => SlotValid(Persisted(s))
  BY DEF Persisted, SequenceState, SlotValid

LEMMA SlotTypes ==
    ASSUME NEW s \in SequenceState
    PROVE  /\ Holding(s) \in [read : {"missing", "invalid", "ok"}, state : SequenceState]
           /\ Unreadable \in [read : {"missing", "invalid", "ok"}, state : SequenceState]
           /\ Missing \in [read : {"missing", "invalid", "ok"}, state : SequenceState]
           /\ Holding(s).read = "ok" /\ Holding(s).state = s
           /\ Unreadable.read = "invalid" /\ Missing.read = "missing"
  BY FreshType DEF Holding, Unreadable, Missing

LEMMA HandedNumbers ==
    ASSUME SeqTypeOK
    PROVE  \A n \in DOMAIN handed : handed[n] \in Nat
  <1>1. handed \in Seq(Numbers) /\ Numbers \subseteq Nat
    BY SequenceAssumption DEF SeqTypeOK, Numbers
  <1>2. \A n \in DOMAIN handed : handed[n] \in Numbers
    BY <1>1
  <1>3. QED BY <1>1, <1>2

LEMMA SeqInitInv == SeqInit => SeqInv
  <1> SUFFICES ASSUME SeqInit PROVE SeqInv
    OBVIOUS
  <1>1. SeqTypeOK
    <2>1. slots \in [Keys -> [read : {"missing", "invalid", "ok"}, state : SequenceState]]
      BY FreshType, SlotTypes DEF SeqInit
    <2>2. call \in [Tasks -> CallType]
      BY IdleCallType DEF SeqInit
    <2>3. handed \in Seq(Numbers) /\ best \in 0 .. Limit
      BY SequenceAssumption DEF SeqInit
    <2>4. QED BY <2>1, <2>2, <2>3, FreshType, SequenceAssumption DEF SeqInit, SeqTypeOK, CallType
  <1>2. \A t \in Tasks : ~Busy(t) /\ call[t].pc = "idle"
    BY IdleCallType DEF SeqInit, Busy, InFlight
  <1>3. \A k \in Keys : slots[k].read = "missing"
    BY FreshType, SlotTypes DEF SeqInit
  <1>4. handed = <<>> /\ best = 0 /\ power = "off"
    BY DEF SeqInit
  <1>5. Turns /\ Phases /\ Candidates /\ Written
    BY <1>2, <1>4 DEF Turns, Phases, Candidates, Written
  <1>6. Working /\ Blank /\ SlotsValid /\ Clean
    BY <1>3, <1>4 DEF Working, Running, Blank, SlotsValid, Clean
  <1>7. Latest /\ Once
    BY <1>3, <1>4 DEF Latest, Elected, Once
  <1>8. QED BY <1>1, <1>5, <1>6, <1>7 DEF SeqInv, Sound

-----------------------------------------------------------------------------
(* Steps of a call that leave the slots and the RAM state alone.           *)

Still == UNCHANGED <<slots, ram, handed, best>>

\* What depends on neither the calls nor the power.
LEMMA StillKept ==
    ASSUME Latest, Blank, SlotsValid, Once, Still
    PROVE  Latest' /\ Blank' /\ SlotsValid' /\ Once'
  BY DEF Latest, Elected, Covers, Blank, SlotsValid, SlotValid, Once, Still

LEMMA CallStep ==
    ASSUME SeqInv, NEW t \in Tasks, NEW c \in CallType, Still, power' = power,
           selector' \in Keys \cup {"none"}, faults' \in 0 .. MaxFaults, crashes' = crashes,
           faults' >= faults, call' = [call EXCEPT ![t] = c],
           \/ power = "on" /\ t # "boot"
           \/ power = "loading" /\ t = "boot" /\ c.pc \in InFlight,
           c.pc \in InFlight =>
               /\ \A u \in Tasks : Busy(u) => u = t
               /\ t = "boot" <=> c.op = "fresh"
               /\ Candidate(c.op, c.copy),
           c.pc \in {"written", "selected"} => slots[c.key] = Holding(Persisted(c.copy)),
           /\ faults' = 0 /\ call[t].pc \in {"written", "selected"}
           => \/ slots[call[t].key].state.gen <= ram.gen
              \/ c.pc \in {"written", "selected"} /\ c.key = call[t].key
    PROVE  SeqInv'
  <1>t. SeqTypeOK /\ Sound
    BY DEF SeqInv
  <1>c. /\ call \in [Tasks -> CallType] /\ call'[t] = c
        /\ \A u \in Tasks : u # t => call'[u] = call[u]
    BY <1>t DEF SeqTypeOK, CallType
  <1>1. SeqTypeOK'
    <2>1. call' \in [Tasks -> CallType]
      BY <1>c
    <2>2. QED BY <1>t, <2>1 DEF SeqTypeOK, Still, CallType
  <1>2. Turns'
    BY <1>t, <1>c DEF Sound, Turns, Busy
  <1>3. Phases'
    <2>1. power \in {"on", "loading"} /\ power' = power /\ ram' = ram
      BY DEF Still
    <2>2. power = "loading" => t = "boot" /\ c.pc \in InFlight
      OBVIOUS
    <2>3. power = "on" => t # "boot"
      OBVIOUS
    <2>4. \A u \in Tasks : Busy(u)' => (u = "boot" <=> call'[u].op = "fresh")
      BY <1>t, <1>c DEF Sound, Phases, Busy
    <2>5. power = "loading" => /\ Busy("boot")' /\ ram = Fresh
                               /\ \A u \in Tasks \ {"boot"} : call'[u].pc = "idle"
      BY <1>t, <1>c, <2>2 DEF Sound, Phases, Busy
    <2>6. power = "on" => call'["boot"].pc = "idle"
      BY <1>t, <1>c, <2>3 DEF Sound, Phases, Tasks
    <2>7. QED BY <2>1, <2>4, <2>5, <2>6 DEF Phases
  <1>4. Working'
    BY <1>t DEF Sound, Working, Running, SlotValid, Covers, Still
  <1>5. Candidates'
    <2>1. ASSUME NEW u \in Tasks, Busy(u)' PROVE Candidate(call[u].op, call[u].copy)'
      <3>1. CASE u = t
        BY <1>c, <2>1, <3>1 DEF Busy, Candidate, SlotValid, Still
      <3>2. CASE u # t
        BY <1>t, <1>c, <2>1, <3>2 DEF Sound, Candidates, Busy, Candidate, SlotValid, Still
      <3>3. QED BY <3>1, <3>2
    <2>2. QED BY <2>1 DEF Candidates
  <1>6. Written'
    <2>1. ASSUME NEW u \in Tasks, call'[u].pc \in {"written", "selected"}
          PROVE  slots'[call'[u].key] = Holding(Persisted(call'[u].copy))
      <3>1. CASE u = t
        BY <1>c, <2>1, <3>1 DEF Still
      <3>2. CASE u # t
        BY <1>t, <1>c, <2>1, <3>2 DEF Sound, Written, Still
      <3>3. QED BY <3>1, <3>2
    <2>2. QED BY <2>1 DEF Written, Holding, Persisted
  <1>7. Latest' /\ Blank' /\ SlotsValid' /\ Once'
    BY <1>t, StillKept DEF Sound
  <1>8. Clean'
    <2>1. SUFFICES ASSUME faults' = 0 PROVE Clean'
      BY DEF Clean
    <2>2. faults = 0
      BY <1>t, <2>1 DEF SeqTypeOK
    <2>g. \A k \in Keys : slots[k].state.gen \in Nat /\ ram.gen \in Nat
      BY <1>t DEF SeqTypeOK, SequenceState
    <2>3. ASSUME NEW k \in Keys, Running', slots[k].read = "ok", slots[k].state.gen > ram.gen
          PROVE  \E u \in Tasks : call'[u].pc \in {"written", "selected"} /\ call'[u].key = k
      <3>1. Running /\ ~(slots[k].state.gen <= ram.gen)
        BY <2>3, <2>g DEF Running
      <3>2. PICK u \in Tasks : call[u].pc \in {"written", "selected"} /\ call[u].key = k
        BY <1>t, <2>2, <2>3, <3>1 DEF Sound, Clean
      <3>3. QED BY <1>c, <2>1, <3>1, <3>2
    <2>5. Running' => \A k \in Keys : slots[k].read = "ok" =>
             \/ slots[k].state.gen <= ram.gen
             \/ \E u \in Tasks : call'[u].pc \in {"written", "selected"} /\ call'[u].key = k
      BY <2>3, <2>g
    <2>6. QED BY <1>t, <2>2, <2>5 DEF Sound, Clean, Still
  <1>9. QED BY <1>1, <1>2, <1>3, <1>4, <1>5, <1>6, <1>7, <1>8 DEF SeqInv, Sound

\* The caller begins a call; the operation follows from the copy it makes.
LEMMA BeginStep ==
    ASSUME SeqInv, overlaps \in Nat, overlaps' = 0, On, NEW t \in Tasks \ {"boot"}, MayCall(t),
           NEW op \in {"reserve", "allocate", "ack", "floor"}, NEW s \in SequenceState,
           Candidate(op, s), Begin(t, op, s),
           UNCHANGED <<power, slots, selector, ram, faults, crashes, handed, best>>
    PROVE  SeqInv'
  <1> DEFINE c == [IdleCall EXCEPT !.pc = "copied", !.op = op, !.copy = s]
  <1>1. /\ c.pc = "copied" /\ c.op = op /\ c.copy = s
        /\ c \in CallType
    BY IdleCallType DEF CallType
  <1>2. \A u \in Tasks : ~Busy(u)
    BY DEF MayCall, Busy, InFlight
  <1>3. SeqTypeOK /\ call[t].pc = "idle" /\ call' = [call EXCEPT ![t] = c]
    BY DEF SeqInv, MayCall, Begin
  <1> HIDE DEF c
  <1>4. faults \in 0 .. MaxFaults /\ faults' = faults /\ faults' >= faults
        /\ selector' \in Keys \cup {"none"}
    BY <1>3, SequenceAssumption DEF SeqTypeOK
  <1>5. power = "on" /\ t # "boot" /\ op # "fresh" /\ Still /\ power' = power /\ crashes' = crashes
    BY DEF On, Still
  <1>6. QED BY <1>1, <1>2, <1>3, <1>4, <1>5, CallStep

\* The caller takes the result of its call.
LEMMA TakeStep ==
    ASSUME SeqInv, On, NEW t \in Tasks \ {"boot"}, call[t].pc \in {"done", "failed"},
           call' = [call EXCEPT ![t] = IdleCall],
           UNCHANGED <<power, slots, selector, ram, crashes, handed, best>>,
           faults' \in 0 .. MaxFaults, faults' >= faults
    PROVE  SeqInv'
  <1>1. IdleCall \in CallType /\ IdleCall.pc \notin InFlight
    BY IdleCallType DEF InFlight
  <1>2. selector' \in Keys \cup {"none"} /\ Still /\ power = "on" /\ power' = power
    BY DEF SeqInv, SeqTypeOK, Still, On
  <1>3. IdleCall.pc \notin {"written", "selected"} /\ call[t].pc \notin {"written", "selected"}
    BY IdleCallType
  <1>4. QED BY <1>1, <1>2, <1>3, CallStep

\* A call fails: for a task that is the caller's business, for the boot the end.
LEMMA FailsStep ==
    ASSUME SeqInv, NEW t \in Tasks, Busy(t), Fails(t), Still, crashes' = crashes,
           selector' \in Keys \cup {"none"}, faults' \in 0 .. MaxFaults, faults' >= faults,
           \/ faults' > 0
           \/ t # "boot" /\ call[t].pc = "copied"
    PROVE  SeqInv' /\ (power' = "halted" => power = "halted" \/ faults' > 0)
  <1>t. SeqTypeOK /\ Sound /\ call \in [Tasks -> CallType]
    BY DEF SeqInv, SeqTypeOK, CallType
  <1>p. /\ t = "boot" => power = "loading"
        /\ t # "boot" => power = "on"
    BY <1>t DEF Sound, Phases, Busy, InFlight, SeqTypeOK
  <1>1. CASE t # "boot"
    <2> DEFINE c == [call[t] EXCEPT !.pc = "failed"]
    <2>1. power' = power /\ call' = [call EXCEPT ![t] = c] /\ c \in CallType /\ c.pc = "failed"
      BY <1>t, <1>1 DEF Fails, CallType
    <2> HIDE DEF c
    <2>2. c.pc \notin InFlight /\ c.pc \notin {"written", "selected"}
      BY <2>1 DEF InFlight
    <2>3. ~(faults' = 0 /\ call[t].pc \in {"written", "selected"})
      OBVIOUS
    <2>4. SeqInv'
      BY <1>1, <1>p, <2>1, <2>2, <2>3, CallStep
    <2>5. QED BY <1>1, <1>p, <2>1, <2>4
  <1>2. CASE t = "boot"
    <2>1. /\ power = "loading" /\ power' = "halted" /\ faults' > 0
          /\ call' = [call EXCEPT ![t] = IdleCall]
      BY <1>p, <1>2 DEF Fails
    <2>2. \A u \in Tasks : call'[u].pc = "idle"
      <3>1. call'["boot"] = IdleCall
        BY <1>t, <1>2, <2>1
      <3>2. \A u \in Tasks \ {"boot"} : call'[u] = call[u] /\ call[u].pc = "idle"
        BY <1>t, <1>2, <2>1 DEF Sound, Phases
      <3>3. QED BY <3>1, <3>2, IdleCallType
    <2>3. call' \in [Tasks -> CallType]
      BY <1>t, <2>1, IdleCallType
    <2>4. SeqTypeOK'
      BY <1>t, <2>1, <2>3 DEF SeqTypeOK, Still, CallType
    <2>5. \A u \in Tasks : ~Busy(u)'
      BY <2>2 DEF Busy, InFlight
    <2>6. Turns' /\ Candidates'
      BY <2>5 DEF Turns, Candidates
    <2>7. Phases' /\ Working' /\ Written' /\ Clean'
      BY <2>1, <2>2, <2>5 DEF Phases, Working, Running, Written, Clean
    <2>8. Latest' /\ Blank' /\ SlotsValid' /\ Once'
      BY <1>t, StillKept DEF Sound
    <2>9. QED BY <2>1, <2>4, <2>6, <2>7, <2>8 DEF SeqInv, Sound
  <1>3. QED BY <1>1, <1>2

LEMMA PlanStep ==
    ASSUME SeqInv, NEW t \in Tasks, Plan(t)
    PROVE  SeqInv' /\ (power' = "halted" => power = "halted" \/ faults' > 0)
  <1>t. /\ SeqTypeOK /\ Sound /\ call \in [Tasks -> CallType] /\ call[t] \in CallType
        /\ faults \in 0 .. MaxFaults /\ MaxFaults \in Nat
    BY SequenceAssumption DEF SeqInv, SeqTypeOK, CallType
  <1>b. Busy(t) /\ call[t].pc = "copied"
    BY DEF Plan, Busy, InFlight
  <1>p. \/ power = "on" /\ t # "boot"
        \/ power = "loading" /\ t = "boot"
    BY <1>t, <1>b DEF Sound, Phases, SeqTypeOK
  <1>s. Still /\ crashes' = crashes /\ selector' \in Keys \cup {"none"}
    BY <1>t DEF Plan, Still, SeqTypeOK
  <1>1. CASE /\ NoFault /\ UNCHANGED power
             /\ call' = [call EXCEPT ![t].pc = "planned", ![t].key = Inactive]
    <2> DEFINE c == [call[t] EXCEPT !.pc = "planned", !.key = Inactive]
    <2>1. /\ call' = [call EXCEPT ![t] = c] /\ c \in CallType
          /\ c.pc = "planned" /\ c.op = call[t].op /\ c.copy = call[t].copy
      BY <1>t, <1>1 DEF CallType, Inactive, Keys
    <2> HIDE DEF c
    <2>2. /\ \A u \in Tasks : Busy(u) => u = t
          /\ t = "boot" <=> c.op = "fresh"
          /\ Candidate(c.op, c.copy)
      BY <1>t, <1>b, <2>1 DEF Sound, Turns, Phases, Candidates
    <2>3. c.pc \in InFlight /\ c.pc \notin {"written", "selected"} /\ call[t].pc \notin {"written", "selected"}
      BY <1>b, <2>1 DEF InFlight
    <2>4. faults' \in 0 .. MaxFaults /\ faults' >= faults /\ power' = power
      BY <1>t, <1>1 DEF NoFault
    <2>5. SeqInv'
      BY <1>p, <1>s, <2>1, <2>2, <2>3, <2>4, CallStep
    <2>6. QED BY <1>p, <2>4, <2>5
  <1>2. CASE Fails(t) /\ NoFault /\ call[t].copy.gen # 0
    <2>1. t # "boot"
      <3>1. ASSUME t = "boot" PROVE FALSE
        <4>1. ram = Fresh /\ Candidate(call[t].op, call[t].copy)
          BY <1>t, <1>b, <1>p, <3>1 DEF Sound, Phases, Candidates
        <4>2. QED BY <1>2, <4>1 DEF Candidate, Fresh
      <3>2. QED BY <3>1
    <2>2. faults' \in 0 .. MaxFaults /\ faults' >= faults
      BY <1>t, <1>2 DEF NoFault
    <2>3. QED BY <1>2, <1>b, <1>s, <2>1, <2>2, FailsStep
  <1>3. CASE Fails(t) /\ Faulty
    <2>1. faults' \in 0 .. MaxFaults /\ faults' >= faults /\ faults' > 0
      BY <1>t, <1>3 DEF Faulty
    <2>2. QED BY <1>3, <1>b, <1>s, <2>1, FailsStep
  <1>4. QED BY <1>1, <1>2, <1>3 DEF Plan

-----------------------------------------------------------------------------
(* The write and the selection of a slot.                                  *)

\* Whatever a write leaves behind, the slots stay valid and what a boot would load
\* covers everything.
LEMMA SlotsAfterWrite ==
    ASSUME SeqInv, NEW t \in Tasks, Busy(t), Running,
           NEW left \in {slots[call[t].key], Holding(Persisted(call[t].copy)), Unreadable},
           slots' = [slots EXCEPT ![call[t].key] = left], UNCHANGED <<ram, handed, best>>
    PROVE  /\ slots' \in [Keys -> [read : {"missing", "invalid", "ok"}, state : SequenceState]]
           /\ \A k \in Keys : slots'[k].read = "ok" => slots'[k].state.gen <= ram.gen + 1
           /\ Latest' /\ Blank' /\ SlotsValid'
  <1> DEFINE key == call[t].key
             s == call[t].copy
             new == Persisted(s)
  <1>t. SeqTypeOK /\ Sound
    BY DEF SeqInv
  <1>c. key \in Keys /\ s \in SequenceState /\ ram \in SequenceState
    BY <1>t DEF SeqTypeOK
  <1>n. /\ new \in SequenceState /\ new.gen = ram.gen + 1 /\ SlotValid(new) /\ Covers(new)
    <2>1. Candidate(call[t].op, s) /\ Covers(ram)
      BY <1>t DEF Sound, Candidates, Working
    <2>2. /\ new \in SequenceState /\ new.gen = ram.gen + 1 /\ SlotValid(new)
          /\ new.ack = s.ack /\ new.seen = s.seen
      BY <1>c, <2>1, PersistedType DEF Candidate
    <2>3. best \in Nat /\ \A n \in DOMAIN handed : handed[n] \in Nat
      BY <1>t, HandedNumbers DEF SeqTypeOK
    <2>4. s.ack \in Nat /\ s.seen \in Nat /\ ram.ack \in Nat /\ ram.seen \in Nat
      BY <1>c DEF SequenceState
    <2>5. Covers(new)
      BY <2>1, <2>2, <2>3, <2>4 DEF Covers, Candidate
    <2>6. QED BY <2>2, <2>5
  <1> HIDE DEF new
  <1>h. Holding(new).read = "ok" /\ Holding(new).state = new /\ Unreadable.read = "invalid"
    BY <1>n, SlotTypes
  <1>l. left \in {slots[key], Holding(new), Unreadable}
    BY DEF new
  <1>s. /\ slots \in [Keys -> [read : {"missing", "invalid", "ok"}, state : SequenceState]]
        /\ slots'[key] = left /\ \A k \in Keys : k # key => slots'[k] = slots[k]
    BY <1>t, <1>c DEF SeqTypeOK
  <1>1. slots' \in [Keys -> [read : {"missing", "invalid", "ok"}, state : SequenceState]]
    BY <1>c, <1>l, <1>n, <1>s, SlotTypes
  <1>g. ram.gen \in Nat /\ \A k \in Keys : slots[k].state.gen \in Nat
    BY <1>s, <1>c DEF SequenceState
  <1>2. \A k \in Keys : slots[k].read = "ok" => slots[k].state.gen <= ram.gen + 1
    BY <1>t DEF Sound, Working
  <1>3. \A k \in Keys : slots'[k].read = "ok" => slots'[k].state.gen <= ram.gen + 1
    BY <1>g, <1>h, <1>l, <1>n, <1>s, <1>2
  <1>4. SlotsValid'
    <2>1. \A k \in Keys : slots[k].read = "ok" => SlotValid(slots[k].state)
      BY <1>t DEF Sound, SlotsValid
    <2>2. \A k \in Keys : slots'[k].read = "ok" => SlotValid(slots'[k].state)
      BY <1>h, <1>l, <1>n, <1>s, <2>1
    <2>3. QED BY <2>2 DEF SlotsValid, SlotValid
  <1>5. CASE left = slots[key]
    <2>1. slots' = slots
      <3>1. \A k \in Keys : slots'[k] = slots[k]
        BY <1>s, <1>5
      <3>2. QED BY <1>s, <1>1, <3>1
    <2>2. Latest' /\ Blank'
      BY <1>t, <2>1 DEF Sound, Latest, Elected, Covers, Blank
    <2>3. QED BY <1>1, <1>3, <1>4, <2>2
  <1>6. CASE left = Unreadable
    <2>1. \A k \in Keys : ~Elected(k)'
      BY <1>c, <1>h, <1>s, <1>6 DEF Elected
    <2>2. Latest' /\ Blank'
      BY <1>c, <1>h, <1>s, <1>6, <2>1 DEF Latest, Blank
    <2>3. QED BY <1>1, <1>3, <1>4, <2>2
  <1>7. CASE left = Holding(new)
    <2>1. slots'[key].read = "ok" /\ slots'[key].state = new
      BY <1>h, <1>s, <1>7
    <2>2. ASSUME NEW k \in Keys, Elected(k)' PROVE slots'[k].state = new
      <3>1. new.gen < slots'[k].state.gen \/ new = slots'[k].state
        BY <1>c, <2>1, <2>2 DEF Elected
      <3>2. slots'[k].read = "ok"
        BY <2>2 DEF Elected
      <3>3. slots'[k].state.gen <= ram.gen + 1 /\ slots'[k].state.gen \in Nat
        BY <1>1, <1>3, <3>2 DEF SequenceState
      <3>4. QED BY <1>g, <1>n, <3>1, <3>3
    <2>3. Latest'
      BY <1>n, <2>2 DEF Latest, Covers
    <2>4. Blank'
      BY <1>c, <2>1 DEF Blank
    <2>5. QED BY <1>1, <1>3, <1>4, <2>3, <2>4
  <1>8. QED BY <1>l, <1>5, <1>6, <1>7

LEMMA WriteStep ==
    ASSUME SeqInv, NEW t \in Tasks, WriteSlot(t)
    PROVE  SeqInv' /\ (power' = "halted" => power = "halted" \/ faults' > 0)
  <1> DEFINE key == call[t].key
             new == Holding(Persisted(call[t].copy))
  <1>t. /\ SeqTypeOK /\ Sound /\ call \in [Tasks -> CallType] /\ call[t] \in CallType
        /\ faults \in 0 .. MaxFaults /\ MaxFaults \in Nat /\ key \in Keys
    BY SequenceAssumption DEF SeqInv, SeqTypeOK, CallType
  <1>b. Busy(t) /\ call[t].pc = "planned" /\ UNCHANGED <<selector, ram, crashes, handed, best>>
    BY DEF WriteSlot, Busy, InFlight
  <1>p. \/ power = "on" /\ t # "boot"
        \/ power = "loading" /\ t = "boot"
    BY <1>t, <1>b DEF Sound, Phases, SeqTypeOK
  <1>o. \A u \in Tasks : u # t => ~Busy(u) /\ call[u].pc \notin {"written", "selected"}
    BY <1>t, <1>b DEF Sound, Turns, Busy, InFlight
  <1>f. Running /\ Covers(ram) /\ SlotValid(ram) /\ Once
    BY <1>t, <1>p DEF Running, Sound, Working
  <1>1. CASE /\ slots' = [slots EXCEPT ![key] = new]
             /\ call' = [call EXCEPT ![t].pc = "written"]
             /\ NoFault /\ UNCHANGED power
    <2>1. /\ slots' \in [Keys -> [read : {"missing", "invalid", "ok"}, state : SequenceState]]
          /\ \A k \in Keys : slots'[k].read = "ok" => slots'[k].state.gen <= ram.gen + 1
          /\ Latest' /\ Blank' /\ SlotsValid'
      BY <1>1, <1>b, <1>f, SlotsAfterWrite
    <2> DEFINE c == [call[t] EXCEPT !.pc = "written"]
    <2>2. /\ call'[t] = c /\ call' \in [Tasks -> CallType]
          /\ c.pc = "written" /\ c.op = call[t].op /\ c.copy = call[t].copy /\ c.key = key
      BY <1>t, <1>1 DEF CallType
    <2>3. \A u \in Tasks : u # t => call'[u] = call[u]
      BY <1>t, <1>1
    <2> HIDE DEF c
    <2>4. SeqTypeOK'
      BY <1>t, <1>b, <1>1, <2>1, <2>2 DEF SeqTypeOK, NoFault, CallType
    <2>5. Turns'
      BY <1>o, <2>3 DEF Turns, Busy
    <2>6. Phases'
      <3>1. \A u \in Tasks : Busy(u)' => (u = "boot" <=> call'[u].op = "fresh")
        BY <1>t, <1>b, <1>o, <2>2, <2>3 DEF Sound, Phases, Busy
      <3>2. power = "loading" => /\ Busy("boot")' /\ ram = Fresh
                                 /\ \A u \in Tasks \ {"boot"} : call'[u].pc = "idle"
        BY <1>t, <1>p, <2>2, <2>3 DEF Sound, Phases, Busy, InFlight
      <3>3. power = "on" => call'["boot"].pc = "idle"
        BY <1>t, <1>p, <2>3 DEF Sound, Phases, Tasks
      <3>4. QED BY <1>p, <1>b, <1>1, <3>1, <3>2, <3>3 DEF Phases
    <2>7. Working'
      BY <1>b, <1>f, <2>1 DEF Working, Covers, SlotValid
    <2>8. Candidates'
      <3>1. Candidate(call[t].op, call[t].copy)
        BY <1>t, <1>b DEF Sound, Candidates
      <3>2. QED BY <1>b, <1>o, <2>2, <2>3, <3>1 DEF Candidates, Candidate, SlotValid, Busy
    <2>9. Written'
      <3>1. slots'[c.key] = Holding(Persisted(c.copy))
        BY <1>t, <1>1, <2>2 DEF SeqTypeOK
      <3>2. \A u \in Tasks : call'[u].pc \in {"written", "selected"} =>
               slots'[call'[u].key] = Holding(Persisted(call'[u].copy))
        BY <1>o, <2>2, <2>3, <3>1
      <3>3. QED BY <3>2 DEF Written, Holding, Persisted
    <2>10. Clean'
      <3>1. SUFFICES ASSUME faults = 0 PROVE Clean'
        BY <1>1 DEF Clean, NoFault
      <3>2. \A k \in Keys : k # key => slots'[k] = slots[k]
        BY <1>t, <1>1 DEF SeqTypeOK
      <3>3. call[t].copy \in SequenceState /\ Candidate(call[t].op, call[t].copy)
        BY <1>t, <1>b DEF Sound, Candidates, CallType
      <3>4. slots'[key].read = "ok" /\ slots'[key].state.gen = ram.gen + 1 /\ ram.gen \in Nat
        <4>1. slots'[key] = new
          BY <1>t, <1>1 DEF SeqTypeOK
        <4>2. /\ Persisted(call[t].copy) \in SequenceState
              /\ Persisted(call[t].copy).gen = call[t].copy.gen + 1
          BY <3>3, PersistedType
        <4>3. slots'[key].read = "ok" /\ slots'[key].state = Persisted(call[t].copy)
          BY <4>1, <4>2, SlotTypes
        <4>4. QED BY <1>t, <3>3, <4>2, <4>3 DEF Candidate, SeqTypeOK, SequenceState
      <3>5. \A k \in Keys : k # key /\ slots[k].read = "ok" => slots[k].state.gen <= ram.gen
        BY <1>t, <1>b, <1>f, <1>o, <3>1 DEF Sound, Clean
      <3>6. \A k \in Keys : slots[k].state.gen \in Nat
        BY <1>t DEF SeqTypeOK, SequenceState
      <3>7. \A k \in Keys : slots'[k].read # "invalid"
        BY <1>t, <3>1, <3>2, <3>4 DEF Sound, Clean
      <3>8. \A j, k \in Keys : j # k /\ slots'[j].read = "ok" /\ slots'[k].read = "ok" =>
                                   slots'[j].state.gen # slots'[k].state.gen
        <4>1. \A j, k \in Keys : j # k => j = key \/ k = key
          BY <1>t DEF Keys
        <4>2. QED BY <3>2, <3>4, <3>5, <3>6, <4>1
      <3>9. \A k \in Keys : slots'[k].read = "ok" =>
               \/ slots'[k].state.gen <= ram.gen
               \/ \E u \in Tasks : call'[u].pc \in {"written", "selected"} /\ call'[u].key = k
        BY <2>2, <3>2, <3>5
      <3>10. QED BY <1>b, <3>7, <3>8, <3>9 DEF Clean
    <2>11. Once' /\ (power' = "halted" => power = "halted")
      BY <1>1, <1>b, <1>f DEF Once
    <2>12. QED BY <2>1, <2>4, <2>5, <2>6, <2>7, <2>8, <2>9, <2>10, <2>11 DEF SeqInv, Sound
  <1>2. CASE /\ Faulty /\ Fails(t)
             /\ \E left \in {slots[key], new, Unreadable} : slots' = [slots EXCEPT ![key] = left]
    <2>1. /\ slots' \in [Keys -> [read : {"missing", "invalid", "ok"}, state : SequenceState]]
          /\ \A k \in Keys : slots'[k].read = "ok" => slots'[k].state.gen <= ram.gen + 1
          /\ Latest' /\ Blank' /\ SlotsValid'
      BY <1>2, <1>b, <1>f, SlotsAfterWrite
    <2>2. faults' > 0 /\ faults' \in 0 .. MaxFaults
      BY <1>t, <1>2 DEF Faulty
    <2>3. /\ call' \in [Tasks -> CallType]
          /\ call'[t].pc = IF t = "boot" THEN "idle" ELSE "failed"
      BY <1>t, <1>2, IdleCallType DEF Fails, CallType
    <2>4. \A u \in Tasks : u # t => call'[u] = call[u]
      BY <1>t, <1>2 DEF Fails
    <2>5. power' = IF t = "boot" THEN "halted" ELSE power
      BY <1>2 DEF Fails
    <2>6. SeqTypeOK'
      BY <1>t, <1>b, <2>1, <2>2, <2>3, <2>5 DEF SeqTypeOK, CallType
    <2>7. \A u \in Tasks : ~Busy(u)' /\ call'[u].pc \notin {"written", "selected"}
      BY <1>o, <2>3, <2>4 DEF Busy, InFlight
    <2>8. Turns' /\ Candidates' /\ Written' /\ Clean'
      BY <2>2, <2>7 DEF Turns, Candidates, Written, Clean
    <2>9. Phases'
      <3>1. CASE t = "boot"
        <4>1. \A u \in Tasks \ {"boot"} : call[u].pc = "idle"
          BY <1>t, <1>p, <3>1 DEF Sound, Phases
        <4>2. \A u \in Tasks : call'[u].pc = "idle"
          BY <2>3, <2>4, <3>1, <4>1
        <4>3. QED BY <2>5, <2>7, <3>1, <4>2 DEF Phases
      <3>2. CASE t # "boot"
        <4>1. power' = "on" /\ call'["boot"].pc = "idle"
          BY <1>t, <1>p, <2>4, <2>5, <3>2 DEF Sound, Phases, Tasks
        <4>2. QED BY <2>7, <4>1 DEF Phases
      <3>3. QED BY <3>1, <3>2
    <2>10. Working'
      BY <1>b, <1>f, <2>1 DEF Working, Covers, SlotValid
    <2>11. Once'
      BY <1>b, <1>f DEF Once
    <2>12. QED BY <2>1, <2>2, <2>6, <2>8, <2>9, <2>10, <2>11 DEF SeqInv, Sound
  <1>3. QED BY <1>1, <1>2 DEF WriteSlot

LEMMA SelectStep ==
    ASSUME SeqInv, NEW t \in Tasks, SelectSlot(t)
    PROVE  SeqInv' /\ (power' = "halted" => power = "halted" \/ faults' > 0)
  <1>t. /\ SeqTypeOK /\ Sound /\ call \in [Tasks -> CallType] /\ call[t] \in CallType
        /\ faults \in 0 .. MaxFaults /\ MaxFaults \in Nat
    BY SequenceAssumption DEF SeqInv, SeqTypeOK, CallType
  <1>b. Busy(t) /\ call[t].pc = "written" /\ Still /\ crashes' = crashes
    BY DEF SelectSlot, Busy, InFlight, Still
  <1>p. \/ power = "on" /\ t # "boot"
        \/ power = "loading" /\ t = "boot"
    BY <1>t, <1>b DEF Sound, Phases, SeqTypeOK
  <1>k. call[t].key \in Keys /\ call[t].copy \in SequenceState
    BY <1>t DEF CallType
  <1>r. ReadsBack(t)
    <2>1. slots[call[t].key] = Holding(Persisted(call[t].copy)) /\ SlotValid(call[t].copy)
      BY <1>t, <1>b DEF Sound, Written, Candidates, Candidate
    <2>2. QED BY <1>k, <2>1, PersistedType DEF ReadsBack
  <1>1. CASE /\ selector' = call[t].key /\ NoFault /\ UNCHANGED power
             /\ call' = [call EXCEPT ![t].pc = "selected"]
    <2> DEFINE c == [call[t] EXCEPT !.pc = "selected"]
    <2>1. /\ call' = [call EXCEPT ![t] = c] /\ c \in CallType /\ c.key = call[t].key
          /\ c.pc = "selected" /\ c.op = call[t].op /\ c.copy = call[t].copy
      BY <1>t, <1>1 DEF CallType
    <2> HIDE DEF c
    <2>2. /\ \A u \in Tasks : Busy(u) => u = t
          /\ t = "boot" <=> c.op = "fresh"
          /\ Candidate(c.op, c.copy)
      BY <1>t, <1>b, <2>1 DEF Sound, Turns, Phases, Candidates
    <2>3. c.pc \in InFlight /\ slots[c.key] = Holding(Persisted(c.copy))
      BY <1>t, <1>b, <2>1 DEF InFlight, Sound, Written
    <2>4. faults' \in 0 .. MaxFaults /\ faults' >= faults /\ power' = power
      BY <1>t, <1>1 DEF NoFault
    <2>5. selector' \in Keys \cup {"none"} /\ c.pc \in {"written", "selected"}
      BY <1>1, <1>k, <2>1
    <2>6. SeqInv'
      BY <1>p, <1>b, <2>1, <2>2, <2>3, <2>4, <2>5, CallStep
    <2>7. QED BY <1>p, <2>4, <2>6
  <1>2. CASE Faulty /\ Fails(t) /\ selector' \in {selector, call[t].key}
    <2>1. faults' \in 0 .. MaxFaults /\ faults' >= faults /\ faults' > 0
      BY <1>t, <1>2 DEF Faulty
    <2>2. selector' \in Keys \cup {"none"}
      BY <1>t, <1>k, <1>2 DEF SeqTypeOK
    <2>3. QED BY <1>2, <1>b, <2>1, <2>2, FailsStep
  <1>3. QED BY <1>r, <1>1, <1>2 DEF SelectSlot

LEMMA AllocatedIs ==
    ASSUME NEW s \in SequenceState, SlotValid(s), s.next < Limit, s.next <= s.reserved
    PROVE  /\ Allocated(s) \in SequenceState /\ SlotValid(Allocated(s))
           /\ Allocated(s).gen = s.gen /\ Allocated(s).ack = s.ack
           /\ Allocated(s).seen = s.next /\ s.next >= s.seen
  <1>1. s.next + 1 \in 1 .. Limit + 1 /\ s.next \in 0 .. Limit
    BY SequenceAssumption DEF SequenceState, SlotValid
  <1>2. Allocated(s) \in SequenceState
    BY <1>1 DEF Allocated, SequenceState
  <1>3. /\ Allocated(s).gen = s.gen /\ Allocated(s).ack = s.ack /\ Allocated(s).reserved = s.reserved
        /\ Allocated(s).seen = s.next /\ Allocated(s).next = s.next + 1
    BY DEF Allocated, SequenceState
  <1>4. QED BY <1>2, <1>3, StateNumbers DEF SlotValid

\* The persisted copy is assigned: numbers are new, and the slot that a boot would
\* load is the one just selected.
LEMMA AssignStep ==
    ASSUME SeqInv, NEW t \in Tasks, Assign(t)
    PROVE  SeqInv' /\ power' # "halted"
  <1> DEFINE s == call[t].copy
             op == call[t].op
             new == Persisted(s)
             more == [call[t] EXCEPT !.pc = "copied", !.op = "allocate", !.copy = Allocated(new)]
             over == [call[t] EXCEPT !.pc = "done"]
             c == IF op = "fresh" THEN IdleCall ELSE IF op = "reserve" THEN more ELSE over
  <1>t. /\ SeqTypeOK /\ Sound /\ call \in [Tasks -> CallType] /\ call[t] \in CallType
        /\ s \in SequenceState /\ ram \in SequenceState /\ call[t].key \in Keys
    BY DEF SeqInv, SeqTypeOK, CallType
  <1>b. Busy(t) /\ call[t].pc = "selected" /\ UNCHANGED <<slots, selector, faults, crashes>>
    BY DEF Assign, Busy, InFlight
  <1>p. \/ power = "on" /\ t # "boot" /\ op # "fresh"
        \/ power = "loading" /\ t = "boot" /\ op = "fresh"
    BY <1>t, <1>b DEF Sound, Phases, SeqTypeOK
  <1>o. \A u \in Tasks : u # t => ~Busy(u) /\ call[u].pc \notin {"written", "selected"}
    BY <1>t, <1>b DEF Sound, Turns, Busy, InFlight
  <1>f. Running /\ Covers(ram) /\ SlotValid(ram) /\ Once /\ Candidate(op, s)
    BY <1>t, <1>b, <1>p DEF Running, Sound, Working, Candidates
  <1>n. /\ new \in SequenceState /\ new.gen = ram.gen + 1 /\ SlotValid(new)
        /\ new.next = s.next /\ new.reserved = s.reserved /\ new.seen = s.seen /\ new.ack = s.ack
    BY <1>t, <1>f, PersistedType DEF Candidate
  <1>i. /\ s.ack \in 0 .. Limit /\ s.seen \in 0 .. Limit /\ s.next \in Nat /\ s.reserved \in Nat
        /\ ram.ack \in Nat /\ ram.seen \in Nat /\ ram.next \in 1 .. Limit + 1 /\ ram.gen \in Nat
        /\ best \in 0 .. Limit
    BY <1>t, StateNumbers DEF SeqTypeOK
  <1>a. /\ ram' = new
        /\ best' = IF new.ack > best THEN new.ack ELSE best
        /\ handed' = IF op = "allocate" THEN Append(handed, s.seen) ELSE handed
        /\ call' = [call EXCEPT ![t] = c]
        /\ power' = "on"
    <2>1. power' = "on"
      BY <1>p DEF Assign
    <2>2. call' = [call EXCEPT ![t] = c]
      BY DEF Assign, Adopted
    <2>3. QED BY <2>1, <2>2 DEF Assign, Adopted
  <1>h. /\ handed \in Seq(Numbers) /\ handed' \in Seq(Numbers)
        /\ \A n \in DOMAIN handed : handed[n] \in Nat
        /\ op = "allocate" => /\ DOMAIN handed' = DOMAIN handed \cup {Len(handed) + 1}
                              /\ Len(handed) + 1 \notin DOMAIN handed
                              /\ \A n \in DOMAIN handed : handed'[n] = handed[n]
                              /\ handed'[Len(handed) + 1] = s.seen
    <2>1. handed \in Seq(Numbers)
      BY <1>t DEF SeqTypeOK
    <2>2. op = "allocate" => s.seen \in Numbers
      BY <1>f, <1>i DEF Candidate, Numbers
    <2>3. handed' \in Seq(Numbers)
      BY <1>a, <2>1, <2>2
    <2>4. op = "allocate" => /\ DOMAIN handed' = DOMAIN handed \cup {Len(handed) + 1}
                             /\ Len(handed) + 1 \notin DOMAIN handed
                             /\ \A n \in DOMAIN handed : handed'[n] = handed[n]
                             /\ handed'[Len(handed) + 1] = s.seen
      BY <1>a, <2>1, <2>2
    <2>5. QED BY <1>t, <2>1, <2>3, <2>4, HandedNumbers
  <1>m. op = "reserve" => /\ Allocated(new) \in SequenceState /\ SlotValid(Allocated(new))
                          /\ Allocated(new).gen = new.gen /\ Allocated(new).ack = new.ack
                          /\ Allocated(new).seen = new.next /\ new.next >= new.seen
    BY <1>f, <1>n, <1>i, AllocatedIs DEF Candidate
  <1> HIDE DEF new
  <1>c. /\ c \in CallType
        /\ c.pc \in InFlight => /\ op = "reserve" /\ c.op = "allocate" /\ c.copy = Allocated(new)
        /\ c.pc \notin {"written", "selected"}
        /\ op = "fresh" => c.pc = "idle"
    <2>1. op = "reserve" => more \in CallType /\ more.pc = "copied" /\ more.op = "allocate" /\ more.copy = Allocated(new)
      BY <1>t, <1>m DEF CallType
    <2>2. over \in CallType /\ over.pc = "done"
      BY <1>t DEF CallType
    <2> HIDE DEF more, over
    <2>3. QED BY <2>1, <2>2, IdleCallType DEF InFlight
  <1> HIDE DEF c
  <1>d. /\ call' \in [Tasks -> CallType] /\ call'[t] = c
        /\ \A u \in Tasks : u # t => call'[u] = call[u]
    BY <1>t, <1>a, <1>c
  <1>1. SeqTypeOK'
    <2>1. best' \in 0 .. Limit
      BY <1>a, <1>i, <1>n
    <2>2. QED BY <1>t, <1>a, <1>b, <1>d, <1>h, <1>n, <2>1 DEF SeqTypeOK, CallType
  <1>2. Turns'
    BY <1>o, <1>d DEF Turns, Busy
  <1>3. Phases'
    <2>1. call'["boot"].pc = "idle"
      <3>1. CASE t = "boot"
        BY <1>p, <1>c, <1>d, <3>1
      <3>2. CASE t # "boot"
        BY <1>t, <1>p, <1>d, <3>2 DEF Sound, Phases, Tasks
      <3>3. QED BY <3>1, <3>2
    <2>2. \A u \in Tasks : Busy(u)' => (u = "boot" <=> call'[u].op = "fresh")
      BY <1>c, <1>d, <1>o, <1>p DEF Busy
    <2>3. QED BY <1>a, <2>1, <2>2 DEF Phases
  <1>v. /\ best' <= new.ack /\ \A n \in DOMAIN handed' : handed'[n] <= new.seen
    <2>1. best <= s.ack
      BY <1>f, <1>i DEF Covers, Candidate
    <2>2. \A n \in DOMAIN handed : handed[n] <= s.seen
      BY <1>f, <1>i, <1>h DEF Covers, Candidate
    <2>3. CASE op = "allocate"
      BY <1>a, <1>h, <1>i, <1>n, <2>1, <2>2, <2>3
    <2>4. CASE op # "allocate"
      BY <1>a, <1>n, <1>i, <2>1, <2>2, <2>4
    <2>5. QED BY <2>3, <2>4
  <1>g. \A k \in Keys : slots[k].read = "ok" =>
           slots[k].state.gen \in Nat /\ slots[k].state.gen <= new.gen
    <2>1. \A k \in Keys : slots[k].state \in SequenceState
      BY <1>t DEF SeqTypeOK
    <2>2. \A k \in Keys : slots[k].state.gen \in Nat
      BY <2>1 DEF SequenceState
    <2>3. \A k \in Keys : slots[k].read = "ok" => slots[k].state.gen <= ram.gen + 1
      BY <1>t, <1>f DEF Sound, Working
    <2>4. QED BY <1>n, <2>2, <2>3
  <1>4. Working'
    <2>1. new.gen \in Nat
      BY <1>n, <1>i
    <2>2. \A k \in Keys : slots'[k].read = "ok" => slots'[k].state.gen <= new.gen + 1
      BY <1>b, <1>g, <2>1
    <2>3. QED BY <1>a, <1>n, <1>v, <2>2 DEF Working, Covers, SlotValid
  <1>5. Candidates'
    <2>1. ASSUME NEW u \in Tasks, Busy(u)' PROVE Candidate(call[u].op, call[u].copy)'
      <3>1. u = t /\ op = "reserve" /\ call'[u].op = "allocate" /\ call'[u].copy = Allocated(new)
        BY <1>c, <1>d, <1>o, <2>1 DEF Busy
      <3>2. new.ack \in Nat
        BY <1>n, <1>i
      <3>3. QED BY <1>a, <1>m, <3>1, <3>2 DEF Candidate, SlotValid
    <2>2. QED BY <2>1 DEF Candidates
  <1>6. Written'
    BY <1>c, <1>d, <1>o DEF Written
  <1>7. slots[call[t].key].read = "ok" /\ slots[call[t].key].state = new
    <2>1. slots[call[t].key] = Holding(new)
      BY <1>t, <1>b DEF Sound, Written, new
    <2>2. QED BY <1>n, <2>1, SlotTypes
  <1>8. Latest'
    <2>1. ASSUME NEW k \in Keys, Elected(k) PROVE slots[k].state = new
      <3>1. new.gen < slots[k].state.gen \/ new = slots[k].state
        BY <1>t, <1>7, <2>1 DEF Elected
      <3>2. QED BY <1>g, <1>n, <1>i, <2>1, <3>1 DEF Elected
    <2>2. QED BY <1>b, <1>v, <2>1 DEF Latest, Elected, Covers
  <1>9. Blank'
    BY <1>t, <1>b, <1>7 DEF Blank
  <1>10. SlotsValid' /\ Clean'
    <2>1. SlotsValid'
      BY <1>t, <1>b DEF Sound, SlotsValid, SlotValid
    <2>2. \A k \in Keys : slots'[k].read = "ok" => slots'[k].state.gen <= ram'.gen
      BY <1>a, <1>b, <1>g
    <2>3. QED BY <1>t, <1>b, <2>1, <2>2 DEF Sound, Clean
  <1>11. Once'
    <2>1. CASE op # "allocate"
      BY <1>a, <1>f, <2>1 DEF Once
    <2>2. CASE op = "allocate"
      <3>1. \A n \in DOMAIN handed : handed[n] # s.seen
        BY <1>f, <1>h, <1>i, <2>2 DEF Covers, Candidate, SlotValid
      <3>2. QED BY <1>f, <1>h, <2>2, <3>1 DEF Once
    <2>3. QED BY <2>1, <2>2
  <1>12. QED
    BY <1>1, <1>2, <1>3, <1>4, <1>5, <1>6, <1>8, <1>9, <1>10, <1>11, <1>a DEF SeqInv, Sound

LEMMA StoreStepInv ==
    ASSUME SeqInv, StoreStep
    PROVE  SeqInv' /\ (power' = "halted" => power = "halted" \/ faults' > 0)
  <1>1. PICK t \in Tasks : Plan(t) \/ WriteSlot(t) \/ SelectSlot(t) \/ Assign(t)
    BY DEF StoreStep
  <1>2. QED BY <1>1, PlanStep, WriteStep, SelectStep, AssignStep

\* A store step is a call's, so it is taken while the device runs.
LEMMA StoreStepRuns == ASSUME SeqInv, StoreStep PROVE Running
  <1>1. PICK t \in Tasks : call[t].pc \in InFlight
    BY DEF StoreStep, Plan, WriteSlot, SelectSlot, Assign, InFlight
  <1>2. call[t].pc # "idle"
    BY <1>1 DEF InFlight
  <1>3. power \notin {"off", "halted"}
    BY <1>2 DEF SeqInv, Sound, Phases
  <1>4. QED BY <1>3 DEF SeqInv, SeqTypeOK, Running

\* Only the beginning of a call can overlap another.
LEMMA StoreStepCounts == ASSUME StoreStep PROVE overlaps' = overlaps
  <1>1. PICK t \in Tasks : Plan(t) \/ WriteSlot(t) \/ SelectSlot(t) \/ Assign(t)
    BY DEF StoreStep
  <1>2. CASE Plan(t) \/ WriteSlot(t)
    BY <1>2 DEF Plan, WriteSlot
  <1>3. CASE SelectSlot(t) \/ Assign(t)
    BY <1>3 DEF SelectSlot, Assign
  <1>4. QED BY <1>1, <1>2, <1>3

-----------------------------------------------------------------------------
(* pm_sequence_next() and the boot.                                        *)

LEMMA BeginNextStep == ASSUME SeqInv, overlaps \in Nat, overlaps' = 0, BeginNext PROVE SeqInv'
  <1>t. SeqTypeOK /\ Sound /\ ram \in SequenceState
    BY DEF SeqInv, SeqTypeOK
  <1>w. SlotValid(ram) /\ On
    BY <1>t DEF BeginNext, On, Sound, Working, Running
  <1>n. /\ ram.next \in Nat /\ ram.reserved \in Nat /\ ram.seen \in Nat /\ ram.ack \in Nat
        /\ Limit \in Nat /\ Block \in Nat \ {0}
    BY <1>t, StateNumbers, SequenceAssumption
  <1>1. CASE ram.next > ram.reserved
    <2>1. ram.next + Block - 1 \in 0 .. Limit /\ Begin("interval", "reserve", Reserved(ram))
      BY <1>1, <1>n DEF BeginNext
    <2>2. /\ Reserved(ram) \in SequenceState
          /\ Reserved(ram).next = ram.next /\ Reserved(ram).reserved = ram.next + Block - 1
          /\ Reserved(ram).seen = ram.seen /\ Reserved(ram).ack = ram.ack
          /\ Reserved(ram).gen = ram.gen
      BY <1>t, <2>1 DEF Reserved, SequenceState
    <2>3. Candidate("reserve", Reserved(ram))
      BY <1>n, <1>w, <2>2 DEF Candidate, SlotValid, BeginNext
    <2>4. QED BY <1>w, <2>1, <2>2, <2>3, BeginStep DEF BeginNext, Tasks
  <1>2. CASE ~(ram.next > ram.reserved)
    <2>1. Begin("interval", "allocate", Allocated(ram)) /\ ram.next <= ram.reserved /\ ram.next < Limit
      BY <1>2, <1>n DEF BeginNext
    <2>2. /\ Allocated(ram) \in SequenceState /\ SlotValid(Allocated(ram))
          /\ Allocated(ram).gen = ram.gen /\ Allocated(ram).ack = ram.ack
          /\ Allocated(ram).seen = ram.next /\ ram.next >= ram.seen
      BY <1>t, <1>w, <2>1, AllocatedIs
    <2>3. Candidate("allocate", Allocated(ram))
      BY <1>n, <2>2 DEF Candidate
    <2>4. QED BY <1>w, <2>1, <2>2, <2>3, BeginStep DEF BeginNext, Tasks
  <1>3. QED BY <1>1, <1>2

\* pm_sequence_load() takes the slot that is elected.
LEMMA NewestIsElected ==
    ASSUME SeqTypeOK, Readable # {}, ~Refused
    PROVE  /\ Newest \in Keys /\ Elected(Newest)
           /\ \A k \in Keys : slots[k].read = "ok" =>
                 slots[k].state.gen <= slots[Newest].state.gen
  <1> DEFINE G(k) == slots[k].state.gen
  <1>1. \A k \in Keys : G(k) \in Nat
    BY DEF SeqTypeOK, SequenceState
  <1>2. \E k \in Readable : \A j \in Readable : G(k) >= G(j)
    <2>1. Readable \subseteq Keys
      BY DEF Readable
    <2>2. CASE \E k \in Keys : Readable = {k}
      BY <1>1, <2>1, <2>2
    <2>3. CASE Readable = Keys
      <3>1. G("a") >= G("b") \/ G("b") >= G("a")
        BY <1>1 DEF Keys
      <3>2. G("a") >= G("a") /\ G("b") >= G("b")
        BY <1>1 DEF Keys
      <3>3. QED BY <2>3, <3>1, <3>2 DEF Keys
    <2>4. QED BY <2>1, <2>2, <2>3 DEF Keys
  <1>3. Newest \in Readable /\ \A j \in Readable : G(Newest) >= G(j)
    BY <1>2 DEF Newest
  <1>4. \A k \in Keys : slots[k].read # "missing" => k \in Readable
    BY DEF Refused
  <1>5. Newest \in Keys /\ slots[Newest].read = "ok"
    BY <1>3 DEF Readable
  <1>6. ASSUME NEW k \in Keys, slots[k].read # "missing"
        PROVE  /\ slots[k].read = "ok" /\ G(k) <= G(Newest)
               /\ G(k) < G(Newest) \/ slots[k].state = slots[Newest].state
    <2>1. k \in Readable /\ slots[k].read = "ok" /\ G(k) <= G(Newest)
      BY <1>1, <1>3, <1>4, <1>5, <1>6 DEF Readable
    <2>2. CASE k = Newest
      BY <2>1, <2>2
    <2>3. CASE k # Newest /\ G(k) = G(Newest)
      <3>1. Readable = Keys /\ G("a") = G("b") /\ {k, Newest} = {"a", "b"}
        BY <1>3, <1>5, <2>1, <2>3 DEF Readable, Keys
      <3>2. slots["a"].state = slots["b"].state
        BY <3>1 DEF Refused
      <3>3. slots[k].state = slots[Newest].state
        BY <3>1, <3>2
      <3>4. QED BY <2>1, <3>3
    <2>4. QED BY <1>1, <1>5, <2>1, <2>2, <2>3
  <1>7. \A k \in Keys : slots[k].read = "ok" => G(k) <= G(Newest)
    BY <1>6
  <1>8. QED BY <1>5, <1>6, <1>7 DEF Elected

LEMMA LoadedIs ==
    ASSUME NEW s \in SequenceState, SlotValid(s)
    PROVE  /\ Loaded(s) \in SequenceState /\ SlotValid(Loaded(s))
           /\ Loaded(s).gen = s.gen /\ Loaded(s).ack = s.ack /\ Loaded(s).seen = s.seen
           /\ Loaded(s).reset = s.reset
  <1>1. CASE s.next <= s.reserved
    <2>1. s.reserved + 1 \in 1 .. Limit + 1
      BY StateNumbers
    <2>2. Loaded(s) = [s EXCEPT !.next = s.reserved + 1]
      BY <1>1 DEF Loaded
    <2>3. /\ Loaded(s) \in SequenceState /\ Loaded(s).next = s.reserved + 1
          /\ Loaded(s).reserved = s.reserved /\ Loaded(s).reset = s.reset
          /\ Loaded(s).gen = s.gen /\ Loaded(s).ack = s.ack /\ Loaded(s).seen = s.seen
      BY <2>1, <2>2 DEF SequenceState
    <2>4. SlotValid(Loaded(s))
      BY <1>1, <2>3, StateNumbers DEF SlotValid
    <2>5. QED BY <2>3, <2>4
  <1>2. CASE ~(s.next <= s.reserved)
    BY <1>2 DEF Loaded
  <1>3. QED BY <1>1, <1>2

LEMMA LoadNewestStep == ASSUME SeqInv, LoadNewest PROVE SeqInv' /\ power' # "halted"
  <1> DEFINE s == slots[Newest].state
  <1>t. SeqTypeOK /\ Sound /\ power = "off" /\ power' = "on"
        /\ UNCHANGED <<slots, selector, call, faults, crashes, handed>>
    BY DEF SeqInv, LoadNewest
  <1>1. /\ Newest \in Keys /\ Elected(Newest)
        /\ \A k \in Keys : slots[k].read = "ok" => slots[k].state.gen <= s.gen
    BY <1>t, NewestIsElected DEF LoadNewest
  <1>2. /\ s \in SequenceState /\ SlotValid(s) /\ Covers(s)
        /\ \A k \in Keys : slots[k].state.gen \in Nat
    BY <1>t, <1>1 DEF SeqTypeOK, Sound, SlotsValid, Latest, Elected, SequenceState
  <1>3. \A k \in Keys : Elected(k) => slots[k].state = s
    <2>1. ASSUME NEW k \in Keys, Elected(k) PROVE slots[k].state = s
      <3>1. s.gen < slots[k].state.gen \/ s = slots[k].state
        BY <1>1, <2>1 DEF Elected
      <3>2. QED BY <1>1, <1>2, <2>1, <3>1 DEF Elected
    <2>2. QED BY <2>1
  <1> HIDE DEF s
  <1>4. /\ ram' = Loaded(s) /\ best' = IF ram'.ack > best THEN ram'.ack ELSE best
    BY DEF LoadNewest, s
  <1>5. /\ ram' \in SequenceState /\ SlotValid(ram') /\ ram'.gen = s.gen /\ ram'.ack = s.ack
        /\ ram'.seen = s.seen
    BY <1>2, <1>4, LoadedIs
  <1>n. s.ack \in 0 .. Limit /\ s.gen \in Nat /\ best \in 0 .. Limit
    BY <1>t, <1>2, StateNumbers DEF SeqTypeOK
  <1>6. best' <= s.ack /\ best' \in 0 .. Limit
    BY <1>2, <1>4, <1>5, <1>n DEF Covers
  <1>7. SeqTypeOK'
    BY <1>t, <1>5, <1>6 DEF SeqTypeOK
  <1>8. \A t \in Tasks : call'[t].pc = "idle" /\ ~Busy(t)'
    BY <1>t DEF Sound, Phases, Busy, InFlight
  <1>9. Turns' /\ Phases' /\ Candidates' /\ Written'
    BY <1>t, <1>8 DEF Turns, Phases, Candidates, Written, Tasks
  <1>10. Working'
    <2>1. Covers(ram)'
      BY <1>t, <1>2, <1>5, <1>6 DEF Covers
    <2>2. \A k \in Keys : slots'[k].read = "ok" => slots'[k].state.gen <= ram'.gen + 1
      BY <1>t, <1>1, <1>2, <1>5, <1>n DEF s
    <2>3. QED BY <1>5, <2>1, <2>2 DEF Working, SlotValid
  <1>11. Latest'
    BY <1>t, <1>2, <1>3, <1>6 DEF Latest, Elected, Covers
  <1>12. Blank' /\ SlotsValid' /\ Once'
    <2>1. slots[Newest].read = "ok" /\ slots' = slots /\ Newest \in Keys
      BY <1>t, <1>1 DEF Elected
    <2>2. Blank'
      BY <2>1 DEF Blank
    <2>3. QED BY <1>t, <2>2 DEF Sound, SlotsValid, SlotValid, Once
  <1>13. Clean'
    <2>1. \A k \in Keys : slots'[k].read = "ok" => slots'[k].state.gen <= ram'.gen
      BY <1>t, <1>1, <1>5 DEF s
    <2>2. QED BY <1>t, <2>1 DEF Sound, Clean
  <1>14. QED BY <1>t, <1>7, <1>9, <1>10, <1>11, <1>12, <1>13 DEF SeqInv, Sound

LEMMA LoadFreshStep == ASSUME SeqInv, LoadFresh PROVE SeqInv' /\ power' # "halted"
  <1> DEFINE c == [IdleCall EXCEPT !.pc = "copied", !.op = "fresh", !.copy = Fresh]
  <1>t. /\ SeqTypeOK /\ Sound /\ power = "off" /\ power' = "loading" /\ ram' = Fresh
        /\ call \in [Tasks -> CallType] /\ call' = [call EXCEPT !["boot"] = c]
        /\ UNCHANGED <<slots, selector, faults, crashes, handed, best>>
    BY DEF SeqInv, LoadFresh, Begin, SeqTypeOK, CallType
  <1>c. c \in CallType /\ c.pc = "copied" /\ c.op = "fresh" /\ c.copy = Fresh
    BY IdleCallType, FreshType DEF CallType
  <1> HIDE DEF c
  <1>m. \A k \in Keys : slots[k].read = "missing"
    BY DEF LoadFresh, Refused
  <1>h. handed = <<>> /\ best = 0
    BY <1>t, <1>m DEF Sound, Blank
  <1>i. \A t \in Tasks : call[t].pc = "idle"
    BY <1>t DEF Sound, Phases
  <1>d. /\ call' \in [Tasks -> CallType] /\ call'["boot"] = c
        /\ \A t \in Tasks : t # "boot" => call'[t].pc = "idle" /\ ~Busy(t)'
    BY <1>t, <1>c, <1>i DEF Tasks, Busy, InFlight
  <1>1. SeqTypeOK'
    BY <1>t, <1>d, FreshType DEF SeqTypeOK, CallType
  <1>2. Turns' /\ Written'
    BY <1>c, <1>d DEF Turns, Written
  <1>3. Phases'
    BY <1>t, <1>c, <1>d DEF Phases, Busy, InFlight
  <1>4. Working' /\ Clean'
    BY <1>t, <1>h, <1>m, FreshType DEF Working, Covers, SlotValid, Clean, Fresh
  <1>5. Candidates'
    <2>1. Candidate("fresh", Fresh)'
      BY <1>t, FreshType DEF Candidate, SlotValid, Fresh
    <2>2. QED BY <1>c, <1>d, <2>1 DEF Candidates, Candidate, SlotValid, Fresh
  <1>6. Latest' /\ Blank' /\ SlotsValid' /\ Once'
    BY <1>t, <1>h, <1>m DEF Latest, Elected, Blank, SlotsValid, Once
  <1>7. QED BY <1>t, <1>1, <1>2, <1>3, <1>4, <1>5, <1>6 DEF SeqInv, Sound

\* Without a failing operation only the end of the number range is refused.
LEMMA RefusedCleanly ==
    ASSUME SeqInv, Refused, faults = 0
    PROVE  \E k \in Readable : slots[k].state.reserved = Limit
  <1>t. SeqTypeOK /\ Sound
    BY DEF SeqInv
  <1>1. \A k \in Keys : slots[k].read # "missing" => k \in Readable
    BY <1>t DEF SeqTypeOK, Sound, Clean, SlotsValid, Readable
  <1>2. ~(Readable = Keys /\ slots["a"].state.gen = slots["b"].state.gen)
    BY <1>t DEF Sound, Clean, Readable, Keys
  <1>3. Readable # {} /\ slots[Newest].state.reserved = Limit
    BY <1>1, <1>2 DEF Refused
  <1>4. Newest \in Readable
    <2> DEFINE G(k) == slots[k].state.gen
    <2>1. \A k \in Keys : G(k) \in Nat
      BY <1>t DEF SeqTypeOK, SequenceState
    <2>2. \E k \in Readable : \A j \in Readable : G(k) >= G(j)
      BY <1>3, <2>1 DEF Readable, Keys
    <2>3. QED BY <2>2 DEF Newest
  <1>5. QED BY <1>3, <1>4

LEMMA LoadFailsStep ==
    ASSUME SeqInv, LoadFails
    PROVE  SeqInv' /\ (faults' > 0 \/ \E k \in Readable : slots[k].state.reserved = Limit)
  <1>t. /\ SeqTypeOK /\ Sound /\ power = "off" /\ power' = "halted" /\ UNCHANGED <<storeVars, crashes>>
        /\ faults \in 0 .. MaxFaults /\ MaxFaults \in Nat
    BY SequenceAssumption DEF SeqInv, LoadFails, SeqTypeOK
  <1>s. Still /\ UNCHANGED <<selector, call>>
    BY <1>t DEF storeVars, Still
  <1>1. faults' \in 0 .. MaxFaults /\ faults' >= faults
    BY <1>t DEF LoadFails, Faulty, NoFault
  <1>2. SeqTypeOK'
    BY <1>t, <1>s, <1>1 DEF SeqTypeOK, Still
  <1>3. \A t \in Tasks : call'[t].pc = "idle" /\ ~Busy(t)'
    BY <1>t, <1>s DEF Sound, Phases, Busy, InFlight
  <1>4. Turns' /\ Phases' /\ Candidates' /\ Written' /\ Working'
    BY <1>t, <1>3 DEF Turns, Phases, Candidates, Written, Working, Running
  <1>5. Latest' /\ Blank' /\ SlotsValid' /\ Once'
    BY <1>t, <1>s, StillKept DEF Sound
  <1>6. Clean'
    <2>1. faults' = 0 => faults = 0
      BY <1>t, <1>1
    <2>2. QED BY <1>t, <1>s, <2>1 DEF Sound, Clean, Still, Running
  <1>7. faults' > 0 \/ \E k \in Readable : slots[k].state.reserved = Limit
    <2>1. CASE Refused /\ NoFault
      <3>1. faults = 0 \/ faults' > 0
        BY <1>t, <2>1 DEF NoFault
      <3>2. QED BY <2>1, <3>1, RefusedCleanly
    <2>2. CASE Faulty
      BY <1>t, <2>2 DEF Faulty
    <2>3. QED BY <2>1, <2>2 DEF LoadFails
  <1>8. QED BY <1>2, <1>4, <1>5, <1>6, <1>7 DEF SeqInv, Sound

LEMMA PowerCutStep == ASSUME SeqInv, PowerCut PROVE SeqInv' /\ power' = "off"
  <1>t. /\ SeqTypeOK /\ Sound /\ power' = "off" /\ ram' = Fresh
        /\ call' = [t \in Tasks |-> IdleCall]
        /\ UNCHANGED <<slots, selector, faults, handed, best>>
        /\ crashes' \in 0 .. MaxCrashes
    BY SequenceAssumption DEF SeqInv, PowerCut, SeqTypeOK
  <1>1. SeqTypeOK'
    <2>1. call' \in [Tasks -> CallType]
      BY <1>t, IdleCallType
    <2>2. QED BY <1>t, <2>1, FreshType DEF SeqTypeOK, CallType
  <1>2. \A t \in Tasks : call'[t].pc = "idle" /\ ~Busy(t)'
    BY <1>t, IdleCallType DEF Busy, InFlight
  <1>3. Turns' /\ Phases' /\ Candidates' /\ Written' /\ Working'
    BY <1>t, <1>2 DEF Turns, Phases, Candidates, Written, Working, Running
  <1>4. Latest' /\ Blank' /\ SlotsValid' /\ Once'
    BY <1>t DEF Sound, Latest, Elected, Covers, Blank, SlotsValid, SlotValid, Once
  <1>5. Clean'
    BY <1>t DEF Sound, Clean, Running
  <1>6. QED BY <1>t, <1>1, <1>3, <1>4, <1>5 DEF SeqInv, Sound

=============================================================================
