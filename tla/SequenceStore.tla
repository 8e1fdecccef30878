---------------------------- MODULE SequenceStore ----------------------------
(***************************************************************************)
(* The persistent sequence state of components/pm_storage/pm_sequence.c:   *)
(* two NVS slots and a selector, one RAM copy that three tasks of the      *)
(* retired runtime share.  A call copies the RAM state, persists the       *)
(* changed copy and assigns it back; no lock is held meanwhile, so calls   *)
(* of different tasks interleave.  The file relies on calls that take      *)
(* turns: the observer overlaps counts the calls that did not wait for     *)
(* another to end.                                                         *)
(*                                                                         *)
(* The caller's side of each call is in the modules that extend this one.  *)
(***************************************************************************)
EXTENDS Integers, Sequences, Functions, FiniteSetsExt

CONSTANTS
  Limit,       \* UINT64_MAX
  Block,       \* PM_SEQUENCE_RESERVATION_BLOCK
  MaxOverlaps, \* bound: calls that begin while another is under way
  MaxFaults,   \* bound: failing NVS and card operations
  MaxCrashes   \* bound: power cuts

ASSUME SequenceAssumption ==
  /\ {Limit, Block} \subseteq Nat \ {0}
  /\ {MaxOverlaps, MaxFaults, MaxCrashes} \subseteq Nat

VARIABLES
  power,      \* "off", "loading", "on", or "halted" when app_main() gave up
  slots,      \* NVS "slot_a" and "slot_b"
  selector,   \* NVS "active"
  ram,        \* s_sequence
  call,       \* what each task does inside pm_sequence.c
  faults, crashes,
  handed,     \* observer: the numbers handed out, in order
  best,       \* observer: the highest acknowledgement the device acted on
  overlaps    \* observer: the calls that began while another was under way

storeVars == <<slots, selector, ram, call, handed, best, overlaps>>
seqVars == <<power, storeVars, faults, crashes>>

Tasks == {"boot", "interval", "network", "control"}
Keys == {"a", "b"}
Numbers == 1..Limit

SequenceState == [next : 1..Limit + 1, reserved : 0..Limit, seen : 0..Limit,
                  ack : 0..Limit, gen : Nat, reset : Nat]
Fresh == [next |-> 1, reserved |-> 0, seen |-> 0, ack |-> 0, gen |-> 0, reset |-> 0]

Missing == [read |-> "missing", state |-> Fresh]
Unreadable == [read |-> "invalid", state |-> Fresh]
Holding(s) == [read |-> "ok", state |-> s]
IdleCall == [pc |-> "idle", op |-> "none", copy |-> Fresh, key |-> "a"]

\* The types of the store: no reservation runs past the last number.
SeqTypeOK ==
  /\ power \in {"off", "loading", "on", "halted"}
  /\ slots \in [Keys -> [read : {"missing", "invalid", "ok"}, state : SequenceState]]
  /\ selector \in Keys \cup {"none"}
  /\ ram \in SequenceState
  /\ call \in [Tasks -> [pc : {"idle", "copied", "planned", "written", "selected",
                               "done", "failed"},
                         op : {"none", "fresh", "reserve", "allocate", "ack", "floor"},
                         copy : SequenceState, key : Keys]]
  /\ faults \in 0..MaxFaults /\ crashes \in 0..MaxCrashes
  /\ handed \in Seq(Numbers) /\ best \in 0..Limit

SeqInit ==
  /\ power = "off"
  /\ slots = [k \in Keys |-> Missing] /\ selector = "none"
  /\ ram = Fresh /\ call = [t \in Tasks |-> IdleCall]
  /\ faults = 0 /\ crashes = 0 /\ handed = <<>> /\ best = 0
  /\ overlaps = 0

Faulty == faults < MaxFaults /\ faults' = faults + 1
NoFault == faults' = faults
On == power = "on"

-----------------------------------------------------------------------------
(* The candidates that the operations build from a copy of the state.      *)

Reserved(s) == [s EXCEPT !.reserved = s.next + Block - 1]
Allocated(s) == [s EXCEPT !.next = @ + 1, !.seen = s.next]
Acknowledged(s, n) == [s EXCEPT !.ack = n]

\* Fault of Raised: the next number is the floor itself.
RaisedToFloor(s, floor, reset) ==
  [s EXCEPT !.seen = floor, !.next = floor, !.reserved = floor, !.ack = floor,
            !.reset = reset]

Raised(s, floor, reset) ==
  [s EXCEPT !.seen = floor, !.next = floor + 1, !.reserved = floor, !.ack = floor,
            !.reset = reset]

\* slot_valid(), apart from the checksum.
SlotValid(s) ==
  /\ s.next > 0 /\ s.reserved >= s.next - 1
  /\ s.seen < s.next /\ s.ack <= s.seen

-----------------------------------------------------------------------------
(* persist().                                                              *)

\* A task that is not inside pm_sequence.c may call it, whoever else is.
MayCall(t) ==
  /\ call[t].pc = "idle"
  /\ IF \A u \in Tasks : call[u].pc \in {"idle", "done", "failed"}
       THEN overlaps' = overlaps
       ELSE overlaps < MaxOverlaps /\ overlaps' = overlaps + 1

\* A call enters pm_sequence.c with its copy of the shared state.
Begin(t, op, s) == call' = [call EXCEPT ![t] = [IdleCall EXCEPT !.pc = "copied", !.op = op,
                                                                !.copy = s]]

\* A fresh store that cannot be written ends the boot.
Fails(t) ==
  /\ power' = IF t = "boot" THEN "halted" ELSE power
  /\ call' = [call EXCEPT ![t] = IF t = "boot" THEN IdleCall ELSE [@ EXCEPT !.pc = "failed"]]

\* Fault of Persisted: a generation is used twice.
PersistedSameGeneration(s) == s

\* What persist() writes for a candidate.
Persisted(s) == [s EXCEPT !.gen = @ + 1]

Inactive == IF selector = "b" THEN "a" ELSE "b"

\* The selector decides which slot is overwritten.  Only a store that was never
\* written may be without one.
Plan(t) ==
  /\ call[t].pc = "copied"
  /\ \/ /\ selector # "none" \/ call[t].copy.gen = 0
        /\ NoFault
        /\ call' = [call EXCEPT ![t].pc = "planned", ![t].key = Inactive]
        /\ UNCHANGED power
     \/ /\ \/ selector = "none" /\ call[t].copy.gen # 0 /\ NoFault
           \/ Faulty
        /\ Fails(t)
  /\ UNCHANGED <<slots, selector, ram, crashes, handed, best, overlaps>>

\* nvs_set_blob() and nvs_commit(): an error leaves the old slot, the new one or
\* one that does not read back.
WriteSlot(t) ==
  /\ call[t].pc = "planned"
  /\ LET new == Holding(Persisted(call[t].copy))
     IN  \/ /\ slots' = [slots EXCEPT ![call[t].key] = new]
            /\ call' = [call EXCEPT ![t].pc = "written"]
            /\ NoFault /\ UNCHANGED power
         \/ /\ Faulty
            /\ \E left \in {slots[call[t].key], new, Unreadable} :
                 slots' = [slots EXCEPT ![call[t].key] = left]
            /\ Fails(t)
  /\ UNCHANGED <<selector, ram, crashes, handed, best, overlaps>>

ReadsBack(t) ==
  LET new == Persisted(call[t].copy)
  IN  slots[call[t].key] = Holding(new) /\ SlotValid(new)

\* The slot is read back and compared, then selected; when that fails the
\* selector may have changed all the same.
SelectSlot(t) ==
  /\ call[t].pc = "written"
  /\ \/ /\ ReadsBack(t)
        /\ selector' = call[t].key
        /\ call' = [call EXCEPT ![t].pc = "selected"]
        /\ NoFault /\ UNCHANGED power
     \/ /\ ~ReadsBack(t)
        /\ NoFault /\ Fails(t)
        /\ UNCHANGED selector
     \/ /\ Faulty /\ Fails(t)
        /\ selector' \in {selector, call[t].key}
  /\ UNCHANGED <<slots, ram, crashes, handed, best, overlaps>>

\* Fault of Adopted: an allocation is not assigned back.
AdoptedUnlessNumber(s, op) == IF op = "allocate" THEN ram ELSE Persisted(s)

\* The state that a finished call assigns back.
Adopted(s, op) == Persisted(s)

\* The persisted copy becomes the shared state.  A reservation goes on to the
\* allocation it was made for.
Assign(t) ==
  /\ call[t].pc = "selected"
  /\ LET new == Adopted(call[t].copy, call[t].op)
     IN  /\ ram' = new
         /\ best' = IF new.ack > best THEN new.ack ELSE best
         /\ handed' = IF call[t].op = "allocate" THEN Append(handed, call[t].copy.seen) ELSE handed
         /\ call' = [call EXCEPT ![t] =
                       CASE call[t].op = "fresh" -> IdleCall
                         [] call[t].op = "reserve" ->
                              [@ EXCEPT !.pc = "copied", !.op = "allocate", !.copy = Allocated(new)]
                         [] OTHER -> [@ EXCEPT !.pc = "done"]]
  /\ power' = IF call[t].op = "fresh" THEN "on" ELSE power
  /\ UNCHANGED <<slots, selector, faults, crashes, overlaps>>

-----------------------------------------------------------------------------
(* The calls.                                                              *)

\* pm_sequence_next(), as far as the first persist().
BeginNext ==
  /\ On /\ MayCall("interval")
  /\ ram.next < Limit
  /\ IF ram.next > ram.reserved
       THEN ram.next + Block - 1 <= Limit /\ Begin("interval", "reserve", Reserved(ram))
       ELSE Begin("interval", "allocate", Allocated(ram))
  /\ UNCHANGED <<power, slots, selector, ram, faults, crashes, handed, best>>

\* pm_sequence_acknowledge(n): refused, nothing to do, or persisted.
AckRefused(n) == n < ram.ack \/ n > ram.seen
BeginAcknowledge(n) == MayCall("network") /\ Begin("network", "ack", Acknowledged(ram, n))

\* pm_sequence_raise_floor(): a repetition must find exactly its own result.
FloorReached(floor, reset) ==
  /\ reset = ram.reset
  /\ ram.seen = floor /\ ram.next = floor + 1 /\ ram.reserved = floor /\ ram.ack = floor

FloorRefused(floor, reset) ==
  \/ floor = Limit
  \/ reset = ram.reset /\ ~FloorReached(floor, reset)
  \/ floor < ram.seen \/ reset < ram.reset
BeginRaise(t, floor, reset) == MayCall(t) /\ Begin(t, "floor", Raised(ram, floor, reset))

-----------------------------------------------------------------------------
(* pm_sequence_load().                                                     *)

Readable == {k \in Keys : slots[k].read = "ok" /\ SlotValid(slots[k].state)}

\* Fault of Newest: the slot with the lower generation is loaded.
NewestOldest ==
  CHOOSE k \in Readable : \A j \in Readable : slots[k].state.gen <= slots[j].state.gen

Newest == CHOOSE k \in Readable : \A j \in Readable : slots[k].state.gen >= slots[j].state.gen

\* Numbers that were reserved and perhaps used are skipped.
Loaded(s) == IF s.next <= s.reserved THEN [s EXCEPT !.next = s.reserved + 1] ELSE s

Refused ==
  \/ \E k \in Keys \ Readable : slots[k].read # "missing"
  \/ /\ Readable = Keys
     /\ slots["a"].state.gen = slots["b"].state.gen
     /\ slots["a"].state # slots["b"].state
  \/ /\ Readable # {}
     /\ LET s == slots[Newest].state IN s.next <= s.reserved /\ s.reserved = Limit

LoadNewest ==
  /\ power = "off" /\ Readable # {} /\ ~Refused
  /\ ram' = Loaded(slots[Newest].state)
  /\ best' = IF ram'.ack > best THEN ram'.ack ELSE best
  /\ power' = "on"
  /\ UNCHANGED <<slots, selector, call, faults, crashes, handed, overlaps>>

LoadFresh ==
  /\ power = "off" /\ Readable = {} /\ ~Refused
  /\ ram' = Fresh
  /\ Begin("boot", "fresh", Fresh)
  /\ power' = "loading"
  /\ UNCHANGED <<slots, selector, faults, crashes, handed, best, overlaps>>

\* app_main() returns: nothing runs until the next power cycle.
LoadFails ==
  /\ power = "off"
  /\ (Refused /\ NoFault) \/ Faulty
  /\ power' = "halted"
  /\ UNCHANGED <<storeVars, crashes>>

\* NVS replaces an entry atomically, so a power cut falls between two steps.
PowerCut ==
  /\ power # "off" /\ crashes < MaxCrashes
  /\ crashes' = crashes + 1
  /\ power' = "off" /\ ram' = Fresh /\ call' = [t \in Tasks |-> IdleCall]
  /\ UNCHANGED <<slots, selector, faults, handed, best, overlaps>>

StoreStep == \E t \in Tasks : Plan(t) \/ WriteSlot(t) \/ SelectSlot(t) \/ Assign(t)

-----------------------------------------------------------------------------
(* Properties of the store.                                                *)

\* No number is handed out twice, whatever fails and whenever the power goes:
\* "A failed append becomes an explicit unavailable sequence, never a reused
\* identity" (pm_sequence.c, pm_sequence_next()); pm_model.py asserts it as
\* "sequence reuse".
NumbersUsedOnce == IsInjective(handed)

\* A number is handed out twice only after two calls overlapped: the reservations and
\* the two slots see to it through every failing write and power cut.
InTurnNumbersUsedOnce == overlaps = 0 => NumbersUsedOnce

\* An acknowledgement the device has acted on (segments are deleted on its word)
\* is never taken back, not by a restart either: run_fault_matrix.py asserts
\* "device.sequence.acknowledged >= before_ack".
AcknowledgementKept == On => ram.ack >= best

\* An acknowledgement is taken back only after two calls overlapped: persist() runs
\* before the RAM copy changes, so what was acted on is what a restart loads.
InTurnAcknowledgementKept == overlaps = 0 => AcknowledgementKept

\* Power cuts alone never leave a pair of slots that pm_sequence_load() refuses: it
\* takes a failing write, the end of the number range, or two overlapping calls, which
\* write both slots with one generation and different contents.
PowerCutsNeverHalt ==
  power = "halted" => \/ faults > 0 \/ overlaps > 0
                      \/ \E k \in Readable : slots[k].state.reserved = Limit

=============================================================================
