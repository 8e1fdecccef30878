-------------------------- MODULE DestructiveReset --------------------------
(***************************************************************************)
(* The two-step destructive commands of the retired main/app_main.c:       *)
(* formatting the card, and the data reset that also raises the sequence   *)
(* floor and the reset generation.  A prepare is confirmed by a commit,    *)
(* whose progress is journalled in two NVS slots so that it survives a     *)
(* power cut: the intent, the raised floor, the formatted card, the        *)
(* configuration, the command's result and its acknowledgement.            *)
(*                                                                         *)
(* The sequence store is SequenceStore, with interval_task() drawing       *)
(* numbers meanwhile; formatting is one effect (StorageJournal has its     *)
(* detail), and so is the commit of the configuration (Provisioning).      *)
(* Tokens, identities and the boot session are one condition: a commit     *)
(* confirms the prepare of the same boot or it does not.  Every write and  *)
(* every effect is a step of its own, before and after which the power may *)
(* go.                                                                     *)
(***************************************************************************)
EXTENDS SequenceStore

CONSTANTS
  MaxCommits,    \* bound: commit commands
  ServerFloors   \* the floors that the server may ask for

ASSUME ResetAssumption == MaxCommits \in Nat \ {0} /\ ServerFloors \subseteq Nat

VARIABLES
  up,        \* the tasks run, app_main() has finished
  ctl,       \* where the control task, or app_main() for it, is
  prep,      \* s_prepare_record
  live,      \* s_reset.prepared or s_format.state
  journal,   \* NVS slots "a" and "b" of s_prepare_record
  config,    \* reset generation and floor of the configuration
  commits,   \* the ledger's commit commands, with what was done for each
  entry      \* a running commit in the ledger: "running", or when that could not be
             \* written "accepted", or "retry" while execute_command() will try again

resetVars == <<up, ctl, prep, live, journal, config, commits, entry>>
vars == <<seqVars, resetVars>>

Ids == 1..MaxCommits
Kinds == {"format", "reset"}
NoRecord == [phase |-> 0, kind |-> "format", id |-> 0, floor |-> 0, reset |-> 0, gen |-> 0]
NoCommit == [state |-> "none", kind |-> "format", done |-> {}]
Absent == [read |-> "missing", rec |-> NoRecord]
Torn == [read |-> "invalid", rec |-> NoRecord]
Loop == [pc |-> "loop", then |-> "loop"]

Prepared == 1
Intent == 2
FloorDurable == 3
FormatDurable == 4
ConfigDurable == 5
ResultDurable == 6
ResultAcknowledged == 7

Underway(r) == r.phase \in Intent..ConfigDurable

-----------------------------------------------------------------------------
(* The journal.                                                            *)

\* prepare_record_valid(): which phases and names go together.
RecordValid(r) ==
  /\ r.gen > 0 /\ r.phase \in Prepared..ResultAcknowledged
  /\ r.phase = Prepared <=> r.id = 0
  /\ r.kind = "format" => r.phase \notin {FloorDurable, ConfigDurable}
  /\ r.kind = "reset" => r.reset # 0

\* Odd generations go to slot "a".
Key(gen) == IF gen % 2 = 1 THEN "a" ELSE "b"

\* prepare_state_persist(), which either takes the record over or leaves the old
\* slot, the new one or one that does not read back.
Records(r) ==
  LET new == [r EXCEPT !.gen = prep.gen + 1]
  IN  /\ journal' = [journal EXCEPT ![Key(new.gen)] = [read |-> "ok", rec |-> new]]
      /\ prep' = new
      /\ NoFault

RecordFails(r) ==
  LET new == [r EXCEPT !.gen = prep.gen + 1]
  IN  /\ Faulty
      /\ \E left \in {journal[Key(new.gen)], [read |-> "ok", rec |-> new], Torn} :
           journal' = [journal EXCEPT ![Key(new.gen)] = left]
      /\ UNCHANGED prep

Legible == {k \in Keys : journal[k].read = "ok"}
NewestRecord ==
  LET k == CHOOSE k \in Legible : \A j \in Legible : journal[k].rec.gen >= journal[j].rec.gen
  IN  journal[k].rec

Goto(pc) == ctl' = [ctl EXCEPT !.pc = pc]
Erasing(then) == ctl' = [pc |-> "erase_a", then |-> then]

\* A commit that no journal vouches for was interrupted by the restart
\* (reconcile_interrupted_commands()).
Settled(owner) ==
  [i \in Ids |-> IF commits[i].state = "running" /\ i # owner
                   THEN [commits[i] EXCEPT !.state = "failed"] ELSE commits[i]]

\* Control goes back to its loop; during the boot app_main() goes on, or gives
\* up after an error.
Ends(ok, r) ==
  /\ ctl' = Loop
  /\ up' = (up \/ ok)
  /\ power' = IF up \/ ok THEN power ELSE "halted"
  /\ commits' = IF up \/ ~ok THEN commits ELSE Settled(r.id)

Store == <<slots, selector, ram, call, handed, best, overlaps, crashes>>

-----------------------------------------------------------------------------
(* prepare_state_clear(): slot by slot.                                    *)

EraseFirst ==
  /\ On /\ ctl.pc = "erase_a"
  /\ journal' = [journal EXCEPT !["a"] = Absent]
  /\ Goto("erase_b")
  /\ UNCHANGED <<seqVars, up, prep, live, config, commits, entry>>

EraseSecond ==
  /\ On /\ ctl.pc = "erase_b"
  /\ journal' = [journal EXCEPT !["b"] = Absent]
  /\ prep' = NoRecord /\ live' = FALSE
  /\ IF ctl.then = "loop" THEN Ends(TRUE, NoRecord)
     ELSE Goto(ctl.then) /\ UNCHANGED <<up, power, commits>>
  /\ UNCHANGED <<Store, faults, config, entry>>

\* The record stays, without its token.  A prepare tries once more.
EraseFails ==
  /\ On /\ ctl.pc \in {"erase_a", "erase_b"} /\ Faulty
  /\ live' = FALSE
  /\ CASE ctl.then = "refuse" -> Goto("refuse") /\ UNCHANGED <<up, power, commits>>
       [] ctl.then = "prepare" -> Erasing("loop") /\ UNCHANGED <<up, power, commits>>
       [] ctl.then = "loop" -> Ends(FALSE, prep)
  /\ UNCHANGED <<Store, journal, prep, config, entry>>

-----------------------------------------------------------------------------
(* The commands.                                                           *)

\* execute_command() has yet to end.
Retrying == \E i \in Ids : commits[i].state = "running" /\ entry[i] = "retry"

Idle == On /\ up /\ ctl.pc = "loop" /\ ~Retrying

\* A prepare replaces an earlier one, but no commit in progress.
BeginPrepare ==
  /\ Idle /\ prep.phase <= Prepared
  /\ \E i \in Ids : commits[i].state = "none"
  /\ Erasing("prepare")
  /\ UNCHANGED <<seqVars, up, prep, live, journal, config, commits, entry>>

\* internal_floor.
FloorFor(server) == Max({server, ram.seen})

Prepare ==
  /\ On /\ ctl.pc = "prepare"
  /\ \E kind \in Kinds, server \in ServerFloors :
       LET r == [NoRecord EXCEPT !.phase = Prepared, !.kind = kind,
                                 !.floor = IF kind = "reset" THEN FloorFor(server) ELSE 0,
                                 !.reset = IF kind = "reset" THEN ram.reset + 1 ELSE 0]
       IN  /\ kind = "format" => server = Min(ServerFloors)
           /\ r.floor <= Limit
           /\ \/ Records(r) /\ live' = TRUE /\ ctl' = Loop
              \/ RecordFails(r) /\ UNCHANGED live /\ Erasing("loop")
  /\ UNCHANGED <<power, Store, up, config, commits, entry>>

\* A cancel command, or ten minutes without a commit.
DropPrepared ==
  /\ Idle /\ prep.phase = Prepared
  /\ Erasing("loop")
  /\ UNCHANGED <<seqVars, up, prep, live, journal, config, commits, entry>>

\* execute_command() with a commit, which may also name another prepare or a
\* wrong token, or come too late.  It goes on when RUNNING could not be written.
BeginCommit ==
  /\ Idle
  /\ \E i \in Ids : /\ commits[i].state = "none"
                    /\ \A j \in 1..i - 1 : commits[j].state # "none"
                    /\ commits' = [commits EXCEPT ![i].state = "running", ![i].kind = prep.kind]
                    /\ \/ NoFault /\ entry' = [entry EXCEPT ![i] = "running"]
                       \/ Faulty /\ entry' = [entry EXCEPT ![i] = "retry"]
  /\ \/ prep.phase = Prepared /\ live /\ Goto("intent")
     \/ Goto("unprepared")
  /\ UNCHANGED <<power, Store, up, prep, live, journal, config>>

Current == Max({i \in Ids : commits[i].state # "none"})

IntentRecord == [prep EXCEPT !.phase = Intent, !.id = Current]

\* Fault of DropIntent: what the failed write left stays.
KeepIntent == Goto("refuse")

\* An intent that could not be recorded is erased before the commit is refused.
DropIntent == Erasing("refuse")

\* begin_durable_commit_intent().
CommitIntent ==
  /\ On /\ ctl.pc = "intent"
  /\ \/ Records(IntentRecord) /\ live' = FALSE /\ Goto("effect")
     \/ RecordFails(IntentRecord) /\ UNCHANGED live /\ DropIntent
  /\ UNCHANGED <<power, Store, up, config, commits, entry>>

\* A commit without a matching prepare also drops the prepare there is, unless
\* another commit is in progress.
Unprepared ==
  /\ On /\ ctl.pc = "unprepared"
  /\ IF prep.phase >= Intent THEN Goto("refuse") ELSE Erasing("refuse")
  /\ UNCHANGED <<seqVars, up, prep, live, journal, config, commits, entry>>

\* FAILED may not be written either: then the next boot settles the commit.
Refuse ==
  /\ On /\ ctl.pc = "refuse"
  /\ \/ NoFault /\ commits' = [commits EXCEPT ![Current].state = "failed"] /\ UNCHANGED entry
     \/ /\ Faulty /\ UNCHANGED commits
        /\ entry' = [entry EXCEPT ![Current] = IF @ = "retry" THEN "accepted" ELSE @]
  /\ ctl' = Loop
  /\ UNCHANGED <<power, Store, up, prep, live, journal, config>>

\* The end of execute_command() for a commit that is not finished: RUNNING is
\* written once more.
MarkRunning ==
  /\ On /\ up /\ ctl.pc = "loop"
  /\ \E i \in Ids : /\ commits[i].state = "running" /\ entry[i] = "retry"
                    /\ \/ NoFault /\ entry' = [entry EXCEPT ![i] = "running"]
                       \/ Faulty /\ entry' = [entry EXCEPT ![i] = "accepted"]
  /\ UNCHANGED <<power, Store, up, ctl, prep, live, journal, config, commits>>

-----------------------------------------------------------------------------
(* resume_destructive_transaction(): an effect, then its phase, until the  *)
(* result is durable.  It is run by the commit, by the control loop and by *)
(* app_main().                                                             *)

\* Fault of EffectOf: a format reports before it formats.
EffectOfEarly(r) ==
  CASE r.kind = "reset" /\ r.phase = Intent -> "floor"
    [] r.kind = "reset" /\ r.phase = FloorDurable -> "format"
    [] r.kind = "format" /\ r.phase = Intent -> "result"
    [] r.kind = "reset" /\ r.phase = FormatDurable -> "config"
    [] OTHER -> "result"

EffectOf(r) ==
  CASE r.kind = "reset" /\ r.phase = Intent -> "floor"
    [] r.kind = "reset" /\ r.phase = FloorDurable -> "format"
    [] r.kind = "format" /\ r.phase = Intent -> "format"
    [] r.kind = "reset" /\ r.phase = FormatDurable -> "config"
    [] OTHER -> "result"

PhaseAfter(effect) ==
  CASE effect = "floor" -> FloorDurable [] effect = "format" -> FormatDurable
    [] effect = "config" -> ConfigDurable [] effect = "result" -> ResultDurable

Resume ==
  /\ Idle /\ Underway(prep)
  /\ Goto("effect")
  /\ UNCHANGED <<seqVars, up, prep, live, journal, config, commits, entry>>

Now(effect) == On /\ ctl.pc = "effect" /\ EffectOf(prep) = effect
Done(effect) == [commits EXCEPT ![prep.id].done = @ \cup {effect}]

\* pm_sequence_raise_floor(), as far as its persist().
RaiseFloor ==
  /\ Now("floor")
  /\ \/ /\ FloorReached(prep.floor, prep.reset)
        /\ commits' = Done("floor") /\ Goto("record")
        /\ UNCHANGED <<call, overlaps, power, up>>
     \/ /\ FloorRefused(prep.floor, prep.reset)
        /\ Ends(FALSE, prep) /\ UNCHANGED <<call, overlaps>>
     \/ /\ ~FloorReached(prep.floor, prep.reset) /\ ~FloorRefused(prep.floor, prep.reset)
        /\ BeginRaise("control", prep.floor, prep.reset)
        /\ Goto("raising")
        /\ UNCHANGED <<power, up, commits>>
  /\ UNCHANGED <<slots, selector, ram, handed, best, faults, crashes, prep, live, journal, config,
                 entry>>

FloorRaised ==
  /\ On /\ ctl.pc = "raising" /\ call["control"].pc \in {"done", "failed"}
  /\ call' = [call EXCEPT !["control"] = IdleCall]
  /\ IF call["control"].pc = "done"
       THEN commits' = Done("floor") /\ Goto("record") /\ UNCHANGED <<up, power>>
       ELSE Ends(FALSE, prep)
  /\ UNCHANGED <<slots, selector, ram, handed, best, overlaps, faults, crashes, prep, live, journal,
                 config, entry>>

\* pm_storage_recover_authenticated_format(); what is left after an error is
\* formatted again.
Format ==
  /\ Now("format")
  /\ \/ commits' = Done("format") /\ Goto("record") /\ NoFault /\ UNCHANGED <<up, power>>
     \/ Faulty /\ Ends(FALSE, prep)
  /\ UNCHANGED <<Store, prep, live, journal, config, entry>>

ConfigReached(r) == config = [reset |-> r.reset, floor |-> r.floor]
ConfigRefused(r) == config.reset >= r.reset \/ config.floor > r.floor

\* Fault of ConfigFor: the generation is forgotten.
ConfigForFloor(r) == [config EXCEPT !.floor = r.floor]

ConfigFor(r) == [reset |-> r.reset, floor |-> r.floor]

\* persist_reset_configuration(), which can fail after the commit, too.
Configure ==
  /\ Now("config")
  /\ \/ /\ ConfigReached(prep) \/ ~ConfigRefused(prep)
        /\ config' = ConfigFor(prep)
        /\ commits' = Done("config") /\ Goto("record") /\ NoFault /\ UNCHANGED <<up, power>>
     \/ /\ ConfigRefused(prep) /\ ~ConfigReached(prep) /\ NoFault
        /\ Ends(FALSE, prep) /\ UNCHANGED config
     \/ /\ ~ConfigRefused(prep) /\ Faulty
        /\ config' \in {config, ConfigFor(prep)} /\ Ends(FALSE, prep)
  /\ UNCHANGED <<Store, prep, live, journal, entry>>

\* persist_destructive_command_result(), for a command that is RUNNING.
Result ==
  /\ Now("result")
  /\ \/ /\ commits[prep.id].state \in {"running", "succeeded"} /\ entry[prep.id] = "running"
        /\ commits' = [commits EXCEPT ![prep.id].state = "succeeded"]
        /\ Goto("record") /\ NoFault /\ UNCHANGED <<up, power>>
     \/ /\ commits[prep.id].state \notin {"running", "succeeded"} \/ entry[prep.id] # "running"
        /\ NoFault
        /\ Ends(FALSE, prep)
     \/ Faulty /\ Ends(FALSE, prep)
  /\ UNCHANGED <<Store, prep, live, journal, config, entry>>

\* persist_prepare_phase(); the pass goes on to the next effect.
RecordPhase ==
  /\ On /\ ctl.pc = "record"
  /\ LET r == [prep EXCEPT !.phase = PhaseAfter(EffectOf(prep))]
     IN  \/ /\ Records(r)
            /\ IF Underway(r) THEN Goto("effect") /\ UNCHANGED <<up, power, commits>>
               ELSE Ends(TRUE, r)
         \/ RecordFails(r) /\ Ends(FALSE, prep)
  /\ UNCHANGED <<Store, live, config, entry>>

-----------------------------------------------------------------------------
(* The acknowledgement of the result, and the cleanup.                     *)

\* process_authenticated_result_acknowledgements(): the server has the result.
Acknowledge ==
  /\ Idle /\ prep.phase = ResultDurable
  /\ commits[prep.id].state = "succeeded"
  /\ LET r == [prep EXCEPT !.phase = ResultAcknowledged]
     IN  \/ Records(r) /\ Goto("cleanup")
         \/ RecordFails(r) /\ UNCHANGED ctl
  /\ UNCHANGED <<power, Store, up, live, config, commits, entry>>

\* destructive_cleanup_acknowledged(): the command goes first.
Cleanup ==
  /\ On /\ up /\ ctl.pc \in {"loop", "cleanup"} /\ prep.phase = ResultAcknowledged
  /\ \/ /\ commits' = [commits EXCEPT ![prep.id].state = "acknowledged"]
        /\ Erasing("loop") /\ NoFault
     \/ Faulty /\ ctl' = Loop /\ UNCHANGED commits
  /\ UNCHANGED <<power, Store, up, prep, live, journal, config, entry>>

-----------------------------------------------------------------------------
(* The other tasks, and the boot.                                          *)

\* interval_task() draws a number and stores its record.
Draw == up /\ BeginNext /\ UNCHANGED resetVars
Drawn ==
  /\ On /\ call["interval"].pc \in {"done", "failed"}
  /\ call' = [call EXCEPT !["interval"] = IdleCall]
  /\ UNCHANGED <<power, slots, selector, ram, handed, best, overlaps, faults, crashes, resetVars>>

StoreCall == StoreStep /\ UNCHANGED resetVars

Boot == (LoadNewest \/ LoadFresh \/ LoadFails) /\ UNCHANGED resetVars

\* prepare_state_boot_load(), and what app_main() makes of it: a prepare is
\* dropped, a commit goes on before any task runs.
LoadJournal ==
  /\ On /\ ~up /\ ctl.pc = "journal"
  /\ IF Legible # {}
       THEN /\ prep' = NewestRecord
            /\ IF NewestRecord.phase = Prepared
                 THEN Erasing("loop") /\ UNCHANGED <<up, power, commits>>
               ELSE IF Underway(NewestRecord)
                 THEN Goto("effect") /\ UNCHANGED <<up, power, commits>>
               ELSE Ends(TRUE, NewestRecord)
     ELSE IF \A k \in Keys : journal[k].read = "missing"
       THEN Erasing("loop") /\ UNCHANGED <<prep, up, power, commits>>
       ELSE Ends(FALSE, NoRecord) /\ UNCHANGED prep
  /\ UNCHANGED <<Store, faults, live, journal, config, entry>>

\* What a failed write left in the ledger shows only after the power cut.
LosePower ==
  /\ PowerCut
  /\ up' = FALSE /\ ctl' = [pc |-> "journal", then |-> "loop"]
  /\ prep' = NoRecord /\ live' = FALSE
  /\ \E failed \in SUBSET {i \in Ids : entry[i] # "running"} :
       entry' = [i \in Ids |-> IF i \in failed THEN "accepted" ELSE "running"]
  /\ UNCHANGED <<journal, config, commits>>

Init ==
  /\ SeqInit
  /\ up = FALSE /\ ctl = [pc |-> "journal", then |-> "loop"]
  /\ prep = NoRecord /\ live = FALSE
  /\ journal = [k \in Keys |-> Absent]
  /\ config = [reset |-> 0, floor |-> 0]
  /\ commits = [i \in Ids |-> NoCommit] /\ entry = [i \in Ids |-> "running"]

Erase == EraseFirst \/ EraseSecond \/ EraseFails
Progress == RaiseFloor \/ FloorRaised \/ Format \/ Configure \/ Result \/ RecordPhase
Command == BeginPrepare \/ DropPrepared \/ BeginCommit
Control == \/ Erase \/ Prepare \/ Unprepared \/ Refuse \/ MarkRunning \/ CommitIntent \/ Resume
           \/ Progress \/ Cleanup
Next == \/ Command \/ Control \/ Acknowledge \/ Draw \/ Drawn \/ StoreCall
        \/ Boot \/ LoadJournal \/ LosePower

Spec == Init /\ [][Next]_vars

\* The tasks run when they can.  Nobody has to send a command, acknowledge a
\* result or switch the power.
FairSpec == Spec /\ WF_vars(Control) /\ WF_vars(Drawn) /\ WF_vars(StoreCall)
                 /\ WF_vars(Boot) /\ WF_vars(LoadJournal)

-----------------------------------------------------------------------------
(* Properties.                                                             *)

Record == [phase : 0..7, kind : Kinds, id : 0..MaxCommits, floor : 0..Limit, reset : Nat,
           gen : Nat]

\* prepare_record_valid() never refuses what prepare_state_persist() writes.
TypeOK ==
  /\ SeqTypeOK
  /\ up \in BOOLEAN /\ live \in BOOLEAN
  /\ ctl.pc \in {"journal", "loop", "erase_a", "erase_b", "prepare", "intent", "unprepared",
                 "refuse", "effect", "raising", "record", "cleanup"}
  /\ ctl.then \in {"loop", "prepare", "refuse"}
  /\ prep \in Record
  /\ journal \in [Keys -> [read : {"missing", "invalid", "ok"}, rec : Record]]
  /\ \A k \in Legible : RecordValid(journal[k].rec)
  /\ config.reset \in Nat /\ config.floor \in 0..Limit
  /\ \A i \in Ids :
       /\ commits[i].state \in {"none", "running", "succeeded", "failed", "acknowledged"}
       /\ entry[i] \in {"running", "retry", "accepted"}
       /\ commits[i].kind \in Kinds /\ commits[i].done \subseteq {"floor", "format", "config"}

Needed(kind) == IF kind = "reset" THEN {"floor", "format", "config"} ELSE {"format"}

\* Success is reported only for what is done in full, however often the commit
\* was cut short and resumed.
SuccessIsComplete ==
  \A i \in Ids : commits[i].state \in {"succeeded", "acknowledged"}
                   => commits[i].done = Needed(commits[i].kind)

\* A commit that failed, or that the reboot interrupted, destroyed nothing and
\* never will: its intent is on no slot that a later boot could resume.  Two failing
\* operations are more than the code provides for: an intent whose write failed and
\* stuck, and whose erasure fails as well, is resumed after the refusal.
FailureIsHarmless ==
  faults < 2 => \A i \in Ids : commits[i].state = "failed" => commits[i].done = {}

\* "reset sequence and config generations diverged" (durable_destructive_model.py)
\* never happens but in the middle of a reset that the journal still holds: so
\* the next boot finds them, as long as the sequence store can be loaded.
GenerationsAgree ==
  LET stored == slots[Newest].state.reset
  IN  Readable # {} /\ ~Refused /\ stored # config.reset =>
        /\ Legible # {}
        /\ NewestRecord.kind = "reset" /\ NewestRecord.reset = stored
        /\ NewestRecord.phase \in Intent..FormatDurable

\* The generations diverge only after two calls into pm_sequence.c overlapped: a copy
\* that interval_task() took before pm_sequence_raise_floor() and wrote after it puts
\* the old generation back.  No effect of a commit, no resumption and no failing write
\* does it.
InTurnGenerationsAgree == overlaps = 0 => GenerationsAgree

\* The floor was overtaken by a number drawn after the prepare.
Overtaken == prep.kind = "reset" /\ prep.phase = Intent /\ FloorRefused(prep.floor, prep.reset)

\* The power went between the first slot and its selector: persist() refuses.
Unselected == selector = "none" /\ Readable # {}

\* A commit whose intent is recorded comes to its result ("recovery made no progress
\* before result", test_destructive_recovery.py), unless the boot gave up, its RUNNING
\* was never written, a number overtook its floor, or the sequence store was left
\* without a selector or with the state of another call.
CommitFinishes ==
  \A i \in Ids :
    commits[i].state = "running" /\ prep.id = i
      ~> \/ commits[i].state # "running" \/ entry[i] = "accepted"
         \/ power = "halted" \/ Overtaken \/ Unselected \/ overlaps > 0

=============================================================================
