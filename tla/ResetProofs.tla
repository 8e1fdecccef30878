---------------------------- MODULE ResetProofs ----------------------------
(***************************************************************************)
(* Theorems of DestructiveReset for any number of commits, faults and      *)
(* power cuts and any floors: a commit that is reported as done is done in *)
(* full; one that is reported as failed has destroyed nothing, unless two  *)
(* operations failed; and the reset generations of the sequence store and  *)
(* of the configuration differ only during a reset that the journal still  *)
(* holds.  The first two do not depend on how the calls into pm_sequence.c *)
(* interleave; the third holds until two of them overlap.                  *)
(***************************************************************************)
EXTENDS DestructiveReset, SequenceProofs

-----------------------------------------------------------------------------
(* The journal's invariant.  A chance is a record that a commit goes on    *)
(* from, now or after a restart.                                           *)

Chances == {prep} \cup {journal[k].rec : k \in Legible}

\* The effects that a record's phase vouches for.
Before(r) == {e \in Needed(r.kind) : PhaseAfter(e) <= r.phase}

RecordForm(r) ==
  /\ r = [phase |-> r.phase, kind |-> r.kind, id |-> r.id, floor |-> r.floor,
          reset |-> r.reset, gen |-> r.gen]
  /\ r.phase \in 0..7 /\ r.kind \in Kinds /\ r.id \in 0..MaxCommits /\ r.gen \in Nat
  /\ r.id = 0 <=> r.phase <= Prepared
  /\ r.kind = "format" => r.phase \notin {FloorDurable, ConfigDurable}

\* What a record says of its commit is true.
Honest(r) ==
  /\ RecordForm(r)
  /\ r.id # 0 => /\ commits[r.id].state # "none" /\ commits[r.id].kind = r.kind
                 /\ Before(r) \subseteq commits[r.id].done
                 /\ r.phase >= ResultDurable => commits[r.id].state \in {"succeeded", "acknowledged"}

Journal ==
  /\ DOMAIN journal = Keys
  /\ \A k \in Legible : /\ journal[k] = [read |-> "ok", rec |-> journal[k].rec]
                         /\ Key(journal[k].rec.gen) = k

\* The legible records are of one transaction, the younger the further.
OneTransaction ==
  \A j, k \in Legible :
    journal[j].rec.gen >= journal[k].rec.gen => journal[k].rec.id \in {0, journal[j].rec.id}

\* The record in RAM is in its slot while it can still go on.
Slotted ==
  prep.phase \in Intent..ResultDurable \/ (prep.phase = Prepared /\ live /\ ctl.pc # "erase_b")
    => journal[Key(prep.gen)] = [read |-> "ok", rec |-> prep]

CommitForm(c) ==
  /\ c = [state |-> c.state, kind |-> c.kind, done |-> c.done]
  /\ c.state \in {"none", "running", "succeeded", "failed", "acknowledged"}
  /\ c.kind \in Kinds /\ c.done \subseteq Needed(c.kind)
  /\ c.state = "none" => c.done = {}

Ledger ==
  /\ DOMAIN commits = Ids
  /\ \A i \in Ids : CommitForm(commits[i])
  /\ \A i, j \in Ids : j < i /\ commits[i].state # "none" => commits[j].state # "none"

\* A commit that has destroyed something is one that will be resumed.
Resumable ==
  \A i \in Ids : commits[i].state = "running" /\ commits[i].done # {} =>
    IF ctl.pc = "journal" THEN Legible # {} /\ NewestRecord.id = i ELSE prep.id = i

Erases == ctl.pc \in {"erase_a", "erase_b"}
Undecided == ctl.pc \in {"intent", "unprepared", "refuse"} \/ (Erases /\ ctl.then = "refuse")

ControlForm ==
  /\ ctl = [pc |-> ctl.pc, then |-> ctl.then]
  /\ ctl.pc \in {"journal", "loop", "erase_a", "erase_b", "prepare", "intent", "unprepared",
                 "refuse", "effect", "raising", "record", "cleanup"}
  /\ ctl.then \in {"loop", "prepare", "refuse"}
  /\ up \in BOOLEAN /\ live \in BOOLEAN /\ faults \in Nat

\* What the control task relies on at each of its steps.
Position ==
  /\ ctl.pc = "journal" => prep = NoRecord /\ ~live /\ ~up
  /\ Erases => prep.phase \in {0, Prepared, ResultAcknowledged}
  /\ ctl.pc = "erase_b" => journal["a"] = Absent
  /\ ctl.pc = "prepare" => Legible = {} /\ prep = NoRecord
  /\ ctl.pc = "intent" => prep.phase = Prepared /\ live /\ commits[Current].kind = prep.kind
  /\ ctl.pc \in {"effect", "raising", "record"} => Underway(prep)
  /\ ctl.pc = "raising" => EffectOf(prep) = "floor"
  /\ ctl.pc = "record" => IF EffectOf(prep) = "result"
                            THEN commits[prep.id].state \in {"succeeded", "acknowledged"}
                            ELSE EffectOf(prep) \in commits[prep.id].done

\* The commit being decided has done nothing, and unless two operations failed it
\* has left no intent.
Deciding ==
  Undecided =>
    /\ \E i \in Ids : commits[i].state # "none"
    /\ commits[Current].state = "running" /\ commits[Current].done = {}
    /\ prep.id # Current
    /\ (ctl.pc \in {"intent", "unprepared"} \/ faults < (IF Erases THEN 1 ELSE 2))
         => \A r \in Chances : r.id # Current

\* A commit that failed has no record to go on from.
Harmless ==
  faults < 2 => \A i \in Ids : commits[i].state = "failed" =>
                   commits[i].done = {} /\ \A r \in Chances : r.id # i

ResetSound == Journal /\ OneTransaction /\ Slotted /\ Ledger /\ Resumable /\ ControlForm
                 /\ Position /\ Deciding

ResetInv == (\A r \in Chances : Honest(r)) /\ ResetSound /\ SuccessIsComplete /\ Harmless

-----------------------------------------------------------------------------
(* Facts about the definitions.                                            *)

LEMMA KeyTurns ==
    ASSUME NEW g \in Nat
    PROVE  Key(g) \in Keys /\ Key(g + 1) \in Keys /\ Key(g + 1) # Key(g)
  <1>1. g % 2 \in {0, 1} /\ (g + 1) % 2 \in {0, 1} /\ (g + 1) % 2 # g % 2
    OBVIOUS
  <1>2. QED BY <1>1 DEF Key, Keys

LEMMA NoRecordForm == RecordForm(NoRecord) /\ NoRecord.id = 0 /\ NoRecord.phase = 0
  BY ResetAssumption DEF NoRecord, RecordForm, Kinds, Prepared, FloorDurable, ConfigDurable

LEMMA NoRecordHonest == Honest(NoRecord)
  BY NoRecordForm DEF Honest

LEMMA CurrentIs ==
    ASSUME \E i \in Ids : commits[i].state # "none"
    PROVE  /\ Current \in Ids /\ commits[Current].state # "none" /\ Current # 0
           /\ \A i \in Ids : commits[i].state # "none" => i <= Current
  <1> DEFINE T == {i \in Ids : commits[i].state # "none"}
  <1>1. MaxCommits \in Nat /\ T \in SUBSET (0 .. MaxCommits) /\ T # {}
    BY ResetAssumption DEF Ids
  <1>2. Max(T) \in T /\ \A i \in T : Max(T) >= i
    BY <1>1, GreatestNumber
  <1>3. Current = Max(T) /\ \A i \in Ids : i \in Nat /\ i # 0
    BY ResetAssumption DEF Current, Ids
  <1>4. QED BY <1>2, <1>3

LEMMA CurrentSame ==
    ASSUME \A i \in Ids : commits'[i].state # "none" <=> commits[i].state # "none"
    PROVE  Current' = Current
  <1>1. {i \in Ids : commits'[i].state # "none"} = {i \in Ids : commits[i].state # "none"}
    OBVIOUS
  <1>2. QED BY <1>1 DEF Current

LEMMA PhasesOf ==
    ASSUME NEW r, RecordForm(r), Underway(r)
    PROVE  /\ EffectOf(r) \in {"floor", "format", "config", "result"}
           /\ EffectOf(r) # "result" => EffectOf(r) \in Needed(r.kind)
           /\ PhaseAfter(EffectOf(r)) \in FloorDurable..ResultDurable
           /\ r.id \in Ids
           /\ r.kind = "format" => EffectOf(r) \in {"format", "result"}
           /\ EffectOf(r) = "result" => Before(r) = Needed(r.kind)
           /\ PhaseAfter("floor") = 3 /\ PhaseAfter("format") = 4 /\ PhaseAfter("config") = 5
           /\ PhaseAfter("result") = 6
  <1>p. /\ PhaseAfter("floor") = 3 /\ PhaseAfter("format") = 4 /\ PhaseAfter("config") = 5
        /\ PhaseAfter("result") = 6
    BY DEF PhaseAfter, FloorDurable, FormatDurable, ConfigDurable, ResultDurable
  <1>1. r.phase \in 2..5 /\ r.id \in Ids
    BY ResetAssumption DEF RecordForm, Underway, Intent, ConfigDurable, Prepared, Ids
  <1>2. CASE r.kind = "format"
    <2>1. r.phase \in {2, 4}
      BY <1>1, <1>2 DEF RecordForm, FloorDurable, ConfigDurable
    <2>2. EffectOf(r) = IF r.phase = 2 THEN "format" ELSE "result"
      BY <1>2, <2>1 DEF EffectOf, Intent
    <2>3. Needed(r.kind) = {"format"}
      BY <1>2 DEF Needed
    <2>4. QED BY <1>1, <1>2, <1>p, <2>1, <2>2, <2>3 DEF Before, FloorDurable, ResultDurable
  <1>3. CASE r.kind = "reset"
    <2>1. r.phase \in {2, 3, 4, 5}
      BY <1>1
    <2>2. /\ r.phase = 2 => EffectOf(r) = "floor"
          /\ r.phase = 3 => EffectOf(r) = "format"
          /\ r.phase = 4 => EffectOf(r) = "config"
          /\ r.phase = 5 => EffectOf(r) = "result"
      BY <1>3 DEF EffectOf, Intent, FloorDurable, FormatDurable
    <2>3. Needed(r.kind) = {"floor", "format", "config"}
      BY <1>3 DEF Needed
    <2>4. QED BY <1>1, <1>3, <1>p, <2>1, <2>2, <2>3 DEF Before, FloorDurable, ResultDurable
  <1>4. QED BY <1>2, <1>3 DEF RecordForm, Kinds

\* The next phase vouches for one effect more.
LEMMA PhaseGrows ==
    ASSUME NEW r, RecordForm(r), Underway(r),
           NEW q, q = [r EXCEPT !.phase = PhaseAfter(EffectOf(r))]
    PROVE  /\ q.kind = r.kind /\ q.id = r.id /\ q.phase = PhaseAfter(EffectOf(r))
           /\ q.floor = r.floor /\ q.reset = r.reset /\ q.gen = r.gen
           /\ q = [phase |-> q.phase, kind |-> q.kind, id |-> q.id, floor |-> q.floor,
                   reset |-> q.reset, gen |-> q.gen]
           /\ RecordForm(q)
           /\ Before(q) \subseteq Before(r) \cup (IF EffectOf(r) = "result" THEN {} ELSE {EffectOf(r)})
           /\ q.phase >= ResultDurable => EffectOf(r) = "result"
  <1>1. /\ q.kind = r.kind /\ q.id = r.id /\ q.phase = PhaseAfter(EffectOf(r))
        /\ q.floor = r.floor /\ q.reset = r.reset /\ q.gen = r.gen
        /\ q = [phase |-> q.phase, kind |-> q.kind, id |-> q.id, floor |-> q.floor,
                reset |-> q.reset, gen |-> q.gen]
    BY DEF RecordForm
  <1>2. r.phase \in 2..5 /\ r.id # 0
    BY DEF RecordForm, Underway, Intent, ConfigDurable, Prepared
  <1>p. /\ PhaseAfter("floor") = 3 /\ PhaseAfter("format") = 4 /\ PhaseAfter("config") = 5
        /\ PhaseAfter("result") = 6
    BY PhasesOf
  <1>3. RecordForm(q)
    <2>1. q.phase \in 3..6 /\ (r.kind = "format" => q.phase \in {4, 6})
      <3>1. /\ EffectOf(r) \in {"floor", "format", "config", "result"}
            /\ r.kind = "format" => EffectOf(r) \in {"format", "result"}
        BY PhasesOf
      <3>2. QED BY <1>1, <1>p, <3>1
    <2>2. QED BY <1>1, <1>2, <2>1 DEF RecordForm, FloorDurable, ConfigDurable, Prepared
  <1>4. q.phase >= ResultDurable => EffectOf(r) = "result"
    BY <1>1, <1>p, PhasesOf DEF ResultDurable
  <1>5. Before(q) \subseteq Before(r) \cup (IF EffectOf(r) = "result" THEN {} ELSE {EffectOf(r)})
    <2>1. CASE EffectOf(r) = "result"
      BY <1>1, <2>1, PhasesOf DEF Before
    <2>2. CASE r.kind = "format" /\ EffectOf(r) # "result"
      BY <1>1, <2>2, PhasesOf DEF Before, Needed
    <2>3. CASE r.kind = "reset" /\ EffectOf(r) # "result"
      <3>1. /\ r.phase \in {2, 3, 4} /\ q.phase = r.phase + 1
            /\ q.phase = PhaseAfter(EffectOf(r)) /\ EffectOf(r) \in {"floor", "format", "config"}
        BY <1>1, <1>2, <1>p, <2>3 DEF EffectOf, Intent, FloorDurable, FormatDurable
      <3>2. \A e \in Needed(q.kind) : e \in {"floor", "format", "config"}
        BY DEF Needed
      <3>3. ASSUME NEW e \in Needed(q.kind), PhaseAfter(e) <= q.phase
            PROVE  PhaseAfter(e) <= r.phase \/ e = EffectOf(r)
        BY <1>p, <3>1, <3>2, <3>3
      <3>4. QED BY <1>1, <2>3, <3>3 DEF Before
    <2>4. QED BY <2>1, <2>2, <2>3 DEF RecordForm, Kinds
  <1>6. QED BY <1>1, <1>3, <1>4, <1>5

-----------------------------------------------------------------------------
(* Steps that leave the journal and the ledger alone.                      *)

LEMMA ResetInitInv == Init => ResetInv
  <1> SUFFICES ASSUME Init PROVE ResetInv
    OBVIOUS
  <1>1. /\ prep = NoRecord /\ live = FALSE /\ up = FALSE /\ faults = 0
        /\ ctl = [pc |-> "journal", then |-> "loop"]
        /\ journal = [k \in Keys |-> Absent] /\ commits = [i \in Ids |-> NoCommit]
    BY DEF Init, SeqInit
  <1>2. Legible = {}
    BY <1>1 DEF Legible, Absent
  <1>3. \A r \in Chances : Honest(r)
    BY <1>1, <1>2, NoRecordHonest DEF Chances
  <1>4. \A i \in Ids : commits[i] = NoCommit /\ commits[i].state = "none"
    BY <1>1 DEF NoCommit
  <1>5. CommitForm(NoCommit)
    BY DEF CommitForm, NoCommit, Kinds, Needed
  <1>6. Journal /\ OneTransaction /\ Slotted
    BY <1>1, <1>2, NoRecordForm
       DEF Journal, OneTransaction, Slotted, Intent, ResultDurable, Prepared
  <1>7. Ledger /\ Resumable /\ SuccessIsComplete /\ Harmless
    BY <1>1, <1>4, <1>5 DEF Ledger, Resumable, SuccessIsComplete, Harmless
  <1>8. ControlForm /\ Position /\ Deciding
    BY <1>1 DEF ControlForm, Position, Deciding, Undecided, Erases
  <1>9. QED BY <1>3, <1>6, <1>7, <1>8 DEF ResetInv, ResetSound

LEMMA StoreOnly ==
    ASSUME ResetInv, UNCHANGED <<up, ctl, prep, live, journal, commits>>,
           faults' \in Nat, faults' >= faults
    PROVE  ResetInv'
  <1>u. /\ UNCHANGED <<up, ctl, prep, live, journal, commits>> /\ faults \in Nat
        /\ ResetSound
    BY DEF ResetInv, ResetSound, ControlForm
  <1>1. Chances' = Chances /\ Legible' = Legible
    BY <1>u DEF Chances, Legible
  <1>2. \A r \in Chances' : Honest(r)'
    BY <1>u, <1>1 DEF ResetInv, Honest, RecordForm, Before
  <1>3. Journal' /\ OneTransaction' /\ Slotted' /\ Ledger'
    BY <1>u, <1>1 DEF ResetSound, Journal, OneTransaction, Slotted, Ledger, CommitForm
  <1>4. NewestRecord' = NewestRecord
    BY <1>u, <1>1 DEF NewestRecord
  <1>5. Resumable' /\ ControlForm' /\ SuccessIsComplete'
    BY <1>u, <1>1, <1>4 DEF ResetInv, ResetSound, Resumable, ControlForm, SuccessIsComplete
  <1>c. Current' = Current
    BY <1>u DEF Current
  <1>6. Position'
    BY <1>u, <1>1, <1>c DEF ResetSound, Position, Erases, Underway, EffectOf
  <1>7. Deciding'
    BY <1>u, <1>1, <1>c DEF ResetSound, Deciding, Undecided, Erases
  <1>8. Harmless'
    BY <1>u, <1>1 DEF ResetInv, Harmless
  <1>9. QED BY <1>2, <1>3, <1>5, <1>6, <1>7, <1>8 DEF ResetInv, ResetSound

\* The control task goes on to another step.
LEMMA ControlMoves ==
    ASSUME ResetInv, UNCHANGED <<prep, live, journal, commits>>,
           ctl.pc \notin {"journal", "erase_b"}, ctl'.pc # "journal",
           ControlForm', faults' >= faults, Position', Deciding'
    PROVE  ResetInv'
  <1>u. faults \in Nat /\ ResetSound
    BY DEF ResetInv, ResetSound, ControlForm
  <1>1. Chances' = Chances /\ Legible' = Legible
    BY <1>u DEF Chances, Legible
  <1>2. \A r \in Chances' : Honest(r)'
    BY <1>u, <1>1 DEF ResetInv, Honest, RecordForm, Before
  <1>3. Journal' /\ OneTransaction' /\ Slotted' /\ Ledger'
    BY <1>u, <1>1 DEF ResetSound, Journal, OneTransaction, Slotted, Ledger, CommitForm
  <1>4. Resumable' /\ SuccessIsComplete'
    BY <1>u, <1>1 DEF ResetInv, ResetSound, Resumable, SuccessIsComplete
  <1>5. Harmless'
    BY <1>u, <1>1 DEF ResetInv, Harmless, ControlForm
  <1>6. QED BY <1>2, <1>3, <1>4, <1>5 DEF ResetInv, ResetSound

LEMMA Looping ==
    ASSUME ctl' = Loop
    PROVE  /\ Position' /\ Deciding' /\ ctl'.pc = "loop" /\ ctl'.then = "loop"
           /\ ctl' = [pc |-> ctl'.pc, then |-> ctl'.then]
  <1>1. ctl'.pc = "loop" /\ ctl'.then = "loop" /\ ctl' = [pc |-> ctl'.pc, then |-> ctl'.then]
    BY DEF Loop
  <1>2. QED BY <1>1 DEF Position, Deciding, Undecided, Erases

\* An effect failed: the boot gives up, the running system tries again later.
LEMMA GivesUp ==
    ASSUME ResetInv, ctl.pc \notin {"journal", "erase_b"}, Ends(FALSE, prep),
           Faulty \/ NoFault, UNCHANGED <<prep, live, journal>>
    PROVE  ResetInv'
  <1>1. ctl' = Loop /\ up' = up /\ commits' = commits
    BY DEF Ends, ResetInv, ResetSound, ControlForm
  <1>2. faults' \in Nat /\ faults' >= faults
    BY DEF Faulty, NoFault, ResetInv, ResetSound, ControlForm
  <1>3. ControlForm'
    BY <1>1, <1>2, Looping DEF ResetInv, ResetSound, ControlForm
  <1>4. QED BY <1>1, <1>2, <1>3, Looping, ControlMoves

LEMMA GotoIs ==
    ASSUME ResetInv, NEW pc, Goto(pc)
    PROVE  ctl' = [pc |-> pc, then |-> ctl.then] /\ ctl'.pc = pc /\ ctl'.then = ctl.then
  <1>1. ctl = [pc |-> ctl.pc, then |-> ctl.then]
    BY DEF ResetInv, ResetSound, ControlForm
  <1>2. QED BY <1>1 DEF Goto

LEMMA ErasingIs ==
    ASSUME NEW then, Erasing(then)
    PROVE  ctl' = [pc |-> "erase_a", then |-> then] /\ ctl'.pc = "erase_a" /\ ctl'.then = then
  BY DEF Erasing

\* An erasure begins that no commit waits for.
LEMMA BeginErase ==
    ASSUME ResetInv, Idle, prep.phase <= Prepared, NEW then \in {"loop", "prepare"}, Erasing(then),
           UNCHANGED <<up, prep, live, journal, commits, faults>>
    PROVE  ResetInv'
  <1>1. ctl'.pc = "erase_a" /\ ctl'.then = then /\ ctl' = [pc |-> ctl'.pc, then |-> ctl'.then]
    BY ErasingIs
  <1>2. prep.phase \in {0, Prepared}
    BY DEF ResetInv, Chances, Honest, RecordForm, Prepared
  <1>3. ControlForm' /\ faults' >= faults
    BY <1>1 DEF ResetInv, ResetSound, ControlForm
  <1>4. Position' /\ Deciding'
    BY <1>1, <1>2 DEF Position, Deciding, Undecided, Erases
  <1>5. QED BY <1>1, <1>3, <1>4, ControlMoves DEF Idle

LEMMA CommandStep == ASSUME ResetInv, BeginPrepare \/ DropPrepared PROVE ResetInv'
  <1>1. CASE BeginPrepare
    BY <1>1, BeginErase DEF BeginPrepare, seqVars
  <1>2. CASE DropPrepared
    BY <1>2, BeginErase DEF DropPrepared, seqVars, Prepared
  <1>3. QED BY <1>1, <1>2

LEMMA ResumeStep == ASSUME ResetInv, Resume PROVE ResetInv'
  <1>1. /\ Goto("effect") /\ ctl.pc = "loop" /\ Underway(prep)
        /\ UNCHANGED <<up, prep, live, journal, commits, faults>>
    BY DEF Resume, Idle, seqVars
  <1>2. ctl'.pc = "effect" /\ ctl'.then = ctl.then /\ ctl' = [pc |-> ctl'.pc, then |-> ctl'.then]
    BY <1>1, GotoIs
  <1>3. ControlForm' /\ faults' >= faults
    BY <1>1, <1>2 DEF ResetInv, ResetSound, ControlForm
  <1>4. Position' /\ Deciding'
    BY <1>1, <1>2 DEF Position, Deciding, Undecided, Erases, Underway
  <1>5. QED BY <1>1, <1>2, <1>3, <1>4, ControlMoves

LEMMA UnpreparedStep == ASSUME ResetInv, Unprepared PROVE ResetInv'
  <1>1. /\ ctl.pc = "unprepared" /\ UNCHANGED <<up, prep, live, journal, commits, faults>>
    BY DEF Unprepared, seqVars
  <1>2. Deciding /\ Undecided /\ ControlForm /\ prep.phase \in 0..7
    BY <1>1 DEF ResetInv, ResetSound, Undecided, ControlForm, Chances, Honest, RecordForm
  <1>3. Current' = Current /\ Chances' = Chances
    BY <1>1 DEF Current, Chances, Legible
  <1>4. CASE prep.phase >= Intent
    <2>1. ctl'.pc = "refuse" /\ ctl'.then = ctl.then /\ ctl' = [pc |-> ctl'.pc, then |-> ctl'.then]
      BY <1>4, GotoIs DEF Unprepared
    <2>2. ControlForm' /\ faults' >= faults
      BY <1>1, <1>2, <2>1 DEF ControlForm
    <2>3. Position'
      BY <2>1 DEF Position, Erases
    <2>4. Deciding'
      BY <1>1, <1>2, <1>3, <2>1 DEF Deciding
    <2>5. QED BY <1>1, <2>1, <2>2, <2>3, <2>4, ControlMoves
  <1>5. CASE ~(prep.phase >= Intent)
    <2>1. ctl'.pc = "erase_a" /\ ctl'.then = "refuse" /\ ctl' = [pc |-> ctl'.pc, then |-> ctl'.then]
      BY <1>5, ErasingIs DEF Unprepared
    <2>2. ControlForm' /\ faults' >= faults
      BY <1>1, <1>2, <2>1 DEF ControlForm
    <2>3. Position'
      BY <1>1, <1>2, <1>5, <2>1 DEF Position, Erases, Intent, Prepared
    <2>4. Deciding'
      BY <1>1, <1>2, <1>3, <2>1 DEF Deciding
    <2>5. QED BY <1>1, <2>1, <2>2, <2>3, <2>4, ControlMoves
  <1>6. QED BY <1>4, <1>5

-----------------------------------------------------------------------------
(* Steps on one commit of the ledger.                                      *)

LEMMA OneCommit ==
    ASSUME ResetInv, UNCHANGED <<prep, live, journal>>,
           ctl.pc \notin {"journal", "erase_b"}, ctl'.pc # "journal",
           ControlForm', faults' >= faults, Position', Deciding',
           NEW i \in Ids, NEW c, commits' = [commits EXCEPT ![i] = c],
           CommitForm(c), c.state # "none",
           commits[i].state = "none" => \A j \in Ids : j < i => commits[j].state # "none",
           \A r \in Chances : r.id = i => /\ c.kind = r.kind /\ Before(r) \subseteq c.done
                                          /\ r.phase >= ResultDurable =>
                                               c.state \in {"succeeded", "acknowledged"},
           c.state = "running" /\ c.done # {} => prep.id = i,
           c.state \in {"succeeded", "acknowledged"} => c.done = Needed(c.kind),
           c.state = "failed" /\ faults' < 2 => c.done = {} /\ \A r \in Chances : r.id # i
    PROVE  ResetInv'
  <1>u. faults \in Nat /\ faults' \in Nat /\ ResetSound
    BY DEF ResetInv, ResetSound, ControlForm
  <1>c. /\ DOMAIN commits = Ids /\ DOMAIN commits' = Ids /\ commits'[i] = c
        /\ \A j \in Ids : j # i => commits'[j] = commits[j]
    BY <1>u DEF ResetSound, Ledger
  <1>1. Chances' = Chances /\ Legible' = Legible
    BY DEF Chances, Legible
  <1>2. ASSUME NEW r \in Chances PROVE Honest(r)'
    <2>1. Honest(r) /\ RecordForm(r)
      BY DEF ResetInv, Honest
    <2>2. r.id # 0 => r.id \in Ids
      BY <2>1, ResetAssumption DEF RecordForm, Ids
    <2>3. CASE r.id = i
      BY <1>c, <2>1, <2>3 DEF Honest
    <2>4. CASE r.id # i
      BY <1>c, <2>1, <2>2, <2>4 DEF Honest
    <2>5. QED BY <2>3, <2>4
  <1>3. Journal' /\ OneTransaction' /\ Slotted'
    BY <1>u, <1>1 DEF ResetSound, Journal, OneTransaction, Slotted
  <1>4. Ledger'
    <2>1. \A j \in Ids : CommitForm(commits'[j])
      BY <1>u, <1>c DEF ResetSound, Ledger
    <2>2. ASSUME NEW j \in Ids, NEW k \in Ids, k < j, commits'[j].state # "none"
          PROVE  commits'[k].state # "none"
      <3>1. CASE k = i
        BY <1>c, <3>1
      <3>2. CASE j = i /\ k # i
        <4>1. k < i /\ commits'[k] = commits[k]
          BY <1>c, <2>2, <3>2
        <4>2. CASE commits[i].state = "none"
          BY <4>1, <4>2
        <4>3. CASE commits[i].state # "none"
          BY <1>u, <4>1, <4>3 DEF ResetSound, Ledger
        <4>4. QED BY <4>2, <4>3
      <3>3. CASE j # i /\ k # i
        <4>1. commits'[j] = commits[j] /\ commits'[k] = commits[k]
          BY <1>c, <3>3
        <4>2. QED BY <1>u, <2>2, <4>1 DEF ResetSound, Ledger
      <3>4. QED BY <3>1, <3>2, <3>3
    <2>3. QED BY <1>c, <2>1, <2>2 DEF Ledger, CommitForm
  <1>5. Resumable'
    BY <1>u, <1>c DEF ResetSound, Resumable
  <1>6. SuccessIsComplete'
    <2>1. \A j \in Ids : commits'[j].state \in {"succeeded", "acknowledged"}
                           => commits'[j].done = Needed(commits'[j].kind)
      BY <1>c DEF ResetInv, SuccessIsComplete
    <2>2. QED BY <2>1 DEF SuccessIsComplete, Needed
  <1>7. Harmless'
    <2>1. ASSUME faults' < 2, NEW j \in Ids, commits'[j].state = "failed"
          PROVE  commits'[j].done = {} /\ \A r \in Chances' : r.id # j
      <3>1. faults < 2
        BY <1>u, <2>1
      <3>2. CASE j = i
        BY <1>c, <1>1, <2>1, <3>2
      <3>3. CASE j # i
        BY <1>c, <1>1, <2>1, <3>1, <3>3 DEF ResetInv, Harmless
      <3>4. QED BY <3>2, <3>3
    <2>2. QED BY <2>1 DEF Harmless
  <1>8. QED BY <1>1, <1>2, <1>3, <1>4, <1>5, <1>6, <1>7 DEF ResetInv, ResetSound

LEMMA ChanceIds ==
    ASSUME ResetInv, NEW r \in Chances
    PROVE  RecordForm(r) /\ Honest(r) /\ (r.id # 0 => r.id \in Ids)
  <1>1. Honest(r) /\ RecordForm(r)
    BY DEF ResetInv, Honest
  <1>2. QED BY <1>1, ResetAssumption DEF RecordForm, Ids

LEMMA PrepIsChance == ASSUME ResetInv PROVE prep \in Chances /\ RecordForm(prep) /\ Honest(prep)
  BY ChanceIds DEF Chances

CommitType == [state : {"none", "running", "succeeded", "failed", "acknowledged"}, kind : Kinds,
               done : SUBSET {"floor", "format", "config"}]

LEMMA CommitTypeForm ==
    ASSUME NEW c \in CommitType, c.done \subseteq Needed(c.kind), c.state = "none" => c.done = {}
    PROVE  CommitForm(c)
  <1>1. /\ c = [state |-> c.state, kind |-> c.kind, done |-> c.done]
        /\ c.state \in {"none", "running", "succeeded", "failed", "acknowledged"} /\ c.kind \in Kinds
    BY DEF CommitType
  <1>2. QED BY <1>1 DEF CommitForm

LEMMA CommitsAre ==
    ASSUME ResetInv, NEW i \in Ids
    PROVE  CommitForm(commits[i]) /\ DOMAIN commits = Ids /\ commits[i] \in CommitType
  <1>1. CommitForm(commits[i]) /\ DOMAIN commits = Ids
    BY DEF ResetInv, ResetSound, Ledger
  <1>2. commits[i].done \subseteq {"floor", "format", "config"}
    BY <1>1 DEF CommitForm, Needed
  <1>3. QED BY <1>1, <1>2 DEF CommitForm, CommitType

LEMMA BeginCommitStep == ASSUME ResetInv, BeginCommit PROVE ResetInv'
  <1>1. PICK i \in Ids :
          /\ commits[i].state = "none"
          /\ \A j \in 1..i - 1 : commits[j].state # "none"
          /\ commits' = [commits EXCEPT ![i].state = "running", ![i].kind = prep.kind]
    BY DEF BeginCommit
  <1> DEFINE c == [commits[i] EXCEPT !.state = "running", !.kind = prep.kind]
  <1>f. faults \in Nat /\ (Faulty \/ NoFault)
    BY DEF BeginCommit, ResetInv, ResetSound, ControlForm
  <1>u. /\ UNCHANGED <<up, prep, live, journal>> /\ ctl.pc = "loop"
        /\ ResetSound /\ RecordForm(prep) /\ faults' \in Nat /\ faults' >= faults
    BY <1>f, PrepIsChance DEF BeginCommit, Idle, ResetInv, Faulty, NoFault
  <1>2. commits[i] \in CommitType /\ commits[i].done = {} /\ prep.kind \in Kinds
    BY <1>1, <1>u, CommitsAre DEF CommitForm, RecordForm
  <1>3. /\ c.state = "running" /\ c.done = {} /\ c.kind = prep.kind
        /\ CommitForm(c) /\ commits' = [commits EXCEPT ![i] = c]
    <2>1. /\ c \in CommitType /\ c.state = "running" /\ c.done = {} /\ c.kind = prep.kind
          /\ commits' = [commits EXCEPT ![i] = c]
      BY <1>1, <1>2, CommitsAre DEF CommitType
    <2> HIDE DEF c
    <2>2. QED BY <2>1, CommitTypeForm
  <1> HIDE DEF c
  <1>c. commits'[i] = c /\ \A j \in Ids : j # i => commits'[j] = commits[j]
    BY <1>3, CommitsAre
  <1>4. \A j \in Ids : j < i => commits[j].state # "none"
    <2>1. \A j \in Ids : j \in Nat /\ j >= 1 /\ i \in Nat
      BY ResetAssumption DEF Ids
    <2>2. QED BY <1>1, <2>1
  <1>5. \A r \in Chances : r.id # i
    BY <1>1, ChanceIds, ResetAssumption DEF Honest, Ids
  <1>6. Current' = i
    <2>1. \E j \in Ids : commits'[j].state # "none"
      BY <1>3, <1>c
    <2>2. /\ Current' \in Ids /\ commits'[Current'].state # "none"
          /\ \A j \in Ids : commits'[j].state # "none" => j <= Current'
      <3>1. DEFINE T == {j \in Ids : commits'[j].state # "none"}
      <3>2. MaxCommits \in Nat /\ T \in SUBSET (0 .. MaxCommits) /\ T # {}
        BY <2>1, ResetAssumption DEF Ids
      <3>3. Max(T) \in T /\ \A j \in T : Max(T) >= j
        BY <3>2, GreatestNumber
      <3>4. Current' = Max(T) /\ \A j \in Ids : j \in Nat
        BY ResetAssumption DEF Current, Ids
      <3>5. QED BY <3>3, <3>4
    <2>3. i <= Current'
      BY <1>3, <1>c, <2>2
    <2>4. Current' # i => commits[Current'].state # "none" /\ i < Current'
      BY <1>c, <2>2, <2>3, ResetAssumption DEF Ids
    <2>5. QED BY <1>1, <1>u, <2>2, <2>4 DEF ResetSound, Ledger
  <1>7. PICK pc \in {"intent", "unprepared"} :
          Goto(pc) /\ (pc = "intent" => prep.phase = Prepared /\ live)
    BY DEF BeginCommit
  <1>8. ctl'.pc = pc /\ ctl'.then = ctl.then /\ ctl' = [pc |-> ctl'.pc, then |-> ctl'.then]
    BY <1>7, GotoIs
  <1>9. ControlForm' /\ faults' >= faults /\ Position'
    <2>1. commits'[Current'].kind = prep'.kind
      BY <1>u, <1>3, <1>6, <1>c
    <2>2. QED BY <1>u, <1>7, <1>8, <2>1 DEF ResetSound, ControlForm, Position, Erases
  <1>10. Deciding'
    <2>1. \A r \in Chances' : r.id # Current'
      BY <1>u, <1>5, <1>6 DEF Chances, Legible
    <2>2. prep'.id # Current'
      BY <1>u, <1>5, <1>6, PrepIsChance
    <2>3. QED BY <1>3, <1>6, <1>c, <2>1, <2>2 DEF Deciding
  <1>11. QED BY <1>u, <1>3, <1>4, <1>5, <1>7, <1>8, <1>9, <1>10, OneCommit

LEMMA RefuseStep == ASSUME ResetInv, Refuse PROVE ResetInv'
  <1>f. faults \in Nat /\ (Faulty \/ NoFault)
    BY DEF Refuse, ResetInv, ResetSound, ControlForm
  <1>u. /\ UNCHANGED <<up, prep, live, journal>> /\ ctl.pc = "refuse" /\ ctl' = Loop
        /\ ResetSound /\ faults' \in Nat /\ faults' >= faults
    BY <1>f DEF Refuse, ResetInv, Faulty, NoFault
  <1>6. ControlForm' /\ faults' >= faults /\ Position' /\ Deciding' /\ ctl'.pc = "loop"
    BY <1>u, Looping DEF ResetSound, ControlForm
  <1>7. CASE UNCHANGED commits
    BY <1>u, <1>6, <1>7, ControlMoves
  <1>8. CASE NoFault /\ commits' = [commits EXCEPT ![Current].state = "failed"]
    <2> DEFINE i == Current
               c == [state |-> "failed", kind |-> commits[i].kind, done |-> {}]
    <2>1. /\ \E j \in Ids : commits[j].state # "none"
          /\ commits[i].state = "running" /\ commits[i].done = {}
          /\ faults < 2 => \A r \in Chances : r.id # i
      BY <1>u DEF ResetSound, Deciding, Undecided, Erases
    <2>2. i \in Ids
      BY <2>1, CurrentIs
    <2>3. commits' = [commits EXCEPT ![i] = c]
      <3>1. commits[i] \in CommitType
        BY <2>2, CommitsAre
      <3>2. [commits[i] EXCEPT !.state = "failed"] = c
        BY <2>1, <3>1 DEF CommitType
      <3>3. QED BY <1>8, <2>2, <3>2, CommitsAre
    <2>4. CommitForm(c) /\ c.state = "failed" /\ c.done = {} /\ c.kind = commits[i].kind
      BY <2>2, CommitsAre DEF CommitForm
    <2> HIDE DEF c, i
    <2>5. ASSUME NEW r \in Chances, r.id = i
          PROVE  c.kind = r.kind /\ Before(r) \subseteq c.done /\ ~(r.phase >= ResultDurable)
      <3>1. Honest(r) /\ r.id # 0
        BY <2>2, <2>5, ChanceIds, ResetAssumption DEF Ids
      <3>2. QED BY <2>1, <2>4, <2>5, <3>1 DEF Honest
    <2>6. faults' = faults
      BY <1>8 DEF NoFault
    <2>7. QED BY <1>u, <1>6, <2>1, <2>2, <2>3, <2>4, <2>5, <2>6, OneCommit
  <1>9. QED BY <1>7, <1>8 DEF Refuse

LEMMA MarkRunningStep == ASSUME ResetInv, MarkRunning PROVE ResetInv'
  <1>1. UNCHANGED <<up, ctl, prep, live, journal, commits>> /\ faults \in Nat /\ (Faulty \/ NoFault)
    BY DEF MarkRunning, ResetInv, ResetSound, ControlForm
  <1>2. QED BY <1>1, StoreOnly DEF Faulty, NoFault

\* An effect is done, and its phase is to be recorded.
LEMMA EffectDone ==
    ASSUME ResetInv, ctl.pc \in {"effect", "raising"}, EffectOf(prep) # "result",
           commits' = Done(EffectOf(prep)), Goto("record"),
           UNCHANGED <<up, prep, live, journal>>, faults' = faults
    PROVE  ResetInv'
  <1> DEFINE i == prep.id
             e == EffectOf(prep)
             c == [commits[i] EXCEPT !.done = @ \cup {e}]
  <1>u. ResetSound /\ Underway(prep) /\ RecordForm(prep) /\ Honest(prep) /\ prep \in Chances
    BY PrepIsChance DEF ResetInv, ResetSound, Position
  <1>1. i \in Ids /\ e \in Needed(prep.kind) /\ i # 0
    BY <1>u, PhasesOf, ResetAssumption DEF Ids
  <1>2. commits' = [commits EXCEPT ![i] = c]
    BY <1>1, CommitsAre DEF Done
  <1>3. /\ c.state = commits[i].state /\ c.kind = commits[i].kind /\ c.done = commits[i].done \cup {e}
        /\ c = [state |-> c.state, kind |-> c.kind, done |-> c.done]
        /\ CommitForm(commits[i])
    <2>1. commits[i] \in CommitType /\ CommitForm(commits[i])
      BY <1>1, CommitsAre
    <2>2. QED BY <2>1 DEF CommitType
  <1>4. commits[i].kind = prep.kind /\ commits[i].state # "none"
    BY <1>1, <1>u DEF Honest
  <1> HIDE DEF c
  <1>5. CommitForm(c)
    BY <1>1, <1>3, <1>4 DEF CommitForm
  <1>6. ASSUME NEW r \in Chances, r.id = i
        PROVE  c.kind = r.kind /\ Before(r) \subseteq c.done
               /\ (r.phase >= ResultDurable => c.state \in {"succeeded", "acknowledged"})
    <2>1. Honest(r)
      BY ChanceIds
    <2>2. QED BY <1>1, <1>3, <1>6, <2>1 DEF Honest
  <1>7. c.state \in {"succeeded", "acknowledged"} => c.done = Needed(c.kind)
    BY <1>1, <1>3, <1>4 DEF ResetInv, SuccessIsComplete
  <1>8. ~(c.state = "failed" /\ faults' < 2)
    BY <1>u, <1>1, <1>3 DEF ResetInv, Harmless
  <1>9. ctl'.pc = "record" /\ ctl'.then = ctl.then /\ ctl' = [pc |-> ctl'.pc, then |-> ctl'.then]
    BY GotoIs
  <1>10. ControlForm' /\ faults' >= faults
    BY <1>u, <1>9 DEF ResetSound, ControlForm
  <1>11. Position'
    <2>1. commits'[i] = c
      BY <1>1, <1>2, CommitsAre
    <2>2. EffectOf(prep)' = e /\ Underway(prep)' /\ e \in commits'[prep'.id].done
      BY <1>u, <1>3, <2>1 DEF EffectOf, Underway
    <2>3. QED BY <1>9, <2>2 DEF Position, Erases
  <1>12. Deciding'
    BY <1>9 DEF Deciding, Undecided, Erases
  <1>13. QED BY <1>u, <1>1, <1>2, <1>3, <1>4, <1>5, <1>6, <1>7, <1>8, <1>9, <1>10, <1>11, <1>12,
               OneCommit

LEMMA RaiseFloorStep == ASSUME ResetInv, RaiseFloor PROVE ResetInv'
  <1>u. /\ ctl.pc = "effect" /\ EffectOf(prep) = "floor" /\ ResetSound /\ Underway(prep)
        /\ UNCHANGED <<faults, prep, live, journal>>
    BY DEF RaiseFloor, Now, ResetInv, ResetSound, Position
  <1>1. CASE commits' = Done("floor") /\ Goto("record") /\ UNCHANGED up
    BY <1>u, <1>1, EffectDone
  <1>2. CASE Ends(FALSE, prep)
    BY <1>u, <1>2, GivesUp DEF NoFault
  <1>3. CASE Goto("raising") /\ UNCHANGED <<up, commits>>
    <2>1. ctl'.pc = "raising" /\ ctl'.then = ctl.then /\ ctl' = [pc |-> ctl'.pc, then |-> ctl'.then]
      BY <1>3, GotoIs
    <2>2. ControlForm' /\ faults' >= faults
      BY <1>u, <1>3, <2>1 DEF ResetSound, ControlForm
    <2>3. Position' /\ Deciding'
      BY <1>u, <2>1 DEF Position, Deciding, Undecided, Erases, Underway, EffectOf
    <2>4. QED BY <1>u, <1>3, <2>1, <2>2, <2>3, ControlMoves
  <1>4. QED BY <1>1, <1>2, <1>3 DEF RaiseFloor

LEMMA FloorRaisedStep == ASSUME ResetInv, FloorRaised PROVE ResetInv'
  <1>u. /\ ctl.pc = "raising" /\ EffectOf(prep) = "floor"
        /\ UNCHANGED <<faults, prep, live, journal>>
    BY DEF FloorRaised, ResetInv, ResetSound, Position
  <1>1. CASE call["control"].pc = "done"
    BY <1>u, <1>1, EffectDone DEF FloorRaised
  <1>2. CASE call["control"].pc # "done"
    BY <1>u, <1>2, GivesUp DEF FloorRaised, NoFault
  <1>3. QED BY <1>1, <1>2

LEMMA FormatStep == ASSUME ResetInv, Format PROVE ResetInv'
  <1>u. ctl.pc = "effect" /\ EffectOf(prep) = "format" /\ UNCHANGED <<prep, live, journal>>
    BY DEF Format, Now
  <1>1. CASE commits' = Done("format") /\ Goto("record") /\ NoFault /\ UNCHANGED up
    BY <1>u, <1>1, EffectDone DEF NoFault
  <1>2. CASE Faulty /\ Ends(FALSE, prep)
    BY <1>u, <1>2, GivesUp
  <1>3. QED BY <1>1, <1>2 DEF Format

LEMMA ConfigureStep == ASSUME ResetInv, Configure PROVE ResetInv'
  <1>u. ctl.pc = "effect" /\ EffectOf(prep) = "config" /\ UNCHANGED <<prep, live, journal>>
    BY DEF Configure, Now
  <1>1. CASE commits' = Done("config") /\ Goto("record") /\ NoFault /\ UNCHANGED up
    BY <1>u, <1>1, EffectDone DEF NoFault
  <1>2. CASE (Faulty \/ NoFault) /\ Ends(FALSE, prep)
    BY <1>u, <1>2, GivesUp
  <1>3. QED BY <1>1, <1>2 DEF Configure

LEMMA ResultStep == ASSUME ResetInv, Result PROVE ResetInv'
  <1>u. ctl.pc = "effect" /\ EffectOf(prep) = "result" /\ UNCHANGED <<prep, live, journal>>
    BY DEF Result, Now
  <1>1. CASE (Faulty \/ NoFault) /\ Ends(FALSE, prep)
    BY <1>u, <1>1, GivesUp
  <1>2. CASE /\ commits[prep.id].state \in {"running", "succeeded"}
             /\ commits' = [commits EXCEPT ![prep.id].state = "succeeded"]
             /\ Goto("record") /\ NoFault /\ UNCHANGED up
    <2> DEFINE i == prep.id
               c == [commits[i] EXCEPT !.state = "succeeded"]
    <2>u. ResetSound /\ Underway(prep) /\ RecordForm(prep) /\ Honest(prep) /\ prep \in Chances
      BY <1>u, PrepIsChance DEF ResetInv, ResetSound, Position
    <2>1. i \in Ids /\ Before(prep) = Needed(prep.kind) /\ i # 0
      BY <1>u, <2>u, PhasesOf, ResetAssumption DEF Ids
    <2>2. commits[i] \in CommitType /\ CommitForm(commits[i])
      BY <2>1, CommitsAre
    <2>3. commits[i].kind = prep.kind /\ commits[i].done = Needed(prep.kind)
      BY <2>1, <2>2, <2>u DEF Honest, CommitForm
    <2>4. /\ c \in CommitType /\ c.state = "succeeded" /\ c.kind = prep.kind
          /\ c.done = Needed(prep.kind) /\ commits' = [commits EXCEPT ![i] = c]
      BY <1>2, <2>1, <2>2, <2>3, CommitsAre DEF CommitType
    <2> HIDE DEF c
    <2>5. CommitForm(c)
      BY <2>4, CommitTypeForm
    <2>6. ASSUME NEW r \in Chances, r.id = i
          PROVE  c.kind = r.kind /\ Before(r) \subseteq c.done
      <3>1. Honest(r)
        BY ChanceIds
      <3>2. QED BY <2>1, <2>3, <2>4, <2>6, <3>1 DEF Honest
    <2>7. ctl'.pc = "record" /\ ctl'.then = ctl.then /\ ctl' = [pc |-> ctl'.pc, then |-> ctl'.then]
      BY <1>2, GotoIs
    <2>8. ControlForm' /\ faults' >= faults
      BY <1>u, <1>2, <2>u, <2>7 DEF ResetSound, ControlForm, NoFault
    <2>9. Position'
      <3>1. commits'[i] = c
        BY <2>1, <2>4, CommitsAre
      <3>2. EffectOf(prep)' = "result" /\ Underway(prep)' /\ commits'[prep'.id].state = "succeeded"
        BY <1>u, <2>u, <2>4, <3>1 DEF EffectOf, Underway
      <3>3. QED BY <2>7, <3>2 DEF Position, Erases
    <2>10. Deciding'
      BY <2>7 DEF Deciding, Undecided, Erases
    <2>11. commits[i].state # "none"
      BY <1>2
    <2>12. QED BY <1>u, <2>1, <2>4, <2>5, <2>6, <2>7, <2>8, <2>9, <2>10, <2>11, OneCommit
  <1>3. QED BY <1>1, <1>2 DEF Result

LEMMA CleanupStep == ASSUME ResetInv, Cleanup PROVE ResetInv'
  <1>u. /\ ctl.pc \in {"loop", "cleanup"} /\ prep.phase = ResultAcknowledged
        /\ UNCHANGED <<up, prep, live, journal>>
        /\ ResetSound /\ RecordForm(prep) /\ Honest(prep) /\ prep \in Chances
    BY PrepIsChance DEF Cleanup, ResetInv
  <1>1. CASE Faulty /\ ctl' = Loop /\ UNCHANGED commits
    <2>1. ControlForm' /\ faults' >= faults /\ Position' /\ Deciding' /\ ctl'.pc = "loop"
      BY <1>u, <1>1, Looping DEF ResetSound, ControlForm, Faulty
    <2>2. QED BY <1>u, <1>1, <2>1, ControlMoves
  <1>2. CASE /\ commits' = [commits EXCEPT ![prep.id].state = "acknowledged"]
             /\ Erasing("loop") /\ NoFault
    <2> DEFINE i == prep.id
               c == [commits[i] EXCEPT !.state = "acknowledged"]
    <2>1. i \in Ids /\ Before(prep) = Needed(prep.kind) /\ i # 0
      <3>1. prep.phase = 7 /\ prep.id # 0 /\ prep.id \in Ids
        BY <1>u, ResetAssumption DEF RecordForm, ResultAcknowledged, Prepared, Ids
      <3>2. \A e \in Needed(prep.kind) : PhaseAfter(e) <= 7
        BY DEF Needed, PhaseAfter, FloorDurable, FormatDurable, ConfigDurable
      <3>3. QED BY <3>1, <3>2 DEF Before
    <2>2. commits[i] \in CommitType /\ CommitForm(commits[i])
      BY <2>1, CommitsAre
    <2>3. commits[i].kind = prep.kind /\ commits[i].done = Needed(prep.kind) /\ commits[i].state # "none"
      BY <1>u, <2>1, <2>2 DEF Honest, CommitForm
    <2>4. /\ c \in CommitType /\ c.state = "acknowledged" /\ c.kind = prep.kind
          /\ c.done = Needed(prep.kind) /\ commits' = [commits EXCEPT ![i] = c]
      BY <1>2, <2>1, <2>2, <2>3, CommitsAre DEF CommitType
    <2> HIDE DEF c
    <2>5. CommitForm(c)
      BY <2>4, CommitTypeForm
    <2>6. ASSUME NEW r \in Chances, r.id = i
          PROVE  c.kind = r.kind /\ Before(r) \subseteq c.done
      <3>1. Honest(r)
        BY ChanceIds
      <3>2. QED BY <2>1, <2>3, <2>4, <2>6, <3>1 DEF Honest
    <2>7. ctl'.pc = "erase_a" /\ ctl'.then = "loop" /\ ctl' = [pc |-> ctl'.pc, then |-> ctl'.then]
      BY <1>2, ErasingIs
    <2>8. ControlForm' /\ faults' >= faults
      BY <1>u, <1>2, <2>7 DEF ResetSound, ControlForm, NoFault
    <2>9. Position' /\ Deciding'
      BY <1>u, <2>7 DEF Position, Deciding, Undecided, Erases
    <2>10. QED BY <1>u, <2>1, <2>3, <2>4, <2>5, <2>6, <2>7, <2>8, <2>9, OneCommit
  <1>3. QED BY <1>1, <1>2 DEF Cleanup

-----------------------------------------------------------------------------
(* Steps on the journal, with what the end of the boot makes of the        *)
(* commits that were interrupted.                                          *)

LEMMA Turned ==
    ASSUME ResetInv, faults' >= faults, ControlForm', Position', Deciding', Journal',
           OneTransaction', Slotted', Resumable', DOMAIN commits' = Ids,
           \A i \in Ids : CommitForm(commits'[i]) /\ commits'[i].kind = commits[i].kind
                            /\ commits'[i].done = commits[i].done,
           \A i \in Ids : \/ commits'[i].state = commits[i].state
                          \/ /\ commits[i].state = "running" /\ commits'[i].state = "failed"
                             /\ commits[i].done = {} /\ \A r \in Chances' : r.id # i,
           \A r \in Chances' : \/ r \in Chances
                               \/ /\ Honest(r)
                                  /\ faults < 2 /\ r.id # 0 => commits[r.id].state # "failed"
    PROVE  ResetInv'
  <1>u. faults \in Nat /\ faults' \in Nat /\ ResetSound
    BY DEF ResetInv, ResetSound, ControlForm
  <1>1. ASSUME NEW r \in Chances' PROVE Honest(r)' /\ (r.id # 0 => r.id \in Ids)
    <2>1. Honest(r) /\ RecordForm(r)
      BY <1>1, ChanceIds DEF Honest
    <2>2. r.id # 0 => r.id \in Ids
      BY <2>1, ResetAssumption DEF RecordForm, Ids
    <2>3. r.id # 0 => /\ commits'[r.id].state # "none" /\ commits'[r.id].kind = r.kind
                      /\ Before(r) \subseteq commits'[r.id].done
                      /\ r.phase >= ResultDurable =>
                           commits'[r.id].state \in {"succeeded", "acknowledged"}
      BY <2>1, <2>2 DEF Honest
    <2>4. QED BY <2>1, <2>2, <2>3 DEF Honest, RecordForm, Before
  <1>2. Ledger'
    <2>1. \A i, j \in Ids : j < i /\ commits'[i].state # "none" => commits'[j].state # "none"
      <3>1. \A i \in Ids : commits'[i].state # "none" <=> commits[i].state # "none"
        OBVIOUS
      <3>2. QED BY <1>u, <3>1 DEF ResetSound, Ledger
    <2>2. QED BY <2>1 DEF Ledger, CommitForm
  <1>3. SuccessIsComplete'
    <2>1. \A i \in Ids : commits'[i].state \in {"succeeded", "acknowledged"}
                           => commits'[i].done = Needed(commits'[i].kind)
      BY DEF ResetInv, SuccessIsComplete
    <2>2. QED BY <2>1 DEF SuccessIsComplete, Needed
  <1>4. Harmless'
    <2>1. ASSUME faults' < 2, NEW i \in Ids, commits'[i].state = "failed"
          PROVE  commits'[i].done = {} /\ \A r \in Chances' : r.id # i
      <3>1. faults < 2
        BY <1>u, <2>1
      <3>2. CASE commits[i].state = "failed"
        <4>1. commits[i].done = {} /\ \A r \in Chances : r.id # i
          BY <3>1, <3>2 DEF ResetInv, Harmless
        <4>2. i # 0
          BY ResetAssumption DEF Ids
        <4>3. QED BY <3>1, <3>2, <4>1, <4>2
      <3>3. CASE commits[i].state # "failed"
        BY <2>1, <3>3
      <3>4. QED BY <3>2, <3>3
    <2>2. QED BY <2>1 DEF Harmless
  <1>5. QED BY <1>1, <1>2, <1>3, <1>4 DEF ResetInv, ResetSound

LEMMA SameCommits ==
    ASSUME ResetInv, commits' = commits
    PROVE  /\ DOMAIN commits' = Ids
           /\ \A i \in Ids : CommitForm(commits'[i]) /\ commits'[i].kind = commits[i].kind
                               /\ commits'[i].done = commits[i].done
           /\ \A i \in Ids : commits'[i].state = commits[i].state
           /\ Current' = Current
  BY CommitsAre, CurrentSame DEF ResetInv, ResetSound, Ledger

\* The end of the boot, or of a pass of the running system.
LEMMA EndsWell ==
    ASSUME ResetInv, NEW r, Ends(TRUE, r)
    PROVE  /\ ctl' = Loop /\ up' = TRUE /\ DOMAIN commits' = Ids
           /\ \A i \in Ids : CommitForm(commits'[i]) /\ commits'[i].kind = commits[i].kind
                               /\ commits'[i].done = commits[i].done
           /\ \A i \in Ids : \/ commits'[i].state = commits[i].state
                             \/ /\ commits[i].state = "running" /\ commits'[i].state = "failed"
                                /\ i # r.id
           /\ commits' = commits \/ commits' = Settled(r.id)
  <1>1. CASE commits' = commits
    BY <1>1, SameCommits DEF Ends
  <1>2. CASE commits' = Settled(r.id)
    <2>1. DOMAIN commits' = Ids
      BY <1>2 DEF Settled
    <2>2. ASSUME NEW i \in Ids
          PROVE  /\ CommitForm(commits'[i]) /\ commits'[i].kind = commits[i].kind
                 /\ commits'[i].done = commits[i].done
                 /\ \/ commits'[i].state = commits[i].state
                    \/ /\ commits[i].state = "running" /\ commits'[i].state = "failed" /\ i # r.id
      <3>1. CASE commits[i].state = "running" /\ i # r.id
        <4> DEFINE c == [commits[i] EXCEPT !.state = "failed"]
        <4>1. commits'[i] = c
          BY <1>2, <3>1 DEF Settled
        <4>2. commits[i] \in CommitType /\ CommitForm(commits[i])
          BY CommitsAre
        <4>3. /\ c \in CommitType /\ c.state = "failed" /\ c.kind = commits[i].kind
              /\ c.done = commits[i].done
          BY <4>2 DEF CommitType
        <4> HIDE DEF c
        <4>4. CommitForm(c)
          BY <4>2, <4>3, CommitTypeForm DEF CommitForm
        <4>5. QED BY <3>1, <4>1, <4>3, <4>4
      <3>2. CASE ~(commits[i].state = "running" /\ i # r.id)
        <4>1. commits'[i] = commits[i]
          BY <1>2, <3>2 DEF Settled
        <4>2. QED BY <4>1, CommitsAre
      <3>3. QED BY <3>1, <3>2
    <2>3. QED BY <1>2, <2>1, <2>2 DEF Ends
  <1>3. QED BY <1>1, <1>2 DEF Ends

\* A record is written, or its write fails.
LEMMA JournalWritten ==
    ASSUME ResetInv, NEW new, RecordForm(new), new.gen = prep.gen + 1,
           \/ Legible = {}
           \/ journal[Key(prep.gen)] = [read |-> "ok", rec |-> prep] /\ prep.id \in {0, new.id},
           NEW left \in {journal[Key(new.gen)], [read |-> "ok", rec |-> new], Torn},
           journal' = [journal EXCEPT ![Key(new.gen)] = left]
    PROVE  /\ Journal' /\ OneTransaction'
           /\ Key(prep.gen) \in Keys /\ Key(new.gen) \in Keys
           /\ journal'[Key(prep.gen)] = journal[Key(prep.gen)] /\ journal'[Key(new.gen)] = left
           /\ \A k \in Legible' : journal'[k].rec = new \/ (k \in Legible /\ journal'[k] = journal[k])
  <1> DEFINE K == Key(new.gen)
             P == Key(prep.gen)
  <1>1. prep.gen \in Nat /\ K \in Keys /\ P \in Keys /\ K # P
    BY KeyTurns, PrepIsChance DEF RecordForm
  <1>2. Keys = {K, P}
    BY <1>1 DEF Keys
  <1>j. /\ DOMAIN journal = Keys /\ OneTransaction
        /\ \A k \in Legible : /\ journal[k] = [read |-> "ok", rec |-> journal[k].rec]
                               /\ Key(journal[k].rec.gen) = k
    BY DEF ResetInv, ResetSound, Journal
  <1>n. Key(new.gen) = K
    OBVIOUS
  <1> HIDE DEF K, P
  <1>3. journal'[K] = left /\ journal'[P] = journal[P] /\ DOMAIN journal' = Keys
    BY <1>1, <1>j DEF K
  <1>4. Torn.read = "invalid"
    BY DEF Torn
  <1>5. ASSUME NEW k \in Legible'
        PROVE  \/ k = K /\ journal'[k] = [read |-> "ok", rec |-> new] /\ journal'[k].rec = new
               \/ k \in Legible /\ journal'[k] = journal[k]
    <2>1. k \in Keys /\ journal'[k].read = "ok"
      BY <1>5 DEF Legible
    <2>2. CASE k = P
      BY <1>3, <2>1, <2>2 DEF Legible
    <2>3. CASE k = K
      BY <1>3, <1>4, <2>1, <2>3 DEF Legible, K
    <2>4. QED BY <1>2, <2>1, <2>2, <2>3
  <1>6. Journal'
    <2>1. \A k \in Legible' : /\ journal'[k] = [read |-> "ok", rec |-> journal'[k].rec]
                                 /\ Key(journal'[k].rec.gen) = k
      BY <1>5, <1>j, <1>n
    <2>2. QED BY <1>3, <2>1 DEF Journal, Key
  <1>7. OneTransaction'
    <2>1. ASSUME NEW j \in Legible', NEW k \in Legible',
                 journal'[j].rec.gen >= journal'[k].rec.gen
          PROVE  journal'[k].rec.id \in {0, journal'[j].rec.id}
      <3>1. CASE j = k
        BY <3>1
      <3>2. CASE j \in Legible /\ k \in Legible /\ journal'[j] = journal[j] /\ journal'[k] = journal[k]
        BY <1>j, <2>1, <3>2 DEF OneTransaction
      <3>3. CASE j = K /\ journal'[j].rec = new /\ k # j
        <4>1. k = P /\ k \in Legible /\ journal'[k] = journal[k]
          BY <1>1, <1>2, <1>3, <2>1, <3>3 DEF Legible
        <4>2. journal[k].rec = prep /\ prep.id \in {0, new.id}
          BY <4>1 DEF P
        <4>3. QED BY <3>3, <4>1, <4>2
      <3>4. CASE k = K /\ journal'[k].rec = new /\ k # j
        <4>1. j = P /\ j \in Legible /\ journal'[j] = journal[j]
          BY <1>1, <1>2, <1>3, <2>1, <3>4 DEF Legible
        <4>2. journal[j].rec = prep
          BY <4>1 DEF P
        <4>3. prep.gen >= prep.gen + 1
          BY <2>1, <3>4, <4>1, <4>2
        <4>4. QED BY <1>1, <4>3
      <3>5. QED BY <1>5, <2>1, <3>1, <3>2, <3>3, <3>4
    <2>2. QED BY <2>1 DEF OneTransaction
  <1>8. QED BY <1>1, <1>3, <1>5, <1>6, <1>7 DEF K, P

LEMMA ErasedIs ==
    ASSUME ResetInv, NEW k \in Keys, journal' = [journal EXCEPT ![k] = Absent]
    PROVE  /\ Journal' /\ OneTransaction' /\ journal'[k] = Absent
           /\ Legible' = Legible \ {k} /\ \A j \in Keys : j # k => journal'[j] = journal[j]
  <1>j. DOMAIN journal = Keys /\ Journal /\ OneTransaction
    BY DEF ResetInv, ResetSound, Journal
  <1>1. /\ journal'[k] = Absent /\ DOMAIN journal' = Keys
        /\ \A j \in Keys : j # k => journal'[j] = journal[j]
    BY <1>j
  <1>2. Legible' = Legible \ {k}
    <2>1. Absent.read = "missing"
      BY DEF Absent
    <2>2. QED BY <1>1, <2>1 DEF Legible
  <1>3. \A j \in Legible' : journal'[j] = journal[j]
    BY <1>1, <1>2 DEF Legible
  <1>4. Journal' /\ OneTransaction'
    BY <1>1, <1>2, <1>3, <1>j DEF Journal, OneTransaction, Key
  <1>5. QED BY <1>1, <1>2, <1>4

\* While the journal is erased no commit waits to be resumed.
LEMMA NoneResumable ==
    ASSUME ResetInv, ctl.pc # "journal", prep.phase \in {0, Prepared, ResultAcknowledged}
    PROVE  \A i \in Ids : commits[i].state = "running" => commits[i].done = {}
  <1>1. ASSUME NEW i \in Ids, commits[i].state = "running", commits[i].done # {} PROVE FALSE
    <2>1. prep.id = i /\ i # 0 /\ RecordForm(prep) /\ Honest(prep)
      BY <1>1, PrepIsChance, ResetAssumption DEF ResetInv, ResetSound, Resumable, Ids
    <2>2. prep.phase = 7
      BY <2>1 DEF RecordForm, Prepared, ResultAcknowledged
    <2>3. commits[i].state \in {"succeeded", "acknowledged"}
      BY <2>1, <2>2 DEF Honest, ResultDurable
    <2>4. QED BY <1>1, <2>3
  <1>2. QED BY <1>1

LEMMA EraseFirstStep == ASSUME ResetInv, EraseFirst PROVE ResetInv'
  <1>u. /\ ctl.pc = "erase_a" /\ UNCHANGED <<up, prep, live, commits, faults>> /\ ResetSound
        /\ journal' = [journal EXCEPT !["a"] = Absent]
    BY DEF EraseFirst, seqVars, ResetInv
  <1>1. ctl'.pc = "erase_b" /\ ctl'.then = ctl.then /\ ctl' = [pc |-> ctl'.pc, then |-> ctl'.then]
    BY GotoIs DEF EraseFirst
  <1>2. /\ Journal' /\ OneTransaction' /\ journal'["a"] = Absent
        /\ Legible' \subseteq Legible /\ \A j \in Legible' : journal'[j] = journal[j]
    BY <1>u, ErasedIs DEF Keys, Legible
  <1>3. Chances' \subseteq Chances
    BY <1>u, <1>2 DEF Chances
  <1>4. prep.phase \in {0, Prepared, ResultAcknowledged}
    BY <1>u DEF ResetSound, Position, Erases
  <1>5. ControlForm' /\ faults' >= faults
    BY <1>u, <1>1 DEF ResetSound, ControlForm
  <1>6. Slotted'
    BY <1>u, <1>1, <1>4 DEF Slotted, Intent, ResultDurable, Prepared, ResultAcknowledged
  <1>7. Position'
    BY <1>u, <1>1, <1>2, <1>4 DEF Position, Erases
  <1>8. Deciding'
    BY <1>u, <1>1, <1>3, SameCommits DEF ResetSound, Deciding, Undecided, Erases
  <1>9. Resumable'
    BY <1>u, <1>1 DEF ResetSound, Resumable
  <1>10. QED BY <1>u, <1>2, <1>3, <1>5, <1>6, <1>7, <1>8, <1>9, SameCommits, Turned

LEMMA EraseSecondStep == ASSUME ResetInv, EraseSecond PROVE ResetInv'
  <1>u. /\ ctl.pc = "erase_b" /\ UNCHANGED faults /\ ResetSound /\ live' = FALSE /\ prep' = NoRecord
        /\ journal' = [journal EXCEPT !["b"] = Absent]
    BY DEF EraseSecond, ResetInv
  <1>2. Journal' /\ OneTransaction' /\ Legible' = {}
    <2>1. journal["a"] = Absent /\ Absent.read = "missing"
      BY <1>u DEF ResetSound, Position, Absent
    <2>2. "a" \notin Legible /\ Legible \subseteq Keys
      BY <2>1 DEF Legible
    <2>3. QED BY <1>u, <2>2, ErasedIs DEF Keys
  <1>3. Chances' = {NoRecord}
    BY <1>u, <1>2 DEF Chances
  <1>4. \A i \in Ids : commits[i].state = "running" => commits[i].done = {}
    BY <1>u, NoneResumable DEF ResetSound, Position, Erases
  <1>5. Slotted' /\ faults' >= faults
    BY <1>u, NoRecordForm DEF Slotted, Intent, ResultDurable, Prepared, ResetSound, ControlForm
  <1>6. \A r \in Chances' : Honest(r) /\ r.id = 0
    BY <1>3, NoRecordHonest, NoRecordForm
  <1>7. \A i \in Ids : \A r \in Chances' : r.id # i
    BY <1>6, ResetAssumption DEF Ids
  <1>8. CASE Ends(TRUE, NoRecord)
    <2>1. ControlForm' /\ Position' /\ Deciding'
      BY <1>u, <1>8, EndsWell, Looping DEF ResetSound, ControlForm
    <2>2. Resumable'
      BY <1>4, <1>8, EndsWell DEF Resumable
    <2>3. QED BY <1>2, <1>4, <1>5, <1>6, <1>7, <1>8, <2>1, <2>2, EndsWell, Turned
  <1>9. CASE ctl.then # "loop"
    <2>1. Goto(ctl.then) /\ UNCHANGED <<up, commits>> /\ ctl.then \in {"prepare", "refuse"}
      BY <1>u, <1>9 DEF EraseSecond, ResetSound, ControlForm
    <2>2. ctl'.pc = ctl.then /\ ctl'.then = ctl.then /\ ctl' = [pc |-> ctl'.pc, then |-> ctl'.then]
      BY <2>1, GotoIs
    <2>3. ControlForm'
      BY <1>u, <2>1, <2>2 DEF ResetSound, ControlForm
    <2>4. Position'
      BY <1>u, <1>2, <2>1, <2>2 DEF Position, Erases
    <2>5. Deciding'
      <3>1. CASE ctl.then = "prepare"
        BY <2>2, <3>1 DEF Deciding, Undecided, Erases
      <3>2. CASE ctl.then = "refuse"
        <4>1. /\ \E i \in Ids : commits[i].state # "none"
              /\ commits[Current].state = "running" /\ commits[Current].done = {}
          BY <1>u, <3>2 DEF ResetSound, Deciding, Undecided, Erases
        <4>2. Current' = Current /\ Current \in Ids /\ NoRecord.id # Current
          BY <2>1, <4>1, SameCommits, CurrentIs, NoRecordForm
        <4>3. QED BY <1>u, <1>7, <2>1, <4>1, <4>2 DEF Deciding
      <3>3. QED BY <2>1, <3>1, <3>2
    <2>6. Resumable'
      BY <1>4, <2>1 DEF Resumable
    <2>7. QED BY <1>2, <1>5, <1>6, <2>1, <2>3, <2>4, <2>5, <2>6, SameCommits, Turned
  <1>10. QED BY <1>8, <1>9 DEF EraseSecond

LEMMA EraseFailsStep == ASSUME ResetInv, EraseFails PROVE ResetInv'
  <1>u. /\ Erases /\ Faulty /\ live' = FALSE /\ UNCHANGED <<prep, journal>> /\ ResetSound
        /\ ctl.then \in {"refuse", "prepare", "loop"}
    BY DEF EraseFails, Erases, ResetInv, ResetSound, ControlForm
  <1>1. faults \in Nat /\ faults' = faults + 1 /\ faults' \in Nat /\ faults' >= faults
    BY <1>u DEF Faulty, ResetSound, ControlForm
  <1>2. Chances' = Chances /\ Legible' = Legible
    BY <1>u DEF Chances, Legible
  <1>3. Journal' /\ OneTransaction'
    BY <1>u, <1>2 DEF ResetSound, Journal, OneTransaction, Key
  <1>4. prep.phase \in {0, Prepared, ResultAcknowledged}
    BY <1>u DEF ResetSound, Position
  <1>5. Slotted'
    BY <1>u, <1>4 DEF Slotted, Intent, ResultDurable, Prepared, ResultAcknowledged
  <1>6. \A i \in Ids : commits[i].state = "running" => commits[i].done = {}
    BY <1>u, <1>4, NoneResumable DEF Erases
  <1>7. CASE ctl.then = "refuse"
    <2>1. Goto("refuse") /\ UNCHANGED <<up, commits>>
      BY <1>7 DEF EraseFails
    <2>2. ctl'.pc = "refuse" /\ ctl'.then = ctl.then /\ ctl' = [pc |-> ctl'.pc, then |-> ctl'.then]
      BY <2>1, GotoIs
    <2>3. ControlForm' /\ Position'
      BY <1>u, <1>1, <2>1, <2>2 DEF ResetSound, ControlForm, Position, Erases
    <2>4. Deciding'
      <3>1. Current' = Current /\ Undecided
        BY <1>u, <1>7, <2>1, SameCommits DEF Undecided
      <3>2. faults' < 2 => faults < 1
        BY <1>1
      <3>3. QED BY <1>u, <1>2, <2>1, <2>2, <3>1, <3>2 DEF ResetSound, Deciding, Erases
    <2>5. Resumable'
      BY <1>6, <2>1 DEF Resumable
    <2>6. QED BY <1>1, <1>2, <1>3, <1>5, <2>1, <2>3, <2>4, <2>5, SameCommits, Turned
  <1>8. CASE ctl.then = "prepare"
    <2>1. Erasing("loop") /\ UNCHANGED <<up, commits>>
      BY <1>8 DEF EraseFails
    <2>2. ctl'.pc = "erase_a" /\ ctl'.then = "loop" /\ ctl' = [pc |-> ctl'.pc, then |-> ctl'.then]
      BY <2>1, ErasingIs
    <2>3. ControlForm' /\ Position' /\ Deciding'
      BY <1>u, <1>1, <1>4, <2>1, <2>2
         DEF ResetSound, ControlForm, Position, Erases, Deciding, Undecided
    <2>4. Resumable'
      BY <1>6, <2>1 DEF Resumable
    <2>5. QED BY <1>1, <1>2, <1>3, <1>5, <2>1, <2>3, <2>4, SameCommits, Turned
  <1>9. CASE ctl.then = "loop"
    <2>1. Ends(FALSE, prep)
      BY <1>9 DEF EraseFails
    <2>2. ctl' = Loop /\ up' = up /\ commits' = commits
      BY <1>u, <2>1 DEF Ends, ResetSound, ControlForm
    <2>3. ControlForm' /\ Position' /\ Deciding'
      BY <1>u, <1>1, <2>2, Looping DEF ResetSound, ControlForm
    <2>4. Resumable'
      BY <1>6, <2>2 DEF Resumable
    <2>5. QED BY <1>1, <1>2, <1>3, <1>5, <2>2, <2>3, <2>4, SameCommits, Turned
  <1>10. QED BY <1>u, <1>7, <1>8, <1>9

\* The two ways in which the code makes a record out of another.
LEMMA IntentIs ==
    ASSUME NEW p, RecordForm(p), NEW a, NEW b, NEW q, q = [p EXCEPT !.phase = a, !.id = b]
    PROVE  q = [phase |-> a, kind |-> p.kind, id |-> b, floor |-> p.floor, reset |-> p.reset,
                gen |-> p.gen]
  <1>1. p = [phase |-> p.phase, kind |-> p.kind, id |-> p.id, floor |-> p.floor,
             reset |-> p.reset, gen |-> p.gen]
    BY DEF RecordForm
  <1>2. QED BY <1>1

LEMMA PreparedIs ==
    ASSUME NEW kind, NEW floor, NEW reset, NEW q,
           q = [NoRecord EXCEPT !.phase = Prepared, !.kind = kind, !.floor = floor, !.reset = reset]
    PROVE  q = [phase |-> 1, kind |-> kind, id |-> 0, floor |-> floor, reset |-> reset, gen |-> 0]
  BY DEF NoRecord, Prepared

LEMMA NewGeneration ==
    ASSUME NEW r, RecordForm(r), NEW g \in Nat, NEW new, new = [r EXCEPT !.gen = g + 1]
    PROVE  /\ RecordForm(new) /\ new.gen = g + 1 /\ new.phase = r.phase /\ new.kind = r.kind
           /\ new.id = r.id /\ new.floor = r.floor /\ new.reset = r.reset /\ Before(new) = Before(r)
  <1>1. /\ new.gen = g + 1 /\ new.phase = r.phase /\ new.kind = r.kind
        /\ new.id = r.id /\ new.floor = r.floor /\ new.reset = r.reset
        /\ new = [phase |-> new.phase, kind |-> new.kind, id |-> new.id, floor |-> new.floor,
                  reset |-> new.reset, gen |-> new.gen]
    BY DEF RecordForm
  <1>2. QED BY <1>1 DEF RecordForm, Before

LEMMA HonestCopy ==
    ASSUME NEW r, NEW new, Honest(r), RecordForm(new), new.phase = r.phase, new.kind = r.kind,
           new.id = r.id
    PROVE  Honest(new)
  BY DEF Honest, Before

\* What both outcomes of prepare_state_persist() have in common.
LEMMA Persisting ==
    ASSUME ResetInv, NEW r, RecordForm(r), Records(r) \/ RecordFails(r),
           \/ Legible = {}
           \/ journal[Key(prep.gen)] = [read |-> "ok", rec |-> prep] /\ prep.id \in {0, r.id}
    PROVE  /\ Journal' /\ OneTransaction' /\ faults' \in Nat /\ faults' >= faults
           /\ \E new : /\ RecordForm(new) /\ new.phase = r.phase /\ new.kind = r.kind
                       /\ new.id = r.id /\ new.floor = r.floor /\ new.reset = r.reset
                       /\ new.gen = prep.gen + 1
                       /\ \A k \in Legible' :
                            journal'[k].rec = new \/ (k \in Legible /\ journal'[k] = journal[k])
                       /\ Chances' \subseteq Chances \cup {new}
                       /\ journal'[Key(prep.gen)] = journal[Key(prep.gen)]
                       /\ Records(r) => /\ prep' = new /\ faults' = faults
                                        /\ journal'[Key(new.gen)] = [read |-> "ok", rec |-> new]
                       /\ RecordFails(r) => prep' = prep /\ faults' = faults + 1
  <1> DEFINE new == [r EXCEPT !.gen = prep.gen + 1]
  <1>g. prep.gen \in Nat /\ faults \in Nat
    BY PrepIsChance DEF RecordForm, ResetInv, ResetSound, ControlForm
  <1>1. /\ RecordForm(new) /\ new.gen = prep.gen + 1 /\ new.phase = r.phase /\ new.kind = r.kind
        /\ new.id = r.id /\ new.floor = r.floor /\ new.reset = r.reset
    BY <1>g, NewGeneration
  <1>r. Records(r) => /\ prep' = new /\ faults' = faults
                      /\ journal' = [journal EXCEPT ![Key(new.gen)] = [read |-> "ok", rec |-> new]]
    BY DEF Records, NoFault
  <1>f. RecordFails(r) =>
          /\ prep' = prep /\ faults' = faults + 1
          /\ \E left \in {journal[Key(new.gen)], [read |-> "ok", rec |-> new], Torn} :
               journal' = [journal EXCEPT ![Key(new.gen)] = left]
    BY DEF RecordFails, Faulty
  <1> HIDE DEF new
  <1>2. PICK left \in {journal[Key(new.gen)], [read |-> "ok", rec |-> new], Torn} :
          /\ journal' = [journal EXCEPT ![Key(new.gen)] = left]
          /\ Records(r) => left = [read |-> "ok", rec |-> new]
    <2>1. CASE Records(r)
      BY <1>r, <2>1
    <2>2. CASE ~Records(r)
      BY <1>f, <2>2
    <2>3. QED BY <2>1, <2>2
  <1>3. /\ Journal' /\ OneTransaction'
        /\ journal'[Key(prep.gen)] = journal[Key(prep.gen)] /\ journal'[Key(new.gen)] = left
        /\ \A k \in Legible' : journal'[k].rec = new \/ (k \in Legible /\ journal'[k] = journal[k])
    BY <1>1, <1>2, JournalWritten
  <1>4. \A k \in Legible' : journal'[k].rec = new \/ journal'[k].rec \in Chances
    BY <1>3 DEF Chances
  <1>5. prep' \in Chances \cup {new}
    BY <1>r, <1>f DEF Chances
  <1>6. Chances' \subseteq Chances \cup {new}
    BY <1>4, <1>5 DEF Chances
  <1>7. faults' \in Nat /\ faults' >= faults
    BY <1>g, <1>r, <1>f
  <1>8. QED
    <2>1. /\ RecordForm(new) /\ new.phase = r.phase /\ new.kind = r.kind
          /\ new.id = r.id /\ new.floor = r.floor /\ new.reset = r.reset
          /\ new.gen = prep.gen + 1
          /\ \A k \in Legible' : journal'[k].rec = new \/ (k \in Legible /\ journal'[k] = journal[k])
          /\ Chances' \subseteq Chances \cup {new}
          /\ journal'[Key(prep.gen)] = journal[Key(prep.gen)]
          /\ Records(r) => /\ prep' = new /\ faults' = faults
                           /\ journal'[Key(new.gen)] = [read |-> "ok", rec |-> new]
          /\ RecordFails(r) => prep' = prep /\ faults' = faults + 1
      BY <1>1, <1>2, <1>3, <1>6, <1>r, <1>f
    <2>2. QED BY <1>3, <1>7, <2>1

LEMMA PrepareStep == ASSUME ResetInv, Prepare PROVE ResetInv'
  <1>u. /\ ctl.pc = "prepare" /\ UNCHANGED <<up, commits>> /\ ResetSound
        /\ Legible = {} /\ prep = NoRecord
    BY DEF Prepare, ResetInv, ResetSound, Position
  <1>1. PICK kind \in Kinds, server \in ServerFloors :
          LET r == [NoRecord EXCEPT !.phase = Prepared, !.kind = kind,
                                    !.floor = IF kind = "reset" THEN FloorFor(server) ELSE 0,
                                    !.reset = IF kind = "reset" THEN ram.reset + 1 ELSE 0]
          IN  \/ Records(r) /\ live' = TRUE /\ ctl' = Loop
              \/ RecordFails(r) /\ UNCHANGED live /\ Erasing("loop")
    BY DEF Prepare
  <1> DEFINE floor == IF kind = "reset" THEN FloorFor(server) ELSE 0
             reset == IF kind = "reset" THEN ram.reset + 1 ELSE 0
             r == [NoRecord EXCEPT !.phase = Prepared, !.kind = kind, !.floor = floor,
                                   !.reset = reset]
  <1>3. \/ Records(r) /\ live' = TRUE /\ ctl' = Loop
        \/ RecordFails(r) /\ UNCHANGED live /\ Erasing("loop")
    BY <1>1
  <1> HIDE DEF floor, reset
  <1>e. r = [phase |-> 1, kind |-> kind, id |-> 0, floor |-> floor, reset |-> reset, gen |-> 0]
    BY PreparedIs
  <1> HIDE DEF r
  <1>2. RecordForm(r) /\ r.id = 0 /\ r.phase = Prepared
    BY <1>e, ResetAssumption DEF RecordForm, Prepared, FloorDurable, ConfigDurable
  <1>4. PICK new :
          /\ RecordForm(new) /\ new.phase = r.phase /\ new.id = r.id
          /\ Chances' \subseteq Chances \cup {new}
          /\ Records(r) => prep' = new /\ journal'[Key(new.gen)] = [read |-> "ok", rec |-> new]
          /\ RecordFails(r) => prep' = prep
    BY <1>u, <1>2, <1>3, Persisting
  <1>5. Journal' /\ OneTransaction' /\ faults' \in Nat /\ faults' >= faults
    BY <1>u, <1>2, <1>3, Persisting
  <1>6. Honest(new) /\ new.id = 0
    BY <1>2, <1>4 DEF Honest
  <1>7. Resumable'
    <2>1. prep.phase \in {0, Prepared, ResultAcknowledged}
      BY <1>u, NoRecordForm
    <2>2. QED BY <1>u, <2>1, NoneResumable DEF Resumable
  <1>8. CASE Records(r) /\ live' = TRUE /\ ctl' = Loop
    <2>1. ControlForm' /\ Position' /\ Deciding'
      BY <1>u, <1>5, <1>8, Looping DEF ResetSound, ControlForm
    <2>2. Slotted'
      BY <1>4, <1>8 DEF Slotted
    <2>3. QED BY <1>u, <1>4, <1>5, <1>6, <1>7, <2>1, <2>2, SameCommits, Turned
  <1>9. CASE RecordFails(r) /\ UNCHANGED live /\ Erasing("loop")
    <2>1. ctl'.pc = "erase_a" /\ ctl'.then = "loop" /\ ctl' = [pc |-> ctl'.pc, then |-> ctl'.then]
      BY <1>9, ErasingIs
    <2>2. prep' = NoRecord /\ prep'.phase = 0
      BY <1>u, <1>4, <1>9, NoRecordForm
    <2>3. ControlForm' /\ Position' /\ Deciding'
      BY <1>u, <1>5, <1>9, <2>1, <2>2
         DEF ResetSound, ControlForm, Position, Deciding, Undecided, Erases
    <2>4. Slotted'
      BY <2>2 DEF Slotted, Intent, Prepared, ResultDurable
    <2>5. QED BY <1>u, <1>4, <1>5, <1>6, <1>7, <2>3, <2>4, SameCommits, Turned
  <1>10. QED BY <1>3, <1>8, <1>9

LEMMA CommitIntentStep == ASSUME ResetInv, CommitIntent PROVE ResetInv'
  <1>u. /\ ctl.pc = "intent" /\ UNCHANGED <<up, commits>> /\ ResetSound
        /\ prep.phase = Prepared /\ live /\ commits[Current].kind = prep.kind
        /\ RecordForm(prep) /\ Undecided
    BY PrepIsChance DEF CommitIntent, ResetInv, ResetSound, Position, Undecided
  <1>d. /\ \E i \in Ids : commits[i].state # "none"
        /\ commits[Current].state = "running" /\ commits[Current].done = {}
        /\ prep.id # Current /\ \A r \in Chances : r.id # Current
    BY <1>u DEF ResetSound, Deciding
  <1>c. Current \in Ids /\ Current # 0 /\ Current \in 0..MaxCommits /\ prep.id = 0
    BY <1>d, <1>u, CurrentIs, ResetAssumption DEF Ids, RecordForm
  <1> DEFINE r == IntentRecord
  <1>2. /\ r.id = Current /\ r.phase = Intent /\ r.kind = prep.kind /\ RecordForm(r)
    <2>1. r = [phase |-> Intent, kind |-> prep.kind, id |-> Current, floor |-> prep.floor,
               reset |-> prep.reset, gen |-> prep.gen]
      BY <1>u, IntentIs DEF IntentRecord
    <2> HIDE DEF r
    <2>2. QED BY <1>u, <1>c, <2>1 DEF RecordForm, Intent, Prepared, FloorDurable, ConfigDurable
  <1>3. \/ Records(r) /\ live' = FALSE /\ Goto("effect")
        \/ RecordFails(r) /\ UNCHANGED live /\ Erasing("refuse")
    BY DEF CommitIntent, DropIntent
  <1> HIDE DEF r
  <1>s. journal[Key(prep.gen)] = [read |-> "ok", rec |-> prep]
    BY <1>u DEF ResetSound, Slotted
  <1>4. PICK new :
          /\ RecordForm(new) /\ new.phase = r.phase /\ new.id = r.id /\ new.kind = r.kind
          /\ Chances' \subseteq Chances \cup {new}
          /\ Records(r) => prep' = new /\ journal'[Key(new.gen)] = [read |-> "ok", rec |-> new]
          /\ journal'[Key(prep.gen)] = journal[Key(prep.gen)]
          /\ RecordFails(r) => prep' = prep /\ faults' = faults + 1
    BY <1>2, <1>3, <1>c, <1>s, Persisting
  <1>5. Journal' /\ OneTransaction' /\ faults' \in Nat /\ faults' >= faults
    BY <1>2, <1>3, <1>c, <1>s, Persisting
  <1>6. Honest(new) /\ commits[new.id].state = "running"
    <2>1. Before(new) = {}
      BY <1>2, <1>4 DEF Before, Needed, PhaseAfter, Intent, FloorDurable, FormatDurable, ConfigDurable
    <2>2. QED BY <1>u, <1>2, <1>4, <1>c, <1>d, <2>1 DEF Honest, Intent, ResultDurable
  <1>7. Resumable' \/ ctl'.pc = "journal"
    <2>1. prep.phase \in {0, Prepared, ResultAcknowledged}
      BY <1>u
    <2>2. QED BY <1>u, <2>1, NoneResumable DEF Resumable
  <1>8. CASE Records(r) /\ live' = FALSE /\ Goto("effect")
    <2>1. ctl'.pc = "effect" /\ ctl'.then = ctl.then /\ ctl' = [pc |-> ctl'.pc, then |-> ctl'.then]
      BY <1>8, GotoIs
    <2>2. Underway(prep')
      BY <1>2, <1>4, <1>8 DEF Underway, Intent, ConfigDurable
    <2>3. ControlForm' /\ Position' /\ Deciding'
      BY <1>u, <1>5, <1>8, <2>1, <2>2
         DEF ResetSound, ControlForm, Position, Deciding, Undecided, Erases, Underway
    <2>4. Slotted'
      BY <1>4, <1>8 DEF Slotted
    <2>5. QED BY <1>u, <1>4, <1>5, <1>6, <1>7, <2>1, <2>3, <2>4, SameCommits, Turned
  <1>9. CASE RecordFails(r) /\ UNCHANGED live /\ Erasing("refuse")
    <2>1. ctl'.pc = "erase_a" /\ ctl'.then = "refuse" /\ ctl' = [pc |-> ctl'.pc, then |-> ctl'.then]
      BY <1>9, ErasingIs
    <2>2. prep' = prep /\ ~(faults' < 1)
      BY <1>u, <1>4, <1>9 DEF ResetSound, ControlForm
    <2>3. ControlForm' /\ Position'
      BY <1>u, <1>5, <1>9, <2>1, <2>2 DEF ResetSound, ControlForm, Position, Erases
    <2>4. Deciding'
      <3>1. Current' = Current
        BY <1>u, SameCommits
      <3>2. QED BY <1>u, <1>d, <2>1, <2>2, <3>1 DEF Deciding, Erases
    <2>5. Slotted'
      BY <1>4, <1>9, <1>s, <2>2 DEF Slotted
    <2>6. QED BY <1>u, <1>4, <1>5, <1>6, <1>7, <2>1, <2>3, <2>4, <2>5, SameCommits, Turned
  <1>10. QED BY <1>3, <1>8, <1>9

LEMMA RecordPhaseStep == ASSUME ResetInv, RecordPhase PROVE ResetInv'
  <1>u. /\ ctl.pc = "record" /\ UNCHANGED live /\ ResetSound /\ Underway(prep)
        /\ RecordForm(prep) /\ Honest(prep) /\ prep \in Chances
        /\ IF EffectOf(prep) = "result"
             THEN commits[prep.id].state \in {"succeeded", "acknowledged"}
             ELSE EffectOf(prep) \in commits[prep.id].done
    BY PrepIsChance DEF RecordPhase, ResetInv, ResetSound, Position
  <1>c. prep.id \in Ids /\ prep.id # 0 /\ prep.phase \in Intent..ResultDurable /\ prep.phase # Prepared
        /\ prep.gen \in Nat
    BY <1>u, PhasesOf, ResetAssumption
       DEF Ids, Underway, Intent, ConfigDurable, ResultDurable, Prepared, RecordForm
  <1> DEFINE r == [prep EXCEPT !.phase = PhaseAfter(EffectOf(prep))]
  <1>2. /\ RecordForm(r) /\ r.kind = prep.kind /\ r.id = prep.id
        /\ Before(r) \subseteq Before(prep)
                           \cup (IF EffectOf(prep) = "result" THEN {} ELSE {EffectOf(prep)})
        /\ r.phase >= ResultDurable => EffectOf(prep) = "result"
    BY <1>u, PhaseGrows
  <1>3. \/ /\ Records(r)
           /\ IF Underway(r) THEN Goto("effect") /\ UNCHANGED <<up, power, commits>>
              ELSE Ends(TRUE, r)
        \/ RecordFails(r) /\ Ends(FALSE, prep)
    BY DEF RecordPhase
  <1> HIDE DEF r
  <1>s. journal[Key(prep.gen)] = [read |-> "ok", rec |-> prep]
    BY <1>u, <1>c DEF ResetSound, Slotted
  <1>h. Honest(r)
    BY <1>u, <1>c, <1>2 DEF Honest
  <1>4. PICK new :
          /\ RecordForm(new) /\ new.phase = r.phase /\ new.id = r.id /\ new.kind = r.kind
          /\ new.gen = prep.gen + 1
          /\ Chances' \subseteq Chances \cup {new}
          /\ journal'[Key(prep.gen)] = journal[Key(prep.gen)]
          /\ Records(r) => prep' = new /\ journal'[Key(new.gen)] = [read |-> "ok", rec |-> new]
          /\ RecordFails(r) => prep' = prep
    BY <1>2, <1>3, <1>s, Persisting
  <1>5. Journal' /\ OneTransaction' /\ faults' \in Nat /\ faults' >= faults
    BY <1>2, <1>3, <1>s, Persisting
  <1>6. Honest(new) /\ (faults < 2 => commits[new.id].state # "failed")
    BY <1>u, <1>c, <1>h, <1>2, <1>4, HonestCopy DEF ResetInv, Harmless
  <1>i. prep'.id = prep.id
    BY <1>2, <1>3, <1>4
  <1>7. \A i \in Ids : commits[i].state = "running" /\ commits[i].done # {} => prep'.id = i
    BY <1>u, <1>i DEF ResetSound, Resumable
  <1>8. CASE Records(r) /\ Underway(r) /\ Goto("effect") /\ UNCHANGED <<up, commits>>
    <2>0. Goto("effect") /\ UNCHANGED <<up, commits>>
      BY <1>8
    <2>1. ctl'.pc = "effect" /\ ctl'.then = ctl.then /\ ctl' = [pc |-> ctl'.pc, then |-> ctl'.then]
      BY <2>0, GotoIs
    <2>2. Underway(prep')
      BY <1>4, <1>8 DEF Underway
    <2>3. ControlForm' /\ Position' /\ Deciding'
      BY <1>u, <1>5, <2>0, <2>1, <2>2
         DEF ResetSound, ControlForm, Position, Deciding, Undecided, Erases, Underway
    <2>4. Slotted'
      BY <1>4, <1>8 DEF Slotted
    <2>5. Resumable'
      BY <1>7, <2>0, <2>1 DEF Resumable
    <2>6. QED BY <1>4, <1>5, <1>6, <2>0, <2>3, <2>4, <2>5, SameCommits, Turned
  <1>9. CASE Records(r) /\ Ends(TRUE, r)
    <2>1. ControlForm' /\ Position' /\ Deciding' /\ ctl'.pc = "loop"
      BY <1>u, <1>5, <1>9, EndsWell, Looping DEF ResetSound, ControlForm
    <2>2. Slotted'
      BY <1>4, <1>9 DEF Slotted
    <2>3. Resumable'
      BY <1>7, <1>9, <2>1, EndsWell DEF Resumable
    <2>4. \A q \in Chances' : q.id = prep.id
      <3>1. Keys = {Key(prep.gen), Key(new.gen)}
        BY <1>4, <1>c, KeyTurns DEF Keys
      <3>2. \A k \in Legible' : journal'[k].rec \in {prep, new}
        BY <1>4, <1>9, <1>s, <3>1 DEF Legible
      <3>3. QED BY <1>2, <1>4, <1>9, <3>2 DEF Chances
    <2>5. \A i \in Ids : \/ commits'[i].state = commits[i].state
                         \/ /\ commits[i].state = "running" /\ commits'[i].state = "failed"
                            /\ commits[i].done = {} /\ \A q \in Chances' : q.id # i
      <3>1. ASSUME NEW i \in Ids, commits'[i].state # commits[i].state
            PROVE  /\ commits[i].state = "running" /\ commits'[i].state = "failed"
                   /\ commits[i].done = {} /\ \A q \in Chances' : q.id # i
        <4>1. commits[i].state = "running" /\ commits'[i].state = "failed" /\ i # r.id
          BY <1>9, <3>1, EndsWell
        <4>2. i # prep.id /\ i # prep'.id
          BY <1>2, <1>i, <4>1
        <4>3. QED BY <1>7, <2>4, <4>1, <4>2
      <3>2. QED BY <3>1
    <2>6. QED BY <1>4, <1>5, <1>6, <1>9, <2>1, <2>2, <2>3, <2>5, EndsWell, Turned
  <1>10. CASE RecordFails(r) /\ Ends(FALSE, prep)
    <2>1. ctl' = Loop /\ up' = up /\ commits' = commits
      BY <1>u, <1>10 DEF Ends, ResetSound, ControlForm
    <2>2. ControlForm' /\ Position' /\ Deciding' /\ ctl'.pc = "loop"
      BY <1>u, <1>5, <2>1, Looping DEF ResetSound, ControlForm
    <2>3. Slotted'
      BY <1>4, <1>10, <1>s DEF Slotted
    <2>4. Resumable'
      BY <1>7, <2>1, <2>2 DEF Resumable
    <2>5. QED BY <1>4, <1>5, <1>6, <2>1, <2>2, <2>3, <2>4, SameCommits, Turned
  <1>11. QED BY <1>3, <1>8, <1>9, <1>10

LEMMA AcknowledgeStep == ASSUME ResetInv, Acknowledge PROVE ResetInv'
  <1>u. /\ ctl.pc = "loop" /\ UNCHANGED <<up, live, commits>> /\ ResetSound
        /\ RecordForm(prep) /\ Honest(prep) /\ prep \in Chances /\ prep.phase = ResultDurable
    BY PrepIsChance DEF Acknowledge, Idle, ResetInv
  <1> DEFINE r == [prep EXCEPT !.phase = ResultAcknowledged]
  <1>1. /\ r.phase = 7 /\ r.kind = prep.kind /\ r.id = prep.id /\ r.gen = prep.gen
        /\ r = [phase |-> r.phase, kind |-> r.kind, id |-> r.id, floor |-> r.floor,
                reset |-> r.reset, gen |-> r.gen]
    BY <1>u DEF RecordForm, ResultAcknowledged
  <1>3. \/ Records(r) /\ Goto("cleanup")
        \/ RecordFails(r) /\ UNCHANGED ctl
    BY DEF Acknowledge
  <1> HIDE DEF r
  <1>c. prep.id # 0 /\ prep.id \in Ids
    BY <1>u, ResetAssumption DEF RecordForm, Ids, ResultDurable, Prepared
  <1>2. RecordForm(r)
    BY <1>u, <1>1, <1>c DEF RecordForm, FloorDurable, ConfigDurable, Prepared
  <1>h. Honest(r)
    <2>1. Before(r) \subseteq Before(prep)
      <3>1. \A e \in Needed(r.kind) : PhaseAfter(e) <= 6
        BY DEF Needed, PhaseAfter, FloorDurable, FormatDurable, ConfigDurable
      <3>2. QED BY <1>u, <1>1, <3>1 DEF Before, ResultDurable
    <2>2. commits[prep.id].state \in {"succeeded", "acknowledged"}
      BY <1>u, <1>c DEF Honest, ResultDurable
    <2>3. QED BY <1>u, <1>1, <1>2, <1>c, <2>1, <2>2 DEF Honest
  <1>s. journal[Key(prep.gen)] = [read |-> "ok", rec |-> prep]
    BY <1>u DEF ResetSound, Slotted, Intent, ResultDurable
  <1>4. PICK new :
          /\ RecordForm(new) /\ new.phase = r.phase /\ new.id = r.id /\ new.kind = r.kind
          /\ Chances' \subseteq Chances \cup {new}
          /\ journal'[Key(prep.gen)] = journal[Key(prep.gen)]
          /\ Records(r) => prep' = new /\ journal'[Key(new.gen)] = [read |-> "ok", rec |-> new]
          /\ RecordFails(r) => prep' = prep
    BY <1>1, <1>2, <1>3, <1>s, Persisting
  <1>5. Journal' /\ OneTransaction' /\ faults' \in Nat /\ faults' >= faults
    BY <1>1, <1>2, <1>3, <1>s, Persisting
  <1>6. Honest(new) /\ (faults < 2 => commits[new.id].state # "failed")
    BY <1>u, <1>c, <1>h, <1>1, <1>4, HonestCopy DEF ResetInv, Harmless
  <1>7. ctl'.pc \in {"loop", "cleanup"} /\ ctl'.then = ctl.then
        /\ ctl' = [pc |-> ctl'.pc, then |-> ctl'.then]
    <2>1. CASE Goto("cleanup")
      BY <2>1, GotoIs
    <2>2. CASE UNCHANGED ctl
      BY <1>u, <2>2 DEF ResetSound, ControlForm
    <2>3. QED BY <1>3, <2>1, <2>2
  <1>8. ControlForm' /\ Position' /\ Deciding'
    BY <1>u, <1>5, <1>7 DEF ResetSound, ControlForm, Position, Deciding, Undecided, Erases
  <1>9. Slotted'
    <2>1. CASE Records(r)
      BY <1>4, <2>1 DEF Slotted
    <2>2. CASE RecordFails(r)
      BY <1>4, <1>s, <2>2 DEF Slotted
    <2>3. QED BY <1>3, <2>1, <2>2
  <1>10. Resumable'
    <2>1. prep'.id = prep.id
      BY <1>1, <1>3, <1>4
    <2>2. QED BY <1>u, <1>7, <2>1 DEF ResetSound, Resumable
  <1>11. QED BY <1>u, <1>4, <1>5, <1>6, <1>8, <1>9, <1>10, SameCommits, Turned

-----------------------------------------------------------------------------
(* The restart.                                                            *)

LEMMA NewestIs ==
    ASSUME ResetInv, Legible # {}
    PROVE  /\ \E k \in Legible : NewestRecord = journal[k].rec
           /\ NewestRecord \in Chances
           /\ \A j \in Legible : journal[j].rec.gen <= NewestRecord.gen
           /\ \A j \in Legible : journal[j].rec.id \in {0, NewestRecord.id}
  <1> DEFINE G(k) == journal[k].rec.gen
  <1>1. Legible \subseteq Keys /\ \A k \in Legible : G(k) \in Nat
    BY ChanceIds DEF Legible, Chances, RecordForm
  <1>2. \E k \in Legible : \A j \in Legible : G(k) >= G(j)
    <2>1. CASE \E k \in Keys : Legible = {k}
      BY <1>1, <2>1
    <2>2. CASE Legible = Keys
      <3>1. G("a") >= G("b") \/ G("b") >= G("a")
        BY <1>1, <2>2 DEF Keys
      <3>2. G("a") >= G("a") /\ G("b") >= G("b")
        BY <1>1, <2>2 DEF Keys
      <3>3. QED BY <2>2, <3>1, <3>2 DEF Keys
    <2>3. QED BY <1>1, <2>1, <2>2 DEF Keys
  <1> DEFINE N == CHOOSE k \in Legible : \A j \in Legible : G(k) >= G(j)
  <1>3. N \in Legible /\ \A j \in Legible : G(N) >= G(j)
    BY <1>2
  <1>4. NewestRecord = journal[N].rec
    BY DEF NewestRecord
  <1> HIDE DEF N
  <1>5. \A j \in Legible : G(j) <= G(N)
    BY <1>1, <1>3
  <1>6. \A j \in Legible : journal[j].rec.id \in {0, journal[N].rec.id}
    BY <1>3 DEF ResetInv, ResetSound, OneTransaction
  <1>7. QED BY <1>3, <1>4, <1>5, <1>6 DEF Chances

LEMMA LoadJournalStep == ASSUME ResetInv, LoadJournal PROVE ResetInv'
  <1>u. /\ ctl.pc = "journal" /\ UNCHANGED <<faults, live, journal>> /\ ResetSound
        /\ prep = NoRecord /\ ~live /\ ~up
    BY DEF LoadJournal, ResetInv, ResetSound, Position
  <1>l. Legible' = Legible /\ faults' >= faults /\ faults' \in Nat
    BY <1>u DEF Legible, ResetSound, ControlForm
  <1>j. Journal' /\ OneTransaction'
    BY <1>u, <1>l DEF ResetSound, Journal, OneTransaction, Key
  <1>r. \A i \in Ids : commits[i].state = "running" /\ commits[i].done # {} =>
                          Legible # {} /\ NewestRecord.id = i
    BY <1>u DEF ResetSound, Resumable
  <1>1. CASE Legible # {}
    <2>p. prep' = NewestRecord
      BY <1>1 DEF LoadJournal
    <2>1. PICK k \in Legible : NewestRecord = journal[k].rec
      BY <1>1, NewestIs
    <2>2. /\ NewestRecord \in Chances /\ RecordForm(NewestRecord)
          /\ \A j \in Legible : journal[j].rec.id \in {0, NewestRecord.id}
      BY <1>1, NewestIs, ChanceIds
    <2>3. Chances' \subseteq Chances
      BY <1>u, <1>l, <2>2, <2>p DEF Chances
    <2>4. Slotted'
      BY <1>u, <2>1, <2>p DEF ResetSound, Journal, Slotted
    <2>5. CASE NewestRecord.phase = Prepared
      <3>1. Erasing("loop") /\ UNCHANGED <<up, commits>>
        BY <1>1, <2>5 DEF LoadJournal
      <3>2. ctl'.pc = "erase_a" /\ ctl'.then = "loop" /\ ctl' = [pc |-> ctl'.pc, then |-> ctl'.then]
        BY <3>1, ErasingIs
      <3>3. ControlForm' /\ Position' /\ Deciding'
        BY <1>u, <1>l, <2>5, <2>p, <3>1, <3>2
           DEF ResetSound, ControlForm, Position, Deciding, Undecided, Erases
      <3>4. Resumable'
        BY <1>r, <2>p, <3>1, <3>2 DEF Resumable
      <3>5. QED BY <1>l, <1>j, <2>3, <2>4, <3>1, <3>3, <3>4, SameCommits, Turned
    <2>6. CASE NewestRecord.phase # Prepared /\ Underway(NewestRecord)
      <3>1. Goto("effect") /\ UNCHANGED <<up, commits>>
        BY <1>1, <2>6 DEF LoadJournal
      <3>2. ctl'.pc = "effect" /\ ctl'.then = ctl.then /\ ctl' = [pc |-> ctl'.pc, then |-> ctl'.then]
        BY <3>1, GotoIs
      <3>3. ControlForm' /\ Position' /\ Deciding'
        BY <1>u, <1>l, <2>6, <2>p, <3>1, <3>2
           DEF ResetSound, ControlForm, Position, Deciding, Undecided, Erases, Underway
      <3>4. Resumable'
        BY <1>r, <2>p, <3>1, <3>2 DEF Resumable
      <3>5. QED BY <1>l, <1>j, <2>3, <2>4, <3>1, <3>3, <3>4, SameCommits, Turned
    <2>7. CASE NewestRecord.phase # Prepared /\ ~Underway(NewestRecord)
      <3>1. Ends(TRUE, NewestRecord)
        BY <1>1, <2>7 DEF LoadJournal
      <3>2. ControlForm' /\ Position' /\ Deciding' /\ ctl'.pc = "loop"
        BY <1>u, <1>l, <3>1, EndsWell, Looping DEF ResetSound, ControlForm
      <3>3. Resumable'
        BY <1>r, <2>p, <3>1, <3>2, EndsWell DEF Resumable
      <3>4. \A q \in Chances' : q.id \in {0, NewestRecord.id}
        BY <1>u, <1>l, <2>2, <2>p DEF Chances
      <3>5. \A i \in Ids : \/ commits'[i].state = commits[i].state
                           \/ /\ commits[i].state = "running" /\ commits'[i].state = "failed"
                              /\ commits[i].done = {} /\ \A q \in Chances' : q.id # i
        <4>1. ASSUME NEW i \in Ids, commits'[i].state # commits[i].state
              PROVE  /\ commits[i].state = "running" /\ commits'[i].state = "failed"
                     /\ commits[i].done = {} /\ \A q \in Chances' : q.id # i
          <5>1. commits[i].state = "running" /\ commits'[i].state = "failed" /\ i # NewestRecord.id
            BY <3>1, <4>1, EndsWell
          <5>2. i # 0
            BY ResetAssumption DEF Ids
          <5>3. QED BY <1>r, <3>4, <5>1, <5>2
        <4>2. QED BY <4>1
      <3>6. QED BY <1>l, <1>j, <2>3, <2>4, <3>1, <3>2, <3>3, <3>5, EndsWell, Turned
    <2>8. QED BY <2>5, <2>6, <2>7
  <1>2. CASE Legible = {}
    <2>1. prep' = NoRecord /\ prep'.phase = 0
      BY <1>u, <1>2, NoRecordForm DEF LoadJournal
    <2>2. Chances' = Chances
      BY <1>u, <1>l, <2>1 DEF Chances
    <2>3. Slotted'
      BY <2>1 DEF Slotted, Intent, Prepared, ResultDurable
    <2>4. CASE Erasing("loop") /\ UNCHANGED <<up, commits>>
      <3>1. ctl'.pc = "erase_a" /\ ctl'.then = "loop" /\ ctl' = [pc |-> ctl'.pc, then |-> ctl'.then]
        BY <2>4, ErasingIs
      <3>2. ControlForm' /\ Position' /\ Deciding'
        BY <1>u, <1>l, <2>1, <2>4, <3>1
           DEF ResetSound, ControlForm, Position, Deciding, Undecided, Erases
      <3>3. Resumable'
        BY <1>r, <1>2, <2>4 DEF Resumable
      <3>4. QED BY <1>l, <1>j, <2>2, <2>3, <2>4, <3>2, <3>3, SameCommits, Turned
    <2>5. CASE Ends(FALSE, NoRecord)
      <3>1. ctl' = Loop /\ up' = up /\ commits' = commits
        BY <1>u, <2>5 DEF Ends, ResetSound, ControlForm
      <3>2. ControlForm' /\ Position' /\ Deciding'
        BY <1>u, <1>l, <3>1, Looping DEF ResetSound, ControlForm
      <3>3. Resumable'
        BY <1>r, <1>2, <3>1 DEF Resumable
      <3>4. QED BY <1>l, <1>j, <2>2, <2>3, <3>1, <3>2, <3>3, SameCommits, Turned
    <2>6. QED BY <1>2, <2>4, <2>5 DEF LoadJournal
  <1>3. QED BY <1>1, <1>2

LEMMA LosePowerStep == ASSUME ResetInv, LosePower PROVE ResetInv'
  <1>u. /\ UNCHANGED <<faults, journal, commits>> /\ ResetSound /\ up' = FALSE /\ live' = FALSE
        /\ prep' = NoRecord /\ ctl' = [pc |-> "journal", then |-> "loop"]
    BY DEF LosePower, PowerCut, ResetInv
  <1>l. Legible' = Legible /\ faults' >= faults /\ faults' \in Nat
    BY <1>u DEF Legible, ResetSound, ControlForm
  <1>j. Journal' /\ OneTransaction'
    BY <1>u, <1>l DEF ResetSound, Journal, OneTransaction, Key
  <1>1. \A r \in Chances' : r \in Chances \/ (Honest(r) /\ r.id = 0)
    BY <1>u, <1>l, NoRecordHonest, NoRecordForm DEF Chances
  <1>2. Slotted'
    BY <1>u, NoRecordForm DEF Slotted, Intent, Prepared, ResultDurable
  <1>3. ControlForm' /\ Position' /\ Deciding'
    BY <1>u, <1>l DEF ControlForm, Position, Deciding, Undecided, Erases
  <1>4. Resumable'
    <2>1. NewestRecord' = NewestRecord
      BY <1>u, <1>l DEF NewestRecord
    <2>2. ASSUME NEW i \in Ids, commits[i].state = "running", commits[i].done # {}
          PROVE  Legible # {} /\ NewestRecord.id = i
      <3>1. CASE ctl.pc = "journal"
        BY <1>u, <2>2, <3>1 DEF ResetSound, Resumable
      <3>2. CASE ctl.pc # "journal"
        <4>1. prep.id = i /\ i # 0 /\ RecordForm(prep) /\ Honest(prep)
          BY <1>u, <2>2, <3>2, PrepIsChance, ResetAssumption DEF ResetSound, Resumable, Ids
        <4>2. prep.phase \in 2..7 /\ ~(prep.phase >= 6) /\ prep.gen \in Nat
          BY <2>2, <4>1 DEF RecordForm, Honest, Prepared, ResultDurable
        <4>3. journal[Key(prep.gen)] = [read |-> "ok", rec |-> prep]
          BY <1>u, <4>2 DEF ResetSound, Slotted, Intent, ResultDurable
        <4>4. Key(prep.gen) \in Legible /\ journal[Key(prep.gen)].rec = prep
          BY <4>2, <4>3, KeyTurns DEF Legible
        <4>5. prep.id \in {0, NewestRecord.id}
          BY <4>4, NewestIs
        <4>6. QED BY <4>1, <4>4, <4>5
      <3>3. QED BY <3>1, <3>2
    <2>3. QED BY <1>u, <1>l, <2>1, <2>2 DEF Resumable
  <1>5. QED BY <1>u, <1>l, <1>j, <1>1, <1>2, <1>3, <1>4, SameCommits, Turned

\* The other tasks and the boot as far as the sequence store.
LEMMA StoreFaults ==
    ASSUME ResetInv, Draw \/ Drawn \/ StoreCall \/ Boot
    PROVE  /\ UNCHANGED <<up, ctl, prep, live, journal, commits>>
           /\ faults' \in Nat /\ faults' >= faults
  <1>1. faults \in Nat /\ UNCHANGED <<up, ctl, prep, live, journal, commits>>
    BY DEF ResetInv, ResetSound, ControlForm, Draw, Drawn, StoreCall, Boot, resetVars
  <1>2. faults' = faults \/ faults' = faults + 1
    BY DEF Draw, BeginNext, Drawn, StoreCall, StoreStep, Plan, WriteSlot, SelectSlot, Assign, Boot,
           LoadNewest, LoadFresh, LoadFails, NoFault, Faulty
  <1>3. QED BY <1>1, <1>2

LEMMA ResetStep == ResetInv /\ [Next]_vars => ResetInv'
  <1> SUFFICES ASSUME ResetInv, [Next]_vars PROVE ResetInv'
    OBVIOUS
  <1>1. CASE Command \/ Acknowledge
    BY <1>1, CommandStep, BeginCommitStep, AcknowledgeStep DEF Command
  <1>2. CASE Erase
    BY <1>2, EraseFirstStep, EraseSecondStep, EraseFailsStep DEF Erase
  <1>3. CASE Progress
    BY <1>3, RaiseFloorStep, FloorRaisedStep, FormatStep, ConfigureStep, ResultStep, RecordPhaseStep
       DEF Progress
  <1>4. CASE Prepare \/ Unprepared \/ Refuse \/ MarkRunning \/ CommitIntent \/ Resume \/ Cleanup
    BY <1>4, PrepareStep, UnpreparedStep, RefuseStep, MarkRunningStep, CommitIntentStep, ResumeStep,
       CleanupStep
  <1>5. CASE Draw \/ Drawn \/ StoreCall \/ Boot
    BY <1>5, StoreFaults, StoreOnly
  <1>6. CASE LoadJournal \/ LosePower
    BY <1>6, LoadJournalStep, LosePowerStep
  <1>7. CASE UNCHANGED vars
    <2>1. UNCHANGED <<up, ctl, prep, live, journal, commits>> /\ faults' = faults
      BY <1>7 DEF vars, seqVars, resetVars
    <2>2. QED BY <2>1, StoreOnly DEF ResetInv, ResetSound, ControlForm
  <1>8. QED BY <1>1, <1>2, <1>3, <1>4, <1>5, <1>6, <1>7 DEF Next, Control

-----------------------------------------------------------------------------
(* Where the reset generation is: in the sequence store, in the            *)
(* configuration, and on its way from one to the other.                    *)

\* The record that the control task goes on from: the one in RAM or, until the
\* boot has loaded it, the newest of the journal.
Lead == IF ctl.pc # "journal" THEN prep ELSE IF Legible = {} THEN NoRecord ELSE NewestRecord

Pending(x) == Lead.kind = "reset" /\ Lead.phase \in Intent..FormatDurable /\ x = Lead.reset
Right(x) == x = config.reset \/ Pending(x)

\* The records are of one preparation, and the younger one is the further.
Kin ==
  /\ \A r \in Chances : r.floor \in 0..Limit /\ r.reset \in Nat
  /\ \A q, r \in Chances : q.phase # 0 /\ r.phase # 0 => q.kind = r.kind /\ q.reset = r.reset

Ordered ==
  /\ \A k \in Legible : journal[k].rec.phase >= Prepared
  /\ \A j, k \in Legible :
       journal[j].rec.gen >= journal[k].rec.gen => journal[j].rec.phase >= journal[k].rec.phase

\* What a record says of the configuration and of the sequence store is true.
Configured ==
  /\ config.reset \in Nat
  /\ \A r \in Chances : r.kind = "reset" =>
       config.reset <= r.reset /\ (r.phase >= ConfigDurable => config.reset = r.reset)

Floored ==
  \A r \in Chances : r.kind = "reset" /\ r.phase >= FloorDurable =>
    /\ \A k \in Keys : Elected(k) => slots[k].state.reset = r.reset
    /\ On => ram.reset = r.reset

\* A boot would load the generation of the configuration, or the one that the
\* reset in progress brings.
Rightful ==
  /\ \A k \in Keys : Elected(k) => Right(slots[k].state.reset)
  /\ On => Right(ram.reset)

Ascending == Running => \A k \in Keys : Elected(k) => slots[k].state.reset >= ram.reset

\* Only the control task raises the generation, and only to the one of its record.
Copies ==
  \A t \in Tasks : Busy(t) =>
    IF t = "control" THEN call[t].copy.reset = prep.reset /\ prep.reset >= ram.reset
                     ELSE call[t].copy.reset = ram.reset

Calling ==
  /\ call["control"].pc # "idle" => ctl.pc = "raising"
  /\ call["control"].pc = "done" => ram.reset = prep.reset
  /\ call["network"].pc = "idle" /\ (~up => call["interval"].pc = "idle")
  /\ power \in {"off", "loading"} => ctl.pc = "journal"

Effects ==
  ctl.pc = "record" => /\ EffectOf(prep) = "floor" => ram.reset = prep.reset
                       /\ EffectOf(prep) = "config" => config.reset = prep.reset

\* A store that was never written belongs to a device that never reset anything.
Unused ==
  power = "loading" \/ (\A k \in Keys : slots[k].read = "missing") =>
    ~On /\ config.reset = 0 /\ Legible = {}

AgreeInv == SeqInv /\ Kin /\ Ordered /\ Configured /\ Floored /\ Rightful /\ Ascending /\ Copies
              /\ Calling /\ Effects /\ Unused

-----------------------------------------------------------------------------
(* The store under the reset.                                              *)

\* What each operation makes of the reset generation.
LEMMA ResetFields ==
    ASSUME NEW s \in SequenceState
    PROVE  /\ Persisted(s).reset = s.reset /\ Reserved(s).reset = s.reset
           /\ Allocated(s).reset = s.reset /\ Loaded(s).reset = s.reset
           /\ \A floor, reset : Raised(s, floor, reset).reset = reset
  BY DEF Persisted, Reserved, Allocated, Loaded, Raised, SequenceState

\* Two slots that a boot might take hold the same.
LEMMA ElectedEqual ==
    ASSUME SeqTypeOK, NEW j \in Keys, NEW k \in Keys, Elected(j), Elected(k)
    PROVE  slots[j].state = slots[k].state
  <1>1. slots[j].state.gen \in Nat /\ slots[k].state.gen \in Nat
    BY DEF SeqTypeOK, SequenceState
  <1>2. QED BY <1>1 DEF Elected

\* What a boot would take after a write that succeeded or failed: what it would have
\* taken before, or the candidate.
LEMMA ElectedAfterWrite ==
    ASSUME SeqInv, NEW t \in Tasks, Busy(t), Running,
           NEW left \in {slots[call[t].key], Holding(Persisted(call[t].copy)), Unreadable},
           slots' = [slots EXCEPT ![call[t].key] = left],
           NEW k \in Keys, Elected(k)'
    PROVE  \/ slots' = slots /\ Elected(k) /\ slots'[k] = slots[k]
           \/ slots'[k].state = Persisted(call[t].copy)
  <1> DEFINE key == call[t].key
             new == Persisted(call[t].copy)
  <1>t. SeqTypeOK /\ Sound
    BY DEF SeqInv
  <1>c. /\ key \in Keys /\ call[t].copy \in SequenceState /\ ram \in SequenceState
        /\ slots \in [Keys -> [read : {"missing", "invalid", "ok"}, state : SequenceState]]
    BY <1>t DEF SeqTypeOK
  <1>n. new \in SequenceState /\ new.gen = ram.gen + 1 /\ ram.gen \in Nat
    <2>1. call[t].copy.gen = ram.gen
      BY <1>t DEF Sound, Candidates, Candidate
    <2>2. QED BY <1>c, <2>1, PersistedType, StateNumbers
  <1>h. Holding(new).read = "ok" /\ Holding(new).state = new /\ Unreadable.read = "invalid"
    BY <1>n, SlotTypes
  <1>l. left \in {slots[key], Holding(new), Unreadable}
    OBVIOUS
  <1> HIDE DEF new
  <1>s. slots'[key] = left /\ \A j \in Keys : j # key => slots'[j] = slots[j]
    BY <1>c
  <1>1. CASE left = slots[key]
    <2>1. slots' = slots
      BY <1>1, <1>c
    <2>2. QED BY <2>1 DEF Elected
  <1>2. CASE left = Unreadable
    BY <1>c, <1>h, <1>s, <1>2 DEF Elected
  <1>3. CASE left = Holding(new)
    <2>1. slots'[key].read = "ok" /\ slots'[key].state = new
      BY <1>h, <1>s, <1>3
    <2>2. new.gen < slots'[k].state.gen \/ new = slots'[k].state
      BY <1>c, <2>1 DEF Elected
    <2>3. k # key => slots'[k].state.gen <= ram.gen + 1 /\ slots'[k].state.gen \in Nat
      BY <1>c, <1>s, <1>t, StateNumbers DEF Elected, Sound, Working
    <2>4. QED BY <1>n, <2>1, <2>2, <2>3 DEF new
  <1>4. QED BY <1>l, <1>1, <1>2, <1>3

\* The slot that was written and selected is the one a boot would take.
LEMMA ElectedIsWritten ==
    ASSUME SeqInv, NEW t \in Tasks, call[t].pc = "selected", Running, NEW k \in Keys, Elected(k)
    PROVE  slots[k].state = Persisted(call[t].copy)
  <1> DEFINE key == call[t].key
             new == Persisted(call[t].copy)
  <1>t. SeqTypeOK /\ Sound /\ Busy(t)
    BY DEF SeqInv, Busy, InFlight
  <1>c. /\ key \in Keys /\ call[t].copy \in SequenceState /\ ram \in SequenceState
        /\ slots[k].state \in SequenceState
    BY <1>t DEF SeqTypeOK
  <1>n. new \in SequenceState /\ new.gen = ram.gen + 1 /\ ram.gen \in Nat
    <2>1. call[t].copy.gen = ram.gen
      BY <1>t DEF Sound, Candidates, Candidate
    <2>2. QED BY <1>c, <2>1, PersistedType, StateNumbers
  <1>1. slots[key].read = "ok" /\ slots[key].state = new
    BY <1>t, <1>n, SlotTypes DEF Sound, Written
  <1> HIDE DEF new
  <1>2. new.gen < slots[k].state.gen \/ new = slots[k].state
    BY <1>c, <1>1 DEF Elected
  <1>3. slots[k].state.gen <= ram.gen + 1 /\ slots[k].state.gen \in Nat
    BY <1>t, <1>c, StateNumbers DEF Elected, Sound, Working
  <1>4. QED BY <1>n, <1>2, <1>3 DEF new

\* The control task does something else, or app_main() gives up.
LEMMA StoreKept ==
    ASSUME SeqInv, UNCHANGED <<slots, selector, ram, handed, best, crashes>>,
           Faulty \/ NoFault,
           \/ UNCHANGED <<power, call>>
           \/ /\ power' = "halted" /\ call' \in [Tasks -> CallType]
              /\ \A t \in Tasks : call'[t].pc = "idle"
    PROVE  SeqInv'
  <1>t. SeqTypeOK /\ Sound /\ faults \in 0..MaxFaults /\ MaxFaults \in Nat
    BY SequenceAssumption DEF SeqInv, SeqTypeOK
  <1>f. faults' \in 0..MaxFaults /\ faults' >= faults /\ (faults' = 0 => faults = 0)
    BY <1>t DEF Faulty, NoFault
  <1>1. SeqTypeOK'
    BY <1>t, <1>f DEF SeqTypeOK, CallType
  <1>2. Latest' /\ Blank' /\ SlotsValid' /\ Once'
    BY <1>t, StillKept DEF Sound, Still
  <1>3. CASE UNCHANGED <<power, call>>
    <2>1. Turns' /\ Phases' /\ Working' /\ Candidates' /\ Written'
      BY <1>t, <1>3 DEF Sound, Turns, Busy, Phases, Working, Running, Covers, SlotValid, Candidates,
                        Candidate, Written, Persisted, Holding
    <2>2. Clean'
      BY <1>t, <1>f, <1>3 DEF Sound, Clean, Running
    <2>3. QED BY <1>1, <1>2, <2>1, <2>2 DEF SeqInv, Sound
  <1>4. CASE power' = "halted" /\ \A t \in Tasks : call'[t].pc = "idle"
    <2>1. \A t \in Tasks : ~Busy(t)'
      BY <1>4 DEF Busy, InFlight
    <2>2. Turns' /\ Phases' /\ Working' /\ Candidates' /\ Written'
      BY <1>4, <2>1 DEF Turns, Phases, Working, Running, Candidates, Written
    <2>3. Clean'
      BY <1>t, <1>f, <1>4 DEF Sound, Clean, Running
    <2>4. QED BY <1>1, <1>2, <2>2, <2>3 DEF SeqInv, Sound
  <1>5. QED BY <1>3, <1>4

-----------------------------------------------------------------------------
(* The agreement of the generations: steps of the control task.            *)

LEMMA AgreeInit == Init => AgreeInv
  <1> SUFFICES ASSUME Init PROVE AgreeInv
    OBVIOUS
  <1>1. /\ prep = NoRecord /\ power = "off" /\ ctl.pc = "journal" /\ config.reset = 0
        /\ journal = [k \in Keys |-> Absent] /\ call = [t \in Tasks |-> IdleCall]
        /\ slots = [k \in Keys |-> Missing] /\ SeqInit
    BY DEF Init, SeqInit
  <1>2. Legible = {} /\ Chances = {NoRecord}
    BY <1>1 DEF Legible, Absent, Chances
  <1>3. \A k \in Keys : ~Elected(k)
    BY <1>1 DEF Elected, Missing
  <1>4. \A t \in Tasks : call[t].pc = "idle" /\ ~Busy(t)
    BY <1>1, IdleCallType DEF Busy, InFlight
  <1>5. SeqInv
    BY <1>1, SeqInitInv
  <1>6. Kin /\ Ordered /\ Configured
    BY <1>1, <1>2, SequenceAssumption DEF Kin, Ordered, Configured, NoRecord
  <1>7. Floored /\ Rightful /\ Ascending
    BY <1>1, <1>2, <1>3 DEF Floored, Rightful, Ascending, Running, On
  <1>8. Copies /\ Calling /\ Effects /\ Unused
    BY <1>1, <1>2, <1>4 DEF Copies, Calling, Effects, Unused, On, Tasks
  <1>9. QED BY <1>5, <1>6, <1>7, <1>8 DEF AgreeInv

\* A step that leaves the store alone and adds at most one record.
LEMMA StoreHeld ==
    ASSUME AgreeInv, SeqInv', On, UNCHANGED <<slots, ram>>, power' \in {"on", "halted"},
           config'.reset \in Nat, NEW q, Chances' \subseteq Chances \cup {q},
           q.floor \in 0..Limit, q.reset \in Nat,
           \A r \in Chances : r.phase # 0 /\ q.phase # 0 => r.kind = q.kind /\ r.reset = q.reset,
           \A r \in Chances \cup {q} : r.kind = "reset" =>
               config'.reset <= r.reset /\ (r.phase >= ConfigDurable => config'.reset = r.reset),
           q.kind = "reset" /\ q.phase >= FloorDurable =>
               ram.reset = q.reset /\ \A k \in Keys : Elected(k) => slots[k].state.reset = q.reset,
           Ordered', Rightful', Copies', Calling', Effects'
    PROVE  AgreeInv'
  <1>1. Kin'
    <2>1. Kin
      BY DEF AgreeInv
    <2>2. \A r \in Chances' : r.floor \in 0..Limit /\ r.reset \in Nat
      BY <2>1 DEF Kin
    <2>3. \A r, s \in Chances' : r.phase # 0 /\ s.phase # 0 => r.kind = s.kind /\ r.reset = s.reset
      BY <2>1 DEF Kin
    <2>4. QED BY <2>2, <2>3 DEF Kin
  <1>2. Configured'
    BY DEF Configured
  <1>3. \A k \in Keys : Elected(k)' <=> Elected(k)
    BY DEF Elected
  <1>4. Floored'
    BY <1>3 DEF AgreeInv, Floored, On
  <1>5. Ascending'
    BY <1>3 DEF AgreeInv, Ascending, Running, On
  <1>6. Unused'
    BY DEF AgreeInv, Unused, On
  <1>7. QED BY <1>1, <1>2, <1>4, <1>5, <1>6 DEF AgreeInv

\* The control task goes on, or app_main() gives up, with the records as they are.
LEMMA ControlGoes ==
    ASSUME AgreeInv, On, Faulty \/ NoFault, ctl.pc \notin {"journal", "raising"},
           ctl'.pc # "journal", up => up', Effects',
           UNCHANGED <<slots, selector, ram, call, handed, best, crashes, prep, journal, config>>,
           power' = power \/ (power' = "halted" /\ ~up)
    PROVE  AgreeInv'
  <1>a. /\ SeqInv /\ Kin /\ Ordered /\ Configured /\ Floored /\ Rightful /\ Copies /\ Calling
        /\ SeqTypeOK /\ Phases
    BY DEF AgreeInv, SeqInv, Sound
  <1>i. ~up => \A t \in Tasks : call[t].pc = "idle"
    BY <1>a DEF Calling, Phases, Tasks, On
  <1>1. SeqInv'
    BY <1>a, <1>i, StoreKept DEF SeqTypeOK, CallType
  <1>2. Legible' = Legible /\ Chances' = Chances /\ Lead' = Lead
    BY DEF Legible, Chances, Lead
  <1>3. Ordered' /\ Rightful'
    BY <1>a, <1>2 DEF Ordered, Rightful, Right, Pending, Elected, On
  <1>4. Copies'
    BY <1>a DEF Copies, Busy
  <1>5. Calling'
    BY <1>a DEF Calling, On
  <1>6. prep \in Chances
    BY DEF Chances
  <1>7. Kin /\ Configured /\ Floored
    BY <1>a
  <1>8. /\ prep.floor \in 0..Limit /\ prep.reset \in Nat /\ config'.reset \in Nat
        /\ \A r \in Chances : r.phase # 0 /\ prep.phase # 0 => r.kind = prep.kind /\ r.reset = prep.reset
        /\ \A r \in Chances \cup {prep} : r.kind = "reset" =>
             config'.reset <= r.reset /\ (r.phase >= ConfigDurable => config'.reset = r.reset)
        /\ prep.kind = "reset" /\ prep.phase >= FloorDurable =>
             ram.reset = prep.reset /\ \A k \in Keys : Elected(k) => slots[k].state.reset = prep.reset
    BY <1>6, <1>7 DEF Kin, Configured, Floored
  <1>9. power' \in {"on", "halted"} /\ Chances' \subseteq Chances \cup {prep}
    BY <1>2 DEF On
  <1>10. QED BY <1>1, <1>3, <1>4, <1>5, <1>8, <1>9, StoreHeld

LEMMA EndsIs ==
    ASSUME ResetInv, NEW ok \in BOOLEAN, NEW r, Ends(ok, r)
    PROVE  /\ ctl' = Loop /\ ctl'.pc = "loop" /\ (up => up') /\ Effects'
           /\ power' = power \/ (power' = "halted" /\ ~up)
           /\ ok => power' = power
  <1>1. up \in BOOLEAN /\ ctl' = Loop /\ ctl'.pc = "loop"
    BY DEF ResetInv, ResetSound, ControlForm, Ends, Loop
  <1>2. QED BY <1>1 DEF Ends, Effects

LEMMA CommandAgrees ==
    ASSUME ResetInv, AgreeInv, BeginPrepare \/ DropPrepared \/ BeginCommit \/ Resume \/ Unprepared
                                 \/ Refuse \/ MarkRunning
    PROVE  AgreeInv'
  <1>1. /\ On /\ (Faulty \/ NoFault) /\ ctl.pc \notin {"journal", "raising"} /\ up' = up /\ power' = power
        /\ UNCHANGED <<slots, selector, ram, call, handed, best, crashes, prep, journal, config>>
    BY DEF BeginPrepare, DropPrepared, BeginCommit, Resume, Unprepared, Refuse, MarkRunning, Idle,
           NoFault, seqVars, storeVars, Store
  <1>2. ctl'.pc \notin {"journal", "record"}
    <2>1. CASE \E then : Erasing(then)
      BY <2>1, ErasingIs
    <2>2. CASE \E pc \in {"intent", "unprepared", "refuse", "effect"} : Goto(pc)
      BY <2>2, GotoIs
    <2>3. CASE ctl' = Loop
      BY <2>3 DEF Loop
    <2>4. CASE ctl' = ctl /\ ctl.pc = "loop"
      BY <2>4
    <2>5. QED BY <2>1, <2>2, <2>3, <2>4 DEF BeginPrepare, DropPrepared, BeginCommit, Resume,
                                            Unprepared, Refuse, MarkRunning
  <1>3. Effects'
    BY <1>2 DEF Effects
  <1>4. QED BY <1>1, <1>2, <1>3, ControlGoes

LEMMA CleanupAgrees == ASSUME ResetInv, AgreeInv, Cleanup PROVE AgreeInv'
  <1>1. /\ On /\ (Faulty \/ NoFault) /\ ctl.pc \notin {"journal", "raising"} /\ up' = up /\ power' = power
        /\ UNCHANGED <<slots, selector, ram, call, handed, best, crashes, prep, journal, config>>
    BY DEF Cleanup, Store
  <1>2. ctl'.pc \in {"erase_a", "loop"}
    BY ErasingIs DEF Cleanup, Loop
  <1>3. Effects'
    BY <1>2 DEF Effects
  <1>4. QED BY <1>1, <1>2, <1>3, ControlGoes

LEMMA EraseFailsAgrees == ASSUME ResetInv, AgreeInv, EraseFails PROVE AgreeInv'
  <1>1. /\ On /\ Faulty /\ ctl.pc \notin {"journal", "raising"}
        /\ UNCHANGED <<slots, selector, ram, call, handed, best, crashes, prep, journal, config>>
        /\ ctl.then \in {"loop", "prepare", "refuse"}
    BY DEF EraseFails, Store, ResetInv, ResetSound, ControlForm
  <1>2. CASE ctl.then = "refuse"
    <2>1. Goto("refuse") /\ UNCHANGED <<up, power>>
      BY <1>2 DEF EraseFails
    <2>2. ctl'.pc = "refuse" /\ Effects'
      BY <2>1, GotoIs DEF Effects
    <2>3. QED BY <1>1, <2>1, <2>2, ControlGoes
  <1>3. CASE ctl.then = "prepare"
    <2>1. Erasing("loop") /\ UNCHANGED <<up, power>>
      BY <1>3 DEF EraseFails
    <2>2. ctl'.pc = "erase_a" /\ Effects'
      BY <2>1, ErasingIs DEF Effects
    <2>3. QED BY <1>1, <2>1, <2>2, ControlGoes
  <1>4. CASE ctl.then = "loop"
    <2>1. Ends(FALSE, prep)
      BY <1>4 DEF EraseFails
    <2>2. QED BY <1>1, <2>1, EndsIs, ControlGoes
  <1>5. QED BY <1>1, <1>2, <1>3, <1>4

LEMMA FormatAgrees == ASSUME ResetInv, AgreeInv, Format \/ Result PROVE AgreeInv'
  <1>1. /\ On /\ ctl.pc = "effect" /\ EffectOf(prep) \in {"format", "result"}
        /\ UNCHANGED <<slots, selector, ram, call, handed, best, crashes, prep, journal, config>>
    BY DEF Format, Result, Now, Store
  <1>2. CASE Goto("record") /\ NoFault /\ UNCHANGED <<up, power>>
    <2>1. ctl'.pc = "record" /\ EffectOf(prep)' = EffectOf(prep)
      BY <1>1, <1>2, GotoIs DEF EffectOf
    <2>2. Effects'
      BY <1>1, <2>1 DEF Effects
    <2>3. QED BY <1>1, <1>2, <2>1, <2>2, ControlGoes
  <1>3. CASE (Faulty \/ NoFault) /\ Ends(FALSE, prep)
    BY <1>1, <1>3, EndsIs, ControlGoes
  <1>4. QED BY <1>2, <1>3 DEF Format, Result

\* The journal is erased slot by slot: the record in RAM promises nothing by then.
LEMMA EraseAgrees == ASSUME ResetInv, AgreeInv, EraseFirst \/ EraseSecond PROVE AgreeInv'
  <1>a. /\ SeqInv /\ Kin /\ Ordered /\ Configured /\ Rightful /\ Copies /\ Calling
        /\ ResetSound
    BY DEF AgreeInv, ResetInv
  <1>1. /\ On /\ Erases /\ ctl.pc \notin {"journal", "raising", "record"} /\ NoFault
        /\ UNCHANGED <<slots, selector, ram, call, handed, best, crashes, config>>
    BY DEF EraseFirst, EraseSecond, Erases, NoFault, seqVars, storeVars, Store
  <1>2. PICK k \in Keys : journal' = [journal EXCEPT ![k] = Absent]
    BY DEF EraseFirst, EraseSecond, Keys
  <1>3. Legible' \subseteq Legible /\ \A j \in Legible' : journal'[j] = journal[j]
    BY <1>2, ErasedIs DEF Legible
  <1>4. prep' \in {prep, NoRecord} /\ Chances' \subseteq Chances \cup {NoRecord}
    <2>1. prep' \in {prep, NoRecord}
      BY DEF EraseFirst, EraseSecond
    <2>2. QED BY <1>3, <2>1 DEF Chances
  <1>5. power' = power /\ (up => up') /\ ctl'.pc \notin {"journal", "raising", "record"}
    <2>1. CASE EraseFirst
      BY <2>1, GotoIs DEF EraseFirst, seqVars
    <2>2. CASE EraseSecond /\ ctl.then = "loop"
      <3>1. Ends(TRUE, NoRecord)
        BY <2>2 DEF EraseSecond
      <3>2. QED BY <3>1, EndsIs
    <2>3. CASE EraseSecond /\ ctl.then # "loop"
      <3>1. Goto(ctl.then) /\ UNCHANGED <<up, power>> /\ ctl.then \in {"prepare", "refuse"}
        BY <1>a, <2>3 DEF EraseSecond, ResetSound, ControlForm
      <3>2. QED BY <3>1, GotoIs
    <2>4. QED BY <2>1, <2>2, <2>3
  <1>6. SeqInv'
    BY <1>a, <1>1, <1>5, StoreKept
  <1>7. Ordered'
    BY <1>a, <1>3 DEF Ordered
  <1>8. Rightful'
    <2>1. prep.phase \in {0, 1, 7} /\ Lead = prep
      BY <1>a, <1>1 DEF ResetSound, Position, Prepared, ResultAcknowledged, Lead
    <2>2. \A x : Right(x) => x = config.reset
      BY <2>1 DEF Right, Pending, Intent, FormatDurable
    <2>3. \A j \in Keys : Elected(j)' <=> Elected(j)
      BY <1>1 DEF Elected
    <2>4. QED BY <1>a, <1>1, <1>5, <2>2, <2>3 DEF Rightful, Right, On
  <1>9. call["control"].pc = "idle" /\ Copies' /\ Calling' /\ Effects'
    <2>1. call["control"].pc = "idle" /\ ~Busy("control")
      BY <1>a, <1>1 DEF Calling, Busy, InFlight
    <2>2. Copies'
      BY <1>a, <1>1, <2>1 DEF Copies, Busy
    <2>3. Calling' /\ Effects'
      BY <1>a, <1>1, <1>5, <2>1 DEF Calling, Effects, On
    <2>4. QED BY <2>1, <2>2, <2>3
  <1>10. /\ NoRecord.floor \in 0..Limit /\ NoRecord.reset \in Nat /\ NoRecord.phase = 0
         /\ NoRecord.kind = "format"
    BY SequenceAssumption DEF NoRecord
  <1>11. /\ config'.reset \in Nat
         /\ \A r \in Chances \cup {NoRecord} : r.kind = "reset" =>
              config'.reset <= r.reset /\ (r.phase >= ConfigDurable => config'.reset = r.reset)
    BY <1>a, <1>1, <1>10 DEF Configured
  <1>12. QED BY <1>1, <1>4, <1>5, <1>6, <1>7, <1>8, <1>9, <1>10, <1>11, StoreHeld DEF On

-----------------------------------------------------------------------------
(* Writing a record.                                                       *)

LEMMA OrderedAfter ==
    ASSUME ResetInv, Ordered, NEW new, new.gen = prep.gen + 1, new.phase >= Prepared,
           new.phase \in Nat,
           \/ Legible = {}
           \/ journal[Key(prep.gen)] = [read |-> "ok", rec |-> prep] /\ new.phase >= prep.phase,
           Journal', journal'[Key(prep.gen)] = journal[Key(prep.gen)],
           \A k \in Legible' : journal'[k].rec = new \/ (k \in Legible /\ journal'[k] = journal[k])
    PROVE  Ordered'
  <1>g. prep.gen \in Nat /\ prep.phase \in Nat
    BY PrepIsChance DEF RecordForm
  <1>k. /\ Key(prep.gen) \in Keys /\ Key(new.gen) \in Keys /\ Key(new.gen) # Key(prep.gen)
        /\ Keys = {Key(prep.gen), Key(new.gen)}
    BY <1>g, KeyTurns DEF Keys
  <1>1. \A k \in Legible' : k \in Keys /\ (journal'[k].rec = new => k = Key(new.gen))
    <2>1. \A k \in Legible' : k \in Keys /\ Key(journal'[k].rec.gen) = k
      BY DEF Journal, Legible, Key
    <2>2. QED BY <2>1
  <1>2. \A k \in Legible' : k = Key(prep.gen) =>
            journal'[k].rec = prep /\ (Legible # {}) /\ new.phase >= prep.phase
    <2>1. ASSUME NEW k \in Legible', k = Key(prep.gen) PROVE k \in Legible
      BY <1>k, <2>1 DEF Legible
    <2>2. QED BY <2>1
  <1>3. \A k \in Legible' : journal'[k].rec.phase >= Prepared
    BY DEF Ordered
  <1>4. ASSUME NEW j \in Legible', NEW k \in Legible', journal'[j].rec.gen >= journal'[k].rec.gen
        PROVE  journal'[j].rec.phase >= journal'[k].rec.phase
    <2>1. CASE j \in Legible /\ k \in Legible /\ journal'[j] = journal[j] /\ journal'[k] = journal[k]
      BY <1>4, <2>1 DEF Ordered
    <2>2. CASE journal'[j].rec = new /\ journal'[k].rec = new
      BY <2>2
    <2>3. CASE journal'[j].rec = new /\ journal'[k].rec # new
      <3>1. j = Key(new.gen)
        BY <1>1, <2>3
      <3>2. CASE k = Key(prep.gen)
        BY <1>2, <2>3, <3>2
      <3>3. CASE k = Key(new.gen)
        BY <2>3, <3>1, <3>3
      <3>4. QED BY <1>1, <1>k, <3>2, <3>3
    <2>4. CASE journal'[k].rec = new /\ journal'[j].rec # new
      <3>1. k = Key(new.gen) /\ j # k
        BY <1>1, <2>4
      <3>2. j = Key(prep.gen) /\ journal'[j].rec = prep
        BY <1>1, <1>2, <1>k, <3>1
      <3>3. prep.gen >= prep.gen + 1
        BY <1>4, <2>4, <3>2
      <3>4. QED BY <1>g, <3>3
    <2>5. QED BY <2>1, <2>2, <2>3, <2>4
  <1>5. QED BY <1>3, <1>4 DEF Ordered

\* A record is written, or its write fails.
LEMMA WriteAgrees ==
    ASSUME ResetInv, AgreeInv, On, ctl.pc \notin {"journal", "raising"}, ctl'.pc # "journal",
           NEW r, RecordForm(r), r.phase >= Prepared, r.floor \in 0..Limit, r.reset \in Nat,
           Records(r) \/ RecordFails(r),
           \/ Legible = {} /\ prep = NoRecord
           \/ /\ journal[Key(prep.gen)] = [read |-> "ok", rec |-> prep] /\ prep.id \in {0, r.id}
              /\ prep.phase >= Prepared /\ r.phase >= prep.phase
              /\ r.kind = prep.kind /\ r.reset = prep.reset,
           r.kind = "reset" =>
             config.reset <= r.reset /\ (r.phase >= ConfigDurable => config.reset = r.reset),
           r.kind = "reset" /\ r.phase >= FloorDurable =>
             ram.reset = r.reset /\ \A k \in Keys : Elected(k) => slots[k].state.reset = r.reset,
           \A x : Right(x) => \/ x = config.reset
                              \/ r.kind = "reset" /\ r.phase \in Intent..FormatDurable /\ x = r.reset,
           UNCHANGED <<slots, selector, ram, call, handed, best, crashes, config>>,
           up => up', power' = power \/ (power' = "halted" /\ ~up), Effects'
    PROVE  AgreeInv'
  <1>a. SeqInv /\ Kin /\ Ordered /\ Configured /\ Rightful /\ Copies /\ Calling /\ SeqTypeOK /\ Phases
    BY DEF AgreeInv, SeqInv, Sound
  <1>i. ~up => \A t \in Tasks : call[t].pc = "idle"
    BY <1>a DEF Calling, Phases, Tasks, On
  <1>1. SeqInv'
    <2>1. Faulty \/ NoFault
      BY DEF Records, RecordFails
    <2>2. QED BY <1>a, <1>i, <2>1, StoreKept DEF SeqTypeOK, CallType
  <1>2. PICK new :
          /\ RecordForm(new) /\ new.phase = r.phase /\ new.kind = r.kind
          /\ new.floor = r.floor /\ new.reset = r.reset /\ new.gen = prep.gen + 1
          /\ \A k \in Legible' : journal'[k].rec = new \/ (k \in Legible /\ journal'[k] = journal[k])
          /\ Chances' \subseteq Chances \cup {new}
          /\ journal'[Key(prep.gen)] = journal[Key(prep.gen)]
          /\ Records(r) => prep' = new
          /\ RecordFails(r) => prep' = prep
    BY Persisting
  <1>3. Journal'
    BY Persisting
  <1>4. Ordered'
    <2>1. new.phase \in Nat
      BY <1>2 DEF RecordForm
    <2>2. QED BY <1>a, <1>2, <1>3, <2>1, OrderedAfter
  <1>5. \A s \in Chances : s.phase # 0 /\ new.phase # 0 => s.kind = new.kind /\ s.reset = new.reset
    <2>1. CASE Legible = {} /\ prep = NoRecord
      BY <2>1, NoRecordForm DEF Chances
    <2>2. CASE prep.phase >= Prepared /\ r.kind = prep.kind /\ r.reset = prep.reset
      <3>1. prep \in Chances /\ prep.phase # 0
        BY <2>2 DEF Chances, Prepared
      <3>2. QED BY <1>a, <1>2, <2>2, <3>1 DEF Kin
    <2>3. QED BY <2>1, <2>2
  <1>6. Rightful'
    <2>1. Lead' = prep'
      BY DEF Lead
    <2>2. \A x : Right(x) => Right(x)'
      <3>1. CASE Records(r)
        BY <1>2, <2>1, <3>1 DEF Right, Pending
      <3>2. CASE RecordFails(r)
        BY <1>2, <2>1, <3>2 DEF Right, Pending, Lead
      <3>3. QED BY <3>1, <3>2
    <2>3. \A k \in Keys : Elected(k)' <=> Elected(k)
      BY DEF Elected
    <2>4. \A k \in Keys : Elected(k) => Right(slots[k].state.reset)
      BY <1>a DEF Rightful
    <2>5. \A k \in Keys : Elected(k)' => Right(slots[k].state.reset)'
      BY <2>2, <2>3, <2>4 DEF Right, Pending
    <2>6. On' => Right(ram.reset)'
      BY <1>a, <2>2 DEF Rightful, Right, Pending
    <2>7. QED BY <2>5, <2>6 DEF Rightful
  <1>7. Copies' /\ Calling'
    <2>1. call["control"].pc = "idle" /\ ~Busy("control")
      BY <1>a DEF Calling, Busy, InFlight
    <2>2. Copies'
      BY <1>a, <2>1 DEF Copies, Busy
    <2>3. Calling'
      BY <1>a, <2>1 DEF Calling, On
    <2>4. QED BY <2>2, <2>3
  <1>8. /\ config'.reset \in Nat
        /\ \A s \in Chances \cup {new} : s.kind = "reset" =>
             config'.reset <= s.reset /\ (s.phase >= ConfigDurable => config'.reset = s.reset)
        /\ new.kind = "reset" /\ new.phase >= FloorDurable =>
             ram.reset = new.reset /\ \A k \in Keys : Elected(k) => slots[k].state.reset = new.reset
    BY <1>a, <1>2 DEF Configured
  <1>9. power' \in {"on", "halted"} /\ new.floor \in 0..Limit /\ new.reset \in Nat
    BY <1>2 DEF On
  <1>10. QED BY <1>1, <1>2, <1>4, <1>5, <1>6, <1>7, <1>8, <1>9, StoreHeld

\* A prepare takes the generation after the one in RAM, which is the configuration's.
LEMMA PrepareAgrees == ASSUME ResetInv, AgreeInv, Prepare PROVE AgreeInv'
  <1>1. PICK kind \in Kinds, server \in ServerFloors :
          LET r == [NoRecord EXCEPT !.phase = Prepared, !.kind = kind,
                                    !.floor = IF kind = "reset" THEN FloorFor(server) ELSE 0,
                                    !.reset = IF kind = "reset" THEN ram.reset + 1 ELSE 0]
          IN  /\ r.floor <= Limit
              /\ \/ Records(r) /\ ctl' = Loop
                 \/ RecordFails(r) /\ Erasing("loop")
    BY DEF Prepare
  <1> DEFINE floor == IF kind = "reset" THEN FloorFor(server) ELSE 0
             reset == IF kind = "reset" THEN ram.reset + 1 ELSE 0
             r == [NoRecord EXCEPT !.phase = Prepared, !.kind = kind, !.floor = floor, !.reset = reset]
  <1>a. SeqTypeOK /\ Rightful /\ ResetSound
    BY DEF AgreeInv, SeqInv, ResetInv
  <1>p. /\ On /\ ctl.pc = "prepare" /\ UNCHANGED <<power, up>>
        /\ UNCHANGED <<slots, selector, ram, call, handed, best, crashes, config>>
    BY DEF Prepare, Store
  <1>3. /\ r.floor <= Limit
        /\ \/ Records(r) /\ ctl' = Loop
           \/ RecordFails(r) /\ Erasing("loop")
    BY <1>1
  <1>4. ram.seen \in Nat /\ ram.reset \in Nat /\ server \in Nat /\ Limit \in Nat
    BY <1>a, StateNumbers, ResetAssumption DEF SeqTypeOK
  <1>5. FloorFor(server) \in Nat
    <2>1. server + ram.seen \in Nat /\ {server, ram.seen} \in SUBSET (0 .. (server + ram.seen))
      BY <1>4
    <2>2. Max({server, ram.seen}) \in {server, ram.seen}
      BY <2>1, GreatestNumber
    <2>3. QED BY <1>4, <2>2 DEF FloorFor
  <1>6. floor \in Nat /\ reset \in Nat
    BY <1>4, <1>5
  <1>r. kind = "reset" => reset = ram.reset + 1
    OBVIOUS
  <1> HIDE DEF floor, reset
  <1>2. r = [phase |-> 1, kind |-> kind, id |-> 0, floor |-> floor, reset |-> reset, gen |-> 0]
    BY PreparedIs
  <1> HIDE DEF r
  <1>7. /\ r.phase = 1 /\ r.kind = kind /\ r.id = 0 /\ r.floor = floor /\ r.reset = reset /\ r.gen = 0
        /\ r = [phase |-> r.phase, kind |-> r.kind, id |-> r.id, floor |-> r.floor,
                reset |-> r.reset, gen |-> r.gen]
    BY <1>2
  <1>8. RecordForm(r) /\ r.floor \in 0..Limit /\ r.reset \in Nat
    BY <1>3, <1>4, <1>6, <1>7, ResetAssumption DEF RecordForm, Prepared, FloorDurable, ConfigDurable
  <1>9. Legible = {} /\ prep = NoRecord
    BY <1>a, <1>p DEF ResetSound, Position
  <1>10. \A x : Right(x) => x = config.reset
    <2>1. Lead.phase = 0
      BY <1>p, <1>9, NoRecordForm DEF Lead
    <2>2. QED BY <2>1 DEF Right, Pending, Intent, FormatDurable
  <1>11. ram.reset = config.reset
    BY <1>a, <1>p, <1>10 DEF Rightful
  <1>12. r.kind = "reset" => config.reset <= r.reset /\ ~(r.phase >= ConfigDurable)
    BY <1>4, <1>7, <1>11, <1>r DEF ConfigDurable
  <1>13. ~(r.phase >= FloorDurable) /\ r.phase >= Prepared
    BY <1>7 DEF FloorDurable, Prepared
  <1>14. ctl'.pc \in {"loop", "erase_a"} /\ Effects'
    <2>1. ctl'.pc \in {"loop", "erase_a"}
      BY <1>3, ErasingIs DEF Loop
    <2>2. QED BY <2>1 DEF Effects
  <1>15. QED BY <1>p, <1>3, <1>8, <1>9, <1>10, <1>12, <1>13, <1>14, WriteAgrees

\* What the record in RAM says.
LEMMA PrepSays ==
    ASSUME Configured, Floored
    PROVE  /\ config.reset \in Nat
           /\ prep.kind = "reset" => config.reset <= prep.reset
           /\ prep.kind = "reset" /\ prep.phase >= 5 => config.reset = prep.reset
           /\ prep.kind = "reset" /\ prep.phase >= 3 =>
                /\ \A k \in Keys : Elected(k) => slots[k].state.reset = prep.reset
                /\ On => ram.reset = prep.reset
  <1>1. prep \in Chances
    BY DEF Chances
  <1>2. QED BY <1>1 DEF Configured, Floored, ConfigDurable, FloorDurable

LEMMA IntentAgrees == ASSUME ResetInv, AgreeInv, CommitIntent PROVE AgreeInv'
  <1>a. Kin /\ Configured /\ Floored /\ ResetSound /\ prep \in Chances /\ RecordForm(prep)
    BY PrepIsChance DEF AgreeInv, ResetInv
  <1>p. /\ On /\ ctl.pc = "intent" /\ UNCHANGED <<power, up>>
        /\ UNCHANGED <<slots, selector, ram, call, handed, best, crashes, config>>
    BY DEF CommitIntent, Store
  <1>1. prep.phase = 1 /\ live /\ prep.id = 0
    BY <1>a, <1>p DEF ResetSound, Position, Prepared, RecordForm
  <1>2. Current \in 0..MaxCommits /\ Current # 0
    <2>1. \E i \in Ids : commits[i].state # "none"
      BY <1>a, <1>p DEF ResetSound, Deciding, Undecided
    <2>2. QED BY <2>1, CurrentIs, ResetAssumption DEF Ids
  <1> DEFINE r == IntentRecord
  <1>3. r = [phase |-> 2, kind |-> prep.kind, id |-> Current, floor |-> prep.floor,
             reset |-> prep.reset, gen |-> prep.gen]
    BY <1>a, IntentIs DEF IntentRecord, Intent
  <1>4. \/ Records(r) /\ Goto("effect")
        \/ RecordFails(r) /\ Erasing("refuse")
    BY DEF CommitIntent, DropIntent
  <1> HIDE DEF r
  <1>5. /\ RecordForm(r) /\ r.phase = 2 /\ r.kind = prep.kind /\ r.reset = prep.reset
        /\ r.floor = prep.floor
    BY <1>a, <1>2, <1>3 DEF RecordForm, Prepared, FloorDurable, ConfigDurable
  <1>6. r.floor \in 0..Limit /\ r.reset \in Nat
    BY <1>a, <1>5 DEF Kin
  <1>7. journal[Key(prep.gen)] = [read |-> "ok", rec |-> prep]
    BY <1>a, <1>p, <1>1 DEF ResetSound, Slotted, Prepared
  <1>8. r.kind = "reset" => config.reset <= r.reset /\ ~(r.phase >= ConfigDurable)
    BY <1>a, <1>5, PrepSays DEF ConfigDurable
  <1>9. /\ ~(r.phase >= FloorDurable) /\ r.phase >= Prepared /\ prep.phase >= Prepared
        /\ r.phase >= prep.phase
    BY <1>1, <1>5 DEF FloorDurable, Prepared
  <1>10. \A x : Right(x) => x = config.reset
    <2>1. Lead.phase = 1
      BY <1>p, <1>1 DEF Lead
    <2>2. QED BY <2>1 DEF Right, Pending, Intent, FormatDurable
  <1>11. ctl'.pc \in {"effect", "erase_a"} /\ Effects'
    <2>1. ctl'.pc \in {"effect", "erase_a"}
      BY <1>4, GotoIs, ErasingIs
    <2>2. QED BY <2>1 DEF Effects
  <1>12. QED BY <1>p, <1>1, <1>4, <1>5, <1>6, <1>7, <1>8, <1>9, <1>10, <1>11, WriteAgrees

\* The phases that say something of the store or of the configuration are recorded
\* after the effect that makes it true.
LEMMA PhaseAgrees == ASSUME ResetInv, AgreeInv, RecordPhase PROVE AgreeInv'
  <1>a. /\ Kin /\ Configured /\ Floored /\ Rightful /\ Ascending /\ Effects /\ ResetSound
        /\ prep \in Chances /\ RecordForm(prep) /\ SeqTypeOK
    BY PrepIsChance DEF AgreeInv, ResetInv, SeqInv
  <1>p. /\ On /\ ctl.pc = "record"
        /\ UNCHANGED <<slots, selector, ram, call, handed, best, crashes, config>>
    BY DEF RecordPhase, Store
  <1>1. Underway(prep) /\ prep.phase \in 2..5 /\ prep.id # 0
    BY <1>a, <1>p DEF ResetSound, Position, Underway, Intent, ConfigDurable, RecordForm, Prepared
  <1> DEFINE r == [prep EXCEPT !.phase = PhaseAfter(EffectOf(prep))]
  <1>2. /\ r.kind = prep.kind /\ r.id = prep.id /\ r.phase = PhaseAfter(EffectOf(prep))
        /\ r.floor = prep.floor /\ r.reset = prep.reset /\ RecordForm(r)
    BY <1>a, <1>1, PhaseGrows
  <1>3. \/ /\ Records(r)
           /\ \/ Goto("effect") /\ UNCHANGED <<up, power>>
              \/ Ends(TRUE, r)
        \/ RecordFails(r) /\ Ends(FALSE, prep)
    BY DEF RecordPhase
  <1> HIDE DEF r
  <1>4. r.phase \in 3..6 /\ r.phase >= prep.phase
    <2>1. PhaseAfter(EffectOf(prep)) \in 3..6
      BY <1>a, <1>1, PhasesOf DEF FloorDurable, ResultDurable
    <2>2. PhaseAfter(EffectOf(prep)) >= prep.phase
      BY <1>1 DEF PhaseAfter, EffectOf, Intent, FloorDurable, FormatDurable, ConfigDurable,
                  ResultDurable
    <2>3. QED BY <1>2, <2>1, <2>2
  <1>5. r.kind = "reset" => /\ EffectOf(prep) = "floor" => prep.phase = 2 /\ r.phase = 3
                            /\ EffectOf(prep) = "format" => prep.phase = 3 /\ r.phase = 4
                            /\ EffectOf(prep) = "config" => prep.phase = 4 /\ r.phase = 5
                            /\ EffectOf(prep) = "result" => prep.phase = 5 /\ r.phase = 6
                            /\ EffectOf(prep) \in {"floor", "format", "config", "result"}
    BY <1>1, <1>2 DEF PhaseAfter, EffectOf, Intent, FloorDurable, FormatDurable, ConfigDurable,
                      ResultDurable
  <1>6. journal[Key(prep.gen)] = [read |-> "ok", rec |-> prep]
    BY <1>a, <1>1 DEF ResetSound, Slotted, Intent, ResultDurable
  <1>7. r.floor \in 0..Limit /\ r.reset \in Nat /\ config.reset \in Nat
    BY <1>a, <1>2 DEF Kin, Configured
  <1>8. r.kind = "reset" =>
          config.reset <= r.reset /\ (r.phase >= ConfigDurable => config.reset = r.reset)
    <2>1. EffectOf(prep) = "config" => config.reset = prep.reset
      BY <1>a, <1>p DEF Effects
    <2>2. QED BY <1>a, <1>2, <1>5, <2>1, PrepSays DEF ConfigDurable
  <1>9. r.kind = "reset" /\ r.phase >= FloorDurable =>
          ram.reset = r.reset /\ \A k \in Keys : Elected(k) => slots[k].state.reset = r.reset
    <2>1. CASE r.kind = "reset" /\ EffectOf(prep) = "floor"
      <3>1. ram.reset = r.reset
        BY <1>a, <1>p, <1>2, <2>1 DEF Effects
      <3>2. ASSUME NEW k \in Keys, Elected(k) PROVE slots[k].state.reset = r.reset
        <4>1. slots[k].state.reset >= ram.reset /\ Right(slots[k].state.reset)
          BY <1>a, <1>p, <3>2 DEF Ascending, Running, On, Rightful
        <4>2. slots[k].state.reset = config.reset \/ slots[k].state.reset = r.reset
          BY <1>p, <1>2, <4>1 DEF Right, Pending, Lead
        <4>3. QED BY <1>7, <1>8, <2>1, <3>1, <4>1, <4>2
      <3>3. QED BY <3>1, <3>2
    <2>2. CASE r.kind = "reset" /\ EffectOf(prep) # "floor"
      <3>1. prep.phase >= FloorDurable /\ prep.kind = "reset"
        BY <1>2, <1>5, <2>2 DEF FloorDurable
      <3>2. QED BY <1>a, <1>p, <1>2, <3>1, PrepSays DEF FloorDurable
    <2>3. QED BY <2>1, <2>2
  <1>10. \A x : Right(x) => \/ x = config.reset
                            \/ r.kind = "reset" /\ r.phase \in Intent..FormatDurable /\ x = r.reset
    <2>1. ASSUME NEW x, Right(x), x # config.reset
          PROVE  r.kind = "reset" /\ r.phase \in Intent..FormatDurable /\ x = r.reset
      <3>1. prep.kind = "reset" /\ prep.phase \in 2..4 /\ x = prep.reset
        BY <1>p, <2>1 DEF Right, Pending, Lead, Intent, FormatDurable
      <3>2. EffectOf(prep) # "config"
        BY <1>a, <1>p, <2>1, <3>1 DEF Effects
      <3>3. r.phase \in 3..4
        BY <1>2, <1>5, <3>1, <3>2
      <3>4. QED BY <1>2, <3>1, <3>3 DEF Intent, FormatDurable
    <2>2. QED BY <2>1
  <1>11. /\ ctl'.pc # "journal" /\ (up => up') /\ Effects'
         /\ power' = power \/ (power' = "halted" /\ ~up)
    <2>1. CASE Goto("effect") /\ UNCHANGED <<up, power>>
      BY <2>1, GotoIs DEF Effects
    <2>2. CASE Ends(TRUE, r)
      BY <2>2, EndsIs
    <2>3. CASE Ends(FALSE, prep)
      BY <2>3, EndsIs
    <2>4. QED BY <1>3, <2>1, <2>2, <2>3
  <1>12. r.phase >= Prepared /\ prep.phase >= Prepared /\ (Records(r) \/ RecordFails(r))
    <2>1. Records(r) \/ RecordFails(r)
      BY <1>3
    <2>2. QED BY <1>1, <1>4, <2>1 DEF Prepared
  <1>13. QED BY <1>p, <1>2, <1>4, <1>6, <1>7, <1>8, <1>9, <1>10, <1>11, <1>12, WriteAgrees

LEMMA AcknowledgeAgrees == ASSUME ResetInv, AgreeInv, Acknowledge PROVE AgreeInv'
  <1>a. Kin /\ Configured /\ Floored /\ ResetSound /\ prep \in Chances /\ RecordForm(prep)
    BY PrepIsChance DEF AgreeInv, ResetInv
  <1>p. /\ On /\ ctl.pc = "loop" /\ UNCHANGED <<power, up>> /\ prep.phase = 6
        /\ UNCHANGED <<slots, selector, ram, call, handed, best, crashes, config>>
    BY DEF Acknowledge, Idle, Store, ResultDurable
  <1> DEFINE r == [prep EXCEPT !.phase = ResultAcknowledged]
  <1>1. /\ r.phase = 7 /\ r.kind = prep.kind /\ r.id = prep.id /\ r.floor = prep.floor
        /\ r.reset = prep.reset /\ r.gen = prep.gen
        /\ r = [phase |-> r.phase, kind |-> r.kind, id |-> r.id, floor |-> r.floor,
                reset |-> r.reset, gen |-> r.gen]
    BY <1>a DEF RecordForm, ResultAcknowledged
  <1>2. \/ Records(r) /\ Goto("cleanup")
        \/ RecordFails(r) /\ UNCHANGED ctl
    BY DEF Acknowledge
  <1> HIDE DEF r
  <1>3. RecordForm(r)
    BY <1>a, <1>p, <1>1 DEF RecordForm, FloorDurable, ConfigDurable, Prepared
  <1>4. journal[Key(prep.gen)] = [read |-> "ok", rec |-> prep]
    BY <1>a, <1>p DEF ResetSound, Slotted, Intent, ResultDurable
  <1>5. r.floor \in 0..Limit /\ r.reset \in Nat
    BY <1>a, <1>1 DEF Kin
  <1>6. r.kind = "reset" => config.reset <= r.reset /\ config.reset = r.reset
    BY <1>a, <1>p, <1>1, PrepSays
  <1>7. r.kind = "reset" =>
          ram.reset = r.reset /\ \A k \in Keys : Elected(k) => slots[k].state.reset = r.reset
    BY <1>a, <1>p, <1>1, PrepSays
  <1>8. \A x : Right(x) => x = config.reset
    <2>1. Lead.phase = 6
      BY <1>p DEF Lead
    <2>2. QED BY <2>1 DEF Right, Pending, Intent, FormatDurable
  <1>9. ctl'.pc \in {"loop", "cleanup"} /\ Effects'
    <2>1. ctl'.pc \in {"loop", "cleanup"}
      BY <1>p, <1>2, GotoIs
    <2>2. QED BY <2>1 DEF Effects
  <1>10. r.phase >= Prepared /\ prep.phase >= Prepared /\ r.phase >= prep.phase
    BY <1>p, <1>1 DEF Prepared
  <1>11. QED BY <1>p, <1>1, <1>2, <1>3, <1>4, <1>5, <1>6, <1>7, <1>8, <1>9, <1>10, WriteAgrees

-----------------------------------------------------------------------------
(* The effects that carry the generation.                                  *)

\* The records and the slots stay as they are.
LEMMA RecordsHeld ==
    ASSUME AgreeInv, SeqInv', On, UNCHANGED <<slots, ram, prep, journal, config>>, Lead' = Lead,
           power' \in {"on", "halted"}, Copies', Calling', Effects'
    PROVE  AgreeInv'
  <1>a. Kin /\ Ordered /\ Configured /\ Floored /\ Rightful
    BY DEF AgreeInv
  <1>1. Legible' = Legible /\ Chances' \subseteq Chances \cup {prep} /\ prep \in Chances
    BY DEF Legible, Chances
  <1>2. Ordered'
    BY <1>a, <1>1 DEF Ordered
  <1>3. Rightful'
    BY <1>a DEF Rightful, Right, Pending, Elected, On
  <1>4. /\ prep.floor \in 0..Limit /\ prep.reset \in Nat /\ config'.reset \in Nat
        /\ \A r \in Chances : r.phase # 0 /\ prep.phase # 0 => r.kind = prep.kind /\ r.reset = prep.reset
        /\ \A r \in Chances \cup {prep} : r.kind = "reset" =>
             config'.reset <= r.reset /\ (r.phase >= ConfigDurable => config'.reset = r.reset)
        /\ prep.kind = "reset" /\ prep.phase >= FloorDurable =>
             ram.reset = prep.reset /\ \A k \in Keys : Elected(k) => slots[k].state.reset = prep.reset
    BY <1>a, <1>1 DEF Kin, Configured, Floored
  <1>5. QED BY <1>1, <1>2, <1>3, <1>4, StoreHeld

LEMMA EffectIs ==
    ASSUME ResetInv, ctl.pc \in {"effect", "raising", "record"}
    PROVE  /\ EffectOf(prep) = "floor" => prep.kind = "reset" /\ prep.phase = 2
           /\ EffectOf(prep) = "config" => prep.kind = "reset" /\ prep.phase = 4
  BY DEF EffectOf, Intent, FormatDurable

LEMMA RaisedIs ==
    ASSUME NEW s \in SequenceState, SlotValid(s), NEW floor \in 0..Limit, NEW reset \in Nat,
           floor >= s.seen
    PROVE  /\ Raised(s, floor, reset) \in SequenceState /\ SlotValid(Raised(s, floor, reset))
           /\ Raised(s, floor, reset).gen = s.gen /\ Raised(s, floor, reset).reset = reset
           /\ Raised(s, floor, reset).ack >= s.ack /\ Raised(s, floor, reset).seen >= s.seen
  <1> DEFINE u == Raised(s, floor, reset)
  <1>1. /\ s.seen \in Nat /\ s.ack \in Nat /\ s.ack <= s.seen /\ Limit \in Nat
    BY StateNumbers DEF SlotValid
  <1>2. floor \in Nat /\ floor + 1 \in 1..Limit + 1
    BY <1>1
  <1>3. u \in SequenceState
    BY <1>2 DEF Raised, SequenceState
  <1>4. /\ u.seen = floor /\ u.next = floor + 1 /\ u.reserved = floor /\ u.ack = floor
        /\ u.reset = reset /\ u.gen = s.gen
    BY DEF Raised, SequenceState
  <1> HIDE DEF u
  <1>5. SlotValid(u)
    BY <1>2, <1>4 DEF SlotValid
  <1>6. u.ack >= s.ack /\ u.seen >= s.seen
    BY <1>1, <1>2, <1>4
  <1>7. QED BY <1>3, <1>4, <1>5, <1>6 DEF u

LEMMA RaiseAgrees ==
    ASSUME ResetInv, AgreeInv, overlaps \in Nat, overlaps' = 0, RaiseFloor
    PROVE  AgreeInv'
  <1>a. /\ SeqInv /\ Kin /\ Copies /\ Calling /\ SeqTypeOK /\ Working /\ prep \in Chances
    BY DEF AgreeInv, SeqInv, Sound, Chances
  <1>1. /\ On /\ ctl.pc = "effect" /\ EffectOf(prep) = "floor" /\ NoFault
        /\ UNCHANGED <<slots, selector, ram, handed, best, faults, crashes, prep, live, journal, config>>
    BY DEF RaiseFloor, Now, NoFault
  <1>e. EffectOf(prep)' = EffectOf(prep)
    BY <1>1 DEF EffectOf
  <1>2. CASE FloorReached(prep.floor, prep.reset) /\ Goto("record") /\ UNCHANGED <<call, power, up>>
    <2>1. ctl'.pc = "record"
      BY <1>2, GotoIs
    <2>2. Effects'
      BY <1>1, <1>2, <1>e DEF Effects, FloorReached
    <2>3. QED BY <1>1, <1>2, <2>1, <2>2, ControlGoes
  <1>3. CASE Ends(FALSE, prep) /\ UNCHANGED call
    BY <1>1, <1>3, EndsIs, ControlGoes
  <1>4. CASE /\ ~FloorReached(prep.floor, prep.reset) /\ ~FloorRefused(prep.floor, prep.reset)
             /\ BeginRaise("control", prep.floor, prep.reset)
             /\ Goto("raising")
             /\ UNCHANGED <<power, up, commits>>
    <2> DEFINE s == Raised(ram, prep.floor, prep.reset)
    <2>1. /\ prep.floor \in 0..Limit /\ prep.reset \in Nat /\ ram \in SequenceState
          /\ SlotValid(ram) /\ ram.seen \in Nat /\ ram.reset \in Nat
      BY <1>a, <1>1, StateNumbers DEF Kin, SeqTypeOK, Working, Running, On
    <2>2. prep.floor >= ram.seen /\ prep.reset >= ram.reset
      BY <1>4, <2>1 DEF FloorRefused
    <2>3. /\ s \in SequenceState /\ SlotValid(s) /\ s.gen = ram.gen /\ s.reset = prep.reset
          /\ s.ack >= ram.ack /\ s.seen >= ram.seen
      BY <2>1, <2>2, RaisedIs
    <2>4. MayCall("control") /\ Begin("control", "floor", s)
      BY <1>4 DEF BeginRaise
    <2> HIDE DEF s
    <2>5. Candidate("floor", s)
      BY <2>3 DEF Candidate
    <2>6. SeqInv'
      BY <1>a, <1>1, <1>4, <2>3, <2>4, <2>5, BeginStep DEF Tasks
    <2>7. /\ call'["control"].pc = "copied" /\ call'["control"].copy = s
          /\ \A t \in Tasks : t # "control" => call'[t] = call[t]
      <3>1. DOMAIN call = Tasks /\ "control" \in Tasks
        BY <1>a DEF SeqTypeOK, Tasks
      <3>2. QED BY <2>4, <3>1 DEF Begin, IdleCall
    <2>8. ctl'.pc = "raising"
      BY <1>4, GotoIs
    <2>9. Copies'
      BY <1>a, <1>1, <2>2, <2>3, <2>7 DEF Copies, Busy
    <2>10. Calling'
      BY <1>a, <1>1, <1>4, <2>7, <2>8 DEF Calling, Tasks, On
    <2>11. Effects' /\ Lead' = Lead /\ power' = "on"
      BY <1>1, <1>4, <2>8 DEF Effects, Lead, On
    <2>12. QED BY <1>1, <2>6, <2>9, <2>10, <2>11, RecordsHeld
  <1>5. QED BY <1>2, <1>3, <1>4 DEF RaiseFloor

LEMMA RaisedAgrees == ASSUME ResetInv, AgreeInv, FloorRaised PROVE AgreeInv'
  <1>a. /\ SeqInv /\ Copies /\ Calling /\ SeqTypeOK /\ Phases /\ call \in [Tasks -> CallType]
    BY DEF AgreeInv, SeqInv, Sound, SeqTypeOK, CallType
  <1>1. /\ On /\ ctl.pc = "raising" /\ call["control"].pc \in {"done", "failed"} /\ NoFault
        /\ call' = [call EXCEPT !["control"] = IdleCall]
        /\ UNCHANGED <<slots, selector, ram, handed, best, faults, crashes, prep, live, journal, config>>
    BY DEF FloorRaised, NoFault
  <1>c. /\ call'["control"].pc = "idle" /\ call' \in [Tasks -> CallType]
        /\ \A t \in Tasks : t # "control" => call'[t] = call[t]
    BY <1>a, <1>1, IdleCallType DEF Tasks
  <1>2. /\ power' = power \/ (power' = "halted" /\ ~up)
        /\ (up => up') /\ ctl'.pc \in {"record", "loop"} /\ Effects'
    <2>1. CASE call["control"].pc = "done"
      <3>1. Goto("record") /\ UNCHANGED <<up, power>> /\ EffectOf(prep) = "floor"
        BY <1>1, <2>1 DEF FloorRaised, ResetInv, ResetSound, Position
      <3>2. EffectOf(prep)' = "floor" /\ ctl'.pc = "record" /\ ram.reset = prep.reset
        BY <1>a, <1>1, <2>1, <3>1, GotoIs DEF EffectOf, Calling
      <3>3. QED BY <1>1, <3>1, <3>2 DEF Effects
    <2>2. CASE call["control"].pc # "done"
      <3>1. Ends(FALSE, prep)
        BY <2>2 DEF FloorRaised
      <3>2. QED BY <3>1, EndsIs
    <2>3. QED BY <2>1, <2>2
  <1>3. SeqInv'
    <2>1. CASE power' = power
      <3>1. faults' \in 0 .. MaxFaults /\ faults' >= faults
        BY <1>a, <1>1, SequenceAssumption DEF SeqTypeOK
      <3>2. QED BY <1>a, <1>1, <2>1, <3>1, TakeStep DEF Tasks
    <2>2. CASE power' = "halted" /\ ~up
      <3>1. \A t \in Tasks : call'[t].pc = "idle"
        BY <1>a, <1>1, <1>c, <2>2 DEF Calling, Phases, Tasks, On
      <3>2. QED BY <1>a, <1>1, <1>c, <2>2, <3>1, StoreKept
    <2>3. QED BY <1>2, <2>1, <2>2
  <1>4. Copies'
    BY <1>a, <1>1, <1>c DEF Copies, Busy, InFlight
  <1>5. Calling'
    BY <1>a, <1>1, <1>2, <1>c DEF Calling, Tasks, On
  <1>6. Lead' = Lead /\ power' \in {"on", "halted"}
    BY <1>1, <1>2 DEF Lead, On
  <1>7. QED BY <1>1, <1>2, <1>3, <1>4, <1>5, <1>6, RecordsHeld

\* The configuration takes over the generation that the store has by then.
LEMMA ConfigTakes ==
    ASSUME ResetInv, AgreeInv, On, ctl.pc = "effect", EffectOf(prep) = "config",
           config' = ConfigFor(prep), Faulty \/ NoFault,
           UNCHANGED <<slots, selector, ram, call, handed, best, crashes, prep, journal>>,
           power' = power \/ (power' = "halted" /\ ~up), up => up', ctl'.pc # "journal", Effects'
    PROVE  AgreeInv'
  <1>a. /\ SeqInv /\ Kin /\ Ordered /\ Configured /\ Floored /\ Rightful /\ Copies /\ Calling
        /\ SeqTypeOK /\ Phases /\ prep \in Chances
    BY DEF AgreeInv, SeqInv, Sound, Chances
  <1>i. ~up => \A t \in Tasks : call[t].pc = "idle"
    BY <1>a DEF Calling, Phases, Tasks, On
  <1>1. SeqInv'
    BY <1>a, <1>i, StoreKept DEF SeqTypeOK, CallType
  <1>2. prep.kind = "reset" /\ prep.phase = 4 /\ config'.reset = prep.reset
    BY EffectIs DEF ConfigFor
  <1>3. \A r \in Chances : r.phase # 0
    BY <1>a, <1>2 DEF Chances, Ordered, Prepared
  <1>4. \A r \in Chances : r.kind = "reset" => config'.reset = r.reset
    BY <1>a, <1>2, <1>3 DEF Kin
  <1>5. Legible' = Legible /\ Chances' \subseteq Chances \cup {prep}
    BY DEF Legible, Chances
  <1>6. Ordered'
    BY <1>a, <1>5 DEF Ordered
  <1>7. /\ ram.reset = prep.reset
        /\ \A k \in Keys : Elected(k) => slots[k].state.reset = prep.reset
    BY <1>a, <1>2, PrepSays
  <1>8. Rightful'
    <2>1. \A k \in Keys : Elected(k)' <=> Elected(k)
      BY DEF Elected
    <2>2. QED BY <1>2, <1>7, <2>1 DEF Rightful, Right
  <1>9. Copies' /\ Calling'
    <2>1. Copies'
      BY <1>a DEF Copies, Busy
    <2>2. Calling'
      BY <1>a DEF Calling, On
    <2>3. QED BY <2>1, <2>2
  <1>10. /\ prep.floor \in 0..Limit /\ prep.reset \in Nat /\ config'.reset \in Nat
         /\ \A r \in Chances : r.phase # 0 /\ prep.phase # 0 => r.kind = prep.kind /\ r.reset = prep.reset
    BY <1>a, <1>2 DEF Kin
  <1>11. \A r \in Chances \cup {prep} : r.kind = "reset" =>
            config'.reset <= r.reset /\ (r.phase >= ConfigDurable => config'.reset = r.reset)
    BY <1>a, <1>4, <1>10
  <1>12. power' \in {"on", "halted"}
    BY DEF On
  <1>13. QED BY <1>1, <1>5, <1>6, <1>7, <1>8, <1>9, <1>10, <1>11, <1>12, StoreHeld

LEMMA ConfigureAgrees == ASSUME ResetInv, AgreeInv, Configure PROVE AgreeInv'
  <1>1. /\ On /\ ctl.pc = "effect" /\ EffectOf(prep) = "config"
        /\ UNCHANGED <<slots, selector, ram, call, handed, best, crashes, prep, journal>>
    BY DEF Configure, Now, Store
  <1>2. CASE config' = ConfigFor(prep) /\ Goto("record") /\ NoFault /\ UNCHANGED <<up, power>>
    <2>1. ctl'.pc = "record" /\ EffectOf(prep)' = "config" /\ config'.reset = prep'.reset
      BY <1>1, <1>2, GotoIs DEF EffectOf, ConfigFor
    <2>2. Effects'
      BY <2>1 DEF Effects
    <2>3. QED BY <1>1, <1>2, <2>1, <2>2, ConfigTakes
  <1>3. CASE NoFault /\ Ends(FALSE, prep) /\ UNCHANGED config
    BY <1>1, <1>3, EndsIs, ControlGoes
  <1>4. CASE Faulty /\ config' \in {config, ConfigFor(prep)} /\ Ends(FALSE, prep)
    <2>1. /\ ctl'.pc = "loop" /\ (up => up') /\ Effects'
          /\ power' = power \/ (power' = "halted" /\ ~up)
      BY <1>4, EndsIs
    <2>2. CASE config' = config
      BY <1>1, <1>4, <2>1, <2>2, ControlGoes
    <2>3. CASE config' = ConfigFor(prep)
      BY <1>1, <1>4, <2>1, <2>3, ConfigTakes
    <2>4. QED BY <1>4, <2>2, <2>3
  <1>5. QED BY <1>2, <1>3, <1>4 DEF Configure

-----------------------------------------------------------------------------
(* The store's own steps, the boot and the power cut.                      *)

\* A call into pm_sequence.c by a task that had none.
LEMMA DrawAgrees ==
    ASSUME AgreeInv, overlaps \in Nat, overlaps' = 0, Draw
    PROVE  AgreeInv'
  <1>a. SeqInv /\ Copies /\ Calling /\ Effects /\ SeqTypeOK /\ call \in [Tasks -> CallType]
    BY DEF AgreeInv, SeqInv, SeqTypeOK, CallType
  <1>1. /\ On /\ up /\ BeginNext /\ UNCHANGED <<power, slots, selector, ram, prep, journal, config>>
        /\ UNCHANGED <<up, ctl>>
    BY DEF Draw, BeginNext, resetVars
  <1>2. SeqInv'
    BY <1>a, <1>1, BeginNextStep
  <1>3. PICK op \in {"reserve", "allocate"}, s \in {Reserved(ram), Allocated(ram)} :
          Begin("interval", op, s)
    BY <1>1 DEF BeginNext
  <1>4. s.reset = ram.reset
    BY <1>a, <1>3, ResetFields DEF SeqTypeOK
  <1>5. /\ call'["interval"].copy = s /\ \A t \in Tasks : t # "interval" => call'[t] = call[t]
    <2>1. "interval" \in Tasks /\ DOMAIN call = Tasks
      BY <1>a DEF Tasks
    <2>2. QED BY <1>3, <2>1 DEF Begin, IdleCall
  <1>6. Copies'
    BY <1>a, <1>1, <1>4, <1>5 DEF Copies, Busy
  <1>7. Calling'
    BY <1>a, <1>1, <1>5 DEF Calling, Tasks
  <1>8. Effects' /\ Lead' = Lead /\ power' = "on"
    BY <1>a, <1>1 DEF Effects, EffectOf, Lead, Legible, NewestRecord, On
  <1>9. QED BY <1>1, <1>2, <1>6, <1>7, <1>8, RecordsHeld

LEMMA DrawnAgrees == ASSUME AgreeInv, Drawn PROVE AgreeInv'
  <1>a. SeqInv /\ Copies /\ Calling /\ Effects /\ SeqTypeOK /\ call \in [Tasks -> CallType]
    BY DEF AgreeInv, SeqInv, SeqTypeOK, CallType
  <1>1. /\ On /\ call["interval"].pc \in {"done", "failed"}
        /\ call' = [call EXCEPT !["interval"] = IdleCall]
        /\ UNCHANGED <<power, slots, selector, ram, handed, best, faults, crashes>>
        /\ UNCHANGED <<prep, journal, config, up, ctl>>
    BY DEF Drawn, resetVars
  <1>2. SeqInv'
    <2>1. faults' \in 0 .. MaxFaults /\ faults' >= faults
      BY <1>a, <1>1, SequenceAssumption DEF SeqTypeOK
    <2>2. QED BY <1>a, <1>1, <2>1, TakeStep DEF Tasks
  <1>3. call'["interval"].pc = "idle" /\ \A t \in Tasks : t # "interval" => call'[t] = call[t]
    BY <1>a, <1>1, IdleCallType DEF Tasks
  <1>4. Copies'
    BY <1>a, <1>1, <1>3 DEF Copies, Busy, InFlight
  <1>5. Calling'
    BY <1>a, <1>1, <1>3 DEF Calling, Tasks
  <1>6. Effects' /\ Lead' = Lead /\ power' = "on"
    BY <1>a, <1>1 DEF Effects, EffectOf, Lead, Legible, NewestRecord, On
  <1>7. QED BY <1>1, <1>2, <1>4, <1>5, <1>6, RecordsHeld

\* A step of the store: what it has to show.
LEMMA StoreGoes ==
    ASSUME AgreeInv, SeqInv', UNCHANGED resetVars,
           \A k \in Keys : Elected(k)' =>
             /\ Right(slots'[k].state.reset) /\ (Running' => slots'[k].state.reset >= ram'.reset)
             /\ \A r \in Chances : r.kind = "reset" /\ r.phase >= FloorDurable =>
                                     slots'[k].state.reset = r.reset,
           On' => /\ Right(ram'.reset)
                  /\ \A r \in Chances : r.kind = "reset" /\ r.phase >= FloorDurable =>
                                          ram'.reset = r.reset,
           ctl.pc = "record" => ram'.reset = ram.reset,
           Copies', Calling',
           power' = "loading" \/ (\A k \in Keys : slots'[k].read = "missing") =>
             ~On' /\ config.reset = 0 /\ Legible = {}
    PROVE  AgreeInv'
  <1>a. Kin /\ Ordered /\ Configured /\ Effects
    BY DEF AgreeInv
  <1>u. UNCHANGED <<up, ctl, prep, live, journal, config, commits>>
    BY DEF resetVars
  <1>1. Legible' = Legible /\ Chances' = Chances /\ Lead' = Lead
    BY <1>u DEF Legible, Chances, Lead, NewestRecord
  <1>2. Kin' /\ Ordered' /\ Configured'
    BY <1>a, <1>u, <1>1 DEF Kin, Ordered, Configured
  <1>3. \A x : Right(x)' <=> Right(x)
    BY <1>u, <1>1 DEF Right, Pending
  <1>4. Floored' /\ Ascending'
    BY <1>u, <1>1 DEF Floored, Ascending
  <1>5. Rightful'
    BY <1>u, <1>1 DEF Rightful, Right, Pending
  <1>6. Effects'
    BY <1>a, <1>u DEF Effects, EffectOf
  <1>7. Unused'
    BY <1>u, <1>1 DEF Unused
  <1>8. QED BY <1>2, <1>4, <1>5, <1>6, <1>7 DEF AgreeInv

\* The generation that a call is about to store is a right one.
LEMMA CopyFits ==
    ASSUME ResetInv, AgreeInv, NEW t \in Tasks, Busy(t), Running
    PROVE  /\ Right(call[t].copy.reset) /\ call[t].copy.reset >= ram.reset
           /\ call[t].copy.reset \in Nat /\ ram.reset \in Nat
           /\ \A r \in Chances : r.kind = "reset" /\ r.phase >= FloorDurable =>
                                   call[t].copy.reset = r.reset
           /\ t # "control" => call[t].copy.reset = ram.reset
           /\ t = "control" => call[t].copy.reset = prep.reset /\ ctl.pc = "raising"
  <1>a. /\ SeqTypeOK /\ Phases /\ Kin /\ Floored /\ Rightful /\ Copies /\ Calling /\ Unused
        /\ ResetSound /\ prep \in Chances
    BY DEF AgreeInv, SeqInv, Sound, ResetInv, Chances
  <1>n. call[t].copy.reset \in Nat /\ ram.reset \in Nat
    <2>1. call[t].copy \in SequenceState /\ ram \in SequenceState
      BY <1>a DEF SeqTypeOK
    <2>2. QED BY <2>1, StateNumbers
  <1>1. CASE t = "control"
    <2>1. /\ ctl.pc = "raising" /\ call[t].copy.reset = prep.reset /\ prep.reset >= ram.reset
      BY <1>a, <1>1 DEF Copies, Calling, Busy, InFlight
    <2>2. prep.kind = "reset" /\ prep.phase = 2
      BY <1>a, <2>1, EffectIs DEF ResetSound, Position
    <2>3. Right(prep.reset)
      BY <2>1, <2>2 DEF Right, Pending, Lead, Intent, FormatDurable
    <2>4. \A r \in Chances : r.kind = "reset" /\ r.phase >= FloorDurable => prep.reset = r.reset
      <3>1. \A r \in Chances : r.phase >= FloorDurable => r.phase # 0
        BY DEF FloorDurable
      <3>2. QED BY <1>a, <2>2, <3>1 DEF Kin
    <2>5. QED BY <1>1, <1>n, <2>1, <2>3, <2>4
  <1>2. CASE t # "control" /\ On
    <2>1. call[t].copy.reset = ram.reset
      BY <1>a, <1>2 DEF Copies
    <2>2. Right(ram.reset)
      BY <1>a, <1>2 DEF Rightful
    <2>3. \A r \in Chances : r.kind = "reset" /\ r.phase >= FloorDurable => ram.reset = r.reset
      BY <1>a, <1>2 DEF Floored
    <2>4. QED BY <1>2, <1>n, <2>1, <2>2, <2>3
  <1>3. CASE t # "control" /\ power = "loading"
    <2>1. call[t].copy.reset = ram.reset /\ ram.reset = 0
      BY <1>a, <1>3 DEF Copies, Phases, Fresh
    <2>2. config.reset = 0 /\ Legible = {} /\ prep = NoRecord
      BY <1>a, <1>3 DEF Unused, Calling, ResetSound, Position
    <2>3. \A r \in Chances : r.kind # "reset"
      BY <2>2 DEF Chances, NoRecord
    <2>4. QED BY <1>3, <1>n, <2>1, <2>2, <2>3 DEF Right
  <1>4. QED BY <1>1, <1>2, <1>3 DEF Running, On

\* A call goes on with its copy, or fails.
LEMMA CallGoes ==
    ASSUME AgreeInv, NEW t \in Tasks, Busy(t), UNCHANGED ram, UNCHANGED resetVars,
           power' = power \/ (power' = "halted" /\ t = "boot"),
           \/ Fails(t)
           \/ call' = [call EXCEPT ![t].pc = "planned", ![t].key = Inactive]
           \/ call' = [call EXCEPT ![t].pc = "written"]
           \/ call' = [call EXCEPT ![t].pc = "selected"]
    PROVE  Copies' /\ Calling'
  <1>a. Copies /\ Calling /\ call \in [Tasks -> CallType] /\ call[t] \in CallType
    BY DEF AgreeInv, SeqInv, SeqTypeOK, CallType
  <1>u. UNCHANGED <<up, ctl, prep, config>>
    BY DEF resetVars
  <1>2. /\ \A u \in Tasks : u # t => call'[u] = call[u]
        /\ call'[t].pc # "done" /\ (Busy(t)' => call'[t].copy = call[t].copy)
    <2>1. CASE Fails(t) /\ t = "boot"
      BY <1>a, <2>1, IdleCallType DEF Fails, Busy, InFlight
    <2>2. CASE Fails(t) /\ t # "boot"
      BY <1>a, <2>2 DEF Fails, CallType
    <2>3. CASE call' = [call EXCEPT ![t].pc = "planned", ![t].key = Inactive]
      BY <1>a, <2>3 DEF CallType
    <2>4. CASE \E pc \in {"written", "selected"} : call' = [call EXCEPT ![t].pc = pc]
      BY <1>a, <2>4 DEF CallType
    <2>5. QED BY <2>1, <2>2, <2>3, <2>4
  <1>3. t # "network" /\ (~up => t # "interval") /\ call[t].pc # "idle"
    BY <1>a DEF Calling, Busy, InFlight
  <1>4. Copies'
    <2>1. ASSUME NEW u \in Tasks, Busy(u)'
          PROVE  Busy(u) /\ call'[u].copy = call[u].copy
      BY <1>2, <2>1 DEF Busy
    <2>2. QED BY <1>a, <1>u, <2>1 DEF Copies
  <1>5. Calling'
    <2>1. call'["control"].pc # "idle" => ctl.pc = "raising"
      BY <1>a, <1>2, <1>3 DEF Calling, Tasks
    <2>2. call'["control"].pc = "done" => ram.reset = prep.reset
      BY <1>a, <1>2 DEF Calling, Tasks
    <2>3. call'["network"].pc = "idle" /\ (~up => call'["interval"].pc = "idle")
      BY <1>a, <1>2, <1>3 DEF Calling, Tasks
    <2>4. power' \in {"off", "loading"} => ctl.pc = "journal"
      BY <1>a DEF Calling
    <2>5. QED BY <1>u, <2>1, <2>2, <2>3, <2>4 DEF Calling
  <1>6. QED BY <1>4, <1>5

\* The slot is chosen or selected, or one of these fails.
LEMMA PlanAgrees ==
    ASSUME ResetInv, AgreeInv, NEW t \in Tasks, Plan(t) \/ SelectSlot(t), SeqInv', UNCHANGED resetVars
    PROVE  AgreeInv'
  <1>a. /\ SeqTypeOK /\ Phases /\ Floored /\ Rightful /\ Ascending /\ Copies /\ Calling /\ Unused
        /\ call \in [Tasks -> CallType] /\ call[t] \in CallType
    BY DEF AgreeInv, SeqInv, Sound, SeqTypeOK, CallType
  <1>u. UNCHANGED <<up, ctl, prep, config>>
    BY DEF resetVars
  <1>1. Busy(t) /\ UNCHANGED <<slots, ram>> /\ (power' = power \/ (power' = "halted" /\ t = "boot"))
    BY DEF Plan, SelectSlot, Busy, InFlight, Fails
  <1>4. Copies' /\ Calling'
    BY <1>1, CallGoes DEF Plan, SelectSlot
  <1>6. (On' => On) /\ (Running' => Running) /\ \A k \in Keys : Elected(k)' <=> Elected(k)
    BY <1>1 DEF On, Running, Elected
  <1>7. \A k \in Keys : Elected(k)' =>
             /\ Right(slots'[k].state.reset) /\ (Running' => slots'[k].state.reset >= ram'.reset)
             /\ \A r \in Chances : r.kind = "reset" /\ r.phase >= FloorDurable =>
                                     slots'[k].state.reset = r.reset
    <2>1. ASSUME NEW k \in Keys, Elected(k)'
          PROVE  Elected(k) /\ slots'[k].state.reset = slots[k].state.reset
      BY <1>1, <1>6, <2>1
    <2>2. QED BY <1>a, <1>1, <1>6, <2>1 DEF Floored, Rightful, Ascending
  <1>8. On' => /\ Right(ram'.reset)
               /\ \A r \in Chances : r.kind = "reset" /\ r.phase >= FloorDurable =>
                                       ram'.reset = r.reset
    BY <1>a, <1>1, <1>6 DEF Floored, Rightful
  <1>9. power' = "loading" \/ (\A k \in Keys : slots'[k].read = "missing") =>
             ~On' /\ config.reset = 0 /\ Legible = {}
    BY <1>a, <1>1, <1>6 DEF Unused
  <1>10. QED BY <1>1, <1>4, <1>7, <1>8, <1>9, StoreGoes

\* The candidate is written, whether or not the write fails.
LEMMA SlotAgrees ==
    ASSUME ResetInv, AgreeInv, NEW t \in Tasks, WriteSlot(t), SeqInv', UNCHANGED resetVars
    PROVE  AgreeInv'
  <1>a. /\ SeqInv /\ SeqTypeOK /\ Phases /\ Floored /\ Rightful /\ Ascending /\ Copies /\ Calling
        /\ Unused /\ call \in [Tasks -> CallType] /\ call[t] \in CallType
    BY DEF AgreeInv, SeqInv, Sound, SeqTypeOK, CallType
  <1>u. UNCHANGED <<up, ctl, prep, config>>
    BY DEF resetVars
  <1>1. Busy(t) /\ UNCHANGED ram /\ (power' = power \/ (power' = "halted" /\ t = "boot"))
    BY DEF WriteSlot, Busy, InFlight, Fails
  <1>r. Running
    <2>1. StoreStep
      BY DEF StoreStep
    <2>2. QED BY <1>a, <2>1, StoreStepRuns
  <1>4. Copies' /\ Calling'
    BY <1>1, CallGoes DEF WriteSlot
  <1>6. (On' => On) /\ (Running' => Running)
    BY <1>1 DEF On, Running
  <1>7. PICK left \in {slots[call[t].key], Holding(Persisted(call[t].copy)), Unreadable} :
          slots' = [slots EXCEPT ![call[t].key] = left]
    BY DEF WriteSlot
  <1>8. \A k \in Keys : Elected(k)' =>
             /\ Right(slots'[k].state.reset) /\ (Running' => slots'[k].state.reset >= ram'.reset)
             /\ \A r \in Chances : r.kind = "reset" /\ r.phase >= FloorDurable =>
                                     slots'[k].state.reset = r.reset
    <2>1. ASSUME NEW k \in Keys, Elected(k)'
          PROVE  /\ Right(slots'[k].state.reset) /\ slots'[k].state.reset >= ram'.reset
                 /\ \A r \in Chances : r.kind = "reset" /\ r.phase >= FloorDurable =>
                                         slots'[k].state.reset = r.reset
      <3>1. CASE slots' = slots /\ Elected(k) /\ slots'[k] = slots[k]
        BY <1>a, <1>1, <1>r, <3>1 DEF Floored, Rightful, Ascending
      <3>2. CASE slots'[k].state = Persisted(call[t].copy)
        <4>1. slots'[k].state.reset = call[t].copy.reset
          BY <1>a, <3>2, ResetFields DEF CallType
        <4>2. QED BY <1>1, <1>r, <4>1, CopyFits
      <3>3. QED BY <1>a, <1>1, <1>r, <1>7, <2>1, <3>1, <3>2, ElectedAfterWrite
    <2>2. QED BY <2>1
  <1>9. On' => /\ Right(ram'.reset)
               /\ \A r \in Chances : r.kind = "reset" /\ r.phase >= FloorDurable =>
                                       ram'.reset = r.reset
    BY <1>a, <1>1, <1>6 DEF Floored, Rightful
  <1>10. power' = "loading" \/ (\A k \in Keys : slots'[k].read = "missing") =>
             ~On' /\ config.reset = 0 /\ Legible = {}
    <2>1. CASE power' = "loading"
      BY <1>a, <1>1, <1>6, <2>1 DEF Unused
    <2>2. CASE \A k \in Keys : slots'[k].read = "missing"
      <3>1. call[t].key \in Keys /\ call[t].copy \in SequenceState /\ DOMAIN slots = Keys
        BY <1>a DEF CallType, SeqTypeOK
      <3>2. left.read = "missing" /\ \A k \in Keys : k # call[t].key => slots'[k] = slots[k]
        BY <1>7, <2>2, <3>1
      <3>3. left = slots[call[t].key]
        BY <3>1, <3>2, SlotTypes, PersistedType
      <3>4. \A k \in Keys : slots[k].read = "missing"
        BY <2>2, <3>2, <3>3
      <3>5. QED BY <1>a, <1>6, <3>4 DEF Unused
    <2>3. QED BY <2>1, <2>2
  <1>11. QED BY <1>1, <1>4, <1>8, <1>9, <1>10, StoreGoes

\* The RAM state becomes what a boot would take.
LEMMA AssignAgrees ==
    ASSUME ResetInv, AgreeInv, NEW t \in Tasks, Assign(t), SeqInv', UNCHANGED resetVars
    PROVE  AgreeInv'
  <1>a. /\ SeqInv /\ SeqTypeOK /\ Turns /\ Phases /\ Written /\ Floored /\ Rightful /\ Copies /\ Calling
        /\ call \in [Tasks -> CallType] /\ call[t] \in CallType
    BY DEF AgreeInv, SeqInv, Sound, SeqTypeOK, CallType
  <1>u. UNCHANGED <<up, ctl, prep, config>>
    BY DEF resetVars
  <1>1. /\ Busy(t) /\ call[t].pc = "selected" /\ UNCHANGED slots
        /\ ram' = Persisted(call[t].copy)
        /\ power' = IF call[t].op = "fresh" THEN "on" ELSE power
    BY DEF Assign, Busy, InFlight, Adopted
  <1>r. Running
    <2>1. StoreStep
      BY DEF StoreStep
    <2>2. QED BY <1>a, <2>1, StoreStepRuns
  <1>p. power' = "on" /\ (t = "boot" \/ On) /\ (~On => t = "boot" /\ call[t].op = "fresh")
    BY <1>a, <1>1, <1>r DEF Phases, Running, On
  <1>2. ram' \in SequenceState /\ ram'.reset = call[t].copy.reset
    BY <1>a, <1>1, ResetFields, PersistedType DEF CallType
  <1>f. /\ Right(ram'.reset) /\ ram'.reset \in Nat
        /\ \A r \in Chances : r.kind = "reset" /\ r.phase >= FloorDurable => ram'.reset = r.reset
        /\ t # "control" => ram'.reset = ram.reset
        /\ t = "control" => ram'.reset = prep.reset /\ ctl.pc = "raising"
    BY <1>1, <1>2, <1>r, CopyFits
  <1>3. \A u \in Tasks : u # t => call'[u] = call[u] /\ ~Busy(u)
    <2>1. \A u \in Tasks : u # t => call'[u] = call[u]
      BY <1>a DEF Assign
    <2>2. \A u \in Tasks : u # t => ~Busy(u)
      BY <1>a, <1>1 DEF Turns
    <2>3. QED BY <2>1, <2>2
  <1>4. /\ Busy(t)' => call'[t].copy.reset = ram'.reset
        /\ t # "boot" => call'[t].pc \in {"copied", "done"}
    <2> DEFINE new == Persisted(call[t].copy)
    <2>1. CASE call[t].op = "fresh"
      <3>1. call'[t] = IdleCall
        BY <1>a, <2>1 DEF Assign
      <3>2. t = "boot"
        BY <1>a, <1>1, <2>1 DEF Phases
      <3>3. QED BY <3>1, <3>2, IdleCallType DEF Busy, InFlight
    <2>2. CASE call[t].op = "reserve"
      <3>1. call'[t] = [call[t] EXCEPT !.pc = "copied", !.op = "allocate", !.copy = Allocated(new)]
        BY <1>a, <2>2 DEF Assign, Adopted
      <3>2. call'[t].pc = "copied" /\ call'[t].copy = Allocated(new)
        BY <1>a, <3>1 DEF CallType
      <3>3. Allocated(new).reset = new.reset
        BY <1>1, <1>2, ResetFields
      <3>4. QED BY <1>1, <3>2, <3>3
    <2>3. CASE call[t].op \notin {"fresh", "reserve"}
      <3>1. call'[t] = [call[t] EXCEPT !.pc = "done"]
        BY <1>a, <2>3 DEF Assign
      <3>2. call'[t].pc = "done"
        BY <1>a, <3>1 DEF CallType
      <3>3. QED BY <3>2 DEF Busy, InFlight
    <2>4. QED BY <2>1, <2>2, <2>3
  <1>5. Copies'
    <2>1. ASSUME NEW u \in Tasks, Busy(u)' PROVE u = t
      BY <1>3, <2>1 DEF Busy
    <2>2. t = "control" => prep'.reset >= ram'.reset /\ ram'.reset = prep'.reset
      BY <1>u, <1>f
    <2>3. QED BY <1>4, <2>1, <2>2 DEF Copies
  <1>6. Calling'
    <2>1. t # "network" /\ (~up => t # "interval")
      BY <1>a, <1>1 DEF Calling
    <2>2. call'["control"].pc # "idle" => ctl.pc = "raising"
      BY <1>a, <1>3, <1>f DEF Calling, Tasks
    <2>3. call'["control"].pc = "done" => ram'.reset = prep.reset
      <3>1. CASE t = "control"
        BY <1>f, <3>1
      <3>2. CASE t # "control"
        BY <1>a, <1>3, <1>f, <3>2 DEF Calling, Tasks
      <3>3. QED BY <3>1, <3>2
    <2>4. call'["network"].pc = "idle" /\ (~up => call'["interval"].pc = "idle")
      BY <1>a, <1>3, <2>1 DEF Calling, Tasks
    <2>5. QED BY <1>p, <1>u, <2>2, <2>3, <2>4 DEF Calling
  <1>7. \A k \in Keys : Elected(k)' =>
             /\ Right(slots'[k].state.reset) /\ (Running' => slots'[k].state.reset >= ram'.reset)
             /\ \A r \in Chances : r.kind = "reset" /\ r.phase >= FloorDurable =>
                                     slots'[k].state.reset = r.reset
    <2>1. ASSUME NEW k \in Keys, Elected(k)' PROVE slots'[k].state.reset = ram'.reset
      <3>1. Elected(k)
        BY <1>1, <2>1 DEF Elected
      <3>2. QED BY <1>a, <1>1, <1>r, <3>1, ElectedIsWritten
    <2>2. QED BY <1>f, <2>1
  <1>8. ~(power' = "loading") /\ ~(\A k \in Keys : slots'[k].read = "missing")
    <2>1. slots[call[t].key] = Holding(Persisted(call[t].copy)) /\ call[t].key \in Keys
      BY <1>a, <1>1 DEF Written, CallType
    <2>2. QED BY <1>1, <1>p, <2>1 DEF Holding
  <1>9. ctl.pc = "record" => ram'.reset = ram.reset
    BY <1>f
  <1>10. QED BY <1>5, <1>6, <1>7, <1>8, <1>9, <1>f, StoreGoes

LEMMA StoreAgrees == ASSUME ResetInv, AgreeInv, StoreCall PROVE AgreeInv'
  <1>1. StoreStep /\ UNCHANGED resetVars /\ SeqInv
    BY DEF StoreCall, AgreeInv
  <1>2. SeqInv'
    BY <1>1, StoreStepInv
  <1>3. QED BY <1>1, <1>2, PlanAgrees, SlotAgrees, AssignAgrees DEF StoreStep

\* The boot takes what was elected, or begins a store for a device that never reset.
LEMMA BootAgrees == ASSUME ResetInv, AgreeInv, Boot PROVE AgreeInv'
  <1>a. /\ SeqInv /\ SeqTypeOK /\ Phases /\ Floored /\ Rightful /\ Calling /\ Unused
        /\ call \in [Tasks -> CallType]
    BY DEF AgreeInv, SeqInv, Sound, SeqTypeOK, CallType
  <1>u. UNCHANGED resetVars /\ UNCHANGED <<up, ctl, prep, config>>
    BY DEF Boot, resetVars
  <1>p. power = "off" /\ UNCHANGED slots
    BY DEF Boot, LoadNewest, LoadFresh, LoadFails, storeVars
  <1>i. /\ \A t \in Tasks : call[t].pc = "idle" /\ ~Busy(t)
        /\ ctl.pc = "journal"
    BY <1>a, <1>p DEF Phases, Calling, Busy, InFlight
  <1>e. \A k \in Keys : Elected(k)' => Elected(k) /\ slots'[k] = slots[k]
    BY <1>p DEF Elected
  <1>f. \A k \in Keys : Elected(k) =>
             /\ Right(slots[k].state.reset)
             /\ \A r \in Chances : r.kind = "reset" /\ r.phase >= FloorDurable =>
                                     slots[k].state.reset = r.reset
    BY <1>a DEF Floored, Rightful
  <1>n. ctl.pc # "record"
    BY <1>i
  <1>1. CASE LoadNewest
    <2>1. Newest \in Keys /\ Elected(Newest)
      BY <1>a, <1>1, NewestIsElected DEF LoadNewest
    <2>2. slots[Newest].state \in SequenceState
      BY <1>a, <2>1 DEF SeqTypeOK
    <2>3. ram'.reset = slots[Newest].state.reset /\ ram'.reset \in Nat /\ power' = "on" /\ call' = call
      BY <1>1, <2>2, ResetFields, StateNumbers DEF LoadNewest
    <2>4. SeqInv'
      BY <1>a, <1>1, LoadNewestStep
    <2>5. \A k \in Keys : Elected(k)' =>
             /\ Right(slots'[k].state.reset) /\ (Running' => slots'[k].state.reset >= ram'.reset)
             /\ \A r \in Chances : r.kind = "reset" /\ r.phase >= FloorDurable =>
                                     slots'[k].state.reset = r.reset
      <3>1. ASSUME NEW k \in Keys, Elected(k)' PROVE slots'[k].state.reset = ram'.reset
        BY <1>a, <1>e, <2>1, <2>3, <3>1, ElectedEqual
      <3>2. QED BY <1>e, <1>f, <2>3, <3>1
    <2>6. /\ Right(ram'.reset)
          /\ \A r \in Chances : r.kind = "reset" /\ r.phase >= FloorDurable => ram'.reset = r.reset
      BY <1>f, <2>1, <2>3
    <2>7. Copies' /\ Calling'
      BY <1>a, <1>i, <1>u, <2>3 DEF Copies, Busy, InFlight, Calling, Tasks
    <2>8. ~(power' = "loading") /\ ~(\A k \in Keys : slots'[k].read = "missing")
      BY <1>p, <2>1, <2>3 DEF Elected
    <2>9. QED BY <1>n, <1>u, <2>4, <2>5, <2>6, <2>7, <2>8, StoreGoes
  <1>2. CASE LoadFresh
    <2>1. \A k \in Keys : slots[k].read = "missing"
      BY <1>2 DEF LoadFresh, Refused
    <2>2. config.reset = 0 /\ Legible = {}
      BY <1>a, <2>1 DEF Unused
    <2>3. SeqInv'
      BY <1>a, <1>2, LoadFreshStep
    <2>4. \A k \in Keys : ~Elected(k)'
      BY <1>p, <2>1 DEF Elected
    <2>5. /\ ~On' /\ power' = "loading" /\ ram' = Fresh /\ call'["boot"].copy = Fresh
          /\ \A t \in Tasks : t # "boot" => call'[t] = call[t]
      <3>1. "boot" \in Tasks /\ DOMAIN call = Tasks
        BY <1>a DEF Tasks
      <3>2. QED BY <1>2, <3>1 DEF LoadFresh, On, Begin, IdleCall
    <2>6. Copies'
      BY <1>i, <2>5 DEF Copies, Busy
    <2>7. Calling'
      BY <1>a, <1>i, <1>u, <2>5 DEF Calling, Tasks
    <2>8. QED BY <1>n, <1>u, <2>2, <2>3, <2>4, <2>5, <2>6, <2>7, StoreGoes
  <1>3. CASE LoadFails
    <2>1. UNCHANGED <<ram, call>> /\ power' = "halted" /\ ~On' /\ ~Running'
      BY <1>3 DEF LoadFails, storeVars, On, Running
    <2>2. SeqInv'
      BY <1>a, <1>3, LoadFailsStep
    <2>3. Copies' /\ Calling'
      BY <1>a, <1>i, <1>u, <2>1 DEF Copies, Busy, InFlight, Calling, Tasks
    <2>4. \A k \in Keys : Elected(k)' =>
             /\ Right(slots'[k].state.reset) /\ (Running' => slots'[k].state.reset >= ram'.reset)
             /\ \A r \in Chances : r.kind = "reset" /\ r.phase >= FloorDurable =>
                                     slots'[k].state.reset = r.reset
      BY <1>e, <1>f, <2>1
    <2>5. power' = "loading" \/ (\A k \in Keys : slots'[k].read = "missing") =>
             ~On' /\ config.reset = 0 /\ Legible = {}
      BY <1>a, <1>p, <2>1 DEF Unused
    <2>6. QED BY <1>n, <1>u, <2>1, <2>2, <2>3, <2>4, <2>5, StoreGoes
  <1>4. QED BY <1>1, <1>2, <1>3 DEF Boot

\* The boot takes over the record that was leading all along.
LEMMA LoadJournalAgrees == ASSUME ResetInv, AgreeInv, LoadJournal PROVE AgreeInv'
  <1>a. /\ SeqInv /\ Kin /\ Ordered /\ Configured /\ Floored /\ Rightful /\ Copies /\ Calling
        /\ SeqTypeOK /\ Phases /\ ResetSound /\ prep \in Chances
    BY DEF AgreeInv, SeqInv, Sound, ResetInv, Chances
  <1>1. /\ On /\ ~up /\ ctl.pc = "journal" /\ NoFault
        /\ UNCHANGED <<slots, selector, ram, call, handed, best, crashes, journal, config>>
    BY DEF LoadJournal, Store, NoFault
  <1>2. prep = NoRecord
    BY <1>a, <1>1 DEF ResetSound, Position
  <1>3. prep' = Lead /\ Chances' \subseteq Chances \cup {prep}
    <2>1. CASE Legible = {}
      BY <1>1, <1>2, <2>1 DEF LoadJournal, Lead, Chances, Legible
    <2>2. CASE Legible # {}
      <3>1. prep' = NewestRecord /\ NewestRecord \in Chances
        BY <2>2, NewestIs DEF LoadJournal
      <3>2. QED BY <1>1, <2>2, <3>1 DEF Lead, Chances, Legible
    <2>3. QED BY <2>1, <2>2
  <1>4. /\ ctl'.pc \notin {"journal", "record"}
        /\ power' = power \/ power' = "halted"
    <2>1. CASE Erasing("loop") /\ UNCHANGED power
      BY <2>1, ErasingIs
    <2>2. CASE Goto("effect") /\ UNCHANGED power
      BY <2>2, GotoIs
    <2>3. CASE \E ok \in BOOLEAN, r \in {NewestRecord, NoRecord} : Ends(ok, r)
      BY <2>3, EndsIs
    <2>4. QED BY <2>1, <2>2, <2>3 DEF LoadJournal
  <1>i. \A t \in Tasks : call[t].pc = "idle" /\ ~Busy(t)
    <2>1. \A t \in Tasks : call[t].pc = "idle"
      BY <1>a, <1>1 DEF Calling, Phases, Tasks, On
    <2>2. QED BY <2>1 DEF Busy, InFlight
  <1>5. SeqInv'
    BY <1>a, <1>1, <1>4, <1>i, StoreKept DEF SeqTypeOK, CallType
  <1>6. Ordered'
    BY <1>a, <1>1 DEF Ordered, Legible
  <1>7. Rightful'
    <2>1. Lead' = Lead
      BY <1>3, <1>4 DEF Lead
    <2>2. \A k \in Keys : Elected(k)' <=> Elected(k)
      BY <1>1 DEF Elected
    <2>3. QED BY <1>a, <1>1, <2>1, <2>2 DEF Rightful, Right, Pending, On
  <1>8. Copies' /\ Calling' /\ Effects'
    <2>1. Copies'
      BY <1>1, <1>i DEF Copies, Busy
    <2>2. Calling' /\ Effects'
      BY <1>1, <1>4, <1>i DEF Calling, Effects, Tasks, On
    <2>3. QED BY <2>1, <2>2
  <1>9. /\ prep.floor \in 0..Limit /\ prep.reset \in Nat /\ config'.reset \in Nat
        /\ \A r \in Chances : r.phase # 0 /\ prep.phase # 0 => r.kind = prep.kind /\ r.reset = prep.reset
        /\ \A r \in Chances \cup {prep} : r.kind = "reset" =>
             config'.reset <= r.reset /\ (r.phase >= ConfigDurable => config'.reset = r.reset)
        /\ prep.kind = "reset" /\ prep.phase >= FloorDurable =>
             ram.reset = prep.reset /\ \A k \in Keys : Elected(k) => slots[k].state.reset = prep.reset
    BY <1>a, <1>1 DEF Kin, Configured, Floored
  <1>10. power' \in {"on", "halted"}
    BY <1>1, <1>4 DEF On
  <1>11. QED BY <1>1, <1>3, <1>5, <1>6, <1>7, <1>8, <1>9, <1>10, StoreHeld

\* The newest record of the journal promises what the one in RAM does, or has already
\* kept it.
LEMMA LeadGoesOn ==
    ASSUME ResetInv, Kin, Ordered, Configured, ctl.pc # "journal", NEW x, Pending(x)
    PROVE  /\ Legible # {} /\ NewestRecord.kind = "reset" /\ x = NewestRecord.reset
           /\ NewestRecord.phase \in Intent..FormatDurable \/ x = config.reset
  <1>1. /\ prep.kind = "reset" /\ prep.phase \in 2..4 /\ x = prep.reset /\ RecordForm(prep)
        /\ prep \in Chances
    BY PrepIsChance DEF Pending, Lead, Intent, FormatDurable
  <1> DEFINE p == Key(prep.gen)
  <1>2. p \in Legible /\ journal[p].rec = prep
    <2>1. p \in Keys
      BY <1>1, KeyTurns DEF RecordForm
    <2>2. journal[p] = [read |-> "ok", rec |-> prep]
      BY <1>1 DEF ResetInv, ResetSound, Slotted, Intent, ResultDurable
    <2>3. QED BY <2>1, <2>2 DEF Legible
  <1> HIDE DEF p
  <1>3. PICK k \in Legible : NewestRecord = journal[k].rec
    BY <1>2, NewestIs
  <1>4. /\ NewestRecord \in Chances /\ RecordForm(NewestRecord)
        /\ journal[p].rec.gen <= NewestRecord.gen
    BY <1>2, NewestIs, ChanceIds
  <1>5. NewestRecord.gen \in Nat /\ prep.gen \in Nat /\ NewestRecord.phase \in 0..7
    BY <1>1, <1>4 DEF RecordForm
  <1>6. NewestRecord.phase >= prep.phase
    BY <1>2, <1>3, <1>4, <1>5 DEF Ordered
  <1>7. NewestRecord.phase # 0 /\ prep.phase # 0
    BY <1>1, <1>5, <1>6
  <1>8. NewestRecord.kind = prep.kind /\ NewestRecord.reset = prep.reset
    BY <1>1, <1>4, <1>7 DEF Kin
  <1>9. NewestRecord.phase >= 5 => config.reset = NewestRecord.reset
    BY <1>1, <1>4, <1>8 DEF Configured, ConfigDurable
  <1>10. NewestRecord.phase \in 2..4 \/ NewestRecord.phase >= 5
    BY <1>1, <1>5, <1>6
  <1>11. QED BY <1>1, <1>2, <1>8, <1>9, <1>10 DEF Intent, FormatDurable

LEMMA LosePowerAgrees == ASSUME ResetInv, AgreeInv, LosePower PROVE AgreeInv'
  <1>a. SeqInv /\ Kin /\ Ordered /\ Configured /\ Floored /\ Rightful /\ Unused
    BY DEF AgreeInv
  <1>1. /\ UNCHANGED <<slots, journal, config>> /\ prep' = NoRecord /\ ctl'.pc = "journal"
        /\ power' = "off" /\ call' = [t \in Tasks |-> IdleCall]
    BY DEF LosePower, PowerCut
  <1>2. SeqInv' /\ ~On' /\ ~Running'
    BY <1>a, <1>1, PowerCutStep DEF LosePower, On, Running
  <1>3. Legible' = Legible /\ Chances' \subseteq Chances \cup {NoRecord}
    BY <1>1 DEF Legible, Chances
  <1>4. /\ NoRecord.floor \in 0..Limit /\ NoRecord.reset \in Nat /\ NoRecord.phase = 0
        /\ NoRecord.kind = "format"
    BY SequenceAssumption DEF NoRecord
  <1>5. Kin'
    <2>1. \A r \in Chances' : r.floor \in 0..Limit /\ r.reset \in Nat
      BY <1>a, <1>3, <1>4 DEF Kin
    <2>2. \A r, s \in Chances' : r.phase # 0 /\ s.phase # 0 => r.kind = s.kind /\ r.reset = s.reset
      BY <1>a, <1>3, <1>4 DEF Kin
    <2>3. QED BY <2>1, <2>2 DEF Kin
  <1>6. Ordered' /\ Configured'
    BY <1>a, <1>1, <1>3, <1>4 DEF Ordered, Configured
  <1>e. \A k \in Keys : Elected(k)' <=> Elected(k)
    BY <1>1 DEF Elected
  <1>7. Floored' /\ Ascending'
    BY <1>a, <1>1, <1>2, <1>3, <1>4, <1>e DEF Floored, Ascending
  <1>8. \A x : Right(x) => Right(x)'
    <2>1. Lead' = IF Legible = {} THEN NoRecord ELSE NewestRecord
      BY <1>1, <1>3 DEF Lead, NewestRecord
    <2>2. CASE ctl.pc = "journal"
      <3>1. Lead' = Lead
        BY <2>1, <2>2 DEF Lead
      <3>2. QED BY <1>1, <3>1 DEF Right, Pending
    <2>3. CASE ctl.pc # "journal"
      <3>1. ASSUME NEW x, Pending(x) PROVE Right(x)'
        BY <1>a, <1>1, <2>1, <2>3, <3>1, LeadGoesOn DEF Right, Pending
      <3>2. QED BY <1>1, <3>1 DEF Right
    <2>4. QED BY <2>2, <2>3
  <1>9. Rightful'
    <2>1. \A k \in Keys : Elected(k)' => Right(slots[k].state.reset)'
      BY <1>a, <1>1, <1>e, <1>8 DEF Rightful, Right, Pending
    <2>2. QED BY <1>1, <1>2, <2>1 DEF Rightful, Right, Pending
  <1>10. \A t \in Tasks : call'[t].pc = "idle" /\ ~Busy(t)'
    BY <1>1, IdleCallType DEF Busy, InFlight
  <1>11. Copies' /\ Calling' /\ Effects'
    BY <1>1, <1>10 DEF Copies, Calling, Effects, Tasks
  <1>12. Unused'
    BY <1>a, <1>1, <1>2, <1>3 DEF Unused
  <1>13. QED BY <1>2, <1>5, <1>6, <1>7, <1>9, <1>11, <1>12 DEF AgreeInv

LEMMA AgreeStep ==
    ASSUME ResetInv, AgreeInv, overlaps \in Nat, overlaps' = 0, [Next]_vars
    PROVE  AgreeInv'
  <1>1. CASE Command \/ Acknowledge
    BY <1>1, CommandAgrees, AcknowledgeAgrees DEF Command
  <1>2. CASE Erase
    BY <1>2, EraseAgrees, EraseFailsAgrees DEF Erase
  <1>3. CASE Progress
    BY <1>3, RaiseAgrees, RaisedAgrees, FormatAgrees, ConfigureAgrees, PhaseAgrees DEF Progress
  <1>4. CASE Prepare \/ Unprepared \/ Refuse \/ MarkRunning \/ CommitIntent \/ Resume \/ Cleanup
    BY <1>4, PrepareAgrees, CommandAgrees, IntentAgrees, CleanupAgrees
  <1>5. CASE Draw \/ Drawn \/ StoreCall \/ Boot
    BY <1>5, DrawAgrees, DrawnAgrees, StoreAgrees, BootAgrees
  <1>6. CASE LoadJournal \/ LosePower
    BY <1>6, LoadJournalAgrees, LosePowerAgrees
  <1>7. CASE UNCHANGED vars
    <2>1. UNCHANGED <<power, slots, selector, ram, call, faults, crashes, handed, best>>
          /\ UNCHANGED resetVars
      BY <1>7 DEF vars, seqVars, storeVars
    <2>2. UNCHANGED <<up, ctl, prep, live, journal, config, commits>>
      BY <2>1 DEF resetVars
    <2>3. /\ SeqInv /\ Floored /\ Rightful /\ Ascending /\ Copies /\ Calling /\ Unused
      BY DEF AgreeInv
    <2>4. SeqInv'
      BY <2>1, <2>3, StoreKept DEF NoFault
    <2>5. Copies' /\ Calling'
      BY <2>1, <2>2, <2>3 DEF Copies, Busy, Calling
    <2>6. (On' <=> On) /\ (Running' <=> Running) /\ \A k \in Keys : Elected(k)' <=> Elected(k)
      BY <2>1 DEF On, Running, Elected
    <2>7. \A k \in Keys : Elected(k)' =>
             /\ Right(slots'[k].state.reset) /\ (Running' => slots'[k].state.reset >= ram'.reset)
             /\ \A r \in Chances : r.kind = "reset" /\ r.phase >= FloorDurable =>
                                     slots'[k].state.reset = r.reset
      BY <2>1, <2>3, <2>6 DEF Floored, Rightful, Ascending
    <2>8. On' => /\ Right(ram'.reset)
                 /\ \A r \in Chances : r.kind = "reset" /\ r.phase >= FloorDurable =>
                                         ram'.reset = r.reset
      BY <2>1, <2>3, <2>6 DEF Floored, Rightful
    <2>9. power' = "loading" \/ (\A k \in Keys : slots'[k].read = "missing") =>
             ~On' /\ config.reset = 0 /\ Legible = {}
      BY <2>1, <2>3, <2>6 DEF Unused
    <2>10. QED BY <2>1, <2>4, <2>5, <2>7, <2>8, <2>9, StoreGoes
  <1>8. QED BY <1>1, <1>2, <1>3, <1>4, <1>5, <1>6, <1>7 DEF Next, Control

LEMMA AgreeMeans == ASSUME ResetInv, AgreeInv PROVE GenerationsAgree
  <1> SUFFICES ASSUME Readable # {}, ~Refused, slots[Newest].state.reset # config.reset
               PROVE  /\ Legible # {}
                      /\ NewestRecord.kind = "reset" /\ NewestRecord.reset = slots[Newest].state.reset
                      /\ NewestRecord.phase \in Intent..FormatDurable
    BY DEF GenerationsAgree
  <1>a. SeqTypeOK /\ Kin /\ Ordered /\ Configured /\ Rightful
    BY DEF AgreeInv, SeqInv
  <1> DEFINE x == slots[Newest].state.reset
  <1>1. Newest \in Keys /\ Elected(Newest)
    BY <1>a, NewestIsElected
  <1>2. Pending(x)
    BY <1>a, <1>1 DEF Rightful, Right
  <1>n. x # config.reset
    OBVIOUS
  <1> HIDE DEF x
  <1>3. CASE ctl.pc = "journal"
    <2>1. Legible # {}
      BY <1>2, <1>3, NoRecordForm DEF Pending, Lead, Intent, FormatDurable
    <2>2. QED BY <1>2, <1>3, <2>1 DEF Pending, Lead, x
  <1>4. CASE ctl.pc # "journal"
    BY <1>2, <1>4, <1>a, <1>n, LeadGoesOn DEF x
  <1>5. QED BY <1>3, <1>4

\* Only two calls count towards the overlaps, and none is forgotten.
LEMMA OverlapsGrow ==
    ASSUME overlaps \in Nat, [Next]_vars
    PROVE  overlaps' \in Nat /\ overlaps' >= overlaps
  <1>1. CASE UNCHANGED overlaps
    BY <1>1
  <1>2. CASE Draw
    BY <1>2 DEF Draw, BeginNext, MayCall
  <1>3. CASE RaiseFloor
    <2>1. UNCHANGED overlaps \/ MayCall("control")
      BY <1>3 DEF RaiseFloor, BeginRaise
    <2>2. QED BY <1>1, <2>1 DEF MayCall
  <1>4. CASE StoreCall
    BY <1>4, StoreStepCounts DEF StoreCall
  <1>5. CASE Command \/ Acknowledge \/ Erase
    BY <1>1, <1>5 DEF Command, BeginPrepare, DropPrepared, BeginCommit, Acknowledge, Erase, EraseFirst,
         EraseSecond, EraseFails, Store, seqVars, storeVars
  <1>6. CASE Prepare \/ Unprepared \/ Refuse \/ MarkRunning \/ CommitIntent \/ Resume \/ Cleanup
    BY <1>1, <1>6 DEF Prepare, Unprepared, Refuse, MarkRunning, CommitIntent, Resume, Cleanup, Store,
         seqVars, storeVars
  <1>7. CASE FloorRaised \/ Format \/ Configure \/ Result \/ RecordPhase
    BY <1>1, <1>7 DEF FloorRaised, Format, Configure, Result, RecordPhase, Store
  <1>8. CASE Drawn \/ Boot \/ LoadJournal \/ LosePower \/ UNCHANGED vars
    BY <1>1, <1>8 DEF Drawn, Boot, LoadNewest, LoadFresh, LoadFails, LoadJournal, LosePower, PowerCut,
         Store, vars, seqVars, storeVars
  <1>9. QED BY <1>2, <1>3, <1>4, <1>5, <1>6, <1>7, <1>8 DEF Next, Control, Progress

-----------------------------------------------------------------------------
(* Theorems.                                                               *)

LEMMA ResetInvariant == Spec => []ResetInv
  BY ResetInitInv, ResetStep, PTL DEF Spec

\* persist_destructive_command_result() is reached only when every effect of the
\* commit has been carried out, through any number of failures, power cuts and
\* resumptions: a record's phase never runs ahead of the effects.
THEOREM SuccessMeansDone == Spec => []SuccessIsComplete
  <1>1. ResetInv => SuccessIsComplete
    BY DEF ResetInv
  <1>2. QED BY <1>1, ResetInvariant, PTL

\* A commit that was refused, or that the boot found without a journal, has destroyed
\* nothing, as long as no more than one operation failed.
THEOREM FailedMeansUntouched == Spec => []FailureIsHarmless
  <1>1. ResetInv => FailureIsHarmless
    BY DEF ResetInv, Harmless, FailureIsHarmless
  <1>2. QED BY <1>1, ResetInvariant, PTL

\* The sequence store and the configuration drift apart only after two calls into
\* pm_sequence.c overlapped: until then, where their reset generations differ, the
\* newest record of the journal is of the reset that brings the one to the other, in
\* a phase from which every boot goes on with it.
THEOREM GenerationsMatch == Spec => []InTurnGenerationsAgree
  <1> DEFINE Inv == overlaps \in Nat /\ ResetInv /\ (overlaps = 0 => AgreeInv)
  <1>1. Init => Inv
    BY ResetInitInv, AgreeInit DEF Init, SeqInit
  <1>2. Inv /\ [Next]_vars => Inv'
    <2> SUFFICES ASSUME Inv, [Next]_vars PROVE Inv'
      OBVIOUS
    <2>1. overlaps' \in Nat /\ (overlaps' = 0 => overlaps = 0)
      BY OverlapsGrow
    <2>2. ResetInv'
      BY ResetStep
    <2>3. ASSUME overlaps' = 0 PROVE AgreeInv'
      BY <2>1, <2>3, AgreeStep
    <2>4. QED BY <2>1, <2>2, <2>3
  <1>3. Inv => InTurnGenerationsAgree
    BY AgreeMeans DEF InTurnGenerationsAgree
  <1> HIDE DEF Inv
  <1>4. QED BY <1>1, <1>2, <1>3, PTL DEF Spec

=============================================================================
