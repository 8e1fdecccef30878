------------------------ MODULE CommandRuntimeProofs ------------------------
(***************************************************************************)
(* Theorems about CommandRuntime for every ledger size, every set of       *)
(* commands and every number of failures and resets.                       *)
(*                                                                         *)
(* The argument has three layers.  LedgerSteps reduces every step of the   *)
(* runtime to one of six things that can happen to the ledger and the NVS  *)
(* slots; DurableStep shows that each of them preserves Durable, from      *)
(* which BootSeesLatest follows.  Inv adds who holds an entry (Holders),   *)
(* what a ledger in RAM or in a slot looks like (GoodLedgers) and that an  *)
(* unsettled entry is held (Kept).  Inv2 adds what the results mean to the *)
(* server (Results) and to a restart (Rebooted), for every ledger that     *)
(* this boot works with or the next one may load (Futures).                *)
(***************************************************************************)
EXTENDS CommandRuntime, FiniteSetTheorems, TLAPS

\* Everything that can happen to the RAM ledger and its NVS slots.
LedgerStep ==
    \/ UNCHANGED ledgerVars
    \/ \E new \in Ledger : /\ new.generation = ledger.generation
                           /\ Saved(new) \/ NotSaved(new)
    \/ LoadNewest
    \/ LoadFresh
    \/ LoadFails

\* The part of TypeOK that is about the ledger and its slots.
LedgerTypeOK ==
    /\ ledger \in Ledger
    /\ nvs \in [Keys -> SlotContent]
    /\ failures \in 0 .. MaxFailures

LEMMA WithStateType ==
    ASSUME ledger \in Ledger, NEW i \in Slots,
           NEW s \in CommandStates, NEW p \in 0 .. 100
    PROVE  /\ WithState(i, s, p) \in Ledger
           /\ WithState(i, s, p).generation = ledger.generation
  BY DEF WithState, Ledger, Entry

LEMMA ReconciledType ==
    ASSUME ledger \in Ledger, NEW i \in Slots, NEW s \in CommandStates
    PROVE  /\ Reconciled(i, s) \in Ledger
           /\ Reconciled(i, s).generation = ledger.generation
  <1>1. ledger.entries[i].progress \in 0 .. 100
    BY DEF Ledger, Entry
  <1>2. QED
    BY <1>1, WithStateType DEF Reconciled

LEMMA WithCommandType ==
    ASSUME ledger \in Ledger, NEW i \in Slots, NEW c \in Commands,
           NEW late \in BOOLEAN
    PROVE  /\ WithCommand(i, c, late) \in Ledger
           /\ WithCommand(i, c, late).generation = ledger.generation
  <1>1. Successor(i) \in Slots
    BY LedgerSizeAssumption DEF Successor, Slots
  <1>2. QED
    BY <1>1 DEF WithCommand, Ledger, Entry, CommandStates

LEMMA ZeroLedgerType == ZeroLedger \in Ledger /\ ZeroLedger.generation = 0
  BY LedgerSizeAssumption, GenerationAssumption
  DEF ZeroLedger, Ledger, Entry, EmptyEntry, CommandStates, Slots

\* A numbered ledger is a ledger again, one generation later.
LEMMA NumberedType ==
    ASSUME NEW l \in Ledger, l.generation < MaxGeneration
    PROVE  /\ Numbered(l) \in Ledger
           /\ Numbered(l).generation = l.generation + 1
  BY GenerationAssumption DEF Numbered, Ledger

LEMMA SlotKeyType == ASSUME NEW g \in Nat PROVE SlotKey(g) \in Keys
  BY DEF SlotKey, Keys

LEMMA SlotKeyAlternates ==
    ASSUME NEW g \in Nat PROVE SlotKey(g) # SlotKey(g + 1)
  BY DEF SlotKey

\* The generation of the ledger in a valid slot.
LEMMA SlotType ==
    ASSUME NEW s \in SlotContent, s.status = "valid"
    PROVE  s.ledger \in Ledger
  BY DEF SlotContent, Missing, Invalid
-----------------------------------------------------------------------------
\* Every step of the runtime is a LedgerStep.
LEMMA LedgerSteps == TypeOK /\ [Next]_vars => LedgerStep
  <1> SUFFICES ASSUME TypeOK, [Next]_vars
               PROVE  LedgerStep
    OBVIOUS
  <1>t. ledger \in Ledger /\ ctl.entry \in Slots
    BY DEF TypeOK, CtlStates
  <1>p. ASSUME NEW i \in Slots PROVE ledger.entries[i].progress \in 0 .. 100
    BY <1>t DEF Ledger, Entry
  <1>s. {"running", "awaiting_reboot", "succeeded", "failed"} \subseteq CommandStates
    BY DEF CommandStates
  <1>tr. ASSUME NEW i \in Slots, NEW s \in CommandStates, NEW p \in 0 .. 100,
                Transitioned(i, s, p) \/ NotTransitioned(i, s, p)
         PROVE  LedgerStep
    BY <1>t, <1>tr, WithStateType DEF Transitioned, NotTransitioned, LedgerStep
  <1>1. ASSUME BootLoad \/ BootHalts PROVE LedgerStep
    BY <1>1 DEF BootLoad, BootHalts, LedgerStep
  <1>2. ASSUME BootSettle \/ BootRestart PROVE LedgerStep
    <2>1. at \in Slots
      BY <1>2 DEF BootSettle, BootRestart, Reconciling
    <2>2. BootOutcome(ledger.entries[at]) \in CommandStates
      BY DEF BootOutcome, CommandStates
    <2>3. QED
      BY <1>t, <1>2, <2>1, <2>2, ReconciledType DEF BootSettle, BootRestart, LedgerStep
  <1>3. ASSUME NEW c \in Commands, NetAccept(c) \/ NetAcceptFails(c)
        PROVE  LedgerStep
    BY <1>t, <1>3, WithCommandType DEF NetAccept, NetAcceptFails, LedgerStep
  <1>4. ASSUME CtlBegin PROVE LedgerStep
    BY <1>t, <1>s, <1>4, <1>tr DEF CtlBegin
  <1>5. ASSUME CtlReboot PROVE LedgerStep
    BY <1>t, <1>s, <1>5, <1>tr DEF CtlReboot
  <1>6. ASSUME CtlFinish PROVE LedgerStep
    <2> DEFINE state == IF ctl.ok THEN "succeeded" ELSE "failed"
               progress == IF ctl.ok THEN 100 ELSE ledger.entries[ctl.entry].progress
    <2>1. state \in CommandStates /\ progress \in 0 .. 100
      BY <1>t, <1>p, <1>s
    <2>2. Transitioned(ctl.entry, state, progress)
            \/ NotTransitioned(ctl.entry, state, progress)
      BY <1>6 DEF CtlFinish
    <2>3. QED
      BY <1>t, <1>tr, <2>1, <2>2
  <1>7. ASSUME NEW i \in Slots, OtaProgress(i) \/ OtaInstalled(i) \/ OtaCancel(i)
        PROVE  LedgerStep
    <2>1. CASE OtaProgress(i)
      BY <1>s, <1>tr, <2>1 DEF OtaProgress, OtaPercents
    <2>2. CASE OtaInstalled(i)
      BY <1>s, <1>tr, <2>2 DEF OtaInstalled
    <2>3. CASE OtaCancel(i)
      BY <1>s, <1>p, <1>tr, <2>3 DEF OtaCancel
    <2>4. QED BY <1>7, <2>1, <2>2, <2>3
  <1>8. ASSUME \/ BootSkip \/ BootRequeue \/ BootDone \/ NetSend \/ NetLost
               \/ NetNotify \/ NetEnqueue \/ NetDone \/ ServerCommits \/ Reset
               \/ \E c \in Commands : NetIgnore(c)
               \/ CtlAcks \/ CtlReceive \/ CtlTimeout \/ CtlProbe \/ CtlRestart
               \/ CtlOtaStart \/ CtlOtaRefused
               \/ \E i \in Slots : OtaInstallFails(i) \/ OtaRestart(i)
               \/ UNCHANGED vars
        PROVE  LedgerStep
    BY <1>8 DEF BootSkip, BootRequeue, BootDone, NetSend, NetLost, NetNotify,
         NetEnqueue, NetDone, ServerCommits, Reset, NetIgnore, CtlAcks, Acknowledged,
         CtlReceive, CtlTimeout, CtlProbe, CtlRestart, CtlOtaStart,
         CtlOtaRefused, OtaInstallFails, OtaRestart, vars, LedgerStep
  <1>9. QED
    BY <1>1, <1>2, <1>3, <1>4, <1>5, <1>6, <1>7, <1>8
    DEF Next, Boot, Network, Control, OtaTask
-----------------------------------------------------------------------------
(***************************************************************************)
(* The inductive invariant.  A slot holds ledgers of its own parity only,  *)
(* none of them more than one generation ahead of RAM, and the slot of the *)
(* current generation holds exactly the RAM ledger: the next write always  *)
(* goes to the other slot.                                                 *)
(***************************************************************************)
SlotBounded(k) ==
    nvs[k].status = "valid" =>
        /\ SlotKey(nvs[k].ledger.generation) = k
        /\ nvs[k].ledger.generation \in 1 .. ledger.generation + 1

Durable ==
    /\ \A k \in Keys : SlotBounded(k)
    /\ ledger.generation > 0 => nvs[SlotKey(ledger.generation)] = Valid(ledger)

LEMMA SavedType ==
    ASSUME LedgerTypeOK, NEW new \in Ledger, Saved(new)
    PROVE  LedgerTypeOK'
  <1>1. Numbered(new) \in Ledger
    BY NumberedType DEF Saved
  <1>2. new.generation \in Nat
    BY DEF Ledger
  <1>3. SlotKey(new.generation + 1) \in Keys /\ Valid(Numbered(new)) \in SlotContent
    BY <1>1, <1>2, SlotKeyType DEF Valid, SlotContent
  <1>4. QED
    BY <1>1, <1>3 DEF LedgerTypeOK, Saved

LEMMA NotSavedType ==
    ASSUME LedgerTypeOK, NEW new \in Ledger, NotSaved(new)
    PROVE  LedgerTypeOK'
  <1>1. new.generation \in Nat
    BY DEF Ledger
  <1>2. CASE UNCHANGED ledgerVars
    BY <1>2 DEF LedgerTypeOK, ledgerVars
  <1>3. CASE new.generation < MaxGeneration /\ failures < MaxFailures /\ failures' = failures + 1
    <2>1. Numbered(new) \in Ledger
      BY <1>3, NumberedType
    <2>2. SlotKey(new.generation + 1) \in Keys /\ Valid(Numbered(new)) \in SlotContent
            /\ Invalid \in SlotContent
      BY <1>1, <2>1, SlotKeyType DEF Valid, SlotContent
    <2>3. nvs' \in [Keys -> SlotContent]
      BY <1>3, <2>2 DEF NotSaved, LedgerTypeOK
    <2>4. QED
      BY <1>3, <2>3, FailuresAssumption DEF NotSaved, LedgerTypeOK
  <1>4. QED
    BY <1>2, <1>3 DEF NotSaved, ledgerVars

LEMMA LedgerStepType == LedgerTypeOK /\ LedgerStep => LedgerTypeOK'
  <1> SUFFICES ASSUME LedgerTypeOK, LedgerStep
               PROVE  LedgerTypeOK'
    OBVIOUS
  <1>1. CASE UNCHANGED ledgerVars
    BY <1>1 DEF LedgerTypeOK, ledgerVars
  <1>2. CASE \E new \in Ledger : new.generation = ledger.generation
                                   /\ (Saved(new) \/ NotSaved(new))
    BY <1>2, SavedType, NotSavedType
  <1>3. CASE LoadNewest
    <2>1. SelectedKey \in Keys /\ nvs[SelectedKey].status = "valid"
      BY <1>3 DEF LoadNewest, Loadable, SelectedKey, IsValid, Keys
    <2>2. QED
      BY <1>3, <2>1, SlotType DEF LoadNewest, LedgerTypeOK
  <1>4. CASE LoadFresh
    BY <1>4, ZeroLedgerType, SavedType DEF LoadFresh
  <1>5. CASE LoadFails
    BY <1>1, <1>5, ZeroLedgerType, NotSavedType DEF LoadFails
  <1>6. QED
    BY <1>1, <1>2, <1>3, <1>4, <1>5 DEF LedgerStep

LEMMA DurableStep == LedgerTypeOK /\ Durable /\ LedgerStep => Durable'
  <1> SUFFICES ASSUME LedgerTypeOK, Durable, LedgerStep
               PROVE  Durable'
    OBVIOUS
  <1>g. ledger.generation \in Nat
    BY DEF LedgerTypeOK, Ledger
  <1>1. CASE UNCHANGED ledgerVars
    BY <1>1 DEF Durable, SlotBounded, ledgerVars
  <1>z. ASSUME NeverWritten PROVE ledger.generation = 0
    BY <1>z, <1>g, SlotKeyType DEF Durable, NeverWritten, Valid
  <1>2. ASSUME NEW new \in Ledger, new.generation = ledger.generation, Saved(new)
        PROVE  Durable'
    <2>1. /\ Numbered(new).generation = ledger.generation + 1
          /\ SlotKey(ledger.generation + 1) \in Keys
      BY <1>2, <1>g, NumberedType, SlotKeyType DEF Saved
    <2>2. /\ ledger' = Numbered(new)
          /\ nvs' = [nvs EXCEPT ![SlotKey(ledger.generation + 1)] = Valid(Numbered(new))]
      BY <1>2 DEF Saved
    <2>3. nvs'[SlotKey(ledger.generation + 1)] = Valid(ledger')
      BY <2>1, <2>2 DEF LedgerTypeOK
    <2>4. ASSUME NEW k \in Keys PROVE SlotBounded(k)'
      <3>1. CASE k = SlotKey(ledger.generation + 1)
        BY <1>g, <2>1, <2>2, <2>3, <3>1 DEF SlotBounded, Valid
      <3>2. CASE k # SlotKey(ledger.generation + 1)
        <4>1. nvs'[k] = nvs[k]
          BY <2>2, <3>2 DEF LedgerTypeOK
        <4>2. QED
          BY <1>g, <2>1, <2>2, <4>1 DEF SlotBounded, Durable
      <3>3. QED BY <3>1, <3>2
    <2>5. QED
      BY <2>1, <2>2, <2>3, <2>4 DEF Durable
  <1>3. ASSUME NEW new \in Ledger, new.generation = ledger.generation, NotSaved(new)
        PROVE  Durable'
    <2>1. CASE UNCHANGED ledgerVars
      BY <1>1, <2>1
    <2>2. CASE new.generation < MaxGeneration
      <3>1. /\ Numbered(new).generation = ledger.generation + 1
            /\ SlotKey(ledger.generation + 1) \in Keys
        BY <1>3, <1>g, <2>2, NumberedType, SlotKeyType
      <3>2. PICK left \in {nvs[SlotKey(ledger.generation + 1)], Invalid,
                           Valid(Numbered(new))} :
               nvs' = [nvs EXCEPT ![SlotKey(ledger.generation + 1)] = left]
        BY <1>3, <1>g, <2>2 DEF NotSaved
      <3>3. ledger' = ledger
        BY <1>3 DEF NotSaved
      <3>4. ASSUME NEW k \in Keys PROVE SlotBounded(k)'
        <4>1. CASE k = SlotKey(ledger.generation + 1)
          <5>1. nvs'[k] = left
            BY <3>2, <4>1 DEF LedgerTypeOK
          <5>2. CASE left = nvs[k]
            BY <3>3, <5>1, <5>2 DEF SlotBounded, Durable
          <5>3. CASE left = Invalid
            BY <5>1, <5>3 DEF SlotBounded, Invalid
          <5>4. CASE left = Valid(Numbered(new))
            BY <1>g, <3>1, <3>3, <4>1, <5>1, <5>4 DEF SlotBounded, Valid
          <5>5. QED BY <3>2, <4>1, <5>2, <5>3, <5>4
        <4>2. CASE k # SlotKey(ledger.generation + 1)
          <5>1. nvs'[k] = nvs[k]
            BY <3>2, <4>2 DEF LedgerTypeOK
          <5>2. QED
            BY <3>3, <5>1 DEF SlotBounded, Durable
        <4>3. QED BY <4>1, <4>2
      <3>5. nvs'[SlotKey(ledger.generation)] = nvs[SlotKey(ledger.generation)]
        BY <1>g, <3>2, SlotKeyAlternates, SlotKeyType DEF LedgerTypeOK
      <3>6. QED
        BY <3>3, <3>4, <3>5 DEF Durable
    <2>3. QED
      BY <1>3, <2>1, <2>2 DEF NotSaved, ledgerVars
  <1>4. CASE LoadNewest
    <2>1. /\ SelectedKey \in Keys /\ nvs[SelectedKey].status = "valid"
          /\ \A k \in Keys : nvs[k].status = "valid" =>
                nvs[k].ledger.generation <= nvs[SelectedKey].ledger.generation
      <3>1. \A k \in Keys : nvs[k].status = "valid" => nvs[k].ledger.generation \in Nat
        BY SlotType DEF LedgerTypeOK, Ledger
      <3>2. QED
        BY <1>4, <3>1 DEF LoadNewest, Loadable, SelectedKey, IsValid, Keys
    <2>2. ledger' = nvs[SelectedKey].ledger /\ nvs' = nvs
      BY <1>4 DEF LoadNewest
    <2>3. nvs[SelectedKey] = Valid(nvs[SelectedKey].ledger)
      BY <2>1 DEF LedgerTypeOK, SlotContent, Missing, Invalid, Valid
    <2>4. nvs[SelectedKey].ledger.generation \in Nat
      BY <2>1, SlotType DEF LedgerTypeOK, Ledger
    <2>5. ASSUME NEW k \in Keys PROVE SlotBounded(k)'
      <3>1. nvs[k].status = "valid" => nvs[k].ledger.generation \in Nat
        BY SlotType DEF LedgerTypeOK, Ledger
      <3>2. QED
        BY <1>g, <2>1, <2>2, <2>4, <3>1 DEF SlotBounded, Durable
    <2>6. QED
      BY <2>1, <2>2, <2>3, <2>5 DEF Durable, SlotBounded
  <1>5. CASE LoadFresh
    BY <1>2, <1>5, <1>z, ZeroLedgerType DEF LoadFresh
  <1>6. CASE LoadFails
    BY <1>1, <1>3, <1>6, <1>z, ZeroLedgerType DEF LoadFails
  <1>7. QED
    BY <1>1, <1>2, <1>3, <1>4, <1>5, <1>6 DEF LedgerStep
-----------------------------------------------------------------------------
(***************************************************************************)
(* Type correctness of the whole runtime.                                  *)
(***************************************************************************)
LEMMA IdleTypes == NetIdle \in NetStates /\ CtlLoop \in CtlStates
  <1>1. 1 \in Slots
    BY LedgerSizeAssumption DEF Slots
  <1>2. NetIdle \in NetStates
    BY <1>1 DEF NetIdle, NetStates
  <1>3. CtlLoop \in CtlStates
    BY <1>1 DEF CtlLoop, CtlStates
  <1>4. QED BY <1>2, <1>3

LEMMA InitType == Init => TypeOK /\ Durable
  <1> SUFFICES ASSUME Init PROVE TypeOK /\ Durable
    OBVIOUS
  <1>1. ledger \in Ledger /\ ledger.generation = 0
    BY ZeroLedgerType DEF Init
  <1>2. nvs \in [Keys -> SlotContent]
    BY DEF Init, SlotContent
  <1>3. failures \in 0 .. MaxFailures /\ resets \in 0 .. MaxResets
          /\ at \in 1 .. LedgerSize + 1
    BY LedgerSizeAssumption, FailuresAssumption, ResetsAssumption DEF Init
  <1>4. queue \in Seq(Slots)
    BY DEF Init
  <1>5. /\ ota \in [Slots -> {"none", "install", "cancel", "restart"}]
        /\ committed \in [Commands -> (Terminal \ {"expired"}) \cup {"none"}]
        /\ reboots \in [Commands -> Nat]
    BY DEF Init
  <1>6. /\ phase \in {"off", "reconcile", "up", "halted"} /\ checkpoint \in Stages
        /\ lock \in {"free", "boot", "control"}
        /\ net \in NetStates /\ ctl \in CtlStates
    BY IdleTypes DEF Init, Stages
  <1>7. acks \in BOOLEAN /\ otaActive \in BOOLEAN
    BY DEF Init
  <1>8. TypeOK
    BY <1>1, <1>2, <1>3, <1>4, <1>5, <1>6, <1>7 DEF TypeOK
  <1>9. Durable
    BY <1>1 DEF Init, Durable, SlotBounded, Missing
  <1>10. QED BY <1>8, <1>9

\* The types of the parts of the state that no ledger operation touches.
BootTypeOK ==
    /\ phase \in {"off", "reconcile", "up", "halted"}
    /\ at \in 1 .. LedgerSize + 1
    /\ checkpoint \in Stages
    /\ lock \in {"free", "boot", "control"}

TaskTypeOK ==
    /\ queue \in Seq(Slots)
    /\ acks \in BOOLEAN
    /\ net \in NetStates
    /\ ctl \in CtlStates
    /\ ota \in [Slots -> {"none", "install", "cancel", "restart"}]
    /\ otaActive \in BOOLEAN

ObservedTypeOK ==
    /\ committed \in [Commands -> (Terminal \ {"expired"}) \cup {"none"}]
    /\ reboots \in [Commands -> Nat]
    /\ resets \in 0 .. MaxResets

LEMMA TypeParts ==
    TypeOK <=> LedgerTypeOK /\ BootTypeOK /\ TaskTypeOK /\ ObservedTypeOK
  BY DEF TypeOK, LedgerTypeOK, BootTypeOK, TaskTypeOK, ObservedTypeOK

\* What a reset leaves behind is well typed.
LEMMA PowerOffType ==
    ASSUME BootTypeOK, PowerOff
    PROVE  BootTypeOK' /\ TaskTypeOK'
  <1>1. BootTypeOK'
    BY LedgerSizeAssumption DEF PowerOff, BootTypeOK
  <1>2. queue' \in Seq(Slots)
    BY DEF PowerOff
  <1>3. acks' \in BOOLEAN /\ otaActive' \in BOOLEAN
    BY DEF PowerOff
  <1>4. net' \in NetStates /\ ctl' \in CtlStates
    BY IdleTypes DEF PowerOff
  <1>5. ota' \in [Slots -> {"none", "install", "cancel", "restart"}]
    BY DEF PowerOff
  <1>6. TaskTypeOK'
    BY <1>2, <1>3, <1>4, <1>5 DEF TaskTypeOK
  <1>7. QED BY <1>1, <1>6

\* The parts are untouched by steps that leave their variables alone.
LEMMA Untouched ==
    /\ BootTypeOK /\ UNCHANGED bootVars => BootTypeOK'
    /\ TaskTypeOK /\ UNCHANGED taskVars => TaskTypeOK'
    /\ ObservedTypeOK /\ UNCHANGED observed => ObservedTypeOK'
  BY DEF BootTypeOK, TaskTypeOK, ObservedTypeOK, bootVars, taskVars, observed

LEMMA BootType ==
    ASSUME BootTypeOK, TaskTypeOK, ObservedTypeOK, Boot
    PROVE  BootTypeOK' /\ TaskTypeOK' /\ ObservedTypeOK'
  <1>1. CASE BootLoad \/ BootHalts \/ BootSkip \/ BootSettle \/ BootDone
    <2>1. BootTypeOK'
      BY <1>1, LedgerSizeAssumption DEF BootTypeOK, BootLoad, BootHalts, BootSkip,
         BootSettle, BootDone, Reconciling, Slots
    <2>2. UNCHANGED <<taskVars, observed>>
      BY <1>1 DEF BootLoad, BootHalts, BootSkip, BootSettle, BootDone
    <2>3. QED BY <2>1, <2>2, Untouched
  <1>2. CASE BootRequeue
    <2>1. BootTypeOK'
      BY <1>2, LedgerSizeAssumption DEF BootTypeOK, BootRequeue, Reconciling, Slots
    <2>2. at \in Slots /\ queue' = Append(queue, at)
      BY <1>2 DEF BootRequeue, Reconciling
    <2>3. queue' \in Seq(Slots)
      BY <2>2 DEF TaskTypeOK
    <2>4. TaskTypeOK'
      BY <1>2, <2>3 DEF TaskTypeOK, BootRequeue
    <2>5. QED BY <1>2, <2>1, <2>4, Untouched DEF BootRequeue
  <1>3. CASE BootRestart
    BY <1>3, PowerOffType, Untouched DEF BootRestart
  <1>4. QED BY <1>1, <1>2, <1>3 DEF Boot

LEMMA NetworkType ==
    ASSUME LedgerTypeOK, BootTypeOK, TaskTypeOK, ObservedTypeOK, Network
    PROVE  BootTypeOK' /\ TaskTypeOK' /\ ObservedTypeOK'
  <1>n. net \in NetStates
    BY DEF TaskTypeOK
  <1>1. ASSUME NetOnly, net' \in NetStates
        PROVE  BootTypeOK' /\ TaskTypeOK' /\ ObservedTypeOK'
    <2>1. TaskTypeOK'
      BY <1>1 DEF NetOnly, TaskTypeOK
    <2>2. QED BY <1>1, <2>1, Untouched DEF NetOnly
  <1>2. CASE NetSend
    <2> DEFINE results == {<<e.cmd, e.state>> : e \in
                 {ledger.entries[i] : i \in {j \in Slots :
                     ledger.entries[j].state \in Reportable}}}
    <2>1. results \subseteq (Commands \cup {NoCommand}) \X Reportable
      BY DEF LedgerTypeOK, Ledger, Entry
    <2>2. net' = [net EXCEPT !.pc = "sent", !.reported = results]
      BY <1>2 DEF NetSend
    <2> HIDE DEF results
    <2>3. net' \in NetStates
      BY <1>n, <2>1, <2>2 DEF NetStates
    <2>4. QED BY <1>1, <1>2, <2>3 DEF NetSend
  <1>3. CASE NetLost \/ NetDone
    BY <1>1, <1>3, IdleTypes DEF NetLost, NetDone
  <1>4. CASE NetNotify
    <2>1. net' \in NetStates
      BY <1>4, <1>n DEF NetNotify, NetStates
    <2>2. acks' \in BOOLEAN
      BY <1>4 DEF NetNotify
    <2>3. TaskTypeOK'
      BY <1>4, <2>1, <2>2 DEF NetNotify, TaskTypeOK
    <2>4. QED BY <1>4, <2>3, Untouched DEF NetNotify
  <1>5. CASE NetEnqueue
    <2>1. net' \in NetStates
      BY <1>5, <1>n DEF NetEnqueue, NetStates
    <2>2. queue' \in Seq(Slots)
      BY <1>5, <1>n DEF NetEnqueue, TaskTypeOK, NetStates
    <2>3. TaskTypeOK'
      BY <1>5, <2>1, <2>2 DEF NetEnqueue, TaskTypeOK
    <2>4. QED BY <1>5, <2>3, Untouched DEF NetEnqueue
  <1>6. ASSUME NEW c \in Commands, NetIgnore(c) \/ NetAcceptFails(c) \/ NetAccept(c)
        PROVE  BootTypeOK' /\ TaskTypeOK' /\ ObservedTypeOK'
    <2>1. ASSUME Dropped(c) PROVE net' \in NetStates
      BY <2>1, <1>n DEF Dropped, NetStates
    <2>2. ASSUME NEW i \in Slots,
                 net' = [net EXCEPT !.offer = @ \ {c}, !.pc = "enqueue", !.entry = i]
          PROVE  net' \in NetStates
      BY <2>2, <1>n DEF NetStates
    <2>3. net' \in NetStates
      BY <1>6, <2>1, <2>2 DEF NetIgnore, NetAcceptFails, NetAccept
    <2>4. QED BY <1>1, <1>6, <2>3 DEF NetIgnore, NetAcceptFails, NetAccept
  <1>7. QED BY <1>2, <1>3, <1>4, <1>5, <1>6 DEF Network

LEMMA ServerType ==
    ASSUME LedgerTypeOK, BootTypeOK, TaskTypeOK, ObservedTypeOK, ServerCommits
    PROVE  BootTypeOK' /\ TaskTypeOK' /\ ObservedTypeOK'
  <1>n. net \in NetStates
    BY DEF TaskTypeOK
  <1>1. \A c \in Commands : Final(c) \subseteq Terminal \ {"expired"}
    BY <1>n DEF Final, NetStates, Reportable
  <1>2. ObservedTypeOK'
    BY <1>1 DEF ServerCommits, ObservedTypeOK
  <1>3. net' \in NetStates
    BY <1>n DEF ServerCommits, NetStates
  <1>4. TaskTypeOK'
    BY <1>3 DEF ServerCommits, TaskTypeOK
  <1>5. QED BY <1>2, <1>4, Untouched DEF ServerCommits

LEMMA ControlType ==
    ASSUME LedgerTypeOK, BootTypeOK, TaskTypeOK, ObservedTypeOK, Control
    PROVE  BootTypeOK' /\ TaskTypeOK' /\ ObservedTypeOK'
  <1>c. ctl \in CtlStates
    BY DEF TaskTypeOK
  <1>1. ASSUME ctl' \in CtlStates, queue' \in Seq(Slots), acks' \in BOOLEAN,
               otaActive' \in BOOLEAN, UNCHANGED net,
               ota' \in [Slots -> {"none", "install", "cancel", "restart"}],
               lock' \in {"free", "boot", "control"},
               UNCHANGED <<phase, at, checkpoint, observed>>
        PROVE  BootTypeOK' /\ TaskTypeOK' /\ ObservedTypeOK'
    <2>1. BootTypeOK' BY <1>1 DEF BootTypeOK
    <2>2. TaskTypeOK' BY <1>1 DEF TaskTypeOK
    <2>3. QED BY <1>1, <2>1, <2>2, Untouched
  <1>t. /\ queue \in Seq(Slots) /\ acks \in BOOLEAN /\ otaActive \in BOOLEAN
        /\ ota \in [Slots -> {"none", "install", "cancel", "restart"}]
        /\ lock \in {"free", "boot", "control"}
    BY DEF BootTypeOK, TaskTypeOK
  <1>2. CASE CtlAcks
    <2>1. ctl' \in CtlStates
      BY <1>c, <1>2 DEF CtlAcks, CtlStates
    <2>2. QED BY <1>1, <1>t, <1>2, <2>1 DEF CtlAcks, bootVars
  <1>3. CASE CtlReceive
    <2>1. Head(queue) \in Slots /\ queue' \in Seq(Slots)
      BY <1>t, <1>3 DEF CtlReceive
    <2>2. ctl' \in CtlStates
      BY <1>3, <2>1 DEF CtlReceive, CtlStates
    <2>3. QED BY <1>1, <1>t, <1>3, <2>1, <2>2 DEF CtlReceive, bootVars
  <1>4. CASE CtlTimeout \/ CtlBegin \/ CtlProbe \/ CtlReboot
    <2>1. ctl' \in CtlStates
      BY <1>c, <1>4 DEF CtlTimeout, CtlBegin, CtlProbe, CtlReboot, CtlStates
    <2>2. lock' \in {"free", "boot", "control"}
      BY <1>t, <1>4 DEF CtlTimeout, CtlBegin, CtlProbe, CtlReboot
    <2>3. UNCHANGED <<ota, otaActive, phase, at, checkpoint, acks, queue, net, observed>>
      BY <1>4 DEF CtlTimeout, CtlBegin, CtlProbe, CtlReboot, CtlOnly
    <2>4. QED BY <1>1, <1>t, <2>1, <2>2, <2>3
  <1>5. CASE CtlOtaStart
    <2>1. ota' \in [Slots -> {"none", "install", "cancel", "restart"}]
      BY <1>t, <1>5 DEF CtlOtaStart
    <2>2. otaActive' \in BOOLEAN
      BY <1>5 DEF CtlOtaStart
    <2>3. QED BY <1>1, <1>t, <1>5, <2>1, <2>2, IdleTypes DEF CtlOtaStart, CtlOnly
  <1>6. CASE CtlOtaRefused
    <2>1. ctl' \in CtlStates
      BY <1>c, <1>6 DEF CtlOtaRefused, CtlStates
    <2>2. otaActive' \in BOOLEAN
      BY <1>6 DEF CtlOtaRefused
    <2>3. QED BY <1>1, <1>t, <1>6, <2>1, <2>2 DEF CtlOtaRefused, CtlOnly
  <1>7. CASE CtlFinish
    BY <1>1, <1>t, <1>7, IdleTypes DEF CtlFinish, CtlOnly
  <1>8. CASE CtlRestart
    <2>0. PICK c : reboots' = [reboots EXCEPT ![c] = @ + 1]
      BY <1>8 DEF CtlRestart
    <2>r. reboots \in [Commands -> Nat]
      BY DEF ObservedTypeOK
    <2>a. reboots' \in [Commands -> Nat]
      <3>1. CASE c \in Commands BY <2>0, <2>r, <3>1
      <3>2. CASE c \notin Commands BY <2>0, <2>r, <3>2
      <3>3. QED BY <3>1, <3>2
    <2>1. ObservedTypeOK'
      BY <1>8, <2>a DEF CtlRestart, ObservedTypeOK
    <2>2. QED BY <1>8, <2>1, PowerOffType DEF CtlRestart
  <1>9. QED
    BY <1>2, <1>3, <1>4, <1>5, <1>6, <1>7, <1>8 DEF Control

LEMMA OtaType ==
    ASSUME LedgerTypeOK, BootTypeOK, TaskTypeOK, ObservedTypeOK,
           NEW i \in Slots, OtaTask(i)
    PROVE  BootTypeOK' /\ TaskTypeOK' /\ ObservedTypeOK'
  <1>1. CASE OtaRestart(i)
    BY <1>1, PowerOffType, Untouched DEF OtaRestart
  <1>2. CASE OtaProgress(i) \/ OtaInstalled(i) \/ OtaInstallFails(i) \/ OtaCancel(i)
    <2>1. ota' \in [Slots -> {"none", "install", "cancel", "restart"}]
      BY <1>2 DEF OtaProgress, OtaInstalled, OtaInstallFails, OtaCancel, TaskTypeOK
    <2>2. otaActive' \in BOOLEAN
      BY <1>2 DEF OtaProgress, OtaInstalled, OtaInstallFails, OtaCancel, TaskTypeOK
    <2>3. OtaOnly
      BY <1>2 DEF OtaProgress, OtaInstalled, OtaInstallFails, OtaCancel
    <2>4. TaskTypeOK'
      BY <2>1, <2>2, <2>3 DEF OtaOnly, TaskTypeOK
    <2>5. QED BY <2>3, <2>4, Untouched DEF OtaOnly
  <1>3. QED BY <1>1, <1>2 DEF OtaTask

LEMMA TypeStep == TypeOK /\ [Next]_vars => TypeOK'
  <1> SUFFICES ASSUME TypeOK, [Next]_vars
               PROVE  BootTypeOK' /\ TaskTypeOK' /\ ObservedTypeOK'
    BY LedgerSteps, LedgerStepType, TypeParts DEF TypeOK, LedgerTypeOK, BootTypeOK,
       TaskTypeOK, ObservedTypeOK
  <1>t. LedgerTypeOK /\ BootTypeOK /\ TaskTypeOK /\ ObservedTypeOK
    BY TypeParts
  <1>1. CASE Boot BY <1>t, <1>1, BootType
  <1>2. CASE Network BY <1>t, <1>2, NetworkType
  <1>3. CASE ServerCommits BY <1>t, <1>3, ServerType
  <1>4. CASE Control BY <1>t, <1>4, ControlType
  <1>5. CASE Reset
    <2>1. ObservedTypeOK'
      BY <1>t, <1>5, ResetsAssumption DEF Reset, ObservedTypeOK
    <2>2. QED BY <1>t, <1>5, <2>1, PowerOffType DEF Reset
  <1>6. CASE \E i \in Slots : OtaTask(i) BY <1>t, <1>6, OtaType
  <1>7. CASE UNCHANGED vars
    BY <1>t, <1>7, Untouched DEF vars, bootVars, taskVars, observed
  <1>8. QED
    BY <1>1, <1>2, <1>3, <1>4, <1>5, <1>6, <1>7 DEF Next

-----------------------------------------------------------------------------
\* Every variable of the runtime keeps its type, for every ledger size.
THEOREM TypeCorrect == Spec => []TypeOK
  <1>1. QED BY InitType, TypeStep, PTL DEF Spec

LEMMA DurableAlways == Spec => []Durable
  <1>1. TypeOK /\ Durable /\ [Next]_vars => Durable'
    BY LedgerSteps, DurableStep DEF TypeOK, LedgerTypeOK
  <1>2. QED BY <1>1, InitType, TypeCorrect, PTL DEF Spec

LEMMA DurableImpliesLatest == TypeOK /\ Durable => BootSeesLatest
  <1> SUFFICES ASSUME TypeOK, Durable, ledger.generation > 0
               PROVE  /\ Loadable
                      /\ \/ nvs[SelectedKey].ledger = ledger
                         \/ nvs[SelectedKey].ledger.generation = ledger.generation + 1
    BY DEF BootSeesLatest
  <1>g. ledger.generation \in Nat
    BY DEF TypeOK, Ledger
  <1> DEFINE cur == SlotKey(ledger.generation)
  <1>1. cur \in Keys /\ IsValid(cur) /\ nvs[cur].ledger = ledger
    BY <1>g, SlotKeyType DEF Durable, IsValid, Valid
  <1>2. ASSUME NEW k \in Keys, IsValid(k), k # cur
        PROVE  /\ nvs[k].ledger.generation \in Nat
               /\ nvs[k].ledger.generation # ledger.generation
               /\ nvs[k].ledger.generation <= ledger.generation + 1
    BY <1>g, <1>2 DEF Durable, SlotBounded, IsValid
  <1>3. Loadable
    BY <1>g, <1>1, <1>2 DEF Loadable, Keys
  <1>4. \/ nvs[SelectedKey].ledger = ledger
        \/ nvs[SelectedKey].ledger.generation = ledger.generation + 1
    BY <1>g, <1>1, <1>2 DEF SelectedKey, Keys
  <1>5. QED BY <1>3, <1>4

\* Crash safety for every ledger size, set of commands and number of failed
\* writes and resets: the loader always accepts a slot, and what it returns is
\* the last acknowledged ledger or the one write after it.
THEOREM CrashSafety == Spec => []BootSeesLatest
  <1>1. QED BY TypeCorrect, DurableAlways, DurableImpliesLatest, PTL

-----------------------------------------------------------------------------
(***************************************************************************)
(* Who holds which entry.  The parts of the invariant: outside an up       *)
(* device no task holds anything but what the boot has queued; an entry    *)
(* that waits is ACCEPTED or RUNNING, one that restarts the device is      *)
(* AWAITING_REBOOT, one of an OTA task is unsettled and an installation;   *)
(* and nobody shares an entry.                                             *)
(***************************************************************************)
Live == {"accepted", "running", "awaiting_reboot"}

NoOta == \A i \in Slots : ota[i] = "none"

Quiet ==
    /\ phase \in {"off", "halted"} =>
          queue = <<>> /\ ctl = CtlLoop /\ net = NetIdle /\ NoOta
    /\ phase = "reconcile" =>
          /\ lock = "boot" /\ ctl = CtlLoop /\ net = NetIdle /\ NoOta
          /\ \A i \in Slots : InQueue(i) => i < at

\* The control task is about to execute the entry or is executing it.
Executing(i) == ctl.entry = i /\ ctl.pc \in {"begin", "effect", "finish"}

IsType(i, type) == ledger.entries[i].cmd \in Commands /\ ledger.entries[i].cmd.type = type

Alive ==
    /\ \A i \in Slots : InQueue(i) \/ InNetwork(i) \/ Executing(i) =>
          ledger.entries[i].state \in {"accepted", "running"}
    /\ ctl.pc = "restart" => /\ ledger.entries[ctl.entry].state = "awaiting_reboot"
                             /\ IsType(ctl.entry, "reboot")
    /\ \A i \in Slots : ota[i] # "none" => /\ ledger.entries[i].state \in Live
                                           /\ IsType(i, "ota_install")

Single ==
    /\ \A j, k \in DOMAIN queue : j # k => queue[j] # queue[k]
    /\ \A i \in Slots : InQueue(i) => ~InControl(i) /\ ~InNetwork(i)
    /\ \A i \in Slots : InControl(i) => ~InNetwork(i)
    /\ \A i \in Slots : ota[i] # "none" => ~InQueue(i) /\ ~InControl(i) /\ ~InNetwork(i)

Holders == Quiet /\ Alive /\ Single

\* An entry without a command is empty, and identities are unique, in RAM and in
\* every slot that a boot may load.
GoodLedger(l) ==
    /\ \A i \in Slots : l.entries[i].cmd = NoCommand => l.entries[i].state = "empty"
    /\ \A i, j \in Slots :
          i # j /\ l.entries[i].cmd # NoCommand /\ l.entries[j].cmd # NoCommand =>
              /\ l.entries[i].cmd.id # l.entries[j].cmd.id
              /\ l.entries[i].cmd.key # l.entries[j].cmd.key

GoodLedgers == /\ GoodLedger(ledger)
               /\ \A k \in Keys : IsValid(k) => GoodLedger(nvs[k].ledger)

\* The queue after an entry was added, and after one was taken.
LEMMA QueueAppend ==
    ASSUME queue \in Seq(Slots), NEW e \in Slots, queue' = Append(queue, e)
    PROVE  /\ \A i \in Slots : InQueue(i)' <=> InQueue(i) \/ i = e
           /\ (\A j, k \in DOMAIN queue : j # k => queue[j] # queue[k]) /\ ~InQueue(e) =>
                \A j, k \in DOMAIN queue' : j # k => queue'[j] # queue'[k]
  <1>1. /\ Len(queue) \in Nat /\ DOMAIN queue = 1 .. Len(queue)
        /\ DOMAIN queue' = 1 .. Len(queue) + 1
        /\ \A k \in 1 .. Len(queue) : queue'[k] = queue[k]
        /\ queue'[Len(queue) + 1] = e
    OBVIOUS
  <1>2. \A k \in 1 .. Len(queue) + 1 : k \in 1 .. Len(queue) \/ k = Len(queue) + 1
    BY <1>1
  <1>3. 1 .. Len(queue) \subseteq 1 .. Len(queue) + 1 /\ Len(queue) + 1 \in 1 .. Len(queue) + 1
    BY <1>1
  <1>4. QED BY <1>1, <1>2, <1>3 DEF InQueue

LEMMA QueueTail ==
    ASSUME queue \in Seq(Slots), queue # <<>>, queue' = Tail(queue),
           \A j, k \in DOMAIN queue : j # k => queue[j] # queue[k]
    PROVE  /\ Head(queue) \in Slots /\ InQueue(Head(queue))
           /\ \A i \in Slots : InQueue(i)' <=> InQueue(i) /\ i # Head(queue)
           /\ \A j, k \in DOMAIN queue' : j # k => queue'[j] # queue'[k]
  <1>1. /\ Len(queue) \in Nat /\ Len(queue) >= 1 /\ DOMAIN queue = 1 .. Len(queue)
        /\ Len(Tail(queue)) = Len(queue) - 1
        /\ DOMAIN queue' = 1 .. Len(queue) - 1
        /\ \A k \in 1 .. Len(queue) - 1 : queue'[k] = queue[k + 1]
        /\ Head(queue) = queue[1] /\ Head(queue) \in Slots
    OBVIOUS
  <1>2. 1 \in DOMAIN queue /\ \A k \in DOMAIN queue' : k + 1 \in DOMAIN queue /\ k + 1 # 1
    BY <1>1
  <1>3. \A k \in DOMAIN queue : k = 1 \/ (k - 1 \in DOMAIN queue' /\ queue'[k - 1] = queue[k])
    BY <1>1
  <1>4. \A k \in DOMAIN queue' : queue'[k] = queue[k + 1]
    BY <1>1
  <1>5. \A i \in Slots : InQueue(i)' <=> InQueue(i) /\ i # Head(queue)
    <2>1. SUFFICES ASSUME NEW i \in Slots
                   PROVE  (\E k \in DOMAIN queue' : queue'[k] = i)
                            <=> (\E k \in DOMAIN queue : queue[k] = i) /\ i # queue[1]
      BY <1>1 DEF InQueue
    <2>2. ASSUME NEW k \in DOMAIN queue', queue'[k] = i
          PROVE  (\E m \in DOMAIN queue : queue[m] = i) /\ i # queue[1]
      BY <1>2, <1>4, <2>2
    <2>3. ASSUME NEW k \in DOMAIN queue, queue[k] = i, i # queue[1]
          PROVE  \E m \in DOMAIN queue' : queue'[m] = i
      BY <1>3, <2>3
    <2>4. QED BY <2>2, <2>3
  <1>6. \A j, k \in DOMAIN queue' : j # k => queue'[j] # queue'[k]
    <2>1. SUFFICES ASSUME NEW j \in DOMAIN queue', NEW k \in DOMAIN queue', j # k
                   PROVE  queue'[j] # queue'[k]
      OBVIOUS
    <2>2. j + 1 # k + 1 /\ j + 1 \in DOMAIN queue /\ k + 1 \in DOMAIN queue
      BY <1>1, <2>1
    <2>3. QED BY <1>4, <2>2
  <1>7. QED BY <1>1, <1>2, <1>5, <1>6 DEF InQueue

\* s_command_queue never overflows: it has room for every entry, and an entry that
\* is about to be queued is not in it.
LEMMA QueueHasRoom ==
    ASSUME queue \in Seq(Slots), NEW e \in Slots, ~InQueue(e),
           \A j, k \in DOMAIN queue : j # k => queue[j] # queue[k]
    PROVE  Len(queue) < QueueDepth
  <1>1. Len(queue) \in Nat /\ DOMAIN queue = 1 .. Len(queue) /\ queue \in [1 .. Len(queue) -> Slots]
    OBVIOUS
  <1>2. IsFiniteSet(Slots) /\ Cardinality(Slots) = LedgerSize /\ LedgerSize \in Nat
    BY LedgerSizeAssumption, FS_Interval DEF Slots
  <1>3. queue \in Injection(1 .. Len(queue), Slots)
    BY <1>1 DEF Injection, IsInjective
  <1>4. Cardinality(1 .. Len(queue)) = Len(queue)
    BY <1>1, FS_Interval
  <1>5. queue \notin Surjection(1 .. Len(queue), Slots)
    BY <1>1 DEF Surjection, InQueue
  <1>6. Len(queue) <= LedgerSize /\ Len(queue) # LedgerSize
    BY <1>2, <1>3, <1>4, <1>5, FS_Injection
  <1>7. \A n, m \in Nat : n <= m /\ n # m => n < m
    OBVIOUS
  <1>8. QED BY <1>1, <1>2, <1>6, <1>7 DEF QueueDepth

\* What a write of one entry does to the RAM ledger.
LEMMA StateWrites ==
    ASSUME ledger \in Ledger, NEW i \in Slots, NEW s, NEW p,
           Saved(WithState(i, s, p)) \/ NotSaved(WithState(i, s, p))
    PROVE  /\ \A j \in Slots : /\ ledger'.entries[j].cmd = ledger.entries[j].cmd
                               /\ j # i => ledger'.entries[j] = ledger.entries[j]
           /\ ledger'.entries[i].state \in {ledger.entries[i].state, s}
           /\ Saved(WithState(i, s, p)) => ledger'.entries[i].state = s
  <1> DEFINE e == [cmd |-> ledger.entries[i].cmd, state |-> s, progress |-> p]
  <1>1. /\ ledger.entries \in [Slots -> Entry]
        /\ WithState(i, s, p).entries = [ledger.entries EXCEPT ![i] = e]
    BY DEF WithState, Ledger
  <1>2. Numbered(WithState(i, s, p)).entries = WithState(i, s, p).entries
    BY DEF Numbered, WithState, Ledger
  <1>3. CASE Saved(WithState(i, s, p))
    <2>1. ledger'.entries = [ledger.entries EXCEPT ![i] = e]
      BY <1>1, <1>2, <1>3 DEF Saved
    <2>2. QED BY <1>1, <2>1
  <1>4. CASE ~Saved(WithState(i, s, p))
    BY <1>4 DEF NotSaved
  <1>5. QED BY <1>3, <1>4

LEMMA Transitions ==
    ASSUME ledger \in Ledger, NEW i \in Slots, NEW s, NEW p,
           Transitioned(i, s, p) \/ NotTransitioned(i, s, p)
    PROVE  /\ \A j \in Slots : /\ ledger'.entries[j].cmd = ledger.entries[j].cmd
                               /\ j # i => ledger'.entries[j] = ledger.entries[j]
           /\ ledger'.entries[i].state \in {ledger.entries[i].state, s}
           /\ Transitioned(i, s, p) => ledger'.entries[i].state = s
  BY StateWrites DEF Transitioned, NotTransitioned, ledgerVars

LEMMA CommandWrites ==
    ASSUME ledger \in Ledger, NEW i \in Slots, NEW c, NEW late,
           Saved(WithCommand(i, c, late))
    PROVE  /\ \A j \in Slots : j # i => ledger'.entries[j] = ledger.entries[j]
           /\ ledger'.entries[i].cmd = c
           /\ ledger'.entries[i].state = IF late THEN "expired" ELSE "accepted"
  BY DEF Saved, WithCommand, Numbered, Ledger, Entry

-----------------------------------------------------------------------------
\* Tasks work on an up device only.
LEMMA OnlyWhenUp ==
    ASSUME TypeOK, Quiet,
           Network \/ ServerCommits \/ Control \/ \E i \in Slots : OtaTask(i)
    PROVE  phase = "up"
  <1>1. SUFFICES ASSUME phase # "up" PROVE FALSE
    OBVIOUS
  <1>2. /\ ctl = CtlLoop /\ net = NetIdle /\ NoOta
        /\ phase = "reconcile" => lock = "boot"
    BY <1>1 DEF TypeOK, Quiet
  <1>3. ctl.pc = "acks" /\ net.pc = "idle"
    BY <1>2 DEF CtlLoop, NetIdle
  <1>4. ~Network
    BY <1>1, <1>3 DEF Network, NetSend, NetLost, NetNotify, NetEnqueue, NetDone, NetIgnore,
       NetAccept, NetAcceptFails, Accepting
  <1>5. ~Control
    BY <1>1, <1>2, <1>3 DEF Control, CtlAcks, Running, CtlReceive, CtlTimeout, CtlBegin,
       CtlProbe, CtlReboot, CtlRestart, CtlOtaStart, CtlOtaRefused, CtlFinish
  <1>6. ~ServerCommits
    BY <1>3 DEF ServerCommits
  <1>7. ~ \E i \in Slots : OtaTask(i)
    BY <1>2 DEF NoOta, OtaTask, OtaProgress, OtaInstalled, OtaInstallFails, OtaCancel, OtaRestart
  <1>8. QED BY <1>4, <1>5, <1>6, <1>7

LEMMA QueueKept ==
    ASSUME UNCHANGED queue
    PROVE  \A i \in Slots : InQueue(i)' <=> InQueue(i)
  BY DEF InQueue

\* With every task at rest nothing is held.
LEMMA AtRest ==
    ASSUME queue' = <<>>, ctl' = CtlLoop, net' = NetIdle, NoOta',
           phase' = "reconcile" => lock' = "boot"
    PROVE  Holders'
  <1>1. DOMAIN queue' = {}
    OBVIOUS
  <1>2. \A i \in Slots : ~InQueue(i)'
    BY <1>1 DEF InQueue
  <1>3. ctl'.pc = "acks" /\ net'.pc = "idle"
    BY DEF CtlLoop, NetIdle
  <1>4. \A i \in Slots : ~InControl(i)' /\ ~InNetwork(i)' /\ ~Executing(i)'
    BY <1>3 DEF InControl, InNetwork, Executing
  <1>5. Quiet'
    BY <1>2 DEF Quiet
  <1>6. Alive'
    BY <1>2, <1>3, <1>4 DEF Alive, NoOta
  <1>7. Single'
    BY <1>1, <1>2, <1>4 DEF Single, NoOta
  <1>8. QED BY <1>5, <1>6, <1>7 DEF Holders

LEMMA PowerOffHolders == ASSUME PowerOff PROVE Holders'
  BY AtRest DEF PowerOff, NoOta

LEMMA BootHolders ==
    ASSUME TypeOK, Holders, Boot
    PROVE  Holders'
  <1>1. CASE BootLoad \/ BootHalts
    <2>1. queue = <<>> /\ ctl = CtlLoop /\ net = NetIdle /\ NoOta
      BY <1>1 DEF BootLoad, BootHalts, Holders, Quiet
    <2>2. UNCHANGED <<queue, ctl, net, ota>> /\ (phase' = "reconcile" => lock' = "boot")
      BY <1>1 DEF BootLoad, BootHalts, taskVars
    <2>3. NoOta'
      BY <2>1, <2>2 DEF NoOta
    <2>4. QED BY <2>1, <2>2, <2>3, AtRest
  <1>2. CASE BootRestart
    BY <1>2, PowerOffHolders DEF BootRestart
  <1>3. ASSUME BootSkip \/ BootRequeue \/ BootSettle \/ BootDone
        PROVE  Holders'
    <2>1. /\ phase = "reconcile" /\ lock = "boot" /\ ctl = CtlLoop /\ net = NetIdle /\ NoOta
          /\ \A i \in Slots : InQueue(i) => i < at
          /\ at \in 1 .. LedgerSize + 1 /\ LedgerSize \in Nat
      BY <1>3, LedgerSizeAssumption
         DEF BootSkip, BootRequeue, BootSettle, BootDone, Reconciling, Holders, Quiet, TypeOK
    <2>2. UNCHANGED <<ctl, net, ota>>
      BY <1>3 DEF BootSkip, BootRequeue, BootSettle, BootDone, taskVars
    <2>3. ctl'.pc = "acks" /\ net'.pc = "idle" /\ NoOta'
      BY <2>1, <2>2 DEF CtlLoop, NetIdle, NoOta
    <2>4. \A i \in Slots : ~InControl(i)' /\ ~InNetwork(i)' /\ ~Executing(i)'
      BY <2>3 DEF InControl, InNetwork, Executing
    <2>5. SUFFICES /\ \A i \in Slots : InQueue(i)' =>
                         /\ ledger'.entries[i].state \in {"accepted", "running"}
                         /\ phase' = "reconcile" => i < at'
                   /\ \A j, k \in DOMAIN queue' : j # k => queue'[j] # queue'[k]
                   /\ phase' = "up" \/ (phase' = "reconcile" /\ lock' = "boot")
      <3>1. Quiet'
        BY <2>1, <2>2, <2>3, <2>5 DEF Quiet
      <3>2. Alive'
        BY <2>3, <2>4, <2>5 DEF Alive, NoOta
      <3>3. Single'
        BY <2>3, <2>4, <2>5 DEF Single, NoOta
      <3>4. QED BY <3>1, <3>2, <3>3 DEF Holders
    <2>6. /\ \A i \in Slots : InQueue(i) => ledger.entries[i].state \in {"accepted", "running"}
          /\ \A j, k \in DOMAIN queue : j # k => queue[j] # queue[k]
      BY DEF Holders, Alive, Single
    <2>7. CASE BootSkip \/ BootDone
      <3>1. UNCHANGED <<queue, ledger>>
        BY <2>7 DEF BootSkip, BootDone, taskVars, ledgerVars
      <3>2. \A i \in Slots : InQueue(i)' <=> InQueue(i)
        BY <3>1, QueueKept
      <3>3. phase' = "up" \/ (phase' = "reconcile" /\ lock' = "boot" /\ at' = at + 1)
        BY <2>1, <2>7 DEF BootSkip, BootDone
      <3>4. QED BY <2>1, <2>6, <3>1, <3>2, <3>3 DEF Slots
    <2>8. CASE BootSettle
      <3>1. UNCHANGED <<queue, phase, lock>> /\ at' = at + 1 /\ at \in Slots
        BY <2>8 DEF BootSettle, Reconciling, taskVars
      <3>2. \A i \in Slots : InQueue(i)' <=> InQueue(i)
        BY <3>1, QueueKept
      <3>3. \A j \in Slots : j # at => ledger'.entries[j] = ledger.entries[j]
        BY <2>8, <3>1, StateWrites DEF BootSettle, Reconciled, TypeOK
      <3>4. QED BY <2>1, <2>6, <3>1, <3>2, <3>3 DEF Slots
    <2>9. CASE BootRequeue
      <3>1. /\ UNCHANGED <<phase, lock, ledger>> /\ at' = at + 1 /\ at \in Slots
            /\ queue' = Append(queue, at) /\ queue \in Seq(Slots)
        BY <2>9 DEF BootRequeue, Reconciling, ledgerVars, TypeOK
      <3>2. ledger.entries[at].state \in {"accepted", "running"}
        BY <2>9 DEF BootRequeue, BootAction
      <3>3. ~InQueue(at)
        BY <2>1, <3>1 DEF Slots
      <3>4. /\ \A i \in Slots : InQueue(i)' <=> InQueue(i) \/ i = at
            /\ \A j, k \in DOMAIN queue' : j # k => queue'[j] # queue'[k]
        BY <2>6, <3>1, <3>3, QueueAppend
      <3>5. UNCHANGED <<phase, lock, ledger>> /\ at' = at + 1 /\ at \in Slots
        BY <3>1
      <3>6. \A i \in Slots : InQueue(i)' =>
               ledger'.entries[i].state \in {"accepted", "running"} /\ i < at'
        BY <2>1, <2>6, <3>2, <3>4, <3>5 DEF Slots
      <3>7. QED BY <2>1, <3>4, <3>5, <3>6
    <2>10. QED BY <1>3, <2>7, <2>8, <2>9
  <1>4. QED BY <1>1, <1>2, <1>3 DEF Boot

\* On an up device Holders is a matter of the entries and of who holds them.
LEMMA UpHolders ==
    ASSUME phase' = "up",
           \A i \in Slots : InQueue(i)' \/ InNetwork(i)' \/ Executing(i)' =>
              ledger'.entries[i].state \in {"accepted", "running"},
           ctl'.pc = "restart" => /\ ledger'.entries[ctl'.entry].state = "awaiting_reboot"
                                  /\ IsType(ctl.entry, "reboot")',
           \A i \in Slots : ota'[i] # "none" => /\ ledger'.entries[i].state \in Live
                                                /\ IsType(i, "ota_install")',
           Single'
    PROVE  Holders'
  BY DEF Holders, Quiet, Alive

LEMMA NetworkHolders ==
    ASSUME TypeOK, GoodLedger(ledger), Holders, Network \/ ServerCommits
    PROVE  Holders'
  <1>t. ledger \in Ledger /\ net \in NetStates /\ queue \in Seq(Slots)
    BY DEF TypeOK
  <1>u. phase = "up" /\ phase' = "up" /\ UNCHANGED <<ctl, ota>>
    <2>1. phase = "up"
      BY OnlyWhenUp DEF Holders
    <2>2. UNCHANGED <<phase, ctl, ota>>
      BY DEF Network, ServerCommits, NetSend, NetLost, NetNotify, NetEnqueue, NetDone, NetIgnore,
         NetAccept, NetAcceptFails, NetOnly, bootVars
    <2>3. QED BY <2>1, <2>2
  <1>c. /\ \A i \in Slots : InControl(i)' <=> InControl(i)
        /\ \A i \in Slots : Executing(i)' <=> Executing(i)
    BY <1>u DEF InControl, Executing
  <1>1. ASSUME UNCHANGED <<ledger, queue>>, net'.pc # "enqueue"
        PROVE  Holders'
    <2>1. \A i \in Slots : ~InNetwork(i)'
      BY <1>1 DEF InNetwork
    <2>2. \A i \in Slots : InQueue(i)' <=> InQueue(i)
      BY <1>1, QueueKept
    <2>3. Single'
      BY <1>u, <1>c, <1>1, <2>1, <2>2 DEF Holders, Single
    <2>4. QED BY <1>u, <1>c, <1>1, <2>1, <2>2, <2>3, UpHolders DEF Holders, Alive, IsType
  <1>2. CASE NetSend \/ NetLost \/ NetNotify \/ NetDone \/ ServerCommits
    <2>1. net'.pc # "enqueue"
      <3>1. CASE NetSend
        <4>1. PICK r : net' = [net EXCEPT !.pc = "sent", !.reported = r]
          BY <3>1 DEF NetSend
        <4>2. QED BY <1>t, <4>1 DEF NetStates
      <3>2. CASE NetLost \/ NetNotify \/ NetDone
        <4>1. net' = NetIdle \/ net' = [net EXCEPT !.pc = "accepting", !.reported = {}]
          BY <3>2 DEF NetLost, NetNotify, NetDone
        <4>2. CASE net' = NetIdle
          BY <4>2 DEF NetIdle
        <4>3. CASE net' = [net EXCEPT !.pc = "accepting", !.reported = {}]
          BY <1>t, <4>3 DEF NetStates
        <4>4. QED BY <4>1, <4>2, <4>3
      <3>3. CASE ServerCommits
        <4>1. PICK o : net' = [net EXCEPT !.pc = "replied", !.offer = o]
          BY <3>3 DEF ServerCommits
        <4>2. QED BY <1>t, <4>1 DEF NetStates
      <3>4. QED BY <1>2, <3>1, <3>2, <3>3
    <2>2. UNCHANGED <<ledger, queue>>
      BY <1>2 DEF NetSend, NetLost, NetNotify, NetDone, ServerCommits, NetOnly, ledgerVars
    <2>3. QED BY <1>1, <2>1, <2>2
  <1>3. ASSUME NEW c \in Commands, NetIgnore(c) \/ NetAcceptFails(c)
        PROVE  Holders'
    <2>1. net'.pc # "enqueue"
      BY <1>t, <1>3 DEF NetIgnore, NetAcceptFails, Accepting, Dropped, NetStates
    <2>2. UNCHANGED <<ledger, queue>>
      BY <1>3 DEF NetIgnore, NetAcceptFails, NetOnly, NotSaved, ledgerVars
    <2>3. QED BY <1>1, <2>1, <2>2
  <1>4. ASSUME NEW c \in Commands, NetAccept(c)
        PROVE  Holders'
    <2>1. PICK i \in Slots, late \in BOOLEAN :
             /\ Reusable(i) /\ Saved(WithCommand(i, c, late))
             /\ IF late THEN Dropped(c)
                ELSE net' = [net EXCEPT !.offer = @ \ {c}, !.pc = "enqueue", !.entry = i]
      BY <1>4 DEF NetAccept, IsVictim
    <2>2. UNCHANGED queue /\ net.pc = "accepting"
      BY <1>4 DEF NetAccept, NetOnly, Accepting
    <2>3. /\ \A j \in Slots : j # i => ledger'.entries[j] = ledger.entries[j]
          /\ ledger'.entries[i].state = IF late THEN "expired" ELSE "accepted"
      BY <1>t, <2>1, CommandWrites
    <2>4. ledger.entries[i].state \notin Live
      BY <2>1 DEF Reusable, GoodLedger, Live, Terminal
    <2>5. ~InQueue(i) /\ ~InControl(i) /\ ota[i] = "none" /\ ~(ctl.pc = "restart" /\ ctl.entry = i)
      BY <2>4 DEF Holders, Alive, Live, InControl, Executing
    <2>6. \A j \in Slots : InNetwork(j)' <=> (~late /\ j = i)
      BY <1>t, <2>1, <2>2 DEF InNetwork, Dropped, NetStates
    <2>7. \A j \in Slots : InQueue(j)' <=> InQueue(j)
      BY <2>2, QueueKept
    <2>8. Single'
      BY <1>u, <1>c, <2>2, <2>5, <2>6, <2>7 DEF Holders, Single
    <2>9. ASSUME NEW j \in Slots, InQueue(j)' \/ InNetwork(j)' \/ Executing(j)'
          PROVE  ledger'.entries[j].state \in {"accepted", "running"}
      <3>1. CASE j = i
        <4>1. ~Executing(i)
          BY <2>5 DEF InControl, Executing
        <4>2. ~late
          BY <1>c, <2>5, <2>6, <2>7, <2>9, <3>1, <4>1
        <4>3. QED BY <2>3, <3>1, <4>2
      <3>2. CASE j # i
        BY <1>c, <2>3, <2>6, <2>7, <2>9, <3>2 DEF Holders, Alive
      <3>3. QED BY <3>1, <3>2
    <2>10. ctl.entry \in Slots
      BY DEF TypeOK, CtlStates
    <2>11. ctl'.pc = "restart" => /\ ledger'.entries[ctl'.entry].state = "awaiting_reboot"
                                  /\ IsType(ctl.entry, "reboot")'
      BY <1>u, <2>3, <2>5, <2>10 DEF Holders, Alive, IsType
    <2>12. \A j \in Slots : ota'[j] # "none" => /\ ledger'.entries[j].state \in Live
                                                /\ IsType(j, "ota_install")'
      BY <1>u, <2>3, <2>5 DEF Holders, Alive, IsType
    <2>13. QED BY <1>u, <2>8, <2>9, <2>11, <2>12, UpHolders
  <1>5. CASE NetEnqueue
    <2>1. net.pc = "enqueue" /\ net.entry \in Slots /\ UNCHANGED ledger /\ net'.pc = "accepting"
      BY <1>t, <1>5 DEF NetEnqueue, NetStates, ledgerVars
    <2>2. InNetwork(net.entry) /\ \A j \in Slots : ~InNetwork(j)'
      BY <2>1 DEF InNetwork
    <2>3. ~InQueue(net.entry) /\ ~InControl(net.entry) /\ ota[net.entry] = "none"
      BY <2>1, <2>2 DEF Holders, Single
    <2>4. Len(queue) < QueueDepth
      BY <1>t, <2>1, <2>3, QueueHasRoom DEF Holders, Single
    <2>5. queue' = Append(queue, net.entry)
      BY <1>5, <2>4 DEF NetEnqueue
    <2>6. /\ \A i \in Slots : InQueue(i)' <=> InQueue(i) \/ i = net.entry
          /\ \A j, k \in DOMAIN queue' : j # k => queue'[j] # queue'[k]
      BY <1>t, <2>1, <2>3, <2>5, QueueAppend DEF Holders, Single
    <2> HIDE <2>5
    <2>7. Single'
      BY <1>u, <1>c, <2>2, <2>3, <2>6 DEF Holders, Single
    <2>8. \A i \in Slots : InQueue(i)' \/ InNetwork(i)' \/ Executing(i)' =>
             ledger'.entries[i].state \in {"accepted", "running"}
      BY <1>c, <2>1, <2>2, <2>6 DEF Holders, Alive
    <2>9. QED BY <1>u, <2>1, <2>7, <2>8, UpHolders DEF Holders, Alive, IsType
  <1>6. QED BY <1>2, <1>3, <1>4, <1>5 DEF Network

LEMMA ControlHolders ==
    ASSUME TypeOK, GoodLedger(ledger), Holders, Control
    PROVE  Holders'
  <1>t. ledger \in Ledger /\ ctl \in CtlStates /\ ctl.entry \in Slots /\ queue \in Seq(Slots)
    BY DEF TypeOK, CtlStates
  <1>u. phase = "up"
    BY OnlyWhenUp DEF Holders
  <1>1. CASE CtlRestart
    BY <1>1, PowerOffHolders DEF CtlRestart
  <1>2. CASE CtlReceive
    <2>1. /\ ctl.pc = "receive" /\ queue # <<>> /\ queue' = Tail(queue)
          /\ ctl' = [pc |-> "begin", entry |-> Head(queue), ok |-> TRUE]
          /\ UNCHANGED <<phase, ledger, net, ota>>
      BY <1>2 DEF CtlReceive, bootVars, ledgerVars
    <2>2. /\ Head(queue) \in Slots /\ InQueue(Head(queue))
          /\ \A i \in Slots : InQueue(i)' <=> InQueue(i) /\ i # Head(queue)
          /\ \A j, k \in DOMAIN queue' : j # k => queue'[j] # queue'[k]
      BY <1>t, <2>1, QueueTail DEF Holders, Single
    <2> DEFINE h == Head(queue)
    <2>3. /\ ctl'.pc = "begin" /\ ctl'.entry = h /\ ctl.pc = "receive"
          /\ UNCHANGED <<phase, ledger, net, ota>>
      BY <2>1
    <2> HIDE DEF h
    <2>4. /\ h \in Slots /\ InQueue(h)
          /\ \A i \in Slots : InQueue(i)' <=> InQueue(i) /\ i # h
      BY <2>2 DEF h
    <2>5. /\ \A i \in Slots : InControl(i)' <=> i = h
          /\ \A i \in Slots : Executing(i)' <=> i = h
          /\ \A i \in Slots : InNetwork(i)' <=> InNetwork(i)
      BY <2>3, <2>4 DEF InControl, Executing, InNetwork
    <2>6. Single'
      BY <2>2, <2>3, <2>4, <2>5 DEF Holders, Single
    <2>7. \A i \in Slots : InQueue(i)' \/ InNetwork(i)' \/ Executing(i)' =>
             ledger'.entries[i].state \in {"accepted", "running"}
      BY <2>3, <2>4, <2>5 DEF Holders, Alive
    <2>8. QED BY <1>u, <2>3, <2>6, <2>7, UpHolders DEF Holders, Alive, IsType
  <1>q. ASSUME UNCHANGED <<queue, net>>
        PROVE  /\ \A i \in Slots : InQueue(i)' <=> InQueue(i)
               /\ \A i \in Slots : InNetwork(i)' <=> InNetwork(i)
    BY <1>q, QueueKept DEF InNetwork
  \* Steps after which the control task holds what it held, or nothing.
  <1>3. ASSUME UNCHANGED <<phase, queue, net, ota>>,
               \A i \in Slots : InControl(i)' => InControl(i),
               \A j \in Slots : /\ ledger'.entries[j].cmd = ledger.entries[j].cmd
                                /\ ~InControl(j) => ledger'.entries[j] = ledger.entries[j],
               \A i \in Slots : Executing(i)' => ledger'.entries[i].state \in {"accepted", "running"},
               ctl'.pc = "restart" => /\ ledger'.entries[ctl'.entry].state = "awaiting_reboot"
                                      /\ IsType(ctl.entry, "reboot")'
        PROVE  Holders'
    <2>1. Single'
      BY <1>q, <1>3 DEF Holders, Single
    <2>2. \A i \in Slots : InQueue(i)' \/ InNetwork(i)' \/ Executing(i)' =>
             ledger'.entries[i].state \in {"accepted", "running"}
      BY <1>q, <1>3 DEF Holders, Alive, Single
    <2>3. \A i \in Slots : ota'[i] # "none" => /\ ledger'.entries[i].state \in Live
                                               /\ IsType(i, "ota_install")'
      BY <1>3 DEF Holders, Alive, Single, IsType
    <2>4. QED BY <1>u, <1>3, <2>1, <2>2, <2>3, UpHolders
  <1>4. CASE CtlAcks \/ CtlTimeout \/ CtlProbe \/ CtlOtaRefused
    <2>1. UNCHANGED <<phase, queue, net, ota, ledger>>
      BY <1>4 DEF CtlAcks, CtlTimeout, CtlProbe, CtlOtaRefused, CtlOnly, Acknowledged, bootVars,
         ledgerVars
    <2>2. /\ ctl'.entry = ctl.entry /\ ctl'.pc \in {"acks", "receive", "finish"}
          /\ ctl'.pc = "finish" => ctl.pc = "effect"
      BY <1>t, <1>4 DEF CtlAcks, CtlTimeout, CtlProbe, CtlOtaRefused, CtlStates
    <2>3. /\ \A i \in Slots : InControl(i)' => InControl(i)
          /\ \A i \in Slots : Executing(i)' => Executing(i)
      BY <2>2 DEF InControl, Executing
    <2>4. \A i \in Slots : Executing(i)' => ledger'.entries[i].state \in {"accepted", "running"}
      BY <2>1, <2>3 DEF Holders, Alive
    <2>5. QED BY <1>3, <2>1, <2>2, <2>3, <2>4
  <1>5. CASE CtlBegin
    <2>1. /\ ctl.pc = "begin" /\ ctl'.pc = "effect" /\ ctl'.entry = ctl.entry
          /\ UNCHANGED <<phase, queue, net, ota>>
      BY <1>t, <1>5 DEF CtlBegin, CtlOnly, CtlStates
    <2>2. /\ \A j \in Slots : /\ ledger'.entries[j].cmd = ledger.entries[j].cmd
                              /\ j # ctl.entry => ledger'.entries[j] = ledger.entries[j]
          /\ ledger'.entries[ctl.entry].state \in {ledger.entries[ctl.entry].state, "running"}
      BY <1>t, <1>5, Transitions DEF CtlBegin
    <2>3. \A i \in Slots : (InControl(i)' <=> i = ctl.entry) /\ (InControl(i) <=> i = ctl.entry)
      BY <2>1 DEF InControl
    <2>4. Executing(ctl.entry)
      BY <2>1 DEF Executing
    <2>5. \A i \in Slots : Executing(i)' => ledger'.entries[i].state \in {"accepted", "running"}
      BY <1>t, <2>1, <2>2, <2>4 DEF Holders, Alive, Executing
    <2>6. QED BY <1>3, <2>1, <2>2, <2>3, <2>5
  <1>6. CASE CtlReboot
    <2>1. /\ ctl.pc = "effect" /\ CtlType = "reboot" /\ ctl'.entry = ctl.entry
          /\ UNCHANGED <<phase, queue, net, ota>>
          /\ \/ Transitioned(ctl.entry, "awaiting_reboot", 100) /\ ctl'.pc = "restart"
             \/ NotTransitioned(ctl.entry, "awaiting_reboot", 100) /\ ctl'.pc = "finish"
      BY <1>t, <1>6 DEF CtlReboot, CtlOnly, CtlStates
    <2>2. /\ \A j \in Slots : /\ ledger'.entries[j].cmd = ledger.entries[j].cmd
                              /\ j # ctl.entry => ledger'.entries[j] = ledger.entries[j]
          /\ ctl'.pc = "restart" => ledger'.entries[ctl.entry].state = "awaiting_reboot"
      BY <1>t, <2>1, Transitions
    <2>3. ctl'.pc = "finish" => ledger'.entries[ctl.entry] = ledger.entries[ctl.entry]
      BY <2>1 DEF NotTransitioned, NotSaved, ledgerVars
    <2>4. \A i \in Slots : (InControl(i)' <=> i = ctl.entry) /\ (InControl(i) <=> i = ctl.entry)
      BY <2>1 DEF InControl
    <2>5. ledger.entries[ctl.entry].state \in {"accepted", "running"}
      BY <1>t, <2>1 DEF Holders, Alive, Executing
    <2>6. \A i \in Slots : Executing(i)' => ledger'.entries[i].state \in {"accepted", "running"}
      BY <2>1, <2>3, <2>5 DEF Executing
    <2>7. ledger.entries[ctl.entry].cmd \in Commands
      <3>1. ledger.entries[ctl.entry].cmd # NoCommand
        BY <1>t, <2>5 DEF GoodLedger
      <3>2. QED BY <3>1, <1>t DEF Ledger, Entry
    <2>8. IsType(ctl.entry, "reboot")'
      BY <1>t, <2>1, <2>2, <2>7 DEF IsType, CtlType
    <2>9. QED BY <1>3, <2>1, <2>2, <2>4, <2>6, <2>8
  <1>7. CASE CtlFinish
    <2>1. PICK s, p : Transitioned(ctl.entry, s, p) \/ NotTransitioned(ctl.entry, s, p)
      BY <1>7 DEF CtlFinish
    <2>2. ctl.pc = "finish" /\ ctl' = CtlLoop /\ UNCHANGED <<phase, queue, net, ota>>
      BY <1>7 DEF CtlFinish, CtlOnly
    <2>3. \A j \in Slots : /\ ledger'.entries[j].cmd = ledger.entries[j].cmd
                           /\ j # ctl.entry => ledger'.entries[j] = ledger.entries[j]
      BY <1>t, <2>1, Transitions
    <2>4. /\ \A i \in Slots : InControl(i) <=> i = ctl.entry
          /\ \A i \in Slots : ~InControl(i)' /\ ~Executing(i)'
          /\ ctl'.pc # "restart"
      BY <2>2 DEF InControl, Executing, CtlLoop
    <2>5. QED BY <1>3, <2>2, <2>3, <2>4
  <1>8. CASE CtlOtaStart
    <2>1. /\ ctl.pc = "effect" /\ CtlType = "ota_install" /\ ctl' = CtlLoop
          /\ ota' = [ota EXCEPT ![ctl.entry] = "install"]
          /\ UNCHANGED <<phase, queue, net, ledger>>
      BY <1>8 DEF CtlOtaStart, CtlOnly, ledgerVars
    <2>2. InControl(ctl.entry) /\ Executing(ctl.entry)
      BY <2>1 DEF InControl, Executing
    <2>3. ledger.entries[ctl.entry].state \in {"accepted", "running"}
      BY <1>t, <2>2 DEF Holders, Alive
    <2>4. ledger.entries[ctl.entry].cmd \in Commands
      <3>1. ledger.entries[ctl.entry].cmd # NoCommand
        BY <1>t, <2>3 DEF GoodLedger
      <3>2. QED BY <3>1, <1>t DEF Ledger, Entry
    <2>5. IsType(ctl.entry, "ota_install")
      BY <2>1, <2>4 DEF IsType, CtlType
    <2>6. \A i \in Slots : ~InControl(i)' /\ ~Executing(i)' /\ ctl'.pc # "restart"
      BY <2>1 DEF InControl, Executing, CtlLoop
    <2>7. \A i \in Slots : ota'[i] # "none" => ota[i] # "none" \/ i = ctl.entry
      BY <1>t, <2>1 DEF TypeOK
    <2>8. ~InQueue(ctl.entry) /\ ~InNetwork(ctl.entry)
      BY <1>t, <2>2 DEF Holders, Single
    <2>9. Single'
      BY <1>q, <2>1, <2>6, <2>7, <2>8 DEF Holders, Single
    <2>10. \A i \in Slots : InQueue(i)' \/ InNetwork(i)' \/ Executing(i)' =>
              ledger'.entries[i].state \in {"accepted", "running"}
      BY <1>q, <2>1, <2>6 DEF Holders, Alive
    <2>11. \A i \in Slots : ota'[i] # "none" => /\ ledger'.entries[i].state \in Live
                                                /\ IsType(i, "ota_install")'
      BY <2>1, <2>3, <2>5, <2>7 DEF Holders, Alive, IsType, Live
    <2>12. ctl'.pc # "restart"
      BY <2>1 DEF CtlLoop
    <2>13. QED BY <1>u, <2>1, <2>9, <2>10, <2>11, <2>12, UpHolders
  <1>9. QED
    BY <1>1, <1>2, <1>4, <1>5, <1>6, <1>7, <1>8 DEF Control

LEMMA OtaHolders ==
    ASSUME TypeOK, Holders, NEW i \in Slots, OtaTask(i)
    PROVE  Holders'
  <1>t. /\ ledger \in Ledger /\ ctl.entry \in Slots
        /\ ota \in [Slots -> {"none", "install", "cancel", "restart"}]
    BY DEF TypeOK, CtlStates
  <1>u. phase = "up"
    BY OnlyWhenUp DEF Holders
  <1>1. CASE OtaRestart(i)
    BY <1>1, PowerOffHolders DEF OtaRestart
  <1>2. ASSUME UNCHANGED <<phase, queue, net, ctl>>, ota[i] # "none",
               \A j \in Slots : /\ ledger'.entries[j].cmd = ledger.entries[j].cmd
                                /\ j # i => ledger'.entries[j] = ledger.entries[j],
               \A j \in Slots : j # i => ota'[j] = ota[j],
               ota'[i] # "none" => ledger'.entries[i].state \in Live
        PROVE  Holders'
    <2>1. \A j \in Slots : /\ InQueue(j)' <=> InQueue(j)
                           /\ InNetwork(j)' <=> InNetwork(j)
                           /\ InControl(j)' <=> InControl(j)
                           /\ Executing(j)' <=> Executing(j)
      BY <1>2, QueueKept DEF InNetwork, InControl, Executing
    <2>2. ~InQueue(i) /\ ~InNetwork(i) /\ ~InControl(i)
      BY <1>2 DEF Holders, Single
    <2>3. Single'
      BY <1>2, <2>1, <2>2 DEF Holders, Single
    <2>4. \A j \in Slots : InQueue(j)' \/ InNetwork(j)' \/ Executing(j)' =>
             ledger'.entries[j].state \in {"accepted", "running"}
      BY <1>2, <2>1, <2>2 DEF Holders, Alive, Executing, InControl
    <2>5. \A j \in Slots : ota'[j] # "none" => /\ ledger'.entries[j].state \in Live
                                               /\ IsType(j, "ota_install")'
      BY <1>2 DEF Holders, Alive, IsType
    <2>6. ctl'.pc = "restart" => /\ ledger'.entries[ctl'.entry].state = "awaiting_reboot"
                                 /\ IsType(ctl.entry, "reboot")'
      BY <1>t, <1>2, <2>2 DEF Holders, Alive, IsType, InControl
    <2>7. QED BY <1>u, <1>2, <2>3, <2>4, <2>5, <2>6, UpHolders
  <1>l. ota[i] # "none" => ledger.entries[i].state \in Live
    BY DEF Holders, Alive
  <1>3. CASE OtaProgress(i)
    <2>1. PICK p : Transitioned(i, "running", p) \/ NotTransitioned(i, "running", p)
      BY <1>3 DEF OtaProgress
    <2>2. UNCHANGED <<phase, queue, net, ctl, ota>> /\ ota[i] # "none"
      BY <1>3 DEF OtaProgress, OtaOnly, bootVars
    <2>3. QED BY <1>t, <1>2, <1>l, <2>1, <2>2, Transitions DEF Live
  <1>4. CASE OtaInstalled(i)
    <2>1. /\ Transitioned(i, "awaiting_reboot", 100) \/ NotTransitioned(i, "awaiting_reboot", 100)
          /\ UNCHANGED <<phase, queue, net, ctl>> /\ ota[i] # "none"
      BY <1>4 DEF OtaInstalled, OtaOnly, bootVars
    <2>2. \A j \in Slots : j # i => ota'[j] = ota[j]
      BY <1>t, <1>4 DEF OtaInstalled
    <2>3. QED BY <1>t, <1>2, <1>l, <2>1, <2>2, Transitions DEF Live
  <1>5. CASE OtaInstallFails(i)
    <2>1. UNCHANGED <<phase, queue, net, ctl, ledger>> /\ ota[i] # "none"
      BY <1>5 DEF OtaInstallFails, OtaOnly, bootVars, ledgerVars
    <2>2. \A j \in Slots : j # i => ota'[j] = ota[j]
      BY <1>t, <1>5 DEF OtaInstallFails
    <2>3. QED BY <1>2, <1>l, <2>1, <2>2
  <1>6. CASE OtaCancel(i)
    <2>1. PICK p : Transitioned(i, "failed", p) \/ NotTransitioned(i, "failed", p)
      BY <1>6 DEF OtaCancel
    <2>2. UNCHANGED <<phase, queue, net, ctl>> /\ ota[i] # "none"
      BY <1>6 DEF OtaCancel, OtaOnly, bootVars
    <2>3. ota'[i] = "none" /\ \A j \in Slots : j # i => ota'[j] = ota[j]
      BY <1>t, <1>6 DEF OtaCancel
    <2>4. QED BY <1>t, <1>2, <2>1, <2>2, <2>3, Transitions
  <1>7. QED BY <1>1, <1>3, <1>4, <1>5, <1>6 DEF OtaTask

LEMMA HoldersStep ==
    ASSUME TypeOK, GoodLedger(ledger), Holders, [Next]_vars
    PROVE  Holders'
  <1>1. CASE Boot BY <1>1, BootHolders
  <1>2. CASE Network \/ ServerCommits BY <1>2, NetworkHolders
  <1>3. CASE Control BY <1>3, ControlHolders
  <1>4. CASE Reset BY <1>4, PowerOffHolders DEF Reset
  <1>5. CASE \E i \in Slots : OtaTask(i) BY <1>5, OtaHolders
  <1>6. CASE UNCHANGED vars
    <2>1. UNCHANGED <<ledger, phase, at, lock, queue, net, ctl, ota>>
      BY <1>6 DEF vars, ledgerVars, bootVars, taskVars
    <2>2. \A i \in Slots : InQueue(i)' <=> InQueue(i)
      BY <2>1, QueueKept
    <2>3. QED
      BY <2>1, <2>2 DEF Holders, Quiet, Alive, Single, NoOta, IsType, InNetwork, InControl, Executing
  <1>7. QED BY <1>1, <1>2, <1>3, <1>4, <1>5, <1>6 DEF Next

-----------------------------------------------------------------------------
(***************************************************************************)
(* What happens to the ledger, now that every task works on a live entry:  *)
(* an unsettled entry moves on, a reusable one takes a command that is not *)
(* known yet, or a boot loads a slot.                                      *)
(***************************************************************************)
MovesOn(new) ==
    \E i \in Slots, s \in CommandStates \ {"empty"}, p \in 0 .. 100 :
        /\ ledger.entries[i].state \in Live
        /\ ledger.entries[i].state = "awaiting_reboot" /\ IsType(i, "reboot") =>
              phase = "reconcile" /\ i = at /\ s = "succeeded"
        /\ new = WithState(i, s, p)

TakesIn(new) ==
    /\ net.pc = "accepting"
    /\ \E i \in Slots, c \in net.offer, late \in BOOLEAN :
          Reusable(i) /\ ~AlreadyKnown(c) /\ new = WithCommand(i, c, late)

LedgerChange ==
    \/ UNCHANGED ledgerVars
    \/ \E new \in Ledger : /\ new.generation = ledger.generation
                           /\ MovesOn(new) \/ TakesIn(new)
                           /\ Saved(new) \/ NotSaved(new)
    \/ phase = "off" /\ (LoadNewest \/ LoadFresh \/ LoadFails)

LEMMA LedgerChanges ==
    ASSUME TypeOK, GoodLedger(ledger), Holders, [Next]_vars
    PROVE  LedgerChange
  <1>t. ledger \in Ledger /\ ctl.entry \in Slots
    BY DEF TypeOK, CtlStates
  <1>p. ASSUME NEW i \in Slots PROVE ledger.entries[i].progress \in 0 .. 100
    BY <1>t DEF Ledger, Entry
  <1>s. {"running", "awaiting_reboot", "succeeded", "failed", "rolled_back"}
          \subseteq CommandStates \ {"empty"}
    BY DEF CommandStates
  <1>w. ASSUME NEW i \in Slots, NEW s \in CommandStates \ {"empty"}, NEW p \in 0 .. 100,
               ledger.entries[i].state \in Live,
               ledger.entries[i].state = "awaiting_reboot" /\ IsType(i, "reboot") =>
                   phase = "reconcile" /\ i = at /\ s = "succeeded",
               Saved(WithState(i, s, p)) \/ NotSaved(WithState(i, s, p))
        PROVE  LedgerChange
    <2>1. MovesOn(WithState(i, s, p))
      BY <1>w DEF MovesOn
    <2>2. WithState(i, s, p) \in Ledger /\ WithState(i, s, p).generation = ledger.generation
      BY <1>t, WithStateType
    <2>3. QED BY <1>w, <2>1, <2>2 DEF LedgerChange
  <1>tr. ASSUME NEW i \in Slots, NEW s \in CommandStates \ {"empty"}, NEW p \in 0 .. 100,
                ledger.entries[i].state \in Live,
                ~(ledger.entries[i].state = "awaiting_reboot" /\ IsType(i, "reboot")),
                Transitioned(i, s, p) \/ NotTransitioned(i, s, p)
         PROVE  LedgerChange
    BY <1>tr, <1>w DEF Transitioned, NotTransitioned, LedgerChange
  <1>1. ASSUME BootLoad \/ BootHalts PROVE LedgerChange
    BY <1>1 DEF BootLoad, BootHalts, LedgerChange
  <1>2. ASSUME BootSettle \/ BootRestart PROVE LedgerChange
    <2> DEFINE e == ledger.entries[at]
               s == BootOutcome(e)
               p == IF s = "succeeded" THEN 100 ELSE e.progress
    <2>1. at \in Slots /\ phase = "reconcile" /\ Unsettled
      BY <1>2 DEF BootSettle, BootRestart, Reconciling
    <2>2. s \in CommandStates \ {"empty"} /\ p \in 0 .. 100
      BY <1>p, <2>1 DEF BootOutcome, CommandStates
    <2>3. e.state \in Live
      <3>1. e.state \in CommandStates
        BY <1>t, <2>1 DEF Ledger, Entry
      <3>2. BootAction(e) # "ignore"
        BY <2>1 DEF Unsettled
      <3>3. e.state \in Terminal \cup {"empty"} => BootAction(e) = "ignore"
        BY DEF BootAction, Terminal
      <3>4. QED BY <3>1, <3>2, <3>3 DEF CommandStates, Terminal, Live
    <2>4. e.state = "awaiting_reboot" /\ IsType(at, "reboot") => s = "succeeded"
      <3>1. e.state = "awaiting_reboot" /\ e.cmd.type = "reboot" =>
               BootAction(e) = "complete_reboot"
        BY DEF BootAction, Terminal
      <3>2. BootAction(e) = "complete_reboot" => s = "succeeded"
        BY DEF BootOutcome
      <3>3. QED BY <3>1, <3>2 DEF IsType
    <2>5. Saved(WithState(at, s, p)) \/ NotSaved(WithState(at, s, p))
      BY <1>2 DEF BootSettle, BootRestart, Reconciled
    <2>6. QED BY <1>w, <2>1, <2>2, <2>3, <2>4, <2>5
  <1>3. ASSUME NEW c \in Commands, NetAccept(c) \/ NetAcceptFails(c)
        PROVE  LedgerChange
    <2>1. PICK i \in Slots, late \in BOOLEAN :
             Reusable(i) /\ (Saved(WithCommand(i, c, late)) \/ NotSaved(WithCommand(i, c, late)))
      BY <1>3 DEF NetAccept, NetAcceptFails, IsVictim
    <2>2. TakesIn(WithCommand(i, c, late))
      BY <1>3, <2>1 DEF NetAccept, NetAcceptFails, Accepting, TakesIn
    <2>3. WithCommand(i, c, late) \in Ledger /\ WithCommand(i, c, late).generation = ledger.generation
      BY <1>t, WithCommandType
    <2>4. QED BY <2>1, <2>2, <2>3 DEF LedgerChange
  <1>e. ctl.pc \in {"begin", "effect", "finish"} =>
           ledger.entries[ctl.entry].state \in {"accepted", "running"}
    BY <1>t DEF Holders, Alive, Executing
  <1>4. ASSUME CtlBegin \/ CtlReboot PROVE LedgerChange
    <2>1. PICK s \in {"running", "awaiting_reboot"}, p \in 0 .. 100 :
             Transitioned(ctl.entry, s, p) \/ NotTransitioned(ctl.entry, s, p)
      BY <1>4 DEF CtlBegin, CtlReboot
    <2>2. QED BY <1>t, <1>s, <1>e, <1>4, <1>tr, <2>1 DEF CtlBegin, CtlReboot, Live
  <1>5. ASSUME CtlFinish PROVE LedgerChange
    <2>1. PICK s \in {"succeeded", "failed"}, p \in 0 .. 100 :
             Transitioned(ctl.entry, s, p) \/ NotTransitioned(ctl.entry, s, p)
      BY <1>t, <1>p, <1>5 DEF CtlFinish
    <2>2. QED BY <1>t, <1>s, <1>e, <1>5, <1>tr, <2>1 DEF CtlFinish, Live
  <1>6. ASSUME NEW i \in Slots, OtaProgress(i) \/ OtaInstalled(i) \/ OtaCancel(i)
        PROVE  LedgerChange
    <2>1. PICK s \in {"running", "awaiting_reboot", "failed"}, p \in 0 .. 100 :
             Transitioned(i, s, p) \/ NotTransitioned(i, s, p)
      BY <1>p, <1>6 DEF OtaProgress, OtaInstalled, OtaCancel, OtaPercents
    <2>2. ota[i] # "none"
      BY <1>6 DEF OtaProgress, OtaInstalled, OtaCancel
    <2>3. ledger.entries[i].state \in Live /\ ~IsType(i, "reboot")
      BY <2>2 DEF Holders, Alive, IsType
    <2>4. QED BY <1>s, <1>tr, <2>1, <2>3
  <1>7. ASSUME \/ BootSkip \/ BootRequeue \/ BootDone \/ NetSend \/ NetLost
               \/ NetNotify \/ NetEnqueue \/ NetDone \/ ServerCommits \/ Reset
               \/ \E c \in Commands : NetIgnore(c)
               \/ CtlAcks \/ CtlReceive \/ CtlTimeout \/ CtlProbe \/ CtlRestart
               \/ CtlOtaStart \/ CtlOtaRefused
               \/ \E i \in Slots : OtaInstallFails(i) \/ OtaRestart(i)
               \/ UNCHANGED vars
        PROVE  LedgerChange
    BY <1>7 DEF BootSkip, BootRequeue, BootDone, NetSend, NetLost, NetNotify,
         NetEnqueue, NetDone, ServerCommits, Reset, NetIgnore, CtlAcks, Acknowledged,
         CtlReceive, CtlTimeout, CtlProbe, CtlRestart, CtlOtaStart,
         CtlOtaRefused, OtaInstallFails, OtaRestart, vars, LedgerChange
  <1>8. QED
    BY <1>1, <1>2, <1>3, <1>4, <1>5, <1>6, <1>7
    DEF Next, Boot, Network, Control, OtaTask

-----------------------------------------------------------------------------
(***************************************************************************)
(* Identities.  Every ledger that is written keeps identities unique and   *)
(* the results it has: so do the ledgers in the slots.                     *)
(***************************************************************************)
\* A ledger has nothing but this state for a command.
Says(l, c, s) == \A i \in Slots : l.entries[i].cmd = c => l.entries[i].state = s

LEMMA MovedEntries ==
    ASSUME ledger \in Ledger, NEW i \in Slots, NEW s, NEW p
    PROVE  \A j \in Slots :
              /\ WithState(i, s, p).entries[j].cmd = ledger.entries[j].cmd
              /\ j # i => WithState(i, s, p).entries[j] = ledger.entries[j]
              /\ j = i => WithState(i, s, p).entries[j].state = s
  <1>1. /\ ledger.entries \in [Slots -> Entry]
        /\ WithState(i, s, p).entries = [ledger.entries EXCEPT ![i] =
              [cmd |-> ledger.entries[i].cmd, state |-> s, progress |-> p]]
    BY DEF WithState, Ledger
  <1>2. QED BY <1>1

LEMMA TakenEntries ==
    ASSUME ledger \in Ledger, NEW i \in Slots, NEW c, NEW late
    PROVE  \A j \in Slots :
              /\ j # i => WithCommand(i, c, late).entries[j] = ledger.entries[j]
              /\ j = i => /\ WithCommand(i, c, late).entries[j].cmd = c
                          /\ WithCommand(i, c, late).entries[j].state \in {"expired", "accepted"}
  BY DEF WithCommand, Ledger

LEMMA NumberedEntries ==
    ASSUME NEW l \in Ledger
    PROVE  Numbered(l).entries = l.entries
  BY DEF Numbered, Ledger

LEMMA WrittenIsGood ==
    ASSUME TypeOK, GoodLedger(ledger), NEW new \in Ledger, MovesOn(new) \/ TakesIn(new)
    PROVE  /\ GoodLedger(new)
           /\ \A i \in Slots :
                 ledger.entries[i].cmd # NoCommand /\ ledger.entries[i].state \in Terminal =>
                    Says(new, ledger.entries[i].cmd, ledger.entries[i].state)
  <1>t. ledger \in Ledger /\ net.offer \subseteq Commands
    BY DEF TypeOK, NetStates
  <1>1. CASE MovesOn(new)
    <2>1. PICK i \in Slots, s \in CommandStates \ {"empty"}, p \in 0 .. 100 :
             ledger.entries[i].state \in Live /\ new = WithState(i, s, p)
      BY <1>1 DEF MovesOn
    <2>2. \A j \in Slots : /\ new.entries[j].cmd = ledger.entries[j].cmd
                           /\ j # i => new.entries[j] = ledger.entries[j]
      BY <1>t, <2>1, MovedEntries
    <2>3. ledger.entries[i].cmd # NoCommand
      BY <2>1 DEF GoodLedger, Live
    <2>4. GoodLedger(new)
      <3>1. \A j \in Slots : new.entries[j].cmd = NoCommand => new.entries[j].state = "empty"
        <4>1. SUFFICES ASSUME NEW j \in Slots, new.entries[j].cmd = NoCommand
                       PROVE  new.entries[j].state = "empty"
          OBVIOUS
        <4>2. ledger.entries[j].cmd = NoCommand /\ j # i
          BY <2>2, <2>3, <4>1
        <4>3. new.entries[j] = ledger.entries[j]
          BY <2>2, <4>2
        <4>4. QED BY <4>2, <4>3 DEF GoodLedger
      <3>2. \A j, m \in Slots :
               j # m /\ new.entries[j].cmd # NoCommand /\ new.entries[m].cmd # NoCommand =>
                  /\ new.entries[j].cmd.id # new.entries[m].cmd.id
                  /\ new.entries[j].cmd.key # new.entries[m].cmd.key
        <4>1. SUFFICES ASSUME NEW j \in Slots, NEW m \in Slots, j # m,
                              new.entries[j].cmd # NoCommand, new.entries[m].cmd # NoCommand
                       PROVE  /\ new.entries[j].cmd.id # new.entries[m].cmd.id
                              /\ new.entries[j].cmd.key # new.entries[m].cmd.key
          OBVIOUS
        <4>2. /\ new.entries[j].cmd = ledger.entries[j].cmd
              /\ new.entries[m].cmd = ledger.entries[m].cmd
          BY <2>2
        <4>3. QED BY <4>1, <4>2 DEF GoodLedger
      <3>3. QED BY <3>1, <3>2 DEF GoodLedger
    <2>5. ASSUME NEW j \in Slots, ledger.entries[j].cmd # NoCommand,
                 ledger.entries[j].state \in Terminal
          PROVE  Says(new, ledger.entries[j].cmd, ledger.entries[j].state)
      <3>1. j # i
        BY <2>1, <2>5 DEF Live, Terminal
      <3>2. \A m \in Slots : ledger.entries[m].cmd = ledger.entries[j].cmd => m = j
        BY <2>5 DEF GoodLedger
      <3>3. QED BY <2>2, <3>1, <3>2 DEF Says
    <2>6. QED BY <2>4, <2>5
  <1>2. CASE TakesIn(new)
    <2>1. PICK i \in Slots, c \in net.offer, late \in BOOLEAN :
             Reusable(i) /\ ~AlreadyKnown(c) /\ new = WithCommand(i, c, late)
      BY <1>2 DEF TakesIn
    <2>2. \A j \in Slots :
             /\ j # i => new.entries[j] = ledger.entries[j]
             /\ j = i => new.entries[j].cmd = c
      BY <1>t, <2>1, TakenEntries
    <2>3. /\ c \in Commands /\ c # NoCommand
          /\ \A j \in Slots : ledger.entries[j].cmd # NoCommand =>
                ledger.entries[j].cmd.id # c.id /\ ledger.entries[j].cmd.key # c.key
      BY <1>t, <2>1, CommandAssumption DEF AlreadyKnown, Matches
    <2>4. GoodLedger(new)
      <3>1. \A j \in Slots : new.entries[j].cmd = NoCommand => new.entries[j].state = "empty"
        BY <2>2, <2>3 DEF GoodLedger
      <3>2. ASSUME NEW j \in Slots, NEW m \in Slots, j # m,
                   new.entries[j].cmd # NoCommand, new.entries[m].cmd # NoCommand
            PROVE  /\ new.entries[j].cmd.id # new.entries[m].cmd.id
                   /\ new.entries[j].cmd.key # new.entries[m].cmd.key
        <4>1. CASE j # i /\ m # i
          BY <2>2, <3>2, <4>1 DEF GoodLedger
        <4>2. CASE j = i /\ m # i
          BY <2>2, <2>3, <3>2, <4>2
        <4>3. CASE j # i /\ m = i
          BY <2>2, <2>3, <3>2, <4>3
        <4>4. QED BY <3>2, <4>1, <4>2, <4>3
      <3>3. QED BY <3>1, <3>2 DEF GoodLedger
    <2>5. ASSUME NEW j \in Slots, ledger.entries[j].cmd # NoCommand,
                 ledger.entries[j].state \in Terminal
          PROVE  Says(new, ledger.entries[j].cmd, ledger.entries[j].state)
      <3>1. \A m \in Slots : ledger.entries[m].cmd = ledger.entries[j].cmd => m = j
        BY <2>5 DEF GoodLedger
      <3>2. ledger.entries[j].cmd # c
        BY <2>3, <2>5
      <3>3. QED BY <2>2, <3>1, <3>2 DEF Says
    <2>6. QED BY <2>4, <2>5
  <1>3. QED BY <1>1, <1>2

\* What the slots hold after a write.
LEMMA SlotsAfter ==
    ASSUME LedgerTypeOK, NEW new \in Ledger, Saved(new) \/ NotSaved(new), NEW k \in Keys, IsValid(k)'
    PROVE  \/ nvs'[k] = nvs[k]
           \/ nvs'[k].ledger = Numbered(new) /\ new.generation < MaxGeneration
  <1>1. new.generation \in Nat /\ SlotKey(new.generation + 1) \in Keys
    BY SlotKeyType DEF Ledger
  <1>2. CASE Saved(new)
    BY <1>1, <1>2 DEF Saved, LedgerTypeOK, Valid
  <1>3. CASE NotSaved(new) /\ new.generation < MaxGeneration
    <2>1. PICK left \in {nvs[SlotKey(new.generation + 1)], Invalid, Valid(Numbered(new))} :
             nvs' = [nvs EXCEPT ![SlotKey(new.generation + 1)] = left]
      BY <1>1, <1>3 DEF NotSaved
    <2>2. CASE k # SlotKey(new.generation + 1)
      BY <2>1, <2>2 DEF LedgerTypeOK
    <2>3. CASE k = SlotKey(new.generation + 1)
      <3>1. nvs'[k] = left
        BY <2>1, <2>3 DEF LedgerTypeOK
      <3>2. left # Invalid
        BY <3>1 DEF IsValid, Invalid
      <3>3. QED BY <1>3, <2>1, <2>3, <3>1, <3>2 DEF Valid
    <2>4. QED BY <2>2, <2>3
  <1>4. CASE UNCHANGED nvs
    BY <1>4
  <1>5. QED BY <1>2, <1>3, <1>4 DEF NotSaved

LEMMA Loads ==
    ASSUME LedgerTypeOK, LoadNewest
    PROVE  /\ SelectedKey \in Keys /\ IsValid(SelectedKey) /\ UNCHANGED nvs
           /\ ledger' = nvs[SelectedKey].ledger
  BY DEF LoadNewest, Loadable, SelectedKey, IsValid, Keys

LEMMA ZeroIsGood == GoodLedger(Numbered(ZeroLedger))
  BY ZeroLedgerType, NumberedEntries DEF GoodLedger, ZeroLedger, EmptyEntry

LEMMA GoodStep ==
    ASSUME TypeOK, GoodLedgers, Holders, [Next]_vars
    PROVE  GoodLedgers'
  <1>t. LedgerTypeOK
    BY TypeParts
  <1>1. ASSUME NEW new \in Ledger, GoodLedger(Numbered(new)), Saved(new) \/ NotSaved(new)
        PROVE  GoodLedgers'
    <2>1. ASSUME NEW k \in Keys, IsValid(k)' PROVE GoodLedger(nvs'[k].ledger)
      BY <1>t, <1>1, <2>1, SlotsAfter DEF GoodLedgers, IsValid
    <2>2. GoodLedger(ledger')
      BY <1>1 DEF Saved, NotSaved, GoodLedgers
    <2>3. QED BY <2>1, <2>2 DEF GoodLedgers, GoodLedger
  <1>2. CASE UNCHANGED ledgerVars
    BY <1>2 DEF GoodLedgers, GoodLedger, ledgerVars, IsValid
  <1>3. ASSUME NEW new \in Ledger, MovesOn(new) \/ TakesIn(new), Saved(new) \/ NotSaved(new)
        PROVE  GoodLedgers'
    <2>1. GoodLedger(new)
      BY <1>3, WrittenIsGood DEF GoodLedgers
    <2>2. GoodLedger(Numbered(new))
      BY <2>1, NumberedEntries DEF GoodLedger
    <2>3. QED BY <1>1, <1>3, <2>2
  <1>4. CASE LoadNewest
    BY <1>t, <1>4, Loads DEF GoodLedgers, GoodLedger, IsValid
  <1>5. CASE LoadFresh \/ LoadFails
    BY <1>1, <1>2, <1>5, ZeroLedgerType, ZeroIsGood DEF LoadFresh, LoadFails
  <1>6. LedgerChange
    BY LedgerChanges DEF GoodLedgers
  <1>7. QED BY <1>2, <1>3, <1>4, <1>5, <1>6 DEF LedgerChange

-----------------------------------------------------------------------------
(***************************************************************************)
(* Nothing is stranded: with working storage an unsettled entry has a      *)
(* holder; during a boot this goes for the entries it has looked at.       *)
(***************************************************************************)
Kept ==
    failures = 0 /\ ledger.generation < MaxGeneration /\ phase \in {"reconcile", "up"} =>
        \A i \in Slots : ledger.entries[i].state \in Live /\ (phase = "up" \/ i < at) => Held(i)

\* Storage works.
Works == failures = 0 /\ ledger.generation < MaxGeneration

\* Failures and generations are only ever added, and a write that fails shows.
LEMMA WorkedBefore ==
    ASSUME TypeOK, Durable, [Next]_vars, Works'
    PROVE  Works
  <1>t. LedgerTypeOK /\ LedgerStep
    BY TypeParts, LedgerSteps
  <1>n. /\ failures \in Nat /\ ledger.generation \in Nat /\ MaxGeneration \in Nat
        /\ ledger.generation <= MaxGeneration
    BY <1>t, GenerationAssumption DEF LedgerTypeOK, Ledger
  <1>1. ASSUME NEW new \in Ledger, new.generation = ledger.generation, Saved(new) \/ NotSaved(new)
        PROVE  Works
    <2>1. CASE Saved(new)
      BY <1>n, <1>1, <2>1 DEF Saved, Works
    <2>2. CASE NotSaved(new)
      <3>1. ledger' = ledger /\ (failures' = failures \/ failures' = failures + 1)
        BY <2>2 DEF NotSaved
      <3>2. QED BY <1>n, <3>1 DEF Works
    <2>3. QED BY <1>1, <2>1, <2>2
  <1>2. CASE UNCHANGED ledgerVars
    BY <1>2 DEF Works, ledgerVars
  <1>3. CASE LoadNewest
    <2>1. SelectedKey \in Keys /\ IsValid(SelectedKey) /\ ledger' = nvs[SelectedKey].ledger
      BY <1>t, <1>3, Loads
    <2>2. ledger.generation <= ledger'.generation
      <3>1. CASE ledger.generation > 0
        <4>1. BootSeesLatest
          BY DurableImpliesLatest
        <4>2. QED BY <1>n, <2>1, <3>1, <4>1 DEF BootSeesLatest
      <3>2. CASE ledger.generation = 0
        <4>1. ledger'.generation \in Nat
          BY <1>t, <2>1, SlotType DEF IsValid, LedgerTypeOK, Ledger
        <4>2. QED BY <3>2, <4>1
      <3>3. QED BY <1>n, <3>1, <3>2
    <2>3. ledger'.generation \in Nat
      BY <1>t, <2>1, SlotType DEF IsValid, LedgerTypeOK, Ledger
    <2>4. QED BY <1>n, <1>3, <2>2, <2>3 DEF LoadNewest, Works
  <1>z. ASSUME NeverWritten PROVE ledger.generation = 0
    BY <1>z, <1>n, SlotKeyType DEF Durable, NeverWritten, Valid
  <1>4. CASE LoadFresh \/ LoadFails
    BY <1>1, <1>2, <1>4, <1>z, ZeroLedgerType DEF LoadFresh, LoadFails
  <1>5. QED BY <1>t, <1>1, <1>2, <1>3, <1>4 DEF LedgerStep

LEMMA FailureShows ==
    ASSUME TypeOK, NEW new \in Ledger, new.generation = ledger.generation, NotSaved(new)
    PROVE  ~Works'
  BY GenerationAssumption DEF TypeOK, NotSaved, Works, Ledger

\* Settling a live entry fails only if storage fails.
LEMMA SettlingWorks ==
    ASSUME TypeOK, NEW i \in Slots, NEW s \in CommandStates, NEW p \in 0 .. 100, Works',
           ledger.entries[i].state \in Live, p >= ledger.entries[i].progress,
           Transitioned(i, s, p) \/ NotTransitioned(i, s, p)
    PROVE  ledger'.entries[i].state = s
  <1>1. ledger \in Ledger
    BY DEF TypeOK
  <1>2. MayTransition(i, s, p)
    BY DEF MayTransition, Live, Terminal
  <1>3. WithState(i, s, p) \in Ledger /\ WithState(i, s, p).generation = ledger.generation
    BY <1>1, WithStateType
  <1>4. Transitioned(i, s, p)
    BY <1>2, <1>3, FailureShows DEF NotTransitioned
  <1>5. QED BY <1>1, <1>4, Transitions

LEMMA UpKept ==
    ASSUME Kept, Works, phase = "up",
           \A j \in Slots : ledger'.entries[j].state \in Live =>
              \/ Held(j)'
              \/ ledger.entries[j].state \in Live /\ (Held(j) => Held(j)')
    PROVE  Kept'
  BY DEF Kept, Works

LEMMA BootKept ==
    ASSUME TypeOK, Durable, GoodLedger(ledger), Holders, Kept, Works', Works, Boot
    PROVE  Kept'
  <1>t. ledger \in Ledger /\ LedgerSize \in Nat /\ at \in 1 .. LedgerSize + 1
    BY LedgerSizeAssumption DEF TypeOK
  <1>1. CASE BootLoad \/ BootHalts \/ BootRestart
    <2>1. phase' \in {"off", "halted"} \/ (phase' = "reconcile" /\ at' = 1)
      BY <1>1 DEF BootLoad, BootHalts, BootRestart, PowerOff
    <2>2. QED BY <2>1 DEF Kept, Slots
  <1>h. ASSUME UNCHANGED <<queue, net, ctl, ota>> PROVE \A i \in Slots : Held(i)' <=> Held(i)
    BY <1>h DEF Held, InQueue, InControl, InNetwork
  <1>2. CASE BootDone
    <2>1. UNCHANGED <<ledger, queue, net, ctl, ota>> /\ at = LedgerSize + 1 /\ phase = "reconcile"
      BY <1>2 DEF BootDone, taskVars, ledgerVars
    <2>2. \A i \in Slots : i < at
      BY <1>t, <2>1 DEF Slots
    <2>3. QED BY <1>h, <2>1, <2>2 DEF Kept, Works
  <1>3. CASE BootSkip \/ BootSettle
    <2>1. /\ phase = "reconcile" /\ phase' = "reconcile" /\ at \in Slots /\ at' = at + 1
          /\ UNCHANGED <<queue, net, ctl, ota>>
      BY <1>3 DEF BootSkip, BootSettle, Reconciling, taskVars
    <2>2. /\ \A j \in Slots : j # at => ledger'.entries[j] = ledger.entries[j]
          /\ ledger'.entries[at].state \notin Live
      <3>1. CASE BootSkip
        <4>1. BootAction(ledger.entries[at]) = "ignore" /\ ledger' = ledger
          BY <3>1 DEF BootSkip, ledgerVars
        <4>2. ledger.entries[at].state \in Live => BootAction(ledger.entries[at]) # "ignore"
          BY DEF BootAction, Live, Terminal
        <4>3. QED BY <4>1, <4>2
      <3>2. CASE BootSettle
        <4>1. PICK p : Saved(WithState(at, BootOutcome(ledger.entries[at]), p))
          BY <3>2 DEF BootSettle, Reconciled
        <4>2. BootOutcome(ledger.entries[at]) \notin Live
          BY DEF BootOutcome, Live
        <4>3. QED BY <1>t, <2>1, <4>1, <4>2, StateWrites
      <3>3. QED BY <1>3, <3>1, <3>2
    <2>3. ASSUME NEW i \in Slots, ledger'.entries[i].state \in Live, i < at'
          PROVE  Held(i)
      <3>1. i # at
        BY <2>2, <2>3
      <3>2. i < at
        BY <1>t, <2>1, <2>3, <3>1 DEF Slots
      <3>3. QED BY <2>1, <2>2, <2>3, <3>1, <3>2 DEF Kept, Works
    <2>4. QED BY <1>h, <2>1, <2>3 DEF Kept
  <1>4. CASE BootRequeue
    <2>1. /\ phase = "reconcile" /\ phase' = "reconcile" /\ at \in Slots /\ at' = at + 1
          /\ UNCHANGED <<net, ctl, ota, ledger>>
          /\ queue \in Seq(Slots) /\ queue' = Append(queue, at)
      BY <1>4 DEF BootRequeue, Reconciling, ledgerVars, TypeOK
    <2>2. \A i \in Slots : InQueue(i)' <=> InQueue(i) \/ i = at
      BY <2>1, QueueAppend
    <2>3. /\ phase = "reconcile" /\ phase' = "reconcile" /\ at \in Slots /\ at' = at + 1
          /\ UNCHANGED <<net, ctl, ota, ledger>>
      BY <2>1
    <2>4. \A i \in Slots : Held(i) \/ i = at => Held(i)'
      BY <2>2, <2>3 DEF Held, InControl, InNetwork
    <2>5. ASSUME NEW i \in Slots, ledger'.entries[i].state \in Live, i < at'
          PROVE  Held(i) \/ i = at
      BY <1>t, <2>3, <2>5 DEF Kept, Works, Slots
    <2>6. QED BY <2>3, <2>4, <2>5 DEF Kept
  <1>5. QED BY <1>1, <1>2, <1>3, <1>4 DEF Boot

LEMMA NetworkKept ==
    ASSUME TypeOK, GoodLedger(ledger), Holders, Kept, Works, Network \/ ServerCommits
    PROVE  Kept'
  <1>t. ledger \in Ledger /\ net \in NetStates /\ queue \in Seq(Slots)
    BY DEF TypeOK
  <1>u. phase = "up"
    BY OnlyWhenUp DEF Holders
  <1>1. ASSUME UNCHANGED <<ledger, queue, ctl, ota>>, net.pc # "enqueue"
        PROVE  Kept'
    <2>1. \A i \in Slots : Held(i) => Held(i)'
      BY <1>1 DEF Held, InQueue, InControl, InNetwork
    <2>2. QED BY <1>u, <1>1, <2>1, UpKept
  <1>2. CASE NetSend \/ NetLost \/ NetNotify \/ NetDone \/ ServerCommits
    <2>1. UNCHANGED <<ledger, queue, ctl, ota>>
      BY <1>2 DEF NetSend, NetLost, NetNotify, NetDone, ServerCommits, NetOnly, ledgerVars
    <2>2. net.pc # "enqueue"
      BY <1>2 DEF NetSend, NetLost, NetNotify, NetDone, ServerCommits
    <2>3. QED BY <1>1, <2>1, <2>2
  <1>3. ASSUME NEW c \in Commands, NetIgnore(c) \/ NetAcceptFails(c)
        PROVE  Kept'
    <2>1. UNCHANGED <<ledger, queue, ctl, ota>> /\ net.pc # "enqueue"
      BY <1>3 DEF NetIgnore, NetAcceptFails, Accepting, NetOnly, NotSaved, ledgerVars
    <2>2. QED BY <1>1, <2>1
  <1>4. ASSUME NEW c \in Commands, NetAccept(c)
        PROVE  Kept'
    <2>1. PICK i \in Slots, late \in BOOLEAN :
             /\ Saved(WithCommand(i, c, late))
             /\ ~late => net' = [net EXCEPT !.offer = @ \ {c}, !.pc = "enqueue", !.entry = i]
      BY <1>4 DEF NetAccept
    <2>2. UNCHANGED <<queue, ctl, ota>> /\ net.pc = "accepting"
      BY <1>4 DEF NetAccept, NetOnly, Accepting
    <2>3. /\ \A j \in Slots : j # i => ledger'.entries[j] = ledger.entries[j]
          /\ ledger'.entries[i].state = IF late THEN "expired" ELSE "accepted"
      BY <1>t, <2>1, CommandWrites
    <2>4. ~late => net'.pc = "enqueue" /\ net'.entry = i
      BY <1>t, <2>1 DEF NetStates
    <2>5. \A j \in Slots : Held(j) => Held(j)'
      BY <2>2 DEF Held, InQueue, InControl, InNetwork
    <2>6. ledger'.entries[i].state \in Live => Held(i)'
      BY <2>3, <2>4 DEF Held, InNetwork, Live
    <2>7. QED BY <1>u, <2>3, <2>5, <2>6, UpKept
  <1>5. CASE NetEnqueue
    <2>1. net.pc = "enqueue" /\ net.entry \in Slots /\ UNCHANGED <<ledger, ctl, ota>>
      BY <1>t, <1>5 DEF NetEnqueue, NetStates, ledgerVars
    <2>2. ~InQueue(net.entry)
      BY <2>1 DEF Holders, Single, InNetwork
    <2>3. Len(queue) < QueueDepth
      BY <1>t, <2>1, <2>2, QueueHasRoom DEF Holders, Single
    <2>4. queue' = Append(queue, net.entry)
      BY <1>5, <2>3 DEF NetEnqueue
    <2>5. \A i \in Slots : InQueue(i)' <=> InQueue(i) \/ i = net.entry
      BY <1>t, <2>1, <2>4, QueueAppend
    <2> HIDE <2>4
    <2>6. \A i \in Slots : Held(i) => Held(i)'
      BY <2>1, <2>5 DEF Held, InControl, InNetwork
    <2>7. QED BY <1>u, <2>1, <2>6, UpKept
  <1>6. QED BY <1>2, <1>3, <1>4, <1>5 DEF Network

LEMMA ControlKept ==
    ASSUME TypeOK, Holders, Kept, Works, Works', Control
    PROVE  Kept'
  <1>t. ledger \in Ledger /\ ctl \in CtlStates /\ ctl.entry \in Slots /\ queue \in Seq(Slots)
    BY DEF TypeOK, CtlStates
  <1>p. ledger.entries[ctl.entry].progress \in 0 .. 100
    BY <1>t DEF Ledger, Entry
  <1>u. phase = "up"
    BY OnlyWhenUp DEF Holders
  <1>1. CASE CtlRestart
    BY <1>1 DEF CtlRestart, PowerOff, Kept
  <1>2. CASE CtlReceive
    <2>1. /\ queue # <<>> /\ queue' = Tail(queue) /\ ctl.pc = "receive"
          /\ ctl' = [pc |-> "begin", entry |-> Head(queue), ok |-> TRUE]
          /\ UNCHANGED <<ledger, net, ota>>
      BY <1>2 DEF CtlReceive, ledgerVars
    <2>2. \A i \in Slots : InQueue(i)' <=> InQueue(i) /\ i # Head(queue)
      BY <1>t, <2>1, QueueTail DEF Holders, Single
    <2> DEFINE h == Head(queue)
    <2>3. ctl'.pc = "begin" /\ ctl'.entry = h /\ ctl.pc = "receive" /\ UNCHANGED <<ledger, net, ota>>
      BY <2>1
    <2>4. \A i \in Slots : InQueue(i)' <=> InQueue(i) /\ i # h
      BY <2>2
    <2> HIDE DEF h
    <2>5. \A i \in Slots : Held(i) => Held(i)'
      BY <2>3, <2>4 DEF Held, InControl, InNetwork
    <2>6. QED BY <1>u, <2>3, <2>5, UpKept
  <1>3. CASE CtlAcks \/ CtlTimeout \/ CtlBegin \/ CtlProbe \/ CtlReboot \/ CtlOtaRefused
    <2>1. UNCHANGED <<queue, net, ota>>
      BY <1>3 DEF CtlAcks, CtlTimeout, CtlBegin, CtlProbe, CtlReboot, CtlOtaRefused, CtlOnly
    <2>2. /\ ctl'.entry = ctl.entry
          /\ ctl.pc \in {"begin", "effect", "finish", "restart"} =>
                ctl'.pc \in {"begin", "effect", "finish", "restart"}
      BY <1>t, <1>3 DEF CtlAcks, CtlTimeout, CtlBegin, CtlProbe, CtlReboot, CtlOtaRefused, CtlStates
    <2>3. \A i \in Slots : Held(i) => Held(i)'
      BY <2>1, <2>2 DEF Held, InQueue, InControl, InNetwork
    <2>4. CASE CtlAcks \/ CtlTimeout \/ CtlProbe \/ CtlOtaRefused
      <3>1. UNCHANGED ledger
        BY <2>4 DEF CtlAcks, CtlTimeout, CtlProbe, CtlOtaRefused, Acknowledged, ledgerVars
      <3>2. QED BY <1>u, <2>3, <3>1, UpKept
    <2>5. CASE CtlBegin \/ CtlReboot
      <3>1. PICK s, p : Transitioned(ctl.entry, s, p) \/ NotTransitioned(ctl.entry, s, p)
        BY <2>5 DEF CtlBegin, CtlReboot
      <3>2. \A j \in Slots : j # ctl.entry => ledger'.entries[j] = ledger.entries[j]
        BY <1>t, <3>1, Transitions
      <3>3. Held(ctl.entry)
        BY <2>5 DEF CtlBegin, CtlReboot, Held, InControl
      <3>4. QED BY <1>t, <1>u, <2>3, <3>2, <3>3, UpKept
    <2>6. QED BY <1>3, <2>4, <2>5
  <1>4. CASE CtlFinish
    <2>1. ctl.pc = "finish" /\ UNCHANGED <<queue, net, ota>>
      BY <1>4 DEF CtlFinish, CtlOnly
    <2>2. ledger.entries[ctl.entry].state \in Live
      BY <1>t, <2>1 DEF Holders, Alive, Executing, Live
    <2>3. PICK s \in {"succeeded", "failed"}, p \in 0 .. 100 :
             /\ p >= ledger.entries[ctl.entry].progress
             /\ Transitioned(ctl.entry, s, p) \/ NotTransitioned(ctl.entry, s, p)
      BY <1>p, <1>4 DEF CtlFinish
    <2>4. ledger'.entries[ctl.entry].state = s
      BY <1>t, <2>2, <2>3, SettlingWorks DEF CommandStates
    <2>5. \A j \in Slots : j # ctl.entry => ledger'.entries[j] = ledger.entries[j]
      BY <1>t, <2>3, Transitions
    <2>6. \A i \in Slots : Held(i) /\ i # ctl.entry => Held(i)'
      BY <2>1 DEF Held, InQueue, InControl, InNetwork
    <2>7. QED BY <1>u, <2>3, <2>4, <2>5, <2>6, UpKept DEF Live
  <1>5. CASE CtlOtaStart
    <2>1. /\ UNCHANGED <<queue, net, ledger>> /\ ota' = [ota EXCEPT ![ctl.entry] = "install"]
          /\ ota \in [Slots -> {"none", "install", "cancel", "restart"}]
      BY <1>5 DEF CtlOtaStart, CtlOnly, ledgerVars, TypeOK
    <2>2. ota'[ctl.entry] # "none" /\ \A i \in Slots : ota[i] # "none" => ota'[i] # "none"
      BY <1>t, <2>1
    <2>3. \A i \in Slots : Held(i) => Held(i)'
      BY <2>1, <2>2 DEF Held, InQueue, InControl, InNetwork
    <2>4. QED BY <1>u, <2>1, <2>3, UpKept
  <1>6. QED BY <1>1, <1>2, <1>3, <1>4, <1>5 DEF Control

LEMMA OtaKept ==
    ASSUME TypeOK, Holders, Kept, Works, Works', NEW i \in Slots, OtaTask(i)
    PROVE  Kept'
  <1>t. /\ ledger \in Ledger /\ ledger.entries[i].progress \in 0 .. 100
        /\ ota \in [Slots -> {"none", "install", "cancel", "restart"}]
    BY DEF TypeOK, Ledger, Entry
  <1>u. phase = "up"
    BY OnlyWhenUp DEF Holders
  <1>1. CASE OtaRestart(i)
    BY <1>1 DEF OtaRestart, PowerOff, Kept
  <1>2. ASSUME UNCHANGED <<queue, net, ctl>>,
               \A j \in Slots : j # i => ota'[j] = ota[j] /\ ledger'.entries[j] = ledger.entries[j],
               ledger'.entries[i].state \in Live => ota'[i] # "none"
        PROVE  Kept'
    <2>1. \A j \in Slots : j # i => (Held(j) => Held(j)')
      BY <1>2 DEF Held, InQueue, InControl, InNetwork
    <2>2. ledger'.entries[i].state \in Live => Held(i)'
      BY <1>2 DEF Held
    <2>3. QED BY <1>u, <1>2, <2>1, <2>2, UpKept
  <1>3. CASE OtaProgress(i)
    <2>1. PICK p : Transitioned(i, "running", p) \/ NotTransitioned(i, "running", p)
      BY <1>3 DEF OtaProgress
    <2>2. UNCHANGED <<queue, net, ctl, ota>> /\ ota[i] # "none"
      BY <1>3 DEF OtaProgress, OtaOnly
    <2>3. QED BY <1>t, <1>2, <2>1, <2>2, Transitions
  <1>4. CASE OtaInstalled(i)
    <2>1. /\ Transitioned(i, "awaiting_reboot", 100) \/ NotTransitioned(i, "awaiting_reboot", 100)
          /\ UNCHANGED <<queue, net, ctl>>
      BY <1>4 DEF OtaInstalled, OtaOnly
    <2>2. ota'[i] # "none" /\ \A j \in Slots : j # i => ota'[j] = ota[j]
      BY <1>t, <1>4 DEF OtaInstalled
    <2>3. QED BY <1>t, <1>2, <2>1, <2>2, Transitions
  <1>5. CASE OtaInstallFails(i)
    <2>1. UNCHANGED <<queue, net, ctl, ledger>>
      BY <1>5 DEF OtaInstallFails, OtaOnly, ledgerVars
    <2>2. ota'[i] # "none" /\ \A j \in Slots : j # i => ota'[j] = ota[j]
      BY <1>t, <1>5 DEF OtaInstallFails
    <2>3. QED BY <1>2, <2>1, <2>2
  <1>6. CASE OtaCancel(i)
    <2>1. /\ \/ Transitioned(i, "failed", ledger.entries[i].progress)
             \/ NotTransitioned(i, "failed", ledger.entries[i].progress)
          /\ UNCHANGED <<queue, net, ctl>> /\ ota[i] # "none"
      BY <1>6 DEF OtaCancel, OtaOnly
    <2>2. \A j \in Slots : j # i => ota'[j] = ota[j]
      BY <1>t, <1>6 DEF OtaCancel
    <2>3. ledger.entries[i].state \in Live
      BY <2>1 DEF Holders, Alive
    <2>4. ledger'.entries[i].state = "failed"
      <3> DEFINE p == ledger.entries[i].progress
      <3>1. "failed" \in CommandStates /\ p \in 0 .. 100 /\ p >= p
        BY <1>t DEF CommandStates
      <3>2. Transitioned(i, "failed", p) \/ NotTransitioned(i, "failed", p)
        BY <2>1
      <3> HIDE DEF p
      <3>3. p >= ledger.entries[i].progress
        BY <3>1 DEF p
      <3>4. QED BY <2>3, <3>1, <3>2, <3>3, SettlingWorks
    <2>5. QED BY <1>t, <1>2, <2>1, <2>2, <2>4, Transitions DEF Live
  <1>7. QED BY <1>1, <1>3, <1>4, <1>5, <1>6 DEF OtaTask

LEMMA KeptStep ==
    ASSUME TypeOK, Durable, GoodLedger(ledger), Holders, Kept, [Next]_vars
    PROVE  Kept'
  <1>1. SUFFICES ASSUME Works' PROVE Kept'
    BY DEF Kept, Works
  <1>2. Works
    BY <1>1, WorkedBefore
  <1>3. CASE Boot BY <1>1, <1>2, <1>3, BootKept
  <1>4. CASE Network \/ ServerCommits BY <1>2, <1>4, NetworkKept
  <1>5. CASE Control BY <1>1, <1>2, <1>5, ControlKept
  <1>6. CASE Reset BY <1>6 DEF Reset, PowerOff, Kept
  <1>7. CASE \E i \in Slots : OtaTask(i) BY <1>1, <1>2, <1>7, OtaKept
  <1>8. CASE UNCHANGED vars
    <2>1. UNCHANGED <<ledger, failures, phase, at, queue, net, ctl, ota>>
      BY <1>8 DEF vars, ledgerVars, bootVars, taskVars
    <2>2. QED BY <2>1 DEF Kept, Held, InQueue, InControl, InNetwork
  <1>9. QED BY <1>3, <1>4, <1>5, <1>6, <1>7, <1>8 DEF Next

-----------------------------------------------------------------------------
(***************************************************************************)
(* What follows from Holders, GoodLedgers and Kept.                        *)
(***************************************************************************)
Inv == TypeOK /\ Durable /\ GoodLedgers /\ Holders /\ Kept

LEMMA InitInv == Init => Inv
  <1> SUFFICES ASSUME Init PROVE Inv
    OBVIOUS
  <1>1. TypeOK /\ Durable
    BY InitType
  <1>2. GoodLedgers
    BY DEF Init, GoodLedgers, GoodLedger, ZeroLedger, EmptyEntry, IsValid, Missing
  <1>3. NoOta /\ queue = <<>> /\ ctl = CtlLoop /\ net = NetIdle /\ phase = "off"
    BY DEF Init, NoOta
  <1>4. \A i \in Slots : ~InQueue(i) /\ ~InControl(i) /\ ~InNetwork(i) /\ ~Executing(i)
    BY <1>3 DEF InQueue, InControl, InNetwork, Executing, CtlLoop, NetIdle
  <1>5. ctl.pc # "restart" /\ DOMAIN queue = {}
    BY <1>3 DEF CtlLoop
  <1>6. Holders
    BY <1>3, <1>4, <1>5 DEF Holders, Quiet, Alive, Single, NoOta
  <1>7. Kept
    BY <1>3 DEF Kept
  <1>8. QED BY <1>1, <1>2, <1>6, <1>7 DEF Inv

LEMMA InvStep == Inv /\ [Next]_vars => Inv'
  <1> SUFFICES ASSUME Inv, [Next]_vars PROVE Inv'
    OBVIOUS
  <1>1. TypeOK /\ Durable /\ GoodLedgers /\ GoodLedger(ledger) /\ Holders /\ Kept
    BY DEF Inv, GoodLedgers
  <1>2. TypeOK'
    BY <1>1, TypeStep
  <1>3. Durable'
    BY <1>1, LedgerSteps, DurableStep, TypeParts
  <1>4. QED BY <1>1, <1>2, <1>3, GoodStep, HoldersStep, KeptStep DEF Inv

LEMMA Inductive == Spec => []Inv
  <1>1. QED BY InitInv, InvStep, PTL DEF Spec

\* command_accept_locked() keeps identities unique for every ledger size and set
\* of envelopes, conflicting ones included, across resets and failed writes.
THEOREM Identities == Spec => []UniqueIdentities
  <1>1. Inv => UniqueIdentities
    BY DEF Inv, GoodLedgers, GoodLedger, UniqueIdentities
  <1>2. QED BY <1>1, Inductive, PTL

\* The raw pointers of the queue and the tasks never point at a settled or
\* overwritten entry.
THEOREM PointersStayGood == Spec => []HeldEntriesAreLive
  <1>1. Inv => HeldEntriesAreLive
    BY DEF Inv, Holders, Alive, Held, InControl, Executing, HeldEntriesAreLive, Live
  <1>2. QED BY <1>1, Inductive, PTL

\* No entry is executed by two tasks or queued twice.
THEOREM HoldersAreSingle == Spec => []OneHolder
  <1>1. Inv => OneHolder
    <2>1. SUFFICES ASSUME Single, NEW i \in Slots
                   PROVE  Cardinality({h \in 1 .. 4 : \/ h = 1 /\ InQueue(i)
                                                      \/ h = 2 /\ InControl(i)
                                                      \/ h = 3 /\ InNetwork(i)
                                                      \/ h = 4 /\ ota[i] # "none"}) <= 1
      BY DEF Inv, Holders, Single, OneHolder
    <2> DEFINE H == {h \in 1 .. 4 : \/ h = 1 /\ InQueue(i)
                                    \/ h = 2 /\ InControl(i)
                                    \/ h = 3 /\ InNetwork(i)
                                    \/ h = 4 /\ ota[i] # "none"}
    <2>2. \A h, g \in H : h = g
      BY <2>1 DEF Single
    <2>3. H = {} \/ \E h : H = {h}
      BY <2>2
    <2> HIDE DEF H
    <2>4. Cardinality(H) <= 1
      <3>1. H = {} => Cardinality(H) = 0
        BY FS_EmptySet
      <3>2. (\E h : H = {h}) => Cardinality(H) = 1
        BY FS_Singleton
      <3>3. QED BY <2>3, <3>1, <3>2
    <2>5. QED BY <2>4 DEF H
  <1>2. QED BY <1>1, Inductive, PTL

\* With working storage an accepted command is never forgotten while the device is
\* up: s_command_queue has room for it, and every task settles what it took.
THEOREM AcceptedIsKept == Spec => []NothingStranded
  <1>1. Inv => NothingStranded
    BY DEF Inv, Kept, NothingStranded, Live
  <1>2. QED BY <1>1, Inductive, PTL

-----------------------------------------------------------------------------
(***************************************************************************)
(* Results.  The ledgers that this boot works with or the next one may     *)
(* load: the one in RAM and a slot that is ahead of it, left by a write    *)
(* whose failure was reported.                                             *)
(***************************************************************************)
Ahead(k) == IsValid(k) /\ nvs[k].ledger.generation > ledger.generation

Futures == {ledger} \cup {nvs[k].ledger : k \in {j \in Keys : Ahead(j)}}

\* Whatever is loaded next, it has nothing but this result for the command.
Settles(c, s) == \A l \in Futures : Says(l, c, s)

\* Before the first write the ledger is empty.
Fresh == ledger.generation = 0 => ledger = ZeroLedger

\* A result in RAM is also that of the slot ahead.
AheadKeeps ==
    \A i \in Slots : ledger.entries[i].cmd # NoCommand /\ ledger.entries[i].state \in Terminal =>
        Settles(ledger.entries[i].cmd, ledger.entries[i].state)

\* What the server has committed, or is about to, is settled; and it offers nothing
\* that it has committed.
Results ==
    /\ \A c \in Commands : committed[c] # "none" => Settles(c, committed[c])
    /\ net.pc = "sent" => \A c \in Commands, s \in Terminal :
                             <<c, s>> \in net.reported => Settles(c, s)
    /\ net.pc \in {"replied", "accepting", "enqueue"} =>
          \A c \in net.offer : committed[c] = "none"

\* A ledger that a write of this step may leave.
NextLedger(l) ==
    \E new \in Ledger :
        /\ l = Numbered(new)
        /\ \/ MovesOn(new) \/ TakesIn(new)
           \/ new = ZeroLedger /\ ledger.generation = 0

LEMMA FutureStep ==
    ASSUME TypeOK, Durable, LedgerChange
    PROVE  /\ \A l \in Futures' : l \in Futures \/ NextLedger(l)
           /\ ledger' = ledger \/ Futures' = {ledger'}
           /\ phase # "off" => ledger' = ledger \/ NextLedger(ledger')
  <1>t. LedgerTypeOK
    BY TypeParts
  <1>g. ledger.generation \in Nat
    BY <1>t DEF LedgerTypeOK, Ledger
  <1>v. \A k \in Keys : IsValid(k) => /\ nvs[k].ledger.generation \in Nat
                                      /\ nvs[k].ledger.generation >= 1
                                      /\ nvs[k].ledger.generation <= ledger.generation + 1
    BY <1>g DEF Durable, SlotBounded, IsValid
  <1>z. NeverWritten => ledger.generation = 0
    BY <1>g, SlotKeyType DEF Durable, NeverWritten, Valid
  <1>1. ASSUME NEW new \in Ledger, new.generation = ledger.generation, Saved(new),
               NextLedger(Numbered(new))
        PROVE  Futures' = {ledger'} /\ NextLedger(ledger')
    <2>1. ledger' = Numbered(new) /\ ledger'.generation = ledger.generation + 1
      BY <1>1, NumberedType DEF Saved
    <2>2. ASSUME NEW k \in Keys, Ahead(k)' PROVE FALSE
      <3>1. IsValid(k)' /\ nvs'[k].ledger.generation > ledger.generation + 1
        BY <2>1, <2>2 DEF Ahead
      <3>2. CASE nvs'[k] = nvs[k]
        BY <1>g, <1>v, <3>1, <3>2 DEF IsValid
      <3>3. CASE nvs'[k].ledger = Numbered(new)
        BY <1>g, <2>1, <3>1, <3>3
      <3>4. QED BY <1>t, <1>1, <3>1, <3>2, <3>3, SlotsAfter
    <2>3. QED BY <1>1, <2>1, <2>2 DEF Futures
  <1>2. ASSUME NEW new \in Ledger, NotSaved(new), NextLedger(Numbered(new))
        PROVE  ledger' = ledger /\ \A l \in Futures' : l \in Futures \/ NextLedger(l)
    <2>1. ledger' = ledger
      BY <1>2 DEF NotSaved
    <2>2. ASSUME NEW k \in Keys, Ahead(k)' PROVE nvs'[k].ledger \in Futures \/ NextLedger(nvs'[k].ledger)
      <3>1. IsValid(k)'
        BY <2>2 DEF Ahead
      <3>2. CASE nvs'[k] = nvs[k]
        BY <2>1, <2>2, <3>2 DEF Ahead, IsValid, Futures
      <3>3. CASE nvs'[k].ledger = Numbered(new)
        BY <1>2, <3>3
      <3>4. QED BY <1>t, <1>2, <3>1, <3>2, <3>3, SlotsAfter
    <2>3. QED BY <2>1, <2>2 DEF Futures
  <1>3. CASE UNCHANGED ledgerVars
    <2>1. UNCHANGED <<ledger, nvs>>
      BY <1>3 DEF ledgerVars
    <2>2. QED BY <2>1 DEF Futures, Ahead, IsValid
  <1>4. CASE \E new \in Ledger : /\ new.generation = ledger.generation
                                 /\ MovesOn(new) \/ TakesIn(new)
                                 /\ Saved(new) \/ NotSaved(new)
    <2>1. PICK new \in Ledger : /\ new.generation = ledger.generation
                                /\ MovesOn(new) \/ TakesIn(new)
                                /\ Saved(new) \/ NotSaved(new)
      BY <1>4
    <2>2. NextLedger(Numbered(new))
      BY <2>1 DEF NextLedger
    <2>3. QED BY <1>1, <1>2, <2>1, <2>2
  <1>5. CASE phase = "off" /\ LoadNewest
    <2>1. SelectedKey \in Keys /\ IsValid(SelectedKey) /\ ledger' = nvs[SelectedKey].ledger /\ nvs' = nvs
      BY <1>t, <1>5, Loads
    <2>2. ledger' \in Futures
      <3>1. CASE ledger.generation > 0
        <4>1. \/ nvs[SelectedKey].ledger = ledger
              \/ nvs[SelectedKey].ledger.generation = ledger.generation + 1
          BY <3>1, DurableImpliesLatest DEF BootSeesLatest
        <4>2. QED BY <1>g, <2>1, <4>1 DEF Futures, Ahead
      <3>2. CASE ledger.generation = 0
        BY <1>v, <2>1, <3>2 DEF Futures, Ahead
      <3>3. QED BY <1>g, <3>1, <3>2
    <2>3. ASSUME NEW k \in Keys, Ahead(k)' PROVE FALSE
      <3>1. IsValid(k) /\ nvs[k].ledger.generation > nvs[SelectedKey].ledger.generation
        BY <2>1, <2>3 DEF Ahead, IsValid
      <3>2. QED BY <1>v, <2>1, <3>1 DEF SelectedKey, Keys
    <2>4. Futures' = {ledger'}
      BY <2>3 DEF Futures
    <2>5. QED BY <1>5, <2>2, <2>4
  <1>6. CASE phase = "off" /\ (LoadFresh \/ LoadFails)
    <2>1. NeverWritten => NextLedger(Numbered(ZeroLedger)) /\ ZeroLedger.generation = ledger.generation
      BY <1>z, ZeroLedgerType DEF NextLedger
    <2>2. QED BY <1>1, <1>2, <1>3, <1>6, <2>1, ZeroLedgerType DEF LoadFresh, LoadFails
  <1>7. QED BY <1>3, <1>4, <1>5, <1>6 DEF LedgerChange

LEMMA ZeroSaysNothing ==
    /\ \A i \in Slots : Numbered(ZeroLedger).entries[i].cmd = NoCommand
    /\ \A i \in Slots : ZeroLedger.entries[i].cmd = NoCommand
  BY ZeroLedgerType, NumberedEntries DEF ZeroLedger, EmptyEntry

\* A settled result stays settled until the command is offered again.
LEMMA SettlesStep ==
    ASSUME TypeOK, Durable, LedgerChange, NEW c \in Commands, NEW s \in Terminal, Settles(c, s),
           ~(net.pc = "accepting" /\ c \in net.offer)
    PROVE  Settles(c, s)'
  <1>t. ledger \in Ledger
    BY DEF TypeOK
  <1>1. Says(ledger, c, s)
    BY DEF Settles, Futures
  <1>2. ASSUME NEW l, NextLedger(l) PROVE Says(l, c, s)
    <2>1. PICK new \in Ledger : /\ l = Numbered(new)
                                /\ \/ MovesOn(new) \/ TakesIn(new)
                                   \/ new = ZeroLedger /\ ledger.generation = 0
      BY <1>2 DEF NextLedger
    <2>2. l.entries = new.entries
      BY <2>1, NumberedEntries
    <2>3. CASE MovesOn(new)
      <3>1. PICK i \in Slots, t \in CommandStates, p \in 0 .. 100 :
               ledger.entries[i].state \in Live /\ new = WithState(i, t, p)
        BY <2>3 DEF MovesOn
      <3>2. \A j \in Slots : /\ new.entries[j].cmd = ledger.entries[j].cmd
                             /\ j # i => new.entries[j] = ledger.entries[j]
        BY <1>t, <3>1, MovedEntries
      <3>3. ledger.entries[i].cmd # c
        BY <1>1, <3>1 DEF Says, Live, Terminal
      <3>4. QED BY <1>1, <2>2, <3>2, <3>3 DEF Says
    <2>4. CASE TakesIn(new)
      <3>1. PICK i \in Slots, d \in net.offer, late \in BOOLEAN : new = WithCommand(i, d, late)
        BY <2>4 DEF TakesIn
      <3>2. d # c
        BY <2>4, <3>1 DEF TakesIn
      <3>3. \A j \in Slots : /\ j # i => new.entries[j] = ledger.entries[j]
                             /\ j = i => new.entries[j].cmd = d
        BY <1>t, <3>1, TakenEntries
      <3>4. QED BY <1>1, <2>2, <3>2, <3>3 DEF Says
    <2>5. CASE new = ZeroLedger
      BY <2>2, <2>5, ZeroSaysNothing, CommandAssumption DEF Says
    <2>6. QED BY <2>1, <2>3, <2>4, <2>5
  <1>3. \A l \in Futures' : Says(l, c, s)
    BY <1>2, FutureStep DEF Settles
  <1>4. QED BY <1>3 DEF Settles, Says

LEMMA FreshStep ==
    ASSUME TypeOK, Durable, LedgerChange, Fresh
    PROVE  Fresh'
  <1>g. ledger \in Ledger /\ ledger.generation \in Nat
    BY DEF TypeOK, Ledger
  <1>1. ledger' \in Futures \/ NextLedger(ledger')
    BY FutureStep DEF Futures
  <1>2. CASE ledger' = ledger
    BY <1>2 DEF Fresh
  <1>3. ASSUME NEW k \in Keys, Ahead(k), ledger' = nvs[k].ledger PROVE Fresh'
    <2>1. ledger'.generation > ledger.generation /\ ledger'.generation \in Nat
      BY <1>3, SlotType DEF Ahead, IsValid, TypeOK, Ledger
    <2>2. QED BY <1>g, <2>1 DEF Fresh
  <1>4. CASE NextLedger(ledger')
    <2>1. PICK new \in Ledger : ledger' = Numbered(new)
      BY <1>4 DEF NextLedger
    <2>2. ledger'.generation = new.generation + 1 /\ new.generation \in Nat
      BY <2>1 DEF Numbered, Ledger
    <2>3. QED BY <2>2 DEF Fresh
  <1>5. QED BY <1>1, <1>2, <1>3, <1>4 DEF Futures

LEMMA AheadKeepsStep ==
    ASSUME TypeOK, Durable, GoodLedgers, GoodLedgers', LedgerChange, AheadKeeps
    PROVE  AheadKeeps'
  <1>1. CASE ledger' = ledger
    <2>1. SUFFICES ASSUME NEW i \in Slots, ledger.entries[i].cmd # NoCommand,
                          ledger.entries[i].state \in Terminal, NEW l \in Futures'
                   PROVE  Says(l, ledger.entries[i].cmd, ledger.entries[i].state)
      BY <1>1 DEF AheadKeeps, Settles, Says
    <2>2. CASE l \in Futures
      BY <2>1, <2>2 DEF AheadKeeps, Settles
    <2>3. CASE NextLedger(l)
      <3>1. PICK new \in Ledger : /\ l = Numbered(new)
                                  /\ \/ MovesOn(new) \/ TakesIn(new)
                                     \/ new = ZeroLedger
        BY <2>3 DEF NextLedger
      <3>2. l.entries = new.entries
        BY <3>1, NumberedEntries
      <3>3. CASE MovesOn(new) \/ TakesIn(new)
        <4>1. Says(new, ledger.entries[i].cmd, ledger.entries[i].state)
          BY <2>1, <3>3, WrittenIsGood DEF GoodLedgers
        <4>2. QED BY <3>2, <4>1 DEF Says
      <3>4. CASE new = ZeroLedger
        BY <2>1, <3>2, <3>4, ZeroSaysNothing DEF Says
      <3>5. QED BY <3>1, <3>3, <3>4
    <2>4. QED BY <2>1, <2>2, <2>3, FutureStep
  <1>2. CASE Futures' = {ledger'}
    <2>1. SUFFICES ASSUME NEW i \in Slots, ledger'.entries[i].cmd # NoCommand
                   PROVE  Says(ledger', ledger'.entries[i].cmd, ledger'.entries[i].state)
      BY <1>2 DEF AheadKeeps, Settles, Says
    <2>2. \A j \in Slots : ledger'.entries[j].cmd = ledger'.entries[i].cmd => j = i
      BY <2>1 DEF GoodLedgers, GoodLedger
    <2>3. QED BY <2>2 DEF Says
  <1>3. QED BY <1>1, <1>2, FutureStep

\* What a step does to the server's record and to the network task.
NetChange ==
    \/ UNCHANGED <<committed, net>>
    \/ NetSend
    \/ ServerCommits
    \/ committed' = committed /\ net'.pc = "idle"
    \/ /\ committed' = committed
       /\ net.pc \in {"replied", "accepting", "enqueue"}
       /\ net'.pc \in {"accepting", "enqueue"}
       /\ net'.offer \subseteq net.offer

LEMMA NetChanges == ASSUME TypeOK, [Next]_vars PROVE NetChange
  <1>t. net \in NetStates
    BY DEF TypeOK
  <1>1. ASSUME NetSend \/ ServerCommits PROVE NetChange
    BY <1>1 DEF NetChange
  <1>2. ASSUME PowerOff, UNCHANGED committed PROVE NetChange
    BY <1>2 DEF NetChange, PowerOff, NetIdle
  <1>3. ASSUME BootRestart \/ CtlRestart \/ Reset \/ \E i \in Slots : OtaRestart(i)
        PROVE  NetChange
    BY <1>2, <1>3 DEF BootRestart, CtlRestart, Reset, OtaRestart, observed
  <1>4. ASSUME NetLost \/ NetDone PROVE NetChange
    BY <1>4 DEF NetLost, NetDone, NetOnly, observed, NetIdle, NetChange
  <1>5. ASSUME NetNotify \/ NetEnqueue PROVE NetChange
    BY <1>t, <1>5 DEF NetNotify, NetEnqueue, observed, NetStates, NetChange
  <1>6. ASSUME NEW c \in Commands, NetIgnore(c) \/ NetAccept(c) \/ NetAcceptFails(c)
        PROVE  NetChange
    <2>1. net.pc = "accepting" /\ committed' = committed
      BY <1>6 DEF NetIgnore, NetAccept, NetAcceptFails, Accepting, NetOnly, observed
    <2>2. \/ net' = [net EXCEPT !.offer = @ \ {c}]
          \/ \E i \in Slots : net' = [net EXCEPT !.offer = @ \ {c}, !.pc = "enqueue", !.entry = i]
      BY <1>6 DEF NetIgnore, NetAccept, NetAcceptFails, Dropped
    <2>3. net'.pc \in {"accepting", "enqueue"} /\ net'.offer \subseteq net.offer
      BY <1>t, <2>1, <2>2 DEF NetStates
    <2>4. QED BY <2>1, <2>3 DEF NetChange
  <1>7. ASSUME \/ BootLoad \/ BootHalts \/ BootSkip \/ BootRequeue \/ BootSettle \/ BootDone
               \/ CtlAcks \/ CtlReceive \/ CtlTimeout \/ CtlBegin \/ CtlProbe \/ CtlReboot
               \/ CtlOtaStart \/ CtlOtaRefused \/ CtlFinish
               \/ \E i \in Slots : \/ OtaProgress(i) \/ OtaInstalled(i)
                                   \/ OtaInstallFails(i) \/ OtaCancel(i)
               \/ UNCHANGED vars
        PROVE  NetChange
    BY <1>7 DEF BootLoad, BootHalts, BootSkip, BootRequeue, BootSettle, BootDone, CtlAcks,
         CtlReceive, CtlTimeout, CtlBegin, CtlProbe, CtlReboot, CtlOtaStart,
         CtlOtaRefused, CtlFinish, CtlOnly, OtaProgress, OtaInstalled, OtaInstallFails,
         OtaCancel, OtaOnly, taskVars, observed, vars, NetChange
  <1>8. QED
    BY <1>1, <1>3, <1>4, <1>5, <1>6, <1>7
    DEF Next, Boot, Network, Control, OtaTask

LEMMA FuturesKept ==
    ASSUME UNCHANGED ledgerVars
    PROVE  Futures' = Futures
  <1>1. UNCHANGED <<ledger, nvs>>
    BY DEF ledgerVars
  <1>2. QED BY <1>1 DEF Futures, Ahead, IsValid

LEMMA ResultsStep ==
    ASSUME TypeOK, Durable, AheadKeeps, LedgerChange, NetChange, Results
    PROVE  Results'
  <1>t. /\ ledger \in Ledger /\ net \in NetStates
        /\ \A c \in Commands : committed[c] \in Terminal \cup {"none"}
    BY DEF TypeOK
  \* A committed result stays settled, whatever the network task does.
  <1>c. ASSUME NEW c \in Commands, committed[c] # "none", committed' = committed
        PROVE  Settles(c, committed[c])'
    <2>1. PICK s \in Terminal : committed[c] = s
      BY <1>t, <1>c
    <2>2. Settles(c, s) /\ ~(net.pc = "accepting" /\ c \in net.offer)
      BY <1>c, <2>1 DEF Results
    <2>3. Settles(c, s)'
      BY <2>2, SettlesStep
    <2>4. QED BY <1>c, <2>1, <2>3
  <1>1. CASE committed' = committed /\ net' = net
    <2>1. ASSUME NEW c \in Commands, NEW s \in Terminal, net.pc = "sent", <<c, s>> \in net.reported
          PROVE  Settles(c, s)'
      <3>1. Settles(c, s)
        BY <2>1 DEF Results
      <3>2. QED BY <2>1, <3>1, SettlesStep
    <2>2. \A c \in Commands : committed'[c] # "none" => Settles(c, committed[c])'
      BY <1>1, <1>c
    <2>3. QED BY <1>1, <2>1, <2>2 DEF Results
  <1>2. CASE NetSend
    <2>1. UNCHANGED ledgerVars /\ committed' = committed /\ net'.pc = "sent"
      BY <1>t, <1>2 DEF NetSend, NetOnly, observed, NetStates
    <2>2. ASSUME NEW c \in Commands, NEW s \in Terminal, <<c, s>> \in net'.reported
          PROVE  Settles(c, s)'
      <3>1. net'.reported = {<<e.cmd, e.state>> : e \in
                {ledger.entries[i] : i \in {j \in Slots : ledger.entries[j].state \in Reportable}}}
        BY <1>t, <1>2 DEF NetSend, NetStates
      <3>2. PICK i \in Slots : ledger.entries[i].cmd = c /\ ledger.entries[i].state = s
        BY <2>2, <3>1
      <3>3. Settles(c, s)
        BY <3>2, CommandAssumption DEF AheadKeeps
      <3>4. QED BY <2>1, <3>3, FuturesKept DEF Settles, Says
    <2>3. \A c \in Commands : committed'[c] # "none" => Settles(c, committed[c])'
      BY <2>1, <1>c
    <2>4. QED BY <2>1, <2>2, <2>3 DEF Results
  <1>3. CASE ServerCommits
    <2>1. /\ UNCHANGED ledgerVars /\ net.pc = "sent"
          /\ committed' = [c \in Commands |->
                       IF committed[c] = "none" /\ Final(c) # {}
                       THEN CHOOSE s \in Final(c) : TRUE ELSE committed[c]]
      BY <1>3 DEF ServerCommits
    <2>2. net'.pc = "replied" /\ \A c \in net'.offer : committed'[c] = "none"
      BY <1>t, <1>3 DEF ServerCommits, NetStates
    <2>3. ASSUME NEW c \in Commands, committed'[c] # "none"
          PROVE  Settles(c, committed[c])'
      <3>1. \/ committed'[c] = committed[c]
            \/ committed'[c] \in Final(c)
        BY <2>1
      <3>2. \A s \in Final(c) : Settles(c, s)
        BY <2>1 DEF Final, Results
      <3>3. Settles(c, committed'[c])
        BY <2>3, <3>1, <3>2 DEF Results
      <3>4. QED BY <2>1, <3>3, FuturesKept DEF Settles, Says
    <2>4. QED BY <2>2, <2>3 DEF Results
  <1>4. CASE committed' = committed /\ net'.pc = "idle"
    <2>1. \A c \in Commands : committed'[c] # "none" => Settles(c, committed[c])'
      BY <1>4, <1>c
    <2>2. QED BY <1>4, <2>1 DEF Results
  <1>5. CASE /\ committed' = committed
             /\ net.pc \in {"replied", "accepting", "enqueue"}
             /\ net'.pc \in {"accepting", "enqueue"}
             /\ net'.offer \subseteq net.offer
    <2>1. \A c \in Commands : committed'[c] # "none" => Settles(c, committed[c])'
      BY <1>5, <1>c
    <2>2. \A c \in net'.offer : committed'[c] = "none"
      BY <1>5 DEF Results
    <2>3. QED BY <1>5, <2>1, <2>2 DEF Results
  <1>6. QED BY <1>1, <1>2, <1>3, <1>4, <1>5 DEF NetChange

-----------------------------------------------------------------------------
(***************************************************************************)
(* Reboots.  A ledger that remembers a reboot has the command as AWAITING_ *)
(* REBOOT or SUCCEEDED; it is never executed from there.  The memory has   *)
(* to last until the server has the result, since from then on the command *)
(* is not offered again: the entry cannot be evicted before, because       *)
(* results are reported before commands are accepted.                      *)
(***************************************************************************)
Remembers(l, c) ==
    \E i \in Slots : /\ l.entries[i].cmd = c
                     /\ l.entries[i].state \in {"succeeded", "awaiting_reboot"}

Recalled(c) == \A l \in Futures : Remembers(l, c)

\* The command of the entry that the control task restarts for is remembered.
Restarting == ctl.pc = "restart" => Recalled(ledger.entries[ctl.entry].cmd)

\* A command that has restarted the device has done so once.  Until its result is
\* committed it is remembered, as SUCCEEDED once a boot has looked at it, and each
\* request reports it so.
Unreported(c) ==
    /\ c.type = "reboot" /\ Recalled(c)
    /\ \A i \in Slots :
          ledger.entries[i].cmd = c /\ (phase = "up" \/ (phase = "reconcile" /\ i < at)) =>
              ledger.entries[i].state = "succeeded"
    /\ net.pc = "idle" \/ (net.pc = "sent" /\ <<c, "succeeded">> \in net.reported)

Rebooted ==
    \A c \in Commands : reboots[c] > 0 =>
        reboots[c] = 1 /\ (committed[c] = "none" => Unreported(c))

\* A write leaves the entry of such a command alone, or completes it in a boot.
LEMMA NextKeeps ==
    ASSUME TypeOK, Fresh, NEW i \in Slots, IsType(i, "reboot"),
           \/ ledger.entries[i].state = "awaiting_reboot"
           \/ ledger.entries[i].state = "succeeded" /\ net.pc # "accepting",
           NEW l, l = ledger \/ NextLedger(l)
    PROVE  /\ l.entries[i].cmd = ledger.entries[i].cmd
           /\ \/ l.entries[i].state = ledger.entries[i].state
              \/ phase = "reconcile" /\ i = at /\ l.entries[i].state = "succeeded"
  <1>t. ledger \in Ledger /\ ledger.entries[i].cmd # NoCommand
    BY CommandAssumption DEF TypeOK, IsType
  <1>1. CASE l = ledger
    BY <1>1
  <1>2. CASE NextLedger(l)
    <2>1. PICK new \in Ledger : /\ l = Numbered(new)
                                /\ \/ MovesOn(new) \/ TakesIn(new)
                                   \/ new = ZeroLedger /\ ledger.generation = 0
      BY <1>2 DEF NextLedger
    <2>2. l.entries = new.entries
      BY <2>1, NumberedEntries
    <2>3. CASE MovesOn(new)
      <3>1. PICK j \in Slots, s \in CommandStates, p \in 0 .. 100 :
               /\ ledger.entries[j].state \in Live
               /\ ledger.entries[j].state = "awaiting_reboot" /\ IsType(j, "reboot") =>
                     phase = "reconcile" /\ j = at /\ s = "succeeded"
               /\ new = WithState(j, s, p)
        BY <2>3 DEF MovesOn
      <3>2. /\ new.entries[i].cmd = ledger.entries[i].cmd
            /\ i # j => new.entries[i] = ledger.entries[i]
            /\ i = j => new.entries[i].state = s
        BY <1>t, <3>1, MovedEntries
      <3>3. CASE i = j
        BY <2>2, <3>1, <3>2, <3>3 DEF Live
      <3>4. CASE i # j
        BY <2>2, <3>2, <3>4
      <3>5. QED BY <3>3, <3>4
    <2>4. CASE TakesIn(new)
      <3>1. PICK j \in Slots, d \in net.offer, late \in BOOLEAN :
               Reusable(j) /\ new = WithCommand(j, d, late)
        BY <2>4 DEF TakesIn
      <3>2. j # i
        BY <1>t, <2>4, <3>1 DEF TakesIn, Reusable, Terminal
      <3>3. QED BY <1>t, <2>2, <3>1, <3>2, TakenEntries
    <2>5. CASE new = ZeroLedger /\ ledger.generation = 0
      BY <1>t, <2>5, ZeroSaysNothing DEF Fresh
    <2>6. QED BY <2>1, <2>3, <2>4, <2>5
  <1>3. QED BY <1>1, <1>2

LEMMA RecalledStep ==
    ASSUME TypeOK, Durable, Fresh, LedgerChange, NEW i \in Slots, IsType(i, "reboot"),
           \/ ledger.entries[i].state = "awaiting_reboot"
           \/ ledger.entries[i].state = "succeeded" /\ net.pc # "accepting",
           NEW c, c = ledger.entries[i].cmd, Recalled(c)
    PROVE  Recalled(c)'
  <1>1. ASSUME NEW l \in Futures' PROVE Remembers(l, c)
    <2>1. CASE l \in Futures
      BY <2>1 DEF Recalled
    <2>2. CASE NextLedger(l)
      BY <2>2, NextKeeps DEF Remembers
    <2>3. QED BY <2>1, <2>2, FutureStep
  <1>2. QED BY <1>1 DEF Recalled, Remembers

\* The steps that put the control task before its restart, and those that end it.
LEMMA RestartChanges ==
    ASSUME TypeOK, [Next]_vars
    PROVE  /\ ctl'.pc = "restart" =>
                 \/ ctl' = ctl
                 \/ CtlReboot /\ Transitioned(ctl.entry, "awaiting_reboot", 100) /\ ctl'.entry = ctl.entry
           /\ reboots' = reboots \/ CtlRestart
  <1> DEFINE C == /\ ctl'.pc = "restart" =>
                       \/ ctl' = ctl
                       \/ /\ CtlReboot /\ Transitioned(ctl.entry, "awaiting_reboot", 100)
                          /\ ctl'.entry = ctl.entry
                  /\ reboots' = reboots \/ CtlRestart
  <1>t. ctl \in CtlStates
    BY DEF TypeOK
  <1>1. ASSUME BootRestart \/ CtlRestart \/ Reset \/ \E i \in Slots : OtaRestart(i)
        PROVE  C
    BY <1>1 DEF BootRestart, CtlRestart, Reset, OtaRestart, PowerOff, CtlLoop, observed
  <1>2. ASSUME CtlReboot PROVE C
    <2>1. CASE Transitioned(ctl.entry, "awaiting_reboot", 100) /\ ctl' = [ctl EXCEPT !.pc = "restart"]
      BY <1>t, <1>2, <2>1 DEF CtlReboot, CtlOnly, observed, CtlStates
    <2>2. CASE ctl' = [ctl EXCEPT !.pc = "finish", !.ok = FALSE]
      BY <1>t, <1>2, <2>2 DEF CtlReboot, CtlOnly, observed, CtlStates
    <2>3. QED BY <1>2, <2>1, <2>2 DEF CtlReboot
  <1>3. ASSUME CtlAcks \/ CtlTimeout \/ CtlBegin PROVE C
    BY <1>t, <1>3 DEF CtlAcks, CtlTimeout, CtlBegin, CtlOnly, observed, CtlStates
  <1>4. ASSUME CtlReceive \/ CtlOtaStart \/ CtlOtaRefused \/ CtlFinish \/ CtlProbe PROVE C
    <2>1. ctl'.pc # "restart"
      <3>1. ASSUME CtlProbe PROVE ctl'.pc # "restart"
        <4>1. PICK ok \in BOOLEAN : ctl' = [ctl EXCEPT !.pc = "finish", !.ok = ok]
          BY <3>1 DEF CtlProbe
        <4>2. QED BY <1>t, <4>1 DEF CtlStates
      <3>2. ASSUME CtlReceive PROVE ctl'.pc # "restart"
        BY <3>2 DEF CtlReceive
      <3>3. ASSUME CtlOtaStart \/ CtlFinish PROVE ctl'.pc # "restart"
        BY <3>3 DEF CtlOtaStart, CtlFinish, CtlLoop
      <3>4. ASSUME CtlOtaRefused PROVE ctl'.pc # "restart"
        BY <1>t, <3>4 DEF CtlOtaRefused, CtlStates
      <3>5. QED BY <1>4, <3>1, <3>2, <3>3, <3>4
    <2>2. reboots' = reboots
      BY <1>4 DEF CtlReceive, CtlOtaStart, CtlOtaRefused, CtlFinish, CtlProbe, CtlOnly, observed
    <2>3. QED BY <2>1, <2>2
  <1>5. ASSUME \/ BootLoad \/ BootHalts \/ BootSkip \/ BootRequeue \/ BootSettle \/ BootDone
               \/ NetSend \/ NetLost \/ NetNotify \/ NetEnqueue \/ NetDone \/ ServerCommits
               \/ \E c \in Commands : NetIgnore(c) \/ NetAccept(c) \/ NetAcceptFails(c)
               \/ \E i \in Slots : \/ OtaProgress(i) \/ OtaInstalled(i)
                                   \/ OtaInstallFails(i) \/ OtaCancel(i)
               \/ UNCHANGED vars
        PROVE  C
    <2>1. UNCHANGED <<ctl, reboots>>
      BY <1>5 DEF BootLoad, BootHalts, BootSkip, BootRequeue, BootSettle, BootDone, NetSend,
           NetLost, NetNotify, NetEnqueue, NetDone, ServerCommits, NetIgnore, NetAccept,
           NetAcceptFails, NetOnly, OtaProgress, OtaInstalled, OtaInstallFails, OtaCancel,
           OtaOnly, taskVars, observed, vars
    <2>2. QED BY <2>1
  <1>6. QED
    BY <1>1, <1>2, <1>3, <1>4, <1>5
    DEF Next, Boot, Network, Control, OtaTask

LEMMA RestartingStep ==
    ASSUME TypeOK, Durable, Holders, Fresh, LedgerChange, [Next]_vars, Restarting
    PROVE  Restarting'
  <1>t. ledger \in Ledger /\ ctl.entry \in Slots
    BY DEF TypeOK, CtlStates
  <1> SUFFICES ASSUME ctl'.pc = "restart" PROVE Recalled(ledger.entries[ctl.entry].cmd)'
    BY DEF Restarting
  <1>1. CASE ctl' = ctl
    <2> DEFINE i == ctl.entry
    <2>1. ctl.pc = "restart" /\ phase # "off"
      BY <1>1 DEF Holders, Quiet, CtlLoop
    <2>2. ledger.entries[i].state = "awaiting_reboot" /\ IsType(i, "reboot")
      BY <2>1 DEF Holders, Alive
    <2>3. PICK c \in Commands : c = ledger.entries[i].cmd
      BY <2>2 DEF IsType
    <2>4. Recalled(c)'
      BY <1>t, <2>1, <2>2, <2>3, RecalledStep DEF Restarting
    <2>5. ledger'.entries[i].cmd = c
      BY <1>t, <2>1, <2>2, <2>3, FutureStep, NextKeeps
    <2>6. QED BY <1>1, <2>4, <2>5
  <1>2. CASE Transitioned(ctl.entry, "awaiting_reboot", 100) /\ ctl'.entry = ctl.entry
    <2> DEFINE new == WithState(ctl.entry, "awaiting_reboot", 100)
    <2>1. Saved(new) /\ new \in Ledger /\ new.generation = ledger.generation
      <3>1. "awaiting_reboot" \in CommandStates /\ 100 \in 0 .. 100
        BY DEF CommandStates
      <3>2. QED BY <1>t, <1>2, <3>1, WithStateType DEF Transitioned
    <2>2. ledger' = Numbered(new) /\ ledger'.generation = ledger.generation + 1
      BY <2>1, NumberedType DEF Saved
    <2>3. ledger' # ledger
      BY <1>t, <2>2 DEF Ledger
    <2>4. Futures' = {ledger'}
      BY <2>3, FutureStep
    <2>5. ledger'.entries[ctl.entry].state = "awaiting_reboot"
      BY <1>t, <2>1, <2>2, NumberedEntries, MovedEntries
    <2>6. QED BY <1>t, <1>2, <2>4, <2>5 DEF Recalled, Remembers
  <1>3. QED BY <1>1, <1>2, RestartChanges

\* How the boot proceeds.
LEMMA PhaseChanges ==
    ASSUME TypeOK, [Next]_vars, phase' \in {"reconcile", "up"}
    PROVE  \/ phase' = "reconcile" /\ at' = 1
           \/ phase' = phase /\ at' = at
           \/ /\ BootSkip \/ BootRequeue \/ BootSettle
              /\ phase = "reconcile" /\ phase' = phase /\ at \in Slots /\ at' = at + 1
           \/ phase = "reconcile" /\ at = LedgerSize + 1
  <1>1. ASSUME BootLoad PROVE phase' = "reconcile" /\ at' = 1
    BY <1>1 DEF BootLoad
  <1>2. ASSUME BootHalts \/ BootRestart \/ CtlRestart \/ Reset \/ \E i \in Slots : OtaRestart(i)
        PROVE  FALSE
    BY <1>2 DEF BootHalts, BootRestart, CtlRestart, Reset, OtaRestart, PowerOff
  <1>3. ASSUME BootSkip \/ BootRequeue \/ BootSettle
        PROVE  phase = "reconcile" /\ phase' = phase /\ at \in Slots /\ at' = at + 1
    BY <1>3 DEF BootSkip, BootRequeue, BootSettle, Reconciling
  <1>4. ASSUME BootDone PROVE phase = "reconcile" /\ at = LedgerSize + 1
    BY <1>4 DEF BootDone
  <1>5. ASSUME \/ NetSend \/ NetLost \/ NetNotify \/ NetEnqueue \/ NetDone \/ ServerCommits
               \/ \E c \in Commands : NetIgnore(c) \/ NetAccept(c) \/ NetAcceptFails(c)
               \/ CtlAcks \/ CtlReceive \/ CtlTimeout \/ CtlBegin \/ CtlProbe \/ CtlReboot
               \/ CtlOtaStart \/ CtlOtaRefused \/ CtlFinish
               \/ \E i \in Slots : \/ OtaProgress(i) \/ OtaInstalled(i)
                                   \/ OtaInstallFails(i) \/ OtaCancel(i)
               \/ UNCHANGED vars
        PROVE  UNCHANGED <<phase, at>>
    BY <1>5 DEF NetSend, NetLost, NetNotify, NetEnqueue, NetDone, ServerCommits, NetIgnore,
         NetAccept, NetAcceptFails, NetOnly, CtlAcks, CtlReceive, CtlTimeout, CtlBegin,
         CtlProbe, CtlReboot, CtlOtaStart, CtlOtaRefused, CtlFinish, CtlOnly, OtaProgress,
         OtaInstalled, OtaInstallFails, OtaCancel, OtaOnly, bootVars, vars
  <1>6. QED
    BY <1>1, <1>2, <1>3, <1>4, <1>5
    DEF Next, Boot, Network, Control, OtaTask

\* The restart itself: the command has not restarted the device before.
LEMMA FirstRestart ==
    ASSUME TypeOK, Holders, Results, Restarting, Rebooted, CtlRestart, NEW c \in Commands,
           ledger.entries[ctl.entry].cmd = c
    PROVE  /\ c.type = "reboot" /\ reboots[c] = 0 /\ reboots'[c] = 1
           /\ Unreported(c)'
  <1>t. ctl.entry \in Slots /\ reboots \in [Commands -> Nat]
    BY DEF TypeOK, CtlStates
  <1>1. ctl.pc = "restart" /\ ledger.entries[ctl.entry].state = "awaiting_reboot"
    BY DEF CtlRestart, Holders, Alive
  <1>2. c.type = "reboot"
    BY <1>1 DEF Holders, Alive, IsType
  <1>3. phase \notin {"off", "halted", "reconcile"}
    BY <1>1 DEF Holders, Quiet, CtlLoop
  <1>4. phase = "up"
    BY <1>3 DEF TypeOK
  <1>5. committed[c] = "none"
    <2>1. SUFFICES ASSUME committed[c] # "none" PROVE FALSE
      OBVIOUS
    <2>2. Says(ledger, c, committed[c]) /\ committed[c] \in Terminal
      BY <2>1 DEF Results, Settles, Futures, TypeOK
    <2>3. QED BY <1>t, <1>1, <2>2 DEF Says, Terminal
  <1>6. ~(reboots[c] > 0)
    BY <1>t, <1>1, <1>4, <1>5 DEF Rebooted, Unreported
  <1>7. reboots[c] = 0
    BY <1>t, <1>6
  <1>8. reboots'[c] = 1
    BY <1>t, <1>7 DEF CtlRestart
  <1>9. Recalled(c) /\ UNCHANGED ledgerVars /\ phase' = "off" /\ net' = NetIdle
    BY <1>1 DEF Restarting, CtlRestart, PowerOff
  <1>10. Recalled(c)'
    BY <1>9, FuturesKept DEF Recalled, Remembers
  <1>11. QED BY <1>2, <1>7, <1>8, <1>9, <1>10 DEF Unreported, NetIdle

\* Until the result is committed the command stays remembered.
LEMMA UnreportedStep ==
    ASSUME TypeOK, Durable, GoodLedgers', Holders, Fresh, LedgerChange, NetChange,
           [Next]_vars, NEW c \in Commands, Unreported(c), committed[c] = "none",
           committed'[c] = "none"
    PROVE  Unreported(c)'
  <1>t. ledger \in Ledger /\ net \in NetStates /\ at \in Nat
    BY DEF TypeOK
  <1>1. PICK i \in Slots : /\ ledger.entries[i].cmd = c
                           /\ ledger.entries[i].state \in {"succeeded", "awaiting_reboot"}
    BY DEF Unreported, Recalled, Futures, Remembers
  <1>2. IsType(i, "reboot") /\ net.pc # "accepting"
    BY <1>1 DEF IsType, Unreported
  <1>3. Recalled(c)'
    BY <1>1, <1>2, RecalledStep DEF Unreported
  <1>4. net'.pc = "idle" \/ (net'.pc = "sent" /\ <<c, "succeeded">> \in net'.reported)
    <2>1. CASE UNCHANGED <<committed, net>>
      BY <2>1 DEF Unreported
    <2>2. CASE NetSend
      <3>1. phase = "up" /\ ledger.entries[i].state = "succeeded"
        BY <1>1, <2>2 DEF NetSend, Unreported
      <3>2. /\ net'.pc = "sent"
            /\ net'.reported = {<<e.cmd, e.state>> : e \in
                 {ledger.entries[k] : k \in {j \in Slots : ledger.entries[j].state \in Reportable}}}
        BY <1>t, <2>2 DEF NetSend, NetStates
      <3>3. "succeeded" \in Reportable
        BY DEF Reportable, CommandStates
      <3>4. QED BY <1>1, <3>1, <3>2, <3>3
    <2>3. CASE ServerCommits
      <3>1. "succeeded" \in Final(c)
        BY <2>3 DEF ServerCommits, Unreported, Final, Terminal
      <3>2. committed'[c] = CHOOSE s \in Final(c) : TRUE
        BY <2>3, <3>1 DEF ServerCommits
      <3>3. committed'[c] \in Terminal
        BY <3>1, <3>2 DEF Final
      <3>4. QED BY <3>3 DEF Terminal
    <2>4. CASE net'.pc = "idle"
      BY <2>4
    <2>5. CASE net.pc \in {"replied", "accepting", "enqueue"}
      BY <2>5 DEF Unreported
    <2>6. QED BY <2>1, <2>2, <2>3, <2>4, <2>5 DEF NetChange
  <1>5. ASSUME NEW j \in Slots, ledger'.entries[j].cmd = c,
               phase' = "up" \/ (phase' = "reconcile" /\ j < at')
        PROVE  ledger'.entries[j].state = "succeeded"
    <2>1. CASE phase' = "reconcile" /\ at' = 1
      BY <1>5, <2>1 DEF Slots
    <2>2. ASSUME phase # "off", phase = "up" \/ (phase = "reconcile" /\ i < at)
          PROVE  ledger'.entries[i].cmd = c /\ ledger'.entries[i].state = "succeeded"
      <3>1. ledger.entries[i].state = "succeeded"
        BY <1>1, <2>2 DEF Unreported
      <3>2. QED BY <1>1, <1>2, <2>2, <3>1, FutureStep, NextKeeps
    <2>3. ASSUME BootSkip \/ BootRequeue \/ BootSettle, phase = "reconcile", i = at
          PROVE  ledger'.entries[i].cmd = c /\ ledger'.entries[i].state = "succeeded"
      <3>1. ledger.entries[i].state = "succeeded" => BootAction(ledger.entries[i]) = "ignore"
        BY DEF BootAction, Terminal
      <3>2. ledger.entries[i].state = "awaiting_reboot" =>
               BootAction(ledger.entries[i]) = "complete_reboot"
        BY <1>1, <1>2 DEF BootAction, Terminal, IsType
      <3>3. CASE BootSkip
        BY <1>1, <2>3, <3>2, <3>3 DEF BootSkip, ledgerVars
      <3>4. CASE BootRequeue
        BY <1>1, <2>3, <3>1, <3>2, <3>4 DEF BootRequeue
      <3>5. CASE BootSettle
        <4>1. ledger.entries[i].state = "awaiting_reboot"
          BY <1>1, <2>3, <3>1, <3>5 DEF BootSettle, Unsettled
        <4>2. BootOutcome(ledger.entries[i]) = "succeeded"
          BY <3>2, <4>1 DEF BootOutcome
        <4>3. Saved(WithState(i, "succeeded", 100))
          BY <2>3, <3>5, <4>2 DEF BootSettle, Reconciled
        <4>4. "succeeded" \in CommandStates /\ 100 \in 0 .. 100
          BY DEF CommandStates
        <4>5. ledger'.entries = WithState(i, "succeeded", 100).entries
          BY <1>t, <4>3, <4>4, WithStateType, NumberedEntries DEF Saved
        <4>6. QED BY <1>t, <1>1, <4>5, MovedEntries
      <3>6. QED BY <2>3, <3>3, <3>4, <3>5
    <2>4. ASSUME ledger'.entries[i].cmd = c PROVE i = j
      BY <1>5, <2>4, CommandAssumption DEF GoodLedgers, GoodLedger
    <2>5. phase # "off" /\ ledger'.entries[i].cmd = c => i = j
      BY <2>4
    <2>6. CASE phase' = phase /\ at' = at
      <3>1. phase # "off"
        BY <1>5, <2>6
      <3>2. ledger'.entries[i].cmd = c
        BY <1>1, <1>2, <3>1, FutureStep, NextKeeps
      <3>3. QED BY <1>5, <2>2, <2>4, <2>6, <3>1, <3>2
    <2>7. CASE /\ BootSkip \/ BootRequeue \/ BootSettle
               /\ phase = "reconcile" /\ phase' = phase /\ at \in Slots /\ at' = at + 1
      <3>1. ledger'.entries[i].cmd = c
        BY <1>1, <1>2, <2>7, FutureStep, NextKeeps
      <3>2. i < at \/ i = at
        BY <1>t, <1>5, <2>4, <2>7, <3>1 DEF Slots
      <3>3. QED BY <2>2, <2>3, <2>4, <2>7, <3>1, <3>2
    <2>8. CASE phase = "reconcile" /\ at = LedgerSize + 1
      <3>1. i < at
        BY <2>8, LedgerSizeAssumption DEF Slots
      <3>2. QED BY <2>2, <2>4, <2>8, <3>1
    <2>9. phase' \in {"reconcile", "up"}
      BY <1>5
    <2>10. QED BY <2>1, <2>6, <2>7, <2>8, <2>9, PhaseChanges
  <1>6. QED BY <1>3, <1>4, <1>5 DEF Unreported

LEMMA RebootedStep ==
    ASSUME TypeOK, Durable, GoodLedgers', Holders, Fresh, Results, Restarting, Rebooted,
           LedgerChange, NetChange, [Next]_vars
    PROVE  Rebooted'
  <1> SUFFICES ASSUME NEW c \in Commands, reboots'[c] > 0
               PROVE  reboots'[c] = 1 /\ (committed'[c] = "none" => Unreported(c)')
    BY DEF Rebooted
  <1>t. reboots \in [Commands -> Nat]
    BY DEF TypeOK
  <1>1. CASE reboots'[c] = reboots[c]
    <2>1. reboots[c] = 1 /\ (committed[c] = "none" => Unreported(c))
      BY <1>1 DEF Rebooted
    <2>2. committed'[c] = "none" => committed[c] = "none"
      BY DEF NetChange, NetSend, NetOnly, observed, ServerCommits
    <2>3. QED BY <1>1, <2>1, <2>2, UnreportedStep
  <1>2. CASE CtlRestart /\ ledger.entries[ctl.entry].cmd = c
    BY <1>2, FirstRestart
  <1>3. CASE CtlRestart /\ ledger.entries[ctl.entry].cmd # c
    <2>1. reboots'[c] = reboots[c]
      BY <1>t, <1>3 DEF CtlRestart
    <2>2. QED BY <1>1, <2>1
  <1>4. QED BY <1>1, <1>2, <1>3, RestartChanges

-----------------------------------------------------------------------------
\* The inductive invariant of the two properties about the server's record.
Inv2 == Inv /\ Fresh /\ AheadKeeps /\ Results /\ Restarting /\ Rebooted

LEMMA InitInv2 == Init => Inv2
  <1> SUFFICES ASSUME Init PROVE Inv2
    OBVIOUS
  <1>1. Inv
    BY InitInv
  <1>2. ledger = ZeroLedger /\ net.pc = "idle" /\ ctl.pc = "acks"
    BY DEF Init, NetIdle, CtlLoop
  <1>3. AheadKeeps
    BY <1>2, ZeroSaysNothing DEF AheadKeeps
  <1>4. Results
    BY <1>2 DEF Init, Results
  <1>5. Fresh /\ Restarting
    BY <1>2 DEF Fresh, Restarting
  <1>6. Rebooted
    BY DEF Init, Rebooted
  <1>7. QED BY <1>1, <1>3, <1>4, <1>5, <1>6 DEF Inv2

LEMMA Inv2Step == Inv2 /\ [Next]_vars => Inv2'
  <1> SUFFICES ASSUME Inv2, [Next]_vars PROVE Inv2'
    OBVIOUS
  <1>1. Inv /\ Inv' /\ Fresh /\ AheadKeeps /\ Results /\ Restarting /\ Rebooted
    BY InvStep DEF Inv2
  <1>2. TypeOK /\ Durable /\ GoodLedgers /\ GoodLedger(ledger) /\ GoodLedgers' /\ Holders
    BY <1>1 DEF Inv, GoodLedgers
  <1>3. LedgerChange /\ NetChange
    BY <1>2, LedgerChanges, NetChanges
  <1>4. Fresh' /\ AheadKeeps'
    BY <1>1, <1>2, <1>3, FreshStep, AheadKeepsStep
  <1>5. Results'
    BY <1>1, <1>2, <1>3, ResultsStep
  <1>6. Restarting'
    BY <1>1, <1>2, <1>3, RestartingStep
  <1>7. Rebooted'
    BY <1>1, <1>2, <1>3, RebootedStep
  <1>8. QED BY <1>1, <1>4, <1>5, <1>6, <1>7 DEF Inv2

LEMMA Inductive2 == Spec => []Inv2
  <1>1. QED BY InitInv2, Inv2Step, PTL DEF Spec

\* A result the server has committed stays the result of its command: also in the
\* ledger that a write reported as failed has left ahead of the one in RAM.
THEOREM CommittedStays == Spec => []CommittedResultIsFinal
  <1>1. Inv2 => CommittedResultIsFinal
    BY DEF Inv2, Results, Settles, Futures, Says, CommittedResultIsFinal
  <1>2. QED BY <1>1, Inductive2, PTL

\* However often a reboot command is delivered, and whatever resets and failed writes
\* surround it, it restarts the device at most once.
THEOREM RebootsOnce == Spec => []RebootAtMostOnce
  <1>1. Inv2 => RebootAtMostOnce
    <2>1. SUFFICES ASSUME Inv2, NEW c \in Commands PROVE reboots[c] <= 1
      BY DEF RebootAtMostOnce
    <2>2. reboots[c] \in Nat
      BY <2>1 DEF Inv2, Inv, TypeOK
    <2>3. reboots[c] > 0 => reboots[c] = 1
      BY <2>1 DEF Inv2, Rebooted
    <2>4. QED BY <2>2, <2>3
  <1>2. QED BY <1>1, Inductive2, PTL

=============================================================================
