------------------------- MODULE ProvisioningProofs -------------------------
(***************************************************************************)
(* Proofs about Provisioning: its types, that only a vetted configuration  *)
(* is ever selected, that it implements AtomicConfig, that no transaction  *)
(* is orphaned and that the identity follows the configuration.  The       *)
(* argument is one inductive invariant: what an open transaction staged is *)
(* still in its slot, that slot is not the selected one, and a transaction *)
(* that is marked as tested staged a vetted configuration.                 *)
(***************************************************************************)
EXTENDS Provisioning, TLAPS

\* What an open transaction stands for.
Staged ==
    txn # NoTxn =>
        /\ txn.slot # selector
        /\ slots[txn.slot] = txn.content
        /\ candidate = txn.content
        /\ txn.stage = "network_tested" => txn.content \in vetted

\* Only a session, which has an identity, holds a transaction.
InSession == phase \in {"maintenance", "running"} => identity # 0

Inv == TypeOK /\ SelectedIsVetted /\ Staged /\ InSession

USE DEF Slots

-----------------------------------------------------------------------------
(***************************************************************************)
(* Facts about the operators.                                              *)
(***************************************************************************)
\* A wrapped transaction id is an id, and never zero.
LEMMA NewIdType ==
    ASSUME nextTxn \in 0 .. LastTransaction
    PROVE  NewId \in 1 .. LastTransaction /\ After(NewId) \in 0 .. LastTransaction
BY ProvisioningAssumption DEF NewId, After

\* What parse_candidate() makes is a configuration.
LEMMA CandidateType ==
    ASSUME TypeOK, identity # 0, HasNext, NEW s \in Settings
    PROVE  Candidate(s) \in Configs
<1>1. identity \in Credentials
  BY DEF TypeOK
<1>2. CASE active = NoConfig
  BY <1>1, <1>2, ProvisioningAssumption DEF Candidate, Configs
<1>3. CASE active # NoConfig
  <2>1. active \in Configs /\ active.generation < MaxGeneration
    BY <1>3 DEF TypeOK, HasNext
  <2>2. active.generation + 1 \in 1 .. MaxGeneration
    BY <2>1, ProvisioningAssumption DEF Configs
  <2>. QED BY <1>3, <2>1, <2>2 DEF Candidate, Configs
<1>. QED BY <1>2, <1>3

\* An enrolled candidate is a configuration.
LEMMA EnrolledType ==
    ASSUME TypeOK, candidate # NoConfig, Grantable
    PROVE  Enrolled \in Configs /\ issued + 1 \in Credentials
<1>1. issued + 1 \in Credentials
  BY ProvisioningAssumption DEF TypeOK, Grantable, Credentials
<1>2. candidate \in Configs
  BY DEF TypeOK
<1>. QED BY <1>1, <1>2 DEF Enrolled, Configs

\* A new transaction is staged in a slot that is not selected.
LEMMA InactiveSlot == Inactive \in Slots /\ Inactive # selector
BY DEF Inactive

LEMMA ReleasedType ==
    ASSUME TypeOK
    PROVE  Released(txn) \in 0 .. LastTransaction
BY ProvisioningAssumption DEF TypeOK, Released

\* The fields of an open transaction.
LEMMA TxnFields ==
    ASSUME TypeOK, txn # NoTxn
    PROVE  /\ txn.stage \in {"readback_verified", "network_tested"}
           /\ txn.id \in 0 .. LastTransaction
           /\ txn.slot \in Slots
           /\ txn.content \in Configs
BY DEF TypeOK, Txns

-----------------------------------------------------------------------------
LEMMA InitInv == Init => Inv
<1>. SUFFICES ASSUME Init PROVE Inv
  OBVIOUS
<1>1. slots \in [Slots -> Configs \cup {NoConfig}]
  BY DEF Init
<1>2. 1 \in 0 .. LastTransaction /\ 0 \in 0 .. LastTransaction /\ 1 \in Credentials
      /\ 0 \in 0 .. MaxFailures /\ 0 \in 0 .. MaxResets
  BY ProvisioningAssumption DEF Credentials
<1>3. TypeOK
  BY <1>1, <1>2 DEF Init, TypeOK
<1>. QED BY <1>3 DEF Init, Inv, SelectedIsVetted, Staged, InSession

\* A failed write keeps the type of the store and the other slot.
LEMMA TornSlot ==
    ASSUME TypeOK, NEW slot \in Slots, NEW c \in Configs, Torn(slot, c)
    PROVE  /\ slots' \in [Slots -> Configs \cup {NoConfig}]
           /\ \A s \in Slots : s # slot => slots'[s] = slots[s]
BY DEF TypeOK, Torn

-----------------------------------------------------------------------------
(***************************************************************************)
(* Each step preserves the invariant.                                      *)
(***************************************************************************)
\* Steps that end the transaction and change neither store nor configurations.
LEMMA ClearedStep ==
    ASSUME Inv, Cleared, nextTxn' \in 0 .. LastTransaction,
           issued' \in Credentials, reboot' \in BOOLEAN,
           failures' \in 0 .. MaxFailures,
           slots' \in [Slots -> Configs \cup {NoConfig}],
           selector' \in Slots \cup {"none"},
           active' \in Configs \cup {NoConfig},
           SelectedIsVetted',
           UNCHANGED <<identity, token, phase, vetted, resets>>
    PROVE  Inv'
<1>1. owner' \in 0 .. LastTransaction
  BY ReleasedType DEF Inv, Cleared
<1>2. TypeOK'
  BY <1>1 DEF Inv, TypeOK, Cleared
<1>3. Staged' /\ InSession'
  BY DEF Inv, Staged, InSession, Cleared
<1>. QED BY <1>2, <1>3 DEF Inv

\* begin_config succeeds.
LEMMA BeginConfigStep ==
    ASSUME Inv, NEW s \in Settings, BeginConfig(s)
    PROVE  Inv'
<1>. DEFINE c == Candidate(s)
            t == [stage |-> "readback_verified", id |-> NewId, slot |-> Inactive,
                  content |-> c]
<1>1. c \in Configs
  BY CandidateType DEF Inv, InSession, BeginConfig, Line
<1>2. NewId \in 1 .. LastTransaction /\ nextTxn' \in 0 .. LastTransaction
  BY NewIdType DEF Inv, TypeOK, BeginConfig, IdUsed
<1>3. Inactive \in Slots /\ Inactive # selector
  BY InactiveSlot
<1>4. slots' \in [Slots -> Configs \cup {NoConfig}] /\ slots'[Inactive] = c
      /\ \A x \in Slots : x # Inactive => slots'[x] = slots[x]
  BY <1>1, <1>3 DEF Inv, TypeOK, BeginConfig
<1>5. t \in Txns /\ txn' = t /\ candidate' = c /\ passed' = FALSE /\ owner' = NewId
  BY <1>1, <1>2, <1>3 DEF Txns, BeginConfig
<1>6. UNCHANGED <<selector, issued, vetted, failures, resets, active, token,
                  reboot, identity, phase>>
  BY DEF BeginConfig, bounds, KeepSession, KeepWorld
<1>7. TypeOK'
  <2>1. owner' \in 0 .. LastTransaction
    BY <1>2, <1>5, ProvisioningAssumption
  <2>2. txn' \in Txns /\ candidate' \in Configs /\ passed' \in BOOLEAN
    BY <1>1, <1>5
  <2>. HIDE DEF c, t
  <2>. QED BY <1>2, <1>4, <1>6, <2>1, <2>2 DEF Inv, TypeOK
<1>8. SelectedIsVetted'
  BY <1>3, <1>4, <1>6 DEF Inv, TypeOK, SelectedIsVetted
<1>9. Staged' /\ InSession'
  <2>1. t.stage = "readback_verified" /\ t.slot = Inactive /\ t.content = c
    OBVIOUS
  <2>. QED BY <1>3, <1>4, <1>5, <1>6, <2>1 DEF Inv, Staged, InSession
<1>. QED BY <1>7, <1>8, <1>9 DEF Inv

\* test_config succeeds.
LEMMA TestConfigStep ==
    ASSUME Inv, TestConfig
    PROVE  Inv'
<1>. DEFINE t == [txn EXCEPT !.stage = "network_tested", !.content = Enrolled]
<1>1. Enrolled \in Configs /\ issued' \in Credentials
  BY EnrolledType DEF Inv, TestConfig
<1>2. txn # NoTxn
  BY DEF TestConfig, Restaging, NoTxn
<1>3. txn \in Txns /\ txn.slot \in Slots /\ txn.slot # selector
  BY <1>2, TxnFields DEF Inv, TypeOK, Staged
<1>4. t \in Txns /\ t.slot = txn.slot /\ t.content = Enrolled
  BY <1>1, <1>3 DEF Txns
<1>5. txn' = t /\ candidate' = Enrolled /\ passed' = TRUE
      /\ vetted' = vetted \cup {Enrolled}
  BY DEF TestConfig
<1>6. slots' \in [Slots -> Configs \cup {NoConfig}] /\ slots'[txn.slot] = Enrolled
      /\ \A x \in Slots : x # txn.slot => slots'[x] = slots[x]
  BY <1>1, <1>3 DEF Inv, TypeOK, TestConfig
<1>7. UNCHANGED <<selector, owner, nextTxn, failures, resets, active, token,
                  reboot, identity, phase>>
  BY DEF TestConfig, bounds, KeepSession, KeepWorld
<1>8. TypeOK'
  BY <1>1, <1>4, <1>5, <1>6, <1>7 DEF Inv, TypeOK
<1>9. SelectedIsVetted'
  BY <1>3, <1>5, <1>6, <1>7 DEF Inv, TypeOK, SelectedIsVetted
<1>10. Staged' /\ InSession'
  BY <1>3, <1>4, <1>5, <1>6, <1>7 DEF Inv, Staged, InSession
<1>. QED BY <1>8, <1>9, <1>10 DEF Inv

\* The steps that end the transaction, one per line operation.
LEMMA EndingStep ==
    ASSUME Inv,
           \/ \E s \in Settings : BeginConfigFails(s)
           \/ Refused \/ TestFails \/ TestWriteFails \/ TestRefused
           \/ CommitConfig \/ CommitFails \/ SafeReboot
    PROVE  Inv'
<1>. USE DEF KeepSession, KeepWorld, bounds
<1>1. ASSUME NEW s \in Settings, BeginConfigFails(s) PROVE Inv'
  <2>1. Candidate(s) \in Configs
    BY <1>1, CandidateType DEF Inv, InSession, BeginConfigFails, Line
  <2>2. slots' \in [Slots -> Configs \cup {NoConfig}]
        /\ \A x \in Slots : x # Inactive => slots'[x] = slots[x]
    BY <1>1, <2>1, InactiveSlot, TornSlot DEF Inv, BeginConfigFails
  <2>3. SelectedIsVetted'
    BY <1>1, <2>2, InactiveSlot DEF Inv, TypeOK, SelectedIsVetted, BeginConfigFails
  <2>4. nextTxn' \in 0 .. LastTransaction
    BY <1>1, NewIdType DEF Inv, TypeOK, BeginConfigFails, IdUsed
  <2>5. failures' \in 0 .. MaxFailures
    BY <1>1, ProvisioningAssumption DEF Inv, TypeOK, BeginConfigFails, Fails
  <2>. QED BY <1>1, <2>2, <2>3, <2>4, <2>5, ClearedStep
           DEF Inv, TypeOK, BeginConfigFails, Fails
<1>2. CASE Refused
  <2>1. SelectedIsVetted'
    BY <1>2 DEF Inv, SelectedIsVetted, Refused
  <2>. QED BY <1>2, <2>1, ClearedStep DEF Inv, TypeOK, Refused
<1>3. CASE TestFails
  <2>1. SelectedIsVetted'
    BY <1>3 DEF Inv, SelectedIsVetted, TestFails
  <2>2. issued' \in Credentials
    BY <1>3, ProvisioningAssumption DEF Inv, TypeOK, TestFails, Grantable, Credentials
  <2>. QED BY <1>3, <2>1, <2>2, ClearedStep DEF Inv, TypeOK, TestFails
<1>4. CASE TestWriteFails
  <2>1. Enrolled \in Configs /\ issued' \in Credentials
    BY <1>4, EnrolledType DEF Inv, TestWriteFails
  <2>2. txn # NoTxn
    BY <1>4 DEF TestWriteFails, Restaging, NoTxn
  <2>3. txn.slot \in Slots /\ txn.slot # selector
    BY <2>2, TxnFields DEF Inv, Staged
  <2>4. slots' \in [Slots -> Configs \cup {NoConfig}]
        /\ \A x \in Slots : x # txn.slot => slots'[x] = slots[x]
    BY <1>4, <2>1, <2>3, TornSlot DEF Inv, TestWriteFails
  <2>5. SelectedIsVetted'
    BY <1>4, <2>3, <2>4 DEF Inv, TypeOK, SelectedIsVetted, TestWriteFails
  <2>6. failures' \in 0 .. MaxFailures
    BY <1>4, ProvisioningAssumption DEF Inv, TypeOK, TestWriteFails, Fails
  <2>. QED BY <1>4, <2>1, <2>4, <2>5, <2>6, ClearedStep
           DEF Inv, TypeOK, TestWriteFails, Fails
<1>5. CASE TestRefused
  <2>1. SelectedIsVetted'
    BY <1>5 DEF Inv, SelectedIsVetted, TestRefused
  <2>2. issued' \in Credentials
    BY <1>5, EnrolledType DEF Inv, TestRefused
  <2>. QED BY <1>5, <2>1, <2>2, ClearedStep DEF Inv, TypeOK, TestRefused
<1>6. CASE CommitConfig \/ CommitFails
  <2>1. txn # NoTxn /\ slots[txn.slot] \in vetted /\ txn.slot \in Slots
    <3>1. Committable
      BY <1>6 DEF CommitConfig, CommitFails
    <3>2. txn # NoTxn
      BY <3>1 DEF Committable, NoTxn
    <3>. QED BY <3>1, <3>2, TxnFields DEF Inv, Staged, Committable
  <2>2. selector' \in {selector, txn.slot} /\ slots' = slots /\ vetted' = vetted
    BY <1>6 DEF CommitConfig, CommitFails
  <2>3. SelectedIsVetted'
    BY <2>1, <2>2 DEF Inv, SelectedIsVetted
  <2>4. selector' \in Slots \cup {"none"}
    BY <2>1, <2>2 DEF Inv, TypeOK
  <2>5. failures' \in 0 .. MaxFailures /\ UNCHANGED resets
    BY <1>6, ProvisioningAssumption DEF Inv, TypeOK, CommitConfig, CommitFails, Fails
  <2>6. active' \in Configs \cup {NoConfig}
    BY <1>6 DEF Inv, TypeOK, CommitConfig, CommitFails
  <2>7. Cleared /\ UNCHANGED <<slots, nextTxn, issued, vetted, token, reboot,
                               identity, phase>>
    BY <1>6 DEF CommitConfig, CommitFails
  <2>. QED BY <2>3, <2>4, <2>5, <2>6, <2>7, ClearedStep DEF Inv, TypeOK
<1>7. CASE SafeReboot
  <2>1. SelectedIsVetted'
    BY <1>7 DEF Inv, SelectedIsVetted, SafeReboot
  <2>. QED BY <1>7, <2>1, ClearedStep DEF Inv, TypeOK, SafeReboot
<1>. QED BY <1>1, <1>2, <1>3, <1>4, <1>5, <1>6, <1>7

\* Steps that touch neither the store nor the transaction.
LEMMA TokenStep ==
    ASSUME Inv, FactoryPrepare \/ TokenExpires \/ FactoryCommit \/ RebootDropped
    PROVE  Inv'
<1>1. UNCHANGED <<slots, selector, identity, owner, nextTxn, txn, active,
                  candidate, passed, phase, issued, vetted, failures, resets>>
  BY DEF FactoryPrepare, TokenExpires, FactoryCommit, RebootDropped, KeepWorld, bounds
<1>2. token' \in {"none", "issued", "expired"} /\ reboot' \in BOOLEAN
  BY DEF Inv, TypeOK, FactoryPrepare, TokenExpires, FactoryCommit, RebootDropped
<1>. QED BY <1>1, <1>2 DEF Inv, TypeOK, SelectedIsVetted, Staged, InSession

\* A reset ends the session and keeps the store.
LEMMA ResetStep ==
    ASSUME Inv, Restart \/ Reset
    PROVE  Inv'
<1>1. PowerOff
  BY DEF Restart, Reset
<1>2. failures' \in 0 .. MaxFailures /\ resets' \in 0 .. MaxResets
  BY ProvisioningAssumption DEF Inv, TypeOK, Restart, Reset, bounds
<1>3. TypeOK'
  <2>1. owner' \in 0 .. LastTransaction /\ nextTxn' \in 0 .. LastTransaction
    BY <1>1, ProvisioningAssumption DEF PowerOff
  <2>. QED BY <1>1, <1>2, <2>1 DEF Inv, TypeOK, PowerOff, store
<1>. QED BY <1>1, <1>3 DEF Inv, SelectedIsVetted, Staged, InSession, PowerOff, store

\* A boot changes the identity and the copy of the configuration only.
LEMMA BootStep ==
    ASSUME Inv, Boot
    PROVE  Inv'
<1>. USE DEF session, bounds, store
<1>1. UNCHANGED <<slots, selector, owner, nextTxn, txn, candidate, passed, token,
                  reboot, issued, vetted>>
  BY DEF Boot, CreateIdentity, AdoptIdentity, Start
<1>2. Loaded \in Configs \cup {NoConfig}
  BY DEF Inv, TypeOK, Loaded
<1>3. identity' \in Credentials \cup {0} /\ active' \in Configs \cup {NoConfig}
      /\ failures' \in 0 .. MaxFailures /\ resets' \in 0 .. MaxResets
  <2>1. CASE CreateIdentity
    BY <2>1, ProvisioningAssumption DEF Inv, TypeOK, CreateIdentity, Fails, Credentials
  <2>2. CASE AdoptIdentity
    <3>1. Loaded.credential \in Credentials
      BY <1>2, <2>2 DEF AdoptIdentity, Configs
    <3>. QED BY <2>2, <3>1, ProvisioningAssumption DEF Inv, TypeOK, AdoptIdentity, Fails
  <2>3. CASE Start
    BY <1>2, <2>3 DEF Inv, TypeOK, Start
  <2>. QED BY <2>1, <2>2, <2>3 DEF Boot
<1>4. phase' \in {"off", "halted", "maintenance", "running"} /\ InSession'
  BY DEF Inv, TypeOK, InSession, Boot, CreateIdentity, AdoptIdentity, Start
<1>. QED BY <1>1, <1>3, <1>4 DEF Inv, TypeOK, SelectedIsVetted, Staged

LEMMA NextInv == Inv /\ [Next]_vars => Inv'
<1>. SUFFICES ASSUME Inv, [Next]_vars PROVE Inv'
  OBVIOUS
<1>1. CASE UNCHANGED vars
  BY <1>1 DEF Inv, TypeOK, SelectedIsVetted, Staged, InSession, vars, store,
              session, bounds
<1>2. CASE Usb
  BY <1>2, BeginConfigStep, TestConfigStep, EndingStep, TokenStep DEF Usb
<1>3. CASE Boot
  BY <1>3, BootStep
<1>4. CASE Restart \/ Reset
  BY <1>4, ResetStep
<1>. QED BY <1>1, <1>2, <1>3, <1>4 DEF Next

LEMMA Invariance == Spec => []Inv
BY InitInv, NextInv, PTL DEF Spec

-----------------------------------------------------------------------------
\* The variables of pm_config.c, of the session and of the boot keep their types.
THEOREM ProvisioningTypes == Spec => []TypeOK
<1>1. Inv => TypeOK
  BY DEF Inv
<1>. QED BY <1>1, Invariance, PTL

\* The commit point is sound for every set of settings and every number of
\* failures and resets: pm_config_load() only ever boots a configuration that
\* passed all tests.
THEOREM SelectionIsVetted == Spec => []SelectedIsVetted
<1>1. Inv => SelectedIsVetted
  BY DEF Inv
<1>. QED BY <1>1, Invariance, PTL

-----------------------------------------------------------------------------
(***************************************************************************)
(* What a step does to the configuration a boot would load.                *)
(***************************************************************************)
\* No step writes the selected slot.
LEMMA SelectedKept ==
    ASSUME Inv, [Next]_vars, selector # "none"
    PROVE  slots'[selector] = slots[selector]
<1>. USE DEF store, session, vars
<1>0. selector \in Slots
  BY DEF Inv, TypeOK
<1>1. CASE slots' = slots
  BY <1>1
<1>2. ASSUME NEW s \in Settings, BeginConfig(s) PROVE slots'[selector] = slots[selector]
  BY <1>0, <1>2, InactiveSlot DEF Inv, TypeOK, BeginConfig
<1>3. ASSUME NEW s \in Settings, BeginConfigFails(s)
      PROVE  slots'[selector] = slots[selector]
  BY <1>0, <1>3, InactiveSlot DEF Inv, TypeOK, BeginConfigFails, Torn
<1>4. CASE TestConfig \/ TestWriteFails
  <2>1. txn.slot # selector
    BY <1>4 DEF TestConfig, TestWriteFails
  <2>. QED BY <1>0, <1>4, <2>1 DEF Inv, TypeOK, TestConfig, TestWriteFails, Torn
<1>. QED BY <1>1, <1>2, <1>3, <1>4
         DEF Next, Usb, Boot, Restart, Reset, PowerOff, Refused, TestFails,
             TestRefused, CommitConfig, CommitFails, FactoryPrepare, TokenExpires,
             FactoryCommit, SafeReboot, RebootDropped, CreateIdentity,
             AdoptIdentity, Start

\* The selector moves to a vetted configuration or not at all.
LEMMA SelectorMoves ==
    ASSUME Inv, [Next]_vars, selector' # selector
    PROVE  /\ selector' \in Slots /\ slots' = slots /\ vetted' = vetted
           /\ slots[selector'] \in vetted
<1>. USE DEF store, session, vars
<1>1. CommitConfig \/ CommitFails
  BY DEF Next, Usb, Boot, Restart, Reset, PowerOff, Refused, TestFails, TestConfig,
         TestWriteFails, TestRefused, BeginConfig, BeginConfigFails, FactoryPrepare,
         TokenExpires, FactoryCommit, SafeReboot, RebootDropped, CreateIdentity,
         AdoptIdentity, Start
<1>2. selector' = txn.slot /\ slots' = slots /\ vetted' = vetted /\ Committable
  BY <1>1 DEF CommitConfig, CommitFails
<1>3. txn # NoTxn
  BY <1>2 DEF Committable, NoTxn
<1>. QED BY <1>2, <1>3, TxnFields DEF Inv, Staged, Committable

\* vetted grows by one tested configuration, and only while the selector rests.
LEMMA VettedGrows ==
    ASSUME Inv, [Next]_vars, vetted' # vetted
    PROVE  selector' = selector /\ \E c \in Configs : vetted' = vetted \cup {c}
<1>. USE DEF store, session, vars
<1>1. TestConfig
  BY DEF Next, Usb, Boot, Restart, Reset, PowerOff, Refused, TestFails,
         TestWriteFails, TestRefused, BeginConfig, BeginConfigFails, FactoryPrepare,
         TokenExpires, FactoryCommit, SafeReboot, RebootDropped, CreateIdentity,
         AdoptIdentity, Start, CommitConfig, CommitFails
<1>2. Enrolled \in Configs
  BY <1>1, EnrolledType DEF Inv, TestConfig
<1>. QED BY <1>1, <1>2 DEF TestConfig

\* docs/POWERSHELL_PROVISIONING.md:29: the prior committed slot is preserved by
\* every step of pm_config.c and of the session.
THEOREM PriorSlotPreserved == Spec => SelectedSlotUntouched
<1>1. Inv /\ [Next]_vars =>
        [selector # "none" => slots'[selector] = slots[selector]]_vars
  BY SelectedKept
<1>. QED BY <1>1, Invariance, PTL DEF Spec, SelectedSlotUntouched

\* The two-slot store with its selector implements a single configuration that a
\* vetted one replaces atomically, whatever writes fail and whenever the device
\* resets (pm_config_begin, pm_config_mark_network_tested, pm_config_commit).
THEOREM Refinement == Spec => ReplacesAtomically
<1>1. Init => Abstract!Init
  BY DEF Init, Abstract!Init, Loaded
<1>2. Inv /\ [Next]_vars => [Abstract!Next]_<<Loaded, vetted>>
  <2>. SUFFICES ASSUME Inv, [Next]_vars
                PROVE  Abstract!Next \/ (Loaded' = Loaded /\ vetted' = vetted)
    OBVIOUS
  <2>1. CASE selector' # selector
    <3>1. Loaded' \in vetted /\ vetted' = vetted
      BY <2>1, SelectorMoves DEF Loaded
    <3>. QED BY <3>1 DEF Abstract!Next, Abstract!Switch
  <2>2. CASE selector' = selector
    <3>1. Loaded' = Loaded
      BY <2>2, SelectedKept DEF Loaded
    <3>2. CASE vetted' = vetted
      BY <3>1, <3>2
    <3>3. CASE vetted' # vetted
      BY <3>1, <3>3, VettedGrows DEF Abstract!Next, Abstract!Vet
    <3>. QED BY <3>2, <3>3
  <2>. QED BY <2>1, <2>2
<1>. QED BY <1>1, <1>2, Invariance, PTL DEF Spec, ReplacesAtomically, Abstract!Spec

-----------------------------------------------------------------------------
(***************************************************************************)
(* Ownership of the transaction, and the identity.                         *)
(***************************************************************************)
LEMMA OwnerStep == Inv /\ NoOrphanTransaction /\ [Next]_vars => NoOrphanTransaction'
<1>. SUFFICES ASSUME Inv, NoOrphanTransaction, [Next]_vars PROVE NoOrphanTransaction'
  OBVIOUS
<1>. USE DEF NoOrphanTransaction
<1>1. ASSUME Cleared PROVE NoOrphanTransaction'
  <2>1. Released(txn) = 0
    BY DEF Released
  <2>. QED BY <1>1, <2>1 DEF Cleared
<1>2. ASSUME NEW s \in Settings, BeginConfig(s) PROVE NoOrphanTransaction'
  BY <1>2 DEF BeginConfig
<1>3. CASE TestConfig
  <2>1. txn # NoTxn
    BY <1>3 DEF TestConfig, Restaging, NoTxn
  <2>2. txn \in Txns
    BY <2>1 DEF Inv, TypeOK
  <2>3. txn'.id = txn.id /\ owner' = owner
    BY <1>3, <2>2 DEF TestConfig, Txns
  <2>. QED BY <2>3
<1>4. CASE \/ \E s \in Settings : BeginConfigFails(s)
           \/ Refused \/ TestFails \/ TestWriteFails \/ TestRefused
           \/ CommitConfig \/ CommitFails \/ SafeReboot
  BY <1>1, <1>4 DEF BeginConfigFails, Refused, TestFails, TestWriteFails, TestRefused,
     CommitConfig, CommitFails, SafeReboot
<1>5. CASE Restart \/ Reset
  BY <1>5 DEF Restart, Reset, PowerOff
<1>6. CASE \/ FactoryPrepare \/ TokenExpires \/ FactoryCommit \/ RebootDropped
           \/ Boot \/ UNCHANGED vars
  BY <1>6 DEF FactoryPrepare, TokenExpires, FactoryCommit, RebootDropped, Boot,
     CreateIdentity, AdoptIdentity, Start, vars, session
<1>. QED BY <1>2, <1>3, <1>4, <1>5, <1>6 DEF Next, Usb

LEMMA IdentityStep == IdentityFollowsConfig /\ [Next]_vars => IdentityFollowsConfig'
<1>. SUFFICES ASSUME IdentityFollowsConfig, [Next]_vars PROVE IdentityFollowsConfig'
  OBVIOUS
<1>. USE DEF IdentityFollowsConfig
<1>1. CASE Start
  BY <1>1 DEF Start, store
<1>2. CASE CreateIdentity \/ AdoptIdentity
  BY <1>2 DEF CreateIdentity, AdoptIdentity
<1>3. CASE Restart \/ Reset
  BY <1>3 DEF Restart, Reset, PowerOff
<1>4. CASE Usb
  BY <1>4 DEF Usb, BeginConfig, BeginConfigFails, Refused, TestFails, TestConfig,
     TestWriteFails, TestRefused, CommitConfig, CommitFails, FactoryPrepare, TokenExpires,
     FactoryCommit, SafeReboot, RebootDropped, Line, KeepSession, KeepWorld
<1>5. CASE UNCHANGED vars
  BY <1>5 DEF vars, store, session
<1>. QED BY <1>1, <1>2, <1>3, <1>4, <1>5 DEF Next, Boot

\* Whatever sequence of lines, failing or not, and whatever resets: a transaction
\* that owns the store is the session's, so pm_config_abort() always releases it.
THEOREM NothingOrphaned == Spec => []NoOrphanTransaction
<1>1. Init => NoOrphanTransaction
  BY DEF Init, NoOrphanTransaction
<1>. QED BY <1>1, OwnerStep, Invariance, PTL DEF Spec

\* app_main() runs the device under the credential of the configuration it
\* loaded, also after a reset between the commit and the adoption.
THEOREM IdentityAdopted == Spec => []IdentityFollowsConfig
<1>1. Init => IdentityFollowsConfig
  BY DEF Init, IdentityFollowsConfig
<1>. QED BY <1>1, IdentityStep, PTL DEF Spec

=============================================================================
