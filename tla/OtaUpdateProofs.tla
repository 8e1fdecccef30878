-------------------------- MODULE OtaUpdateProofs --------------------------
(***************************************************************************)
(* Proofs about OtaUpdate for every number of updates, faults and resets:  *)
(* the types, that an update leaves an image that works, and that only     *)
(* images that work are left in service, as long as otadata backs one.     *)
(* Then, after at most one fault and one reset: an update that is reported *)
(* as failed is not running.                                               *)
(***************************************************************************)
EXTENDS OtaUpdate, TLAPS

\* A partition from which the device comes up.
Sound(p) == flash[p].whole /\ flash[p].image \in healthy

\* The phases that only a boot past its validation reaches, or needs none.
InService == phase \in {"reconcile", "up"}

\* A confirmed entry that decides names a sound image, the running one.
Confirmed ==
    otadata[Active].state = "valid" =>
        /\ Sound(otadata[Active].part)
        /\ phase # "off" => running = otadata[Active].part

\* Behind an image on trial the confirmed one is sound; in service it is running.
OnTrial ==
    otadata[Active].state \in {"new", "pending"} /\ Fallback.state = "valid" =>
        /\ Sound(Fallback.part)
        /\ InService => running = Fallback.part

\* An unwritten entry is the second one (or both); without a confirmed entry the
\* factory image is behind it.
Factory ==
    /\ otadata[0].state = "blank" => otadata[1].state = "blank"
    /\ otadata[1].state = "blank" => lead = 0
    /\ otadata[1].state = "blank" /\ otadata[0].state # "valid" =>
          /\ Sound(0)
          /\ InService => running = 0

\* The partition the bootloader takes.
Selected == IF Deciding THEN otadata[Active].part ELSE 0
Chosen == IF flash[Selected].whole THEN Selected ELSE Other(Selected)

\* A boot: what the bootloader started, and what the validation is about.
Trial ==
    /\ phase = "startup" =>
          /\ otadata[Active].state # "new" /\ Fallback.state # "pending"
          /\ running = Chosen
    /\ phase \in {"validate", "confirm", "rollback"} =>
          /\ otadata[Active] = [part |-> running, state |-> "pending"]
          /\ flash[running].whole
    /\ phase = "confirm" => Fit
    /\ job # "none" => phase = "up"

\* The types of the state above, and of the records beside it.
CoreTypes ==
    /\ flash \in [Partitions -> [image : 0 .. Images, whole : BOOLEAN]]
    /\ otadata \in [Sectors -> OtaEntry] /\ lead \in Sectors
    /\ running \in Partitions
    /\ healthy \in SUBSET (0 .. Images)
    /\ job \in Jobs
    /\ phase \in {"off", "startup", "validate", "confirm", "rollback", "reconcile", "up"}

CommandState == {"none", "accepted", "running", "awaiting_reboot"} \cup Final

RecordTypes ==
    /\ ck \in [Keys -> Checkpoint \cup {Missing}]
    /\ cp \in Checkpoint
    /\ cmd \in [state : CommandState, image : 0 .. Images]
    /\ saved \in [state : CommandState, image : 0 .. Images]
    /\ faults \in 0 .. MaxFaults /\ crashes \in 0 .. MaxCrashes

Core == CoreTypes /\ Confirmed /\ OnTrial /\ Factory /\ Trial
Inv == Core /\ RecordTypes

LEMMA TypeParts == TypeOK <=> CoreTypes /\ RecordTypes
  BY DEF TypeOK, CoreTypes, RecordTypes, CommandState

-----------------------------------------------------------------------------
(***************************************************************************)
(* The two entries of otadata.                                             *)
(***************************************************************************)
LEMMA TwoSectors ==
    ASSUME CoreTypes
    PROVE  /\ Active \in {0, 1} /\ Other(Active) \in {0, 1} /\ Other(Active) # Active
           /\ Other(0) = 1 /\ Other(1) = 0
           /\ Usable(otadata[Other(Active)]) => Usable(otadata[Active])
           /\ \A s \in {0, 1} : s = Active \/ s = Other(Active)
  BY DEF CoreTypes, Active, ActiveOf, Other, Sectors

\* What backs the running image in each phase.
LEMMA BackedIsSound ==
    ASSUME Core, Backed
    PROVE  \E p \in Partitions : Sound(p) /\ (InService => running = p)
  <1>1. CoreTypes
    BY DEF Core
  <1>2. CASE otadata[Active].state = "valid"
    <2>1. otadata[Active].part \in Partitions
      BY <1>1, TwoSectors DEF CoreTypes, Sectors, OtaEntry
    <2>2. QED BY <1>2, <2>1 DEF Core, Confirmed, InService
  <1>3. CASE otadata[Active].state # "valid" /\ Fallback.state = "valid"
    <2>1. Fallback.part \in Partitions
      BY <1>1, TwoSectors DEF CoreTypes, Sectors, OtaEntry, Fallback
    <2>2. Usable(Fallback)
      BY <1>3 DEF Usable
    <2>3. otadata[Active].state \in {"new", "pending"}
      BY <1>1, <1>3, <2>2, TwoSectors DEF CoreTypes, Sectors, OtaEntry, Fallback, Usable
    <2>4. QED BY <1>3, <2>1, <2>3 DEF Core, OnTrial
  <1>4. CASE otadata[Active].state # "valid" /\ Fallback.state # "valid"
    <2>1. otadata[0].state # "valid" /\ otadata[1].state # "valid"
      BY <1>1, <1>4, TwoSectors DEF Fallback
    <2>2. otadata[1].state = "blank"
      BY <2>1 DEF Backed, Sectors, Core, Factory
    <2>3. QED BY <2>1, <2>2 DEF Core, Factory, Partitions
  <1>5. QED BY <1>2, <1>3, <1>4

-----------------------------------------------------------------------------
(***************************************************************************)
(* What the steps do to the flash, otadata and the boot.                   *)
(***************************************************************************)
LEMMA ActiveKept ==
    ASSUME UNCHANGED <<otadata, lead>>
    PROVE  Active' = Active /\ Fallback' = Fallback /\ Deciding' = Deciding
  BY DEF Active, ActiveOf, Fallback, Deciding

\* A step of the OTA task, or the arrival of a command, that leaves the flash
\* and otadata alone.
LEMMA JobStep ==
    ASSUME Core, UNCHANGED <<flash, otadata, lead, running, healthy, phase>>,
           job' \in Jobs, phase = "up"
    PROVE  Core'
  <1>1. Active' = Active /\ Fallback' = Fallback /\ Deciding' = Deciding
    BY ActiveKept
  <1>2. CoreTypes' /\ Factory' /\ Trial'
    BY DEF Core, CoreTypes, Factory, Trial, Sound, InService
  <1>3. Confirmed' /\ OnTrial'
    BY <1>1 DEF Core, Confirmed, OnTrial, Sound, InService
  <1>4. QED BY <1>2, <1>3 DEF Core

\* The update partition is written while the other one runs.
LEMMA FlashStep ==
    ASSUME Core, UNCHANGED <<otadata, lead, running, healthy, phase>>,
           job' \in Jobs, phase = "up",
           flash' \in [Partitions -> [image : 0 .. Images, whole : BOOLEAN]],
           flash'[running] = flash[running]
    PROVE  Core'
  <1>1. Active' = Active /\ Fallback' = Fallback /\ Deciding' = Deciding
    BY ActiveKept
  <1>2. CoreTypes' /\ Factory' /\ Trial'
    BY DEF Core, CoreTypes, Factory, Trial, Sound, InService
  <1>3. Confirmed' /\ OnTrial'
    BY <1>1 DEF Core, Confirmed, OnTrial, Sound, InService
  <1>4. QED BY <1>2, <1>3 DEF Core

\* esp_ota_set_boot_partition() overwrites the entry that does not decide: a
\* confirmed entry that decides stays behind the new one.
LEMMA SelectStep ==
    ASSUME Core, NEW p \in Partitions, SetBoot(p), phase = "up", job' \in Jobs,
           UNCHANGED <<flash, running, healthy, phase>>
    PROVE  Core'
  <1>t. CoreTypes
    BY DEF Core
  <1> DEFINE s == IF Deciding THEN Other(Active) ELSE 0
  <1>1. /\ s \in {0, 1}
        /\ otadata' = [otadata EXCEPT ![s] = [part |-> p, state |-> "new"]]
        /\ lead' = IF Deciding /\ otadata[Active].part = p THEN 0 ELSE s
    BY <1>t, TwoSectors DEF SetBoot
  <1>2. /\ otadata' \in [Sectors -> OtaEntry] /\ lead' \in Sectors
        /\ otadata'[s] = [part |-> p, state |-> "new"]
        /\ otadata'[Other(s)] = otadata[Other(s)]
    BY <1>t, <1>1 DEF CoreTypes, Sectors, OtaEntry, Partitions, Other
  <1>3. CoreTypes'
    BY <1>t, <1>2 DEF CoreTypes
  <1>4. CASE ~Deciding
    <2>1. s = 0 /\ lead' = 0
      BY <1>1, <1>4
    <2>2. ~Usable(otadata[0]) /\ ~Usable(otadata[1])
      BY <1>t, <1>4, TwoSectors DEF Deciding
    <2>3. Active' = 0 /\ otadata'[0] = [part |-> p, state |-> "new"] /\ otadata'[1] = otadata[1]
      BY <1>2, <2>1 DEF Active, ActiveOf, Usable, Other
    <2>4. Fallback' = otadata[1]
      BY <2>3 DEF Fallback, Other
    <2>5. otadata[1].state # "valid" /\ otadata[0].state # "valid"
      BY <2>2 DEF Usable
    <2>6. Factory'
      BY <2>1, <2>3, <2>5 DEF Core, Factory, Sound, InService
    <2>7. Confirmed' /\ OnTrial'
      BY <2>3, <2>4, <2>5 DEF Confirmed, OnTrial
    <2>8. QED BY <1>3, <2>6, <2>7 DEF Core, Trial
  <1>5. CASE Deciding
    <2>1. s = Other(Active) /\ Other(s) = Active /\ otadata'[Active] = otadata[Active]
      BY <1>t, <1>2, <1>5, TwoSectors
    <2>2. Usable(otadata'[0]) /\ Usable(otadata'[1])
      BY <1>t, <1>2, <1>5, <2>1, TwoSectors DEF Deciding, Usable
    <2>3. Active' = lead'
      BY <2>2, <1>2 DEF Active, ActiveOf, Sectors
    <2>4. Factory'
      BY <2>2 DEF Factory, Usable
    <2>5. CASE Active' = s
      <3>1. Fallback' = otadata[Active] /\ otadata'[Active'].state = "new"
        BY <1>2, <2>1, <2>5 DEF Fallback
      <3>2. Confirmed' /\ OnTrial'
        BY <3>1 DEF Core, Confirmed, OnTrial, Sound, InService
      <3>3. QED BY <1>3, <2>4, <3>2 DEF Core, Trial
    <2>6. CASE Active' # s
      <3>1. Active' = Active /\ Active' = 0 /\ Fallback'.state = "new"
        BY <1>t, <1>1, <1>2, <2>1, <2>3, <2>6, TwoSectors DEF Fallback
      <3>2. Confirmed' /\ OnTrial'
        BY <2>1, <3>1 DEF Core, Confirmed, OnTrial, Sound, InService
      <3>3. QED BY <1>3, <2>4, <3>2 DEF Core, Trial
    <2>7. QED BY <2>5, <2>6
  <1>6. QED BY <1>4, <1>5

\* A reset keeps the flash and otadata.
LEMMA OffStep ==
    ASSUME Core, PowerOff, UNCHANGED <<flash, otadata, lead, running, healthy>>
    PROVE  Core'
  <1>1. Active' = Active /\ Fallback' = Fallback /\ Deciding' = Deciding
    BY ActiveKept
  <1>2. CoreTypes' /\ Factory' /\ Trial'
    BY DEF PowerOff, Core, CoreTypes, Jobs, Factory, Trial, Sound, InService
  <1>3. Confirmed' /\ OnTrial'
    BY <1>1 DEF PowerOff, Core, Confirmed, OnTrial, Sound, InService
  <1>4. QED BY <1>2, <1>3 DEF Core

\* The bootloader gives up the trial that was cut short, if any, and starts what
\* then decides.
LEMMA PowerOnStep ==
    ASSUME Core, PowerOn
    PROVE  Core'
  <1>t. CoreTypes /\ phase = "off" /\ phase' = "startup"
    BY DEF Core, PowerOn
  <1> DEFINE spent == [s \in Sectors |-> Spent(otadata[s])]
             a == ActiveOf(spent)
             p == IF Usable(spent[a]) THEN spent[a].part ELSE 0
  <1>1. /\ otadata' = [spent EXCEPT ![a] = Started(@)]
        /\ running' = IF flash[p].whole THEN p ELSE Other(p)
        /\ UNCHANGED <<flash, lead, healthy, job>>
    BY DEF PowerOn
  <1>2. /\ spent \in [Sectors -> OtaEntry] /\ a \in {0, 1} /\ Other(a) \in {0, 1}
        /\ Other(a) # a /\ a \in Sectors /\ Other(a) \in Sectors
        /\ \A s \in {0, 1} : s = a \/ s = Other(a)
    BY <1>t DEF CoreTypes, Sectors, OtaEntry, Spent, ActiveOf, Other
  <1>3. /\ \A s \in {0, 1} : /\ spent[s].part = otadata[s].part
                             /\ spent[s].state = IF otadata[s].state = "pending" THEN "aborted"
                                                 ELSE otadata[s].state
        /\ spent[a] \in OtaEntry
    BY <1>t, <1>2 DEF CoreTypes, Sectors, OtaEntry, Spent
  <1>4. Usable(spent[Other(a)]) => Usable(spent[a])
    BY <1>t, <1>2 DEF CoreTypes, Sectors, ActiveOf, Other
  <1> HIDE DEF spent, a
  <1>5. /\ otadata' \in [Sectors -> OtaEntry]
        /\ otadata'[Other(a)] = spent[Other(a)]
        /\ otadata'[a].part = spent[a].part
        /\ otadata'[a].state = IF spent[a].state = "new" THEN "pending" ELSE spent[a].state
    <2>1. /\ Started(spent[a]) \in OtaEntry /\ Started(spent[a]).part = spent[a].part
          /\ Started(spent[a]).state = IF spent[a].state = "new" THEN "pending"
                                       ELSE spent[a].state
      BY <1>3 DEF Started, OtaEntry
    <2>2. QED BY <1>1, <1>2, <2>1
  <1>6. /\ Usable(otadata'[a]) <=> Usable(spent[a])
        /\ Usable(otadata'[Other(a)]) <=> Usable(spent[Other(a)])
    BY <1>5 DEF Usable
  <1>7. Active' = a
    <2>1. a = lead \/ (~Usable(spent[lead]) /\ a = Other(lead) /\ Usable(spent[a]))
      BY <1>t DEF a, ActiveOf, CoreTypes
    <2>2. lead' = lead /\ lead \in {0, 1}
      BY <1>t, <1>1 DEF CoreTypes, Sectors
    <2>3. Other(Other(lead)) = lead
      BY <2>2 DEF Other
    <2>4. CASE a = lead
      BY <1>4, <1>6, <2>2, <2>4 DEF Active, ActiveOf
    <2>5. CASE ~Usable(spent[lead]) /\ a = Other(lead) /\ Usable(spent[a])
      BY <1>6, <2>2, <2>3, <2>5 DEF Active, ActiveOf
    <2>6. QED BY <2>1, <2>4, <2>5
  <1>8. Fallback' = spent[Other(a)] /\ (Deciding' <=> Usable(spent[a]))
    BY <1>5, <1>6, <1>7 DEF Fallback, Deciding
  <1>9. p \in Partitions /\ running' \in Partitions /\ Selected' = p /\ Chosen' = running'
    BY <1>1, <1>3, <1>5, <1>7, <1>8 DEF OtaEntry, Partitions, Other, Selected, Chosen
  <1>10. CoreTypes'
    BY <1>t, <1>1, <1>5, <1>9 DEF CoreTypes
  <1>11. Trial'
    <2>1. otadata'[Active'].state # "new" /\ Fallback'.state # "pending"
      BY <1>2, <1>3, <1>5, <1>7, <1>8
    <2>2. QED BY <1>t, <1>1, <1>9, <2>1 DEF Core, Trial
  <1>a. a = Active \/ a = Other(Active)
    BY <1>t, <1>2, TwoSectors
  <1>12. Confirmed'
    <2>1. SUFFICES ASSUME spent[a].state = "valid"
                   PROVE  Sound(spent[a].part) /\ running' = spent[a].part
      BY <1>1, <1>5, <1>7 DEF Confirmed, Sound
    <2>2. otadata[a].state = "valid" /\ spent[a].part = otadata[a].part
      BY <1>2, <1>3, <2>1
    <2>3. Sound(otadata[a].part)
      <3>1. CASE a = Active
        BY <2>2, <3>1 DEF Core, Confirmed
      <3>2. CASE a = Other(Active)
        <4>1. Usable(otadata[a]) /\ Usable(otadata[Active])
          BY <1>t, <2>2, <3>2, TwoSectors DEF Usable
        <4>2. \/ otadata[Active].state = "valid"
              \/ otadata[Active].state \in {"new", "pending"}
          BY <1>t, <4>1, TwoSectors DEF Usable, CoreTypes, Sectors, OtaEntry
        <4>3. CASE otadata[Active].state = "valid"
          <5>1. spent[Active].state = "valid" /\ spent[a].state = "valid"
            BY <1>t, <1>3, <2>1, <4>3, TwoSectors
          <5>2. Active = lead
            BY <1>t, <4>1, <3>2 DEF CoreTypes, Sectors, Active, ActiveOf, Other
          <5>3. a = lead
            BY <5>1, <5>2, <1>t DEF a, ActiveOf, Usable
          <5>4. QED BY <1>t, <3>2, <5>2, <5>3, TwoSectors
        <4>4. QED BY <2>2, <3>2, <4>2, <4>3 DEF Core, OnTrial, Fallback
      <3>3. QED BY <1>a, <3>1, <3>2
    <2>4. p = spent[a].part
      BY <2>1 DEF Usable
    <2>5. QED BY <1>1, <2>2, <2>3, <2>4 DEF Sound
  <1>13. OnTrial'
    <2>1. SUFFICES ASSUME spent[a].state = "new", spent[Other(a)].state = "valid"
                   PROVE  Sound(spent[Other(a)].part)
      <3>1. spent[a].state # "pending"
        BY <1>2, <1>3
      <3>2. QED
        BY <1>t, <1>1, <1>5, <1>7, <1>8, <3>1 DEF OnTrial, InService, Sound
    <2>2. /\ otadata[a].state = "new" /\ otadata[Other(a)].state = "valid"
          /\ spent[Other(a)].part = otadata[Other(a)].part
      BY <1>2, <1>3, <2>1
    <2>3. a = Active /\ Other(a) = Other(Active)
      <3>1. Usable(otadata[0]) /\ Usable(otadata[1]) /\ Usable(spent[0]) /\ Usable(spent[1])
        BY <1>2, <2>1, <2>2 DEF Usable
      <3>2. lead \in {0, 1} /\ Active = lead /\ a = lead
        BY <1>t, <3>1 DEF Active, ActiveOf, a, CoreTypes, Sectors
      <3>3. QED BY <3>2
    <2>4. Sound(otadata[Other(a)].part)
      BY <2>2, <2>3 DEF Core, OnTrial, Fallback
    <2>5. QED BY <1>1, <2>2, <2>4 DEF Sound
  <1>14. Factory'
    <2>1. /\ otadata'[0].state = "blank" <=> otadata[0].state = "blank"
          /\ otadata'[1].state = "blank" <=> otadata[1].state = "blank"
          /\ otadata'[0].state = "valid" <=> otadata[0].state = "valid"
      BY <1>2, <1>3, <1>5
    <2>2. QED BY <1>t, <1>1, <2>1 DEF Core, Factory, Sound, InService
  <1>15. QED BY <1>10, <1>11, <1>12, <1>13, <1>14 DEF Core

\* A boot that skips the validation runs the image behind the trial, if any.
LEMMA ReadyStep ==
    ASSUME Core, Ready
    PROVE  Core'
  <1>t. /\ CoreTypes /\ phase = "startup"
        /\ UNCHANGED <<flash, otadata, lead, running, healthy, job>>
        /\ phase' = IF StateRead = "pending" THEN "validate" ELSE "reconcile"
    BY DEF Core, Ready, BootOnly
  <1>k. Active' = Active /\ Fallback' = Fallback /\ Deciding' = Deciding
    BY <1>t, ActiveKept
  <1>c. CoreTypes' /\ Confirmed'
    BY <1>t, <1>k DEF Core, CoreTypes, Confirmed, Sound
  <1>e. /\ otadata[0] \in OtaEntry /\ otadata[1] \in OtaEntry /\ otadata[Active] \in OtaEntry
        /\ Fallback \in OtaEntry
    BY <1>t, TwoSectors DEF CoreTypes, Sectors, Fallback
  <1>r. otadata[Active].state # "new" /\ running = Chosen
    BY <1>t DEF Core, Trial
  <1>n. /\ Named \subseteq {0, 1}
        /\ \A s \in {0, 1} : s \in Named <=> otadata[s].part = running /\ otadata[s].state # "blank"
    BY DEF Named, Sectors
  <1>s. /\ Named = {} => StateRead = "blank"
        /\ 0 \in Named => StateRead = otadata[0].state
        /\ Named = {1} => StateRead = otadata[1].state
    <2>1. 0 \in Named => (CHOOSE s \in Named : \A r \in Named : s <= r) = 0
      <3>1. SUFFICES ASSUME 0 \in Named PROVE (CHOOSE s \in Named : \A r \in Named : s <= r) = 0
        OBVIOUS
      <3>2. \A r \in Named : 0 <= r
        BY <1>n
      <3>3. \A s \in Named : (\A r \in Named : s <= r) => s = 0
        BY <1>n, <3>1
      <3>4. QED BY <3>1, <3>2, <3>3
    <2>2. Named = {1} => (CHOOSE s \in Named : \A r \in Named : s <= r) = 1
      OBVIOUS
    <2>3. QED BY <2>1, <2>2 DEF StateRead
  <1>1. CASE StateRead = "pending"
    <2>1. \E s \in {0, 1} : s \in Named /\ otadata[s].state = "pending"
      BY <1>n, <1>s, <1>1
    <2>. PICK s \in {0, 1} : s \in Named /\ otadata[s].state = "pending"
      BY <2>1
    <2>2. s = Active
      BY <1>t, TwoSectors DEF Core, Trial, Fallback
    <2>3. Deciding /\ otadata[Active] = [part |-> running, state |-> "pending"]
      BY <1>n, <1>e, <2>2 DEF Deciding, Usable, OtaEntry
    <2>4. flash[running].whole
      <3>1. Selected = running /\ running \in {0, 1}
        BY <1>t, <2>3 DEF Selected, CoreTypes, Partitions
      <3>2. Other(running) # running
        BY <3>1 DEF Other
      <3>3. QED BY <1>r, <3>1, <3>2 DEF Chosen
    <2>5. Trial'
      BY <1>t, <1>k, <1>1, <2>3, <2>4 DEF Core, Trial
    <2>6. OnTrial' /\ Factory'
      BY <1>t, <1>k, <1>1 DEF Core, OnTrial, Factory, Sound, InService
    <2>7. QED BY <1>c, <2>5, <2>6 DEF Core
  <1>2. CASE StateRead # "pending"
    <2>1. Trial'
      BY <1>t, <1>2 DEF Core, Trial
    <2>2. OnTrial'
      <3>1. SUFFICES ASSUME otadata[Active].state \in {"new", "pending"}, Fallback.state = "valid"
                     PROVE  Sound(Fallback.part) /\ running = Fallback.part
        BY <1>t, <1>k DEF OnTrial, Sound
      <3>2. Sound(Fallback.part)
        BY <3>1 DEF Core, OnTrial
      <3>3. /\ otadata[Active].state = "pending" /\ Deciding
            /\ Selected = otadata[Active].part
        BY <1>r, <3>1 DEF Deciding, Usable, Selected
      <3>4. CASE otadata[Active].part = Fallback.part
        BY <1>r, <3>2, <3>3, <3>4 DEF Chosen, Sound
      <3>5. CASE otadata[Active].part # Fallback.part
        <4>1. ~flash[otadata[Active].part].whole
          <5>1. SUFFICES ASSUME flash[otadata[Active].part].whole PROVE FALSE
            OBVIOUS
          <5>2. running = otadata[Active].part
            BY <1>r, <3>3, <5>1 DEF Chosen
          <5>3. Active \in Named /\ Other(Active) \notin Named
            BY <1>t, <1>n, <3>3, <3>5, <5>2, TwoSectors DEF Fallback
          <5>4. Named = {Active}
            BY <1>t, <1>n, <5>3, TwoSectors
          <5>5. StateRead = otadata[Active].state
            BY <1>t, <1>s, <5>4, TwoSectors
          <5>6. QED BY <1>2, <3>3, <5>5
        <4>2. running = Other(otadata[Active].part)
          BY <1>r, <3>3, <4>1 DEF Chosen
        <4>3. QED BY <1>e, <3>2, <3>5, <4>2 DEF OtaEntry, Partitions, Other
      <3>6. QED BY <3>2, <3>4, <3>5
    <2>3. Factory'
      <3>1. SUFFICES ASSUME otadata[1].state = "blank", otadata[0].state # "valid"
                     PROVE  Sound(0) /\ running = 0
        BY <1>t DEF Core, Factory, Sound
      <3>2. Sound(0) /\ Active = 0
        BY <3>1 DEF Core, Factory, Active, ActiveOf, Usable, Other
      <3>3. CASE ~Deciding
        BY <1>r, <3>2, <3>3 DEF Chosen, Selected, Sound
      <3>4. CASE Deciding
        <4>1. otadata[0].state = "pending" /\ Selected = otadata[0].part
          BY <1>e, <1>r, <3>1, <3>2, <3>4 DEF Deciding, Usable, Selected, OtaEntry
        <4>2. CASE otadata[0].part = 0
          BY <1>r, <3>2, <4>1, <4>2 DEF Chosen, Sound
        <4>3. CASE otadata[0].part = 1
          <5>1. ~flash[1].whole
            <6>1. SUFFICES ASSUME flash[1].whole PROVE FALSE
              OBVIOUS
            <6>2. 0 \in Named
              BY <1>n, <1>r, <4>1, <4>3, <6>1 DEF Chosen
            <6>3. QED BY <1>2, <1>s, <4>1, <6>2
          <5>2. QED BY <1>r, <3>2, <4>1, <4>3, <5>1 DEF Chosen, Other
        <4>4. QED BY <1>e, <4>2, <4>3 DEF OtaEntry, Partitions
      <3>5. QED BY <3>2, <3>3, <3>4
    <2>4. QED BY <1>c, <2>1, <2>2, <2>3 DEF Core
  <1>3. QED BY <1>1, <1>2

\* The validation goes on with the same image.
LEMMA ValidateStep ==
    ASSUME Core, phase = "validate", UNCHANGED <<flash, otadata, lead, running, healthy, job>>,
           phase' = "rollback" \/ (phase' = "confirm" /\ Fit)
    PROVE  Core'
  <1>1. Active' = Active /\ Fallback' = Fallback /\ Deciding' = Deciding
    BY ActiveKept
  <1>2. CoreTypes' /\ Factory' /\ Trial'
    BY <1>1 DEF Core, CoreTypes, Factory, Trial, Sound, InService, Fit
  <1>3. Confirmed' /\ OnTrial'
    BY <1>1 DEF Core, Confirmed, OnTrial, Sound, InService
  <1>4. QED BY <1>2, <1>3 DEF Core

\* Only an image that passed the validation is confirmed.
LEMMA ConfirmStep ==
    ASSUME Core, phase = "confirm", otadata' = [otadata EXCEPT ![Active].state = "valid"],
           phase' = "reconcile", UNCHANGED <<flash, lead, running, healthy, job>>
    PROVE  Core'
  <1>t. CoreTypes /\ Active \in Sectors
    BY TwoSectors DEF Core, Sectors
  <1>1. /\ otadata' \in [Sectors -> OtaEntry]
        /\ otadata'[Active] = [part |-> running, state |-> "valid"]
        /\ \A s \in Sectors : s # Active => otadata'[s] = otadata[s]
    BY <1>t DEF Core, CoreTypes, Trial, OtaEntry
  <1>2. otadata[Active].state = "pending" /\ Sound(running)
    BY DEF Core, Trial, Fit, Sound
  <1>3. Active' = Active
    BY <1>t, <1>1, <1>2 DEF CoreTypes, Sectors, Active, ActiveOf, Usable, Other
  <1>4. Confirmed' /\ OnTrial'
    BY <1>1, <1>2, <1>3 DEF Confirmed, OnTrial, Sound
  <1>5. CoreTypes' /\ Trial'
    BY <1>t, <1>1 DEF Core, CoreTypes, Trial
  <1>6. Factory'
    <2>1. /\ otadata[0].state = "blank" => otadata[1].state = "blank"
          /\ otadata[1].state = "blank" => lead = 0
      BY DEF Core, Factory
    <2>2. otadata[1].state = "blank" => Active = 0
      BY <2>1 DEF Active, ActiveOf, Usable, Other
    <2>3. CASE Active = 0
      BY <1>1, <1>2, <2>1, <2>3 DEF Factory, Sectors
    <2>4. CASE Active = 1
      BY <1>1, <1>2, <2>1, <2>2, <2>4 DEF Factory, Sectors
    <2>5. QED BY <1>t, <2>3, <2>4 DEF Sectors
  <1>7. QED BY <1>4, <1>5, <1>6 DEF Core

\* The rollback leaves the image behind the trial.
LEMMA RollBackStep ==
    ASSUME Core, phase = "rollback", Returnable, PowerOff,
           otadata' = [otadata EXCEPT ![Active].state = "aborted"],
           UNCHANGED <<flash, lead, running, healthy>>
    PROVE  Core'
  <1>t. CoreTypes /\ Active \in Sectors /\ Other(Active) \in Sectors /\ Other(Active) # Active
    BY TwoSectors DEF Core, Sectors
  <1>1. /\ otadata' \in [Sectors -> OtaEntry]
        /\ otadata'[Active].state = "aborted"
        /\ otadata'[Other(Active)] = otadata[Other(Active)]
    BY <1>t DEF CoreTypes, OtaEntry
  <1>2. Usable(otadata[Other(Active)]) /\ otadata[Active].state = "pending"
    BY DEF Returnable, Fallback, Core, Trial
  <1>3. Active' = Other(Active)
    <2>1. lead' = lead /\ lead \in {0, 1} /\ Active \in {0, 1}
      BY <1>t DEF CoreTypes, Sectors
    <2>2. Active = lead
      BY <1>t, <1>2, <2>1 DEF Active, ActiveOf, Other
    <2>3. QED BY <1>1, <1>2, <2>1, <2>2 DEF Active, ActiveOf, Usable
  <1>4. Confirmed'
    BY <1>1, <1>2, <1>3 DEF Core, OnTrial, Fallback, Confirmed, Sound, PowerOff
  <1>5. Fallback'.state = "aborted"
    <2>1. Other(Other(Active)) = Active
      BY <1>t DEF Sectors, Other
    <2>2. QED BY <1>1, <1>3, <2>1 DEF Fallback
  <1>6. OnTrial' /\ CoreTypes' /\ Trial'
    BY <1>t, <1>1, <1>5 DEF OnTrial, CoreTypes, Trial, PowerOff, Jobs
  <1>7. Factory'
    <2>1. otadata[0].state # "blank" /\ otadata[1].state # "blank"
      BY <1>t, <1>2, TwoSectors DEF Core, Usable
    <2>2. otadata'[0].state # "blank" /\ otadata'[1].state # "blank"
      BY <1>t, <1>1, <2>1, TwoSectors DEF Core
    <2>3. QED BY <2>2 DEF Factory
  <1>8. QED BY <1>4, <1>6, <1>7 DEF Core

\* The boot ends with what it started.
LEMMA ServeStep ==
    ASSUME Core, phase = "reconcile", phase' = "up",
           UNCHANGED <<flash, otadata, lead, running, healthy, job>>
    PROVE  Core'
  <1>1. Active' = Active /\ Fallback' = Fallback /\ Deciding' = Deciding
    BY ActiveKept
  <1>2. CoreTypes' /\ Factory' /\ Trial'
    BY DEF Core, CoreTypes, Factory, Trial, Sound, InService
  <1>3. Confirmed' /\ OnTrial'
    BY <1>1 DEF Core, Confirmed, OnTrial, Sound, InService
  <1>4. QED BY <1>2, <1>3 DEF Core

LEMMA BootStep ==
    ASSUME Core, Boot
    PROVE  Core'
  <1>1. CASE PowerOn BY <1>1, PowerOnStep
  <1>2. CASE StartupFails
    BY <1>2, OffStep DEF StartupFails, Restarts
  <1>3. CASE Ready BY <1>3, ReadyStep
  <1>4. CASE ValidateRecords
    BY <1>4, ValidateStep DEF ValidateRecords, BootOnly
  <1>5. CASE ValidateFails
    BY <1>5, OffStep DEF ValidateFails, Restarts
  <1>6. CASE Confirm
    <2>1. CASE BootOnly /\ phase' = "reconcile"
               /\ otadata' = [otadata EXCEPT ![Active].state = "valid"]
      BY <1>6, <2>1, ConfirmStep DEF Confirm, BootOnly
    <2>2. CASE Restarts /\ UNCHANGED otadata
      BY <1>6, <2>2, OffStep DEF Confirm, Restarts
    <2>3. QED BY <1>6, <2>1, <2>2 DEF Confirm
  <1>7. CASE RollbackRecords
    BY <1>7, ValidateStep DEF RollbackRecords, BootOnly
  <1>8. CASE RollBack
    <2>1. CASE Returnable /\ otadata' = [otadata EXCEPT ![Active].state = "aborted"]
      BY <1>8, <2>1, RollBackStep DEF RollBack, Restarts
    <2>2. CASE UNCHANGED otadata
      BY <1>8, <2>2, OffStep DEF RollBack, Restarts
    <2>3. QED BY <1>8, <2>1, <2>2 DEF RollBack
  <1>9. CASE Reconcile
    <2>1. CASE BootOnly /\ phase' = "up"
      BY <1>9, <2>1, ServeStep DEF Reconcile, BootOnly
    <2>2. CASE Restarts
      BY <1>9, <2>2, OffStep DEF Reconcile, Restarts
    <2>3. QED BY <1>9, <2>1, <2>2 DEF Reconcile
  <1>10. QED
    BY <1>1, <1>2, <1>3, <1>4, <1>5, <1>6, <1>7, <1>8, <1>9 DEF Boot

LEMMA OtaTaskStep ==
    ASSUME Core, RecordTypes, Accept \/ OtaTask
    PROVE  Core'
  <1>u. phase = "up" /\ CoreTypes
    <2>1. job # "none" \/ phase = "up"
      BY DEF Accept, OtaTask, Begin, ManifestRefused, ManifestVerified, Erase, Request,
         Download, Block, InstallFails, Verify, Select, Record, Abort, AbortReport, Await,
         Restart, Cancel, CancelRecord, CancelReport
    <2>2. QED BY <2>1 DEF Core, Trial
  <1>p. running \in Partitions /\ Other(running) \in Partitions /\ Other(running) # running
    BY <1>u DEF CoreTypes, Partitions, Other
  <1>1. CASE Accept \/ Begin \/ ManifestRefused \/ ManifestVerified \/ InstallFails
             \/ Abort \/ AbortReport \/ Await \/ CancelRecord \/ CancelReport \/ Download
    <2>1. job' \in Jobs
      BY <1>1 DEF Accept, Begin, ManifestRefused, ManifestVerified, InstallFails, Abort,
         AbortReport, Await, CancelRecord, CancelReport, Download, Jobs
    <2>2. UNCHANGED <<flash, otadata, lead, running, healthy, phase>>
      BY <1>1 DEF Accept, Begin, ManifestRefused, ManifestVerified, InstallFails, Abort,
         AbortReport, Await, CancelRecord, CancelReport, Download, JobOnly, KeepFlash, flashVars
    <2>3. QED BY <1>u, <2>1, <2>2, JobStep
  <1>2. CASE Request \/ Block
    <2>1. job' \in Jobs
      BY <1>2 DEF Request, Block, Persisted, NotPersisted, Jobs
    <2>2. UNCHANGED <<flash, otadata, lead, running, healthy, phase>>
      BY <1>2 DEF Request, Block, JobOnly, KeepFlash, flashVars
    <2>3. QED BY <1>u, <2>1, <2>2, JobStep
  <1>3. CASE Erase
    <2>1. job' \in Jobs /\ UNCHANGED <<otadata, lead, running, healthy, phase>>
      BY <1>3 DEF Erase, Jobs, JobOnly
    <2>2. \/ flash' = flash
          \/ flash' = [flash EXCEPT ![Other(running)] = [image |-> cmd.image, whole |-> FALSE]]
      BY <1>3 DEF Erase
    <2>3. /\ flash' \in [Partitions -> [image : 0 .. Images, whole : BOOLEAN]]
          /\ flash'[running] = flash[running]
      <3>1. [image |-> cmd.image, whole |-> FALSE] \in [image : 0 .. Images, whole : BOOLEAN]
        <4>1. cmd.image \in 0 .. Images
          BY DEF RecordTypes
        <4>2. QED BY <4>1
      <3>2. flash \in [Partitions -> [image : 0 .. Images, whole : BOOLEAN]]
        BY <1>u DEF CoreTypes
      <3> DEFINE blank == [image |-> cmd.image, whole |-> FALSE]
                 cell == [image : 0 .. Images, whole : BOOLEAN]
      <3> HIDE DEF blank, cell
      <3>3. flash \in [Partitions -> cell] /\ blank \in cell
        BY <3>1, <3>2 DEF blank, cell
      <3>4. flash' = flash \/ flash' = [flash EXCEPT ![Other(running)] = blank]
        BY <2>2 DEF blank
      <3>5. flash' \in [Partitions -> cell] /\ flash'[running] = flash[running]
        BY <1>p, <3>3, <3>4
      <3>6. QED BY <3>5 DEF cell
    <2>4. QED BY <1>u, <2>1, <2>3, FlashStep
  <1>4. CASE Verify
    <2>1. job' \in Jobs /\ UNCHANGED <<otadata, lead, running, healthy, phase>>
      BY <1>4 DEF Verify, Advance, Persisted, NotPersisted, Jobs, JobOnly
    <2>2. flash' = [flash EXCEPT ![Other(running)].whole = TRUE]
      BY <1>4 DEF Verify
    <2>3. /\ flash' \in [Partitions -> [image : 0 .. Images, whole : BOOLEAN]]
          /\ flash'[running] = flash[running]
      BY <1>u, <1>p, <2>2 DEF CoreTypes
    <2>4. QED BY <1>u, <2>1, <2>3, FlashStep
  <1>5. CASE Select \/ Record \/ Cancel
    <2>1. job' \in Jobs
      BY <1>5 DEF Select, Record, Cancel, Persisted, NotPersisted, Jobs
    <2>2. UNCHANGED <<flash, running, healthy, phase>>
      BY <1>5 DEF Select, Record, Cancel, JobOnly
    <2>3. \/ UNCHANGED <<otadata, lead>>
          \/ \E q \in Partitions : SetBoot(q)
      BY <1>5, <1>p DEF Select, Record, Cancel
    <2>4. CASE UNCHANGED <<otadata, lead>>
      BY <1>u, <2>1, <2>2, <2>4, JobStep
    <2>5. CASE \E q \in Partitions : SetBoot(q)
      BY <1>u, <2>1, <2>2, <2>5, SelectStep
    <2>6. QED BY <2>3, <2>4, <2>5
  <1>6. CASE Restart
    BY <1>6, OffStep DEF Restart, Restarts
  <1>7. QED
    BY <1>1, <1>2, <1>3, <1>4, <1>5, <1>6 DEF OtaTask

-----------------------------------------------------------------------------
(***************************************************************************)
(* The records beside the flash: checkpoints, ledger entry, counters.      *)
(***************************************************************************)
LEMMA StageKept ==
    ASSUME NEW c \in Checkpoint, NEW stage \in Stages
    PROVE  At(c, stage) \in Checkpoint
  BY DEF At, Checkpoint

LEMMA ZeroIsCheckpoint == ZeroCheckpoint \in Checkpoint
  BY OtaAssumption DEF ZeroCheckpoint, Checkpoint, Stages

LEMMA NextIsCheckpoint ==
    ASSUME NEW c \in Checkpoint
    PROVE  Next1(c) \in Checkpoint
  BY DEF Next1, Checkpoint

LEMMA SlotOfGeneration == \A g : SlotKey(g) \in Keys
  BY DEF SlotKey, Keys

\* persist_checkpoint() keeps the store well formed ...
LEMMA StoreKeepsTypes ==
    ASSUME ck \in [Keys -> Checkpoint \cup {Missing}], NEW c \in Checkpoint, Store(c)
    PROVE  ck' \in [Keys -> Checkpoint \cup {Missing}]
  BY NextIsCheckpoint, SlotOfGeneration DEF Store

LEMMA FailedStoreKeepsTypes ==
    ASSUME RecordTypes, NEW c \in Checkpoint, StoreFails(c)
    PROVE  /\ ck' \in [Keys -> Checkpoint \cup {Missing}]
           /\ faults' \in 0 .. MaxFaults /\ crashes' \in 0 .. MaxCrashes
  <1>1. faults' \in 0 .. MaxFaults /\ crashes' \in 0 .. MaxCrashes
    BY OtaAssumption DEF StoreFails, Fault, RecordTypes
  <1>2. CASE UNCHANGED ck
    BY <1>1, <1>2 DEF RecordTypes
  <1>3. CASE Store(c)
    BY <1>1, <1>3, StoreKeepsTypes DEF RecordTypes
  <1>4. QED BY <1>2, <1>3 DEF StoreFails

\* ... and pm_ota_load_checkpoint() returns a checkpoint from it.
LEMMA LoadedType ==
    ASSUME RecordTypes
    PROVE  Loaded \in Checkpoint
  <1>1. /\ ck["slot_a"] \in Checkpoint \cup {Missing}
        /\ ck["slot_b"] \in Checkpoint \cup {Missing}
    BY DEF RecordTypes, Keys
  <1>2. Next1(ZeroCheckpoint) \in Checkpoint
    BY ZeroIsCheckpoint, NextIsCheckpoint
  <1>3. QED BY <1>1, <1>2 DEF Loaded

\* The ledger entry of the command.
LEMMA LedgerTypes ==
    ASSUME RecordTypes, NEW state \in CommandState,
           (LedgerSaves(state) /\ NoFault) \/ LedgerFails(state)
    PROVE  /\ cmd' \in [state : CommandState, image : 0 .. Images]
           /\ saved' \in [state : CommandState, image : 0 .. Images]
           /\ faults' \in 0 .. MaxFaults /\ crashes' \in 0 .. MaxCrashes
  BY OtaAssumption DEF RecordTypes, LedgerSaves, LedgerFails, NoFault, bounds, Fault

LEMMA ReportTypes ==
    ASSUME RecordTypes, Report
    PROVE  /\ cmd' \in [state : CommandState, image : 0 .. Images]
           /\ saved' \in [state : CommandState, image : 0 .. Images]
           /\ faults' \in 0 .. MaxFaults /\ crashes' \in 0 .. MaxCrashes
  <1>1. CASE (LedgerSaves("running") /\ NoFault) \/ LedgerFails("running")
    BY <1>1, LedgerTypes DEF CommandState
  <1>2. CASE NoFault /\ UNCHANGED <<cmd, saved>>
    BY <1>2 DEF RecordTypes, NoFault, bounds
  <1>3. QED BY <1>1, <1>2 DEF Report

LEMMA BootRecords ==
    ASSUME RecordTypes, Boot
    PROVE  RecordTypes'
  <1>u. UNCHANGED bounds => faults' \in 0 .. MaxFaults /\ crashes' \in 0 .. MaxCrashes
    BY DEF RecordTypes, bounds
  <1>f. Fault => faults' \in 0 .. MaxFaults /\ crashes' \in 0 .. MaxCrashes
    BY OtaAssumption DEF RecordTypes, Fault
  <1>l. \A stage \in Stages : At(Loaded, stage) \in Checkpoint
    BY LoadedType, StageKept
  <1>z. PowerOff => cp' \in Checkpoint
    BY ZeroIsCheckpoint DEF PowerOff
  <1>1. CASE PowerOn
    BY <1>1, <1>u DEF PowerOn, RecordTypes
  <1>2. CASE StartupFails
    BY <1>2, <1>u, <1>z DEF StartupFails, Restarts, RecordTypes
  <1>3. CASE Ready
    BY <1>3, <1>u DEF Ready, BootOnly, RecordTypes
  <1>4. CASE ValidateRecords
    <2>1. ck' \in [Keys -> Checkpoint \cup {Missing}]
      BY <1>4, <1>l, StoreKeepsTypes DEF ValidateRecords, Stages, RecordTypes
    <2>2. QED BY <1>4, <1>u, <2>1 DEF ValidateRecords, BootOnly, RecordTypes
  <1>5. CASE ValidateFails
    <2>1. (IF Fit THEN "valid" ELSE "rolled_back") \in Stages
      BY DEF Stages
    <2>2. /\ ck' \in [Keys -> Checkpoint \cup {Missing}]
          /\ faults' \in 0 .. MaxFaults /\ crashes' \in 0 .. MaxCrashes
      BY <1>5, <1>l, <2>1, FailedStoreKeepsTypes DEF ValidateFails
    <2>3. QED BY <1>5, <1>z, <2>2 DEF ValidateFails, Restarts, RecordTypes
  <1>6. CASE Confirm
    BY <1>6, <1>u, <1>f, <1>z DEF Confirm, NoFault, BootOnly, Restarts, RecordTypes
  <1>7. CASE RollbackRecords
    <2>1. ck' \in [Keys -> Checkpoint \cup {Missing}]
      BY <1>7, <1>l, StoreKeepsTypes DEF RollbackRecords, Stages, RecordTypes
    <2>2. QED BY <1>7, <1>u, <2>1 DEF RollbackRecords, BootOnly, RecordTypes
  <1>8. CASE RollBack
    BY <1>8, <1>u, <1>f, <1>z DEF RollBack, NoFault, Restarts, RecordTypes
  <1>9. CASE Reconcile
    <2>1. ck' \in [Keys -> Checkpoint \cup {Missing}]
      <3>1. Next1(ZeroCheckpoint) \in Checkpoint
        BY ZeroIsCheckpoint, NextIsCheckpoint
      <3>2. QED BY <1>9, <3>1 DEF Reconcile, Initialise, Keys, RecordTypes
    <2>2. Outcome \in CommandState
      BY DEF Outcome, CommandState, Final
    <2>3. CASE LedgerSaves(Outcome) /\ NoFault /\ BootOnly
      BY <2>1, <2>2, <2>3, LedgerTypes DEF BootOnly, RecordTypes
    <2>4. CASE LedgerFails(Outcome) /\ Restarts
      BY <1>z, <2>1, <2>2, <2>4, LedgerTypes DEF Restarts, RecordTypes
    <2>5. CASE NoFault /\ BootOnly /\ UNCHANGED <<cmd, saved>>
      BY <1>u, <2>1, <2>5 DEF NoFault, BootOnly, RecordTypes
    <2>6. QED BY <1>9, <2>3, <2>4, <2>5 DEF Reconcile
  <1>10. QED
    BY <1>1, <1>2, <1>3, <1>4, <1>5, <1>6, <1>7, <1>8, <1>9 DEF Boot

\* What the steps of the installation do to the store and to its own checkpoint.
LEMMA Checkpointing ==
    ASSUME RecordTypes, NEW c \in Checkpoint, NEW next
    PROVE  /\ Persisted(c, next) => /\ ck' \in [Keys -> Checkpoint \cup {Missing}]
                                    /\ cp' \in Checkpoint
           /\ NotPersisted(c) => RecordTypes'
  <1>1. Persisted(c, next) => /\ ck' \in [Keys -> Checkpoint \cup {Missing}]
                              /\ cp' \in Checkpoint
    BY StoreKeepsTypes, NextIsCheckpoint DEF Persisted, RecordTypes
  <1>2. NotPersisted(c) => RecordTypes'
    BY FailedStoreKeepsTypes DEF NotPersisted, KeepLedger, RecordTypes
  <1>3. QED BY <1>1, <1>2

LEMMA OtaTaskRecords ==
    ASSUME RecordTypes, Accept \/ OtaTask
    PROVE  RecordTypes'
  <1>u. UNCHANGED bounds => faults' \in 0 .. MaxFaults /\ crashes' \in 0 .. MaxCrashes
    BY DEF RecordTypes, bounds
  <1>f. Fault => faults' \in 0 .. MaxFaults /\ crashes' \in 0 .. MaxCrashes
    BY OtaAssumption DEF RecordTypes, Fault
  <1>l. At(Loaded, "failed") \in Checkpoint
    BY LoadedType, StageKept DEF Stages
  <1>c. cp \in Checkpoint /\ \A stage \in Stages : At(cp, stage) \in Checkpoint
    BY StageKept DEF RecordTypes
  <1>1. CASE Accept
    <2>1. [state |-> "accepted", image |-> cmd.image + 1]
             \in [state : CommandState, image : 0 .. Images]
      <3>1. cmd.image \in 0 .. Images /\ cmd.image < Images
        BY <1>1 DEF Accept, RecordTypes
      <3>2. cmd.image + 1 \in 0 .. Images
        BY <3>1, OtaAssumption
      <3>3. QED BY <3>2 DEF CommandState
    <2>2. QED BY <1>1, <1>u, <2>1 DEF Accept, RecordTypes
  <1>2. CASE Begin
    <2>1. "running" \in CommandState
      BY DEF CommandState
    <2>2. QED BY <1>2, <2>1, LedgerTypes DEF Begin, RecordTypes
  <1>3. CASE ManifestRefused \/ InstallFails \/ Erase
    BY <1>3, <1>u DEF ManifestRefused, InstallFails, Erase, KeepLedger, RecordTypes
  <1>4. CASE ManifestVerified
    <2> DEFINE c == [stage |-> "manifest_verified", image |-> cmd.image,
                     bytes |-> 0, generation |-> 0]
    <2>1. c \in Checkpoint
      <3>1. cmd.image \in 0 .. Images /\ 0 \in 0 .. Chunks
        BY OtaAssumption DEF RecordTypes
      <3>2. QED BY <3>1 DEF Checkpoint, Stages
    <2>2. \/ Store(c) /\ cp' = Next1(c) /\ Report
          \/ StoreFails(c) /\ KeepLedger /\ UNCHANGED cp
      BY <1>4 DEF ManifestVerified
    <2> HIDE DEF c
    <2>3. CASE Store(c) /\ cp' = Next1(c) /\ Report
      BY <2>1, <2>3, StoreKeepsTypes, NextIsCheckpoint, ReportTypes DEF RecordTypes
    <2>4. CASE StoreFails(c) /\ KeepLedger /\ UNCHANGED cp
      BY <2>1, <2>4, FailedStoreKeepsTypes DEF KeepLedger, RecordTypes
    <2>5. QED BY <2>2, <2>3, <2>4
  <1>5. CASE Request
    <2>1. At(cp, "downloading") \in Checkpoint
      BY <1>c DEF Stages
    <2>2. CASE Persisted(At(cp, "downloading"), "download") /\ NoFault /\ KeepLedger
      BY <1>u, <2>1, <2>2, Checkpointing DEF NoFault, KeepLedger, RecordTypes
    <2>3. CASE NotPersisted(At(cp, "downloading"))
      BY <2>1, <2>3, Checkpointing
    <2>4. QED BY <1>5, <2>2, <2>3 DEF Request
  <1>6. CASE Download
    <2>1. cp' \in Checkpoint
      <3>1. cp.bytes + 1 \in 0 .. Chunks
        BY <1>c, <1>6, OtaAssumption DEF Download, Checkpoint
      <3>2. cp' = [cp EXCEPT !.bytes = cp.bytes + 1]
        BY <1>6 DEF Download
      <3>3. QED BY <1>c, <3>1, <3>2 DEF Checkpoint
    <2>2. QED BY <1>6, <2>1, ReportTypes DEF Download, RecordTypes
  <1>7. CASE Block
    <2> DEFINE next == IF cp.bytes = Chunks THEN "verify" ELSE "download"
    <2>1. CASE Persisted(cp, next) /\ NoFault
      BY <1>c, <1>u, <1>7, <2>1, Checkpointing DEF Block, NoFault, KeepLedger, RecordTypes
    <2>2. CASE NotPersisted(cp)
      BY <1>c, <2>2, Checkpointing
    <2>3. CASE NoFault /\ UNCHANGED <<ck, cp>>
      BY <1>7, <1>u, <2>3 DEF Block, NoFault, KeepLedger, RecordTypes
    <2>4. QED BY <1>7, <2>1, <2>2, <2>3 DEF Block
  <1>8. CASE Verify
    <2>1. At(cp, "image_verified") \in Checkpoint
      BY <1>c DEF Stages
    <2>2. CASE Persisted(At(cp, "image_verified"), "select") /\ Report
      BY <2>1, <2>2, Checkpointing, ReportTypes DEF RecordTypes
    <2>3. CASE NotPersisted(At(cp, "image_verified"))
      BY <2>1, <2>3, Checkpointing
    <2>4. QED BY <1>8, <2>2, <2>3 DEF Verify, Advance
  <1>9. CASE Select \/ Cancel
    BY <1>9, <1>u, <1>f DEF Select, Cancel, NoFault, KeepLedger, RecordTypes
  <1>10. CASE Record
    <2>1. At(cp, "boot_selected") \in Checkpoint
      BY <1>c DEF Stages
    <2>2. CASE Persisted(At(cp, "boot_selected"), "await") /\ Report
      BY <2>1, <2>2, Checkpointing, ReportTypes DEF RecordTypes
    <2>3. CASE NotPersisted(At(cp, "boot_selected"))
      BY <2>1, <2>3, Checkpointing
    <2>4. QED BY <1>10, <2>2, <2>3 DEF Record
  <1>11. CASE Abort
    <2>1. At(cp, "failed") \in Checkpoint
      BY <1>c DEF Stages
    <2>2. CASE Store(At(cp, "failed")) /\ NoFault
      BY <1>11, <1>u, <2>1, <2>2, StoreKeepsTypes DEF Abort, NoFault, KeepLedger, RecordTypes
    <2>3. CASE StoreFails(At(cp, "failed"))
      BY <1>11, <2>1, <2>3, FailedStoreKeepsTypes DEF Abort, KeepLedger, RecordTypes
    <2>4. QED BY <1>11, <2>2, <2>3 DEF Abort
  <1>12. CASE AbortReport
    BY <1>12, ReportTypes DEF AbortReport, RecordTypes
  <1>13. CASE Await
    <2>1. "awaiting_reboot" \in CommandState
      BY DEF CommandState
    <2>2. (LedgerSaves("awaiting_reboot") /\ NoFault) \/ LedgerFails("awaiting_reboot")
      BY <1>13 DEF Await
    <2>3. QED BY <1>13, <2>1, <2>2, LedgerTypes DEF Await, RecordTypes
  <1>14. CASE Restart
    BY <1>14, <1>u, ZeroIsCheckpoint DEF Restart, Restarts, PowerOff, KeepLedger, RecordTypes
  <1>15. CASE CancelRecord
    <2>1. CASE Store(At(Loaded, "failed")) /\ NoFault
      BY <1>15, <1>l, <1>u, <2>1, StoreKeepsTypes
         DEF CancelRecord, NoFault, KeepLedger, RecordTypes
    <2>2. CASE StoreFails(At(Loaded, "failed"))
      BY <1>15, <1>l, <2>2, FailedStoreKeepsTypes DEF CancelRecord, KeepLedger, RecordTypes
    <2>3. QED BY <1>15, <2>1, <2>2 DEF CancelRecord
  <1>16. CASE CancelReport
    <2>1. "failed" \in CommandState
      BY DEF CommandState, Final
    <2>2. QED
      BY <1>16, <2>1, LedgerTypes, ZeroIsCheckpoint DEF CancelReport, RecordTypes
  <1>17. QED
    BY <1>1, <1>2, <1>3, <1>4, <1>5, <1>6, <1>7, <1>8, <1>9, <1>10, <1>11, <1>12, <1>13,
       <1>14, <1>15, <1>16 DEF OtaTask

-----------------------------------------------------------------------------
(***************************************************************************)
(* The invariant and what it is for.                                       *)
(***************************************************************************)
LEMMA InitInv == Init => Inv
  <1> SUFFICES ASSUME Init PROVE Inv
    OBVIOUS
  <1>1. CoreTypes
    BY OtaAssumption DEF Init, CoreTypes, OtaEntry, Sectors, Partitions, Jobs
  <1>2. RecordTypes
    <2>1. 0 \in 0 .. MaxFaults /\ 0 \in 0 .. MaxCrashes /\ 0 \in 0 .. Images
      BY OtaAssumption
    <2>2. NoCommand \in [state : CommandState, image : 0 .. Images]
      BY <2>1 DEF NoCommand, CommandState
    <2>3. QED BY <2>1, <2>2, ZeroIsCheckpoint DEF Init, RecordTypes
  <1>3. Sound(0)
    BY DEF Init, Sound, Partitions
  <1>4. \A s \in {0, 1} : otadata[s].state = "blank"
    BY DEF Init, Sectors
  <1>5. otadata[Active].state = "blank" /\ Fallback.state = "blank"
    BY <1>1, <1>4, TwoSectors DEF Fallback
  <1>6. Confirmed /\ OnTrial /\ Factory /\ Trial
    BY <1>3, <1>4, <1>5 DEF Init, Confirmed, OnTrial, Factory, Trial, InService
  <1>7. QED BY <1>1, <1>2, <1>6 DEF Inv, Core

LEMMA InvStep == Inv /\ [Next]_vars => Inv'
  <1> SUFFICES ASSUME Inv, [Next]_vars PROVE Inv'
    OBVIOUS
  <1>i. Core /\ RecordTypes
    BY DEF Inv
  <1>1. CASE Boot
    BY <1>i, <1>1, BootStep, BootRecords DEF Inv
  <1>2. CASE Accept \/ OtaTask
    BY <1>i, <1>2, OtaTaskStep, OtaTaskRecords DEF Inv
  <1>3. CASE Crash
    <2>1. Core'
      BY <1>i, <1>3, OffStep DEF Crash, flashVars
    <2>2. RecordTypes'
      BY <1>i, <1>3, ZeroIsCheckpoint, OtaAssumption DEF Crash, PowerOff, RecordTypes
    <2>3. QED BY <2>1, <2>2 DEF Inv
  <1>4. CASE UNCHANGED vars
    <2>1. UNCHANGED <<flash, otadata, lead, running, healthy, phase, job>>
      BY <1>4 DEF vars, flashVars
    <2>2. Active' = Active /\ Fallback' = Fallback /\ Deciding' = Deciding
      BY <2>1, ActiveKept
    <2>3. Core'
      BY <1>i, <2>1, <2>2 DEF Core, CoreTypes, Confirmed, OnTrial, Factory, Trial, Sound,
         InService, Fit, Selected, Chosen
    <2>4. RecordTypes'
      BY <1>i, <1>4 DEF vars, bounds, RecordTypes
    <2>5. QED BY <2>3, <2>4 DEF Inv
  <1>5. QED BY <1>1, <1>2, <1>3, <1>4 DEF Next

LEMMA Inductive == Spec => []Inv
  <1>1. QED BY InitInv, InvStep, PTL DEF Spec

\* Every reachable state is well typed: no download runs past its image, and what
\* persist_checkpoint() stores is what checkpoint_valid() accepts.
THEOREM OtaTypes == Spec => []TypeOK
  <1>1. Inv => TypeOK
    BY TypeParts DEF Inv, Core
  <1>2. QED BY <1>1, Inductive, PTL

\* For every number of updates, faults and resets: as long as otadata backs an
\* image, pm_ota_install() has not overwritten the last one that works.
THEOREM UpdateKeepsWorkingImage == Spec => []WorkingImageKept
  <1>1. Inv => WorkingImageKept
    BY BackedIsSound DEF Inv, WorkingImageKept, Sound
  <1>2. QED BY <1>1, Inductive, PTL

\* For every number of updates, faults and resets: as long as otadata backs an
\* image, what app_main() leaves in service passes pm_ota_post_boot_validate().
THEOREM UnfitNeverServes == Spec => []OnlyFitImagesServe
  <1>1. Inv => OnlyFitImagesServe
    BY BackedIsSound DEF Inv, OnlyFitImagesServe, Sound, InService, Serving, Fit
  <1>2. QED BY <1>1, Inductive, PTL

-----------------------------------------------------------------------------
(***************************************************************************)
(* What a boot of the image of the command means for the outcome of the    *)
(* command.  After at most one fault and one reset an image whose command  *)
(* was given up is not selected, and behind a selection that may be        *)
(* dropped it only stands when nothing is left that could drop it.         *)
(***************************************************************************)
\* The image of the last command is in p, or what there is of it.
Fresh(p) == cmd.image # 0 /\ flash[p].image = cmd.image

\* The entry that decides, and an entry whose image is not confirmed.
Decider == otadata[Active]
OnTest(e) == e.state \in {"new", "pending"}

\* The ledger does not call the update failed, whatever boot reads it.
NotGivenUp == {"running", "awaiting_reboot", "succeeded"}
Honest == cmd.state \in NotGivenUp /\ saved.state \in NotGivenUp

\* Images are numbered by their commands, and an update goes next to the running one.
Numbered ==
    /\ saved.image = cmd.image
    /\ \A p \in Partitions : flash[p].image <= cmd.image
    /\ cmd.image = 0 => cmd.state = "none" /\ saved.state = "none"
    /\ ~Fresh(0) \/ ~Fresh(1)
    /\ job # "none" => cmd.image # 0 /\ ~Fresh(running)
    /\ job \in {"begin", "manifest", "erase"} => ~Fresh(0) /\ ~Fresh(1)

\* The running image is complete, and so is the one about to be selected.
Intact ==
    /\ flash[0].whole \/ flash[1].whole
    /\ phase # "off" => flash[running].whole
    /\ job \in {"select", "record", "await", "restart"} => flash[Other(running)].whole

\* As long as the factory image is what is left it has not been overwritten.
Original == otadata[1].state = "blank" /\ otadata[0].state # "valid" => flash[0].image = 0

\* An image is confirmed after VALID was recorded, and rolled back if it is not fit.
Recorded ==
    /\ phase = "confirm" => Loaded.stage = "valid"
    /\ phase = "rollback" => ~Fit

\* The ledger entry while the task works on it: RUNNING is recorded at the latest with
\* the manifest, unless two writes fail.
Progress ==
    /\ job = "begin" => cmd.state = "accepted"
    /\ job = "manifest" => \/ cmd.state = "running" /\ saved.state = "running"
                           \/ cmd.state = "accepted" /\ faults = 1
    /\ job \in {"erase", "request", "download", "block", "verify", "select", "record", "await"} =>
          cmd.state = "running" /\ saved.state = "running"
    /\ job = "restart" => cmd.state = "awaiting_reboot" /\ saved.state = "awaiting_reboot"

\* An update that is selected was not given up.
SelectedHonest == Usable(Decider) /\ Fresh(Decider.part) => Honest

\* An update on trial is validated: no other entry hides its state.
Unhidden ==
    OnTest(Decider) /\ Fresh(Decider.part) =>
        /\ phase # "reconcile"
        /\ Fallback.part = Decider.part =>
              Fallback.state = "blank" \/ (Fallback.state = "aborted" /\ Active = 0)

\* A selected image is complete.
SelectedWhole == Usable(Decider) => flash[Decider.part].whole

\* Without a mishap what is in service is fit, and behind a trial is what was.
Unharmed ==
    faults = 0 /\ crashes = 0 =>
        /\ Fallback.state # "pending"
        /\ ~Usable(Decider) => Fallback.state = "blank"
        /\ InService => Fit /\ Decider.state # "pending"
        /\ OnTest(Decider) /\ ~InService =>
              /\ Fallback.state # "blank" => Fallback.part # Decider.part
              /\ Usable(Fallback) => Sound(Fallback.part)
              /\ Fallback.state = "aborted" =>
                    Sound(Decider.part) /\ ~(phase = "off" /\ Decider.state = "pending")

\* The running image was selected again in front of an update.  That took a fault and
\* its trial a reset, so nothing is left that could keep it from being confirmed.
Reselected ==
    /\ faults = 1 /\ phase # "reconcile"
    /\ phase \in {"off", "up"} => Decider.state = "new"
    /\ phase = "up" => Decider.part = running /\ (crashes = 0 => Sound(running))
    /\ phase # "up" => crashes = 1 /\ Sound(Decider.part)

\* Otherwise it is the image that ran before that stands behind a trial.
Behind ==
    OnTest(Decider) /\ Usable(Fallback) /\ Fallback.part # Decider.part =>
        \/ /\ ~Fresh(Fallback.part) /\ flash[Fallback.part].whole
           /\ InService => Fallback.part = running
        \/ Reselected

\* The selected image is the running one, except at the end of an installation.
Placed ==
    phase # "off" /\ Usable(Decider) /\ Decider.part # running =>
        /\ phase = "up"
        /\ \/ job \in {"record", "await", "restart"}
           \/ /\ job \in {"abort", "abort_report", "cancel"} /\ faults = 1
              /\ crashes = 0 => Sound(running)

\* An installation about to restart has selected its image in front of the running one.
Selecting ==
    job \in {"record", "await", "restart"} =>
        /\ Decider = [part |-> Other(running), state |-> "new"]
        /\ Usable(Fallback) => Fallback.part = running
        /\ faults = 0 /\ crashes = 0 => Fallback.state # "aborted"

\* An update that was confirmed has its checkpoint until the ledger knows.
Proven ==
    Decider.state = "valid" /\ Fresh(Decider.part)
          /\ {cmd.state, saved.state} \cap {"accepted", "running", "awaiting_reboot"} # {} =>
        Loaded.stage = "valid"

AfterMishap == Progress /\ SelectedHonest /\ Unhidden /\ SelectedWhole /\ Unharmed /\ Behind
                  /\ Placed /\ Selecting /\ Proven

Story == Numbered /\ Intact /\ Original /\ Recorded /\ (OneMishap => AfterMishap)

LEMMA Entries ==
    ASSUME CoreTypes
    PROVE  /\ Decider \in OtaEntry /\ Fallback \in OtaEntry
           /\ Decider.part \in {0, 1} /\ Fallback.part \in {0, 1} /\ running \in {0, 1}
           /\ Usable(Fallback) => Usable(Decider)
           /\ Usable(Decider) <=> OnTest(Decider) \/ Decider.state = "valid"
           /\ Usable(Fallback) <=> OnTest(Fallback) \/ Fallback.state = "valid"
           /\ Deciding <=> Usable(Decider)
           /\ Other(running) \in {0, 1} /\ Other(running) # running
           /\ \A p \in {0, 1} : p # running => p = Other(running)
  <1>1. Decider \in OtaEntry /\ Fallback \in OtaEntry
    BY TwoSectors DEF CoreTypes, Sectors, Decider, Fallback
  <1>2. /\ Usable(Decider) <=> OnTest(Decider) \/ Decider.state = "valid"
        /\ Usable(Fallback) <=> OnTest(Fallback) \/ Fallback.state = "valid"
    BY <1>1 DEF Usable, OnTest, OtaEntry
  <1>3. (Usable(Fallback) => Usable(Decider)) /\ (Deciding <=> Usable(Decider))
    BY TwoSectors DEF Decider, Fallback, Deciding
  <1>4. /\ Other(running) \in {0, 1} /\ Other(running) # running
        /\ \A p \in {0, 1} : p # running => p = Other(running)
        /\ running \in {0, 1}
    BY DEF CoreTypes, Partitions, Other
  <1>5. QED BY <1>1, <1>2, <1>3, <1>4 DEF OtaEntry, Partitions

\* An unwritten entry behind one is the second.
LEMMA BlankBehind ==
    ASSUME Core, Fallback.state = "blank"
    PROVE  /\ Active = 0 /\ lead = 0 /\ otadata[1].state = "blank"
           /\ Decider.state # "valid" => Sound(0)
  <1>1. CoreTypes /\ Factory
    BY DEF Core
  <1>2. Active = 0 \/ Active = 1
    BY <1>1, TwoSectors
  <1>3. otadata[1].state = "blank"
    BY <1>1, <1>2, TwoSectors DEF Factory, Fallback
  <1>4. lead = 0
    BY <1>1, <1>3 DEF Factory
  <1>5. Active = 0
    BY <1>3, <1>4 DEF Active, ActiveOf, Usable, Other
  <1>6. QED BY <1>1, <1>3, <1>4, <1>5 DEF Factory, Decider

\* The entries after esp_ota_set_boot_partition().
LEMMA SetBootView ==
    ASSUME Core, NEW p \in Partitions, SetBoot(p)
    PROVE  \/ /\ Usable(Decider) /\ Decider.part # p
              /\ Decider' = [part |-> p, state |-> "new"] /\ Fallback' = Decider
           \/ /\ Usable(Decider) /\ Decider.part = p
              /\ \/ Decider' = Decider /\ Fallback' = [part |-> p, state |-> "new"]
                 \/ Decider' = [part |-> p, state |-> "new"] /\ Fallback' = Decider
           \/ /\ ~Usable(Decider) /\ ~Usable(Fallback') /\ Active' = 0
              /\ Decider' = [part |-> p, state |-> "new"]
              /\ Fallback.state = "blank" => Fallback'.state = "blank"
  <1>t. CoreTypes
    BY DEF Core
  <1> DEFINE s == IF Deciding THEN Other(Active) ELSE 0
  <1>1. /\ s \in {0, 1}
        /\ otadata' = [otadata EXCEPT ![s] = [part |-> p, state |-> "new"]]
        /\ lead' = IF Deciding /\ otadata[Active].part = p THEN 0 ELSE s
    BY <1>t, TwoSectors DEF SetBoot
  <1>2. /\ otadata'[s] = [part |-> p, state |-> "new"]
        /\ otadata'[Other(s)] = otadata[Other(s)] /\ lead' \in {0, 1}
    BY <1>t, <1>1 DEF CoreTypes, Sectors, OtaEntry, Partitions, Other
  <1>3. CASE ~Deciding
    <2>1. s = 0 /\ lead' = 0
      BY <1>1, <1>3
    <2>2. ~Usable(otadata[0]) /\ ~Usable(otadata[1])
      BY <1>t, <1>3, TwoSectors DEF Deciding
    <2>3. Active' = 0 /\ otadata'[0] = [part |-> p, state |-> "new"] /\ otadata'[1] = otadata[1]
      BY <1>2, <2>1 DEF Active, ActiveOf, Usable, Other
    <2>4. Decider' = [part |-> p, state |-> "new"] /\ Fallback' = otadata[1]
      BY <2>3 DEF Decider, Fallback, Other
    <2>5. QED BY <1>t, <1>3, <2>2, <2>3, <2>4, Entries, BlankBehind
  <1>4. CASE Deciding
    <2>1. s = Other(Active) /\ Other(s) = Active /\ otadata'[Active] = otadata[Active]
      BY <1>t, <1>2, <1>4, TwoSectors
    <2>2. Usable(otadata'[0]) /\ Usable(otadata'[1])
      BY <1>t, <1>2, <1>4, <2>1, TwoSectors DEF Deciding, Usable
    <2>3. Active' = lead'
      BY <2>2, <1>2 DEF Active, ActiveOf
    <2>4. lead' = s => Decider' = [part |-> p, state |-> "new"] /\ Fallback' = Decider
      BY <1>2, <2>1, <2>3 DEF Decider, Fallback
    <2>5. lead' # s => Decider' = Decider /\ Fallback' = [part |-> p, state |-> "new"]
      <3>1. SUFFICES ASSUME lead' # s PROVE lead' = Active /\ Other(lead') = s
        BY <1>2, <2>1, <2>3 DEF Decider, Fallback
      <3>2. QED BY <1>t, <1>1, <1>2, <2>1, <3>1, TwoSectors
    <2>6. Usable(Decider)
      BY <1>t, <1>4, Entries
    <2>7. Decider.part # p => lead' = s
      BY <1>1 DEF Decider
    <2>8. QED BY <2>4, <2>5, <2>6, <2>7
  <1>5. QED BY <1>3, <1>4

\* The entries after the bootloader: what it gives up and what it starts.
LEMMA PowerOnView ==
    ASSUME Core, PowerOn
    PROVE  \/ ~Usable(Decider) /\ Decider' = Decider /\ Fallback' = Fallback
           \/ /\ Decider.state \in {"new", "valid"} /\ Active' = Active
              /\ Decider' = Started(Decider) /\ Fallback' = Spent(Fallback)
           \/ /\ Decider.state = "pending" /\ Fallback.state \in {"new", "valid"}
              /\ Decider' = Started(Fallback) /\ Fallback' = Spent(Decider)
           \/ /\ Decider.state = "pending" /\ Fallback.state \notin {"new", "valid"}
              /\ ~Usable(Decider') /\ ~Usable(Fallback')
              /\ Fallback.state = "blank" => Fallback'.state = "blank"
  <1>t. CoreTypes
    BY DEF Core
  <1> DEFINE spent == [s \in Sectors |-> Spent(otadata[s])]
             a == ActiveOf(spent)
  <1>1. otadata' = [spent EXCEPT ![a] = Started(@)] /\ lead' = lead
    BY DEF PowerOn
  <1>2. /\ a \in {0, 1} /\ Other(a) \in {0, 1} /\ Other(a) # a /\ lead \in {0, 1}
        /\ Other(lead) \in {0, 1} /\ Other(lead) # lead
        /\ \A s \in {0, 1} : s = lead \/ s = Other(lead)
        /\ Other(Other(lead)) = lead
    BY <1>t DEF CoreTypes, Sectors, ActiveOf, Other
  <1>3. /\ \A s \in {0, 1} : spent[s] = Spent(otadata[s])
        /\ a = IF Usable(spent[lead]) \/ ~Usable(spent[Other(lead)]) THEN lead ELSE Other(lead)
    BY <1>2 DEF Sectors, ActiveOf
  <1>4. otadata'[a] = Started(spent[a]) /\ otadata'[Other(a)] = spent[Other(a)]
    BY <1>1, <1>2 DEF Sectors
  <1> HIDE DEF spent, a
  <1>5. \A e \in OtaEntry : /\ Usable(Started(e)) <=> Usable(e)
                            /\ Usable(Spent(e)) <=> e.state \in {"new", "valid"}
    BY DEF OtaEntry, Usable, Started, Spent
  <1>6. /\ otadata[0] \in OtaEntry /\ otadata[1] \in OtaEntry
        /\ \A s \in {0, 1} : spent[s] \in OtaEntry
    BY <1>t, <1>3 DEF CoreTypes, Sectors, Spent, OtaEntry
  <1>7. /\ Usable(otadata'[a]) <=> Usable(spent[a])
        /\ Usable(otadata'[Other(a)]) <=> Usable(spent[Other(a)])
    BY <1>2, <1>4, <1>5, <1>6
  <1>8. Active' = a
    <2>1. CASE a = lead
      BY <1>1, <1>2, <1>3, <1>7, <2>1 DEF Active, ActiveOf
    <2>2. CASE a = Other(lead) /\ a # lead
      BY <1>1, <1>2, <1>3, <1>7, <2>2 DEF Active, ActiveOf
    <2>3. QED BY <1>2, <2>1, <2>2
  <1>9. Decider' = Started(spent[a]) /\ Fallback' = spent[Other(a)]
    BY <1>4, <1>8 DEF Decider, Fallback
  <1>10. /\ Active \in {0, 1} /\ Other(Active) \in {0, 1} /\ Other(Active) # Active
         /\ Active = IF Usable(otadata[lead]) \/ ~Usable(otadata[Other(lead)]) THEN lead
                     ELSE Other(lead)
         /\ Other(Other(Active)) = Active
    BY <1>t, TwoSectors DEF Active, ActiveOf, Other
  <1>11. /\ spent[Active] = Spent(Decider) /\ spent[Other(Active)] = Spent(Fallback)
         /\ a = Active \/ a = Other(Active)
    BY <1>2, <1>3, <1>10 DEF Decider, Fallback
  <1>12. \A e \in OtaEntry : /\ e.state # "pending" => Spent(e) = e
                             /\ e.state # "new" => Started(e) = e
    BY DEF Spent, Started
  <1>e. /\ Decider \in OtaEntry /\ Fallback \in OtaEntry
        /\ Usable(Fallback) => Usable(Decider)
        /\ Decider.state \in {"blank", "valid", "new", "pending", "aborted"}
    BY <1>t, Entries DEF OtaEntry
  <1>13. CASE ~Usable(Decider)
    <2>1. ~Usable(Fallback) /\ Decider.state \notin {"new", "pending"} /\ Fallback.state # "pending"
      BY <1>e, <1>13 DEF Usable
    <2>2. spent[Active] = Decider /\ spent[Other(Active)] = Fallback
      BY <1>e, <1>11, <1>12, <2>1
    <2>3. ~Usable(spent[0]) /\ ~Usable(spent[1])
      BY <1>10, <1>13, <2>1, <2>2
    <2>4. a = lead /\ Active = lead
      BY <1>2, <1>3, <1>10, <1>13, <2>1, <2>3 DEF Decider, Fallback
    <2>5. QED BY <1>9, <1>12, <1>13, <1>e, <2>1, <2>2, <2>4
  <1>14. CASE Decider.state \in {"new", "valid"}
    <2>1. spent[Active] = Decider /\ Usable(Decider) /\ Usable(spent[Active])
      BY <1>e, <1>11, <1>12, <1>14 DEF Usable
    <2>2. a = Active
      <3>1. CASE Active = lead
        BY <1>3, <2>1, <3>1
      <3>2. CASE Active = Other(lead)
        <4>1. ~Usable(otadata[lead])
          BY <1>2, <1>10, <3>2
        <4>2. spent[lead] = otadata[lead]
          BY <1>2, <1>3, <1>6, <1>12, <4>1 DEF Usable
        <4>3. QED BY <1>2, <1>3, <2>1, <3>2, <4>1, <4>2
      <3>3. QED BY <1>2, <1>10, <3>1, <3>2
    <2>3. QED BY <1>8, <1>9, <1>11, <1>14, <2>1, <2>2
  <1>15. CASE Decider.state = "pending" /\ Fallback.state \in {"new", "valid"}
    <2>1. spent[Other(Active)] = Fallback /\ Usable(spent[Other(Active)]) /\ ~Usable(spent[Active])
      BY <1>5, <1>e, <1>11, <1>12, <1>15
    <2>2. a = Other(Active)
      BY <1>2, <1>3, <1>10, <2>1
    <2>3. QED BY <1>9, <1>10, <1>11, <1>15, <2>1, <2>2
  <1>16. CASE Decider.state = "pending" /\ Fallback.state \notin {"new", "valid"}
    <2>1. ~Usable(spent[Active]) /\ ~Usable(spent[Other(Active)])
      BY <1>5, <1>e, <1>11, <1>16
    <2>2. ~Usable(spent[a]) /\ ~Usable(spent[Other(a)])
      BY <1>10, <1>11, <2>1
    <2>3. ~Usable(Decider') /\ ~Usable(Fallback')
      BY <1>2, <1>5, <1>6, <1>9, <2>2
    <2>4. ASSUME Fallback.state = "blank" PROVE Fallback'.state = "blank"
      <3>1. Active = 0 /\ lead = 0
        BY <2>4, BlankBehind
      <3>2. a = lead
        BY <1>2, <1>3, <2>1, <3>1 DEF Other
      <3>3. Fallback' = Spent(Fallback) /\ Spent(Fallback) = Fallback
        BY <1>e, <1>9, <1>11, <1>12, <2>4, <3>1, <3>2
      <3>4. QED BY <2>4, <3>3
    <2>5. QED BY <1>16, <2>3, <2>4
  <1>17. QED BY <1>e, <1>13, <1>14, <1>15, <1>16 DEF Usable

-----------------------------------------------------------------------------
(***************************************************************************)
(* The parts of Story that faults do not touch.                            *)
(***************************************************************************)
\* A checkpoint written on top of the loaded one is the next to be loaded.
LEMMA StoredIsLoaded ==
    ASSUME RecordTypes, NEW stage \in Stages, Store(At(Loaded, stage))
    PROVE  Loaded'.stage = stage
  <1> DEFINE c == Next1(At(Loaded, stage))
             k == SlotKey(At(Loaded, stage).generation + 1)
  <1>1. Loaded \in Checkpoint /\ At(Loaded, stage) \in Checkpoint
    BY LoadedType, StageKept
  <1>2. /\ c \in Checkpoint /\ c.stage = stage /\ c.generation = Loaded.generation + 1
        /\ Loaded.generation \in Nat
    <2>1. c \in Checkpoint
      BY <1>1, NextIsCheckpoint
    <2>2. \A d \in Checkpoint : /\ Next1(At(d, stage)).stage = stage /\ d.generation \in Nat
                                /\ Next1(At(d, stage)).generation = d.generation + 1
      BY DEF At, Next1, Checkpoint
    <2>3. QED BY <1>1, <2>1, <2>2
  <1>3. k = "slot_a" \/ k = "slot_b"
    BY DEF SlotKey
  <1>4. ck' = [ck EXCEPT ![k] = c] /\ ck \in [Keys -> Checkpoint \cup {Missing}]
    BY DEF Store, RecordTypes
  <1>5. Missing \notin Checkpoint
    BY DEF Missing, Checkpoint, Stages
  <1>6. \A key \in Keys : ck[key] # Missing => ck[key].generation <= Loaded.generation
    <2>1. /\ ck["slot_a"] \in Checkpoint \cup {Missing}
          /\ ck["slot_b"] \in Checkpoint \cup {Missing}
      BY <1>4 DEF Keys
    <2>2. \A d \in Checkpoint : d.generation \in Nat
      BY DEF Checkpoint
    <2>3. QED BY <2>1, <2>2 DEF Loaded, Keys
  <1> HIDE DEF c, k
  <1>7. CASE k = "slot_a"
    <2>1. ck'["slot_a"] = c /\ ck'["slot_b"] = ck["slot_b"]
      BY <1>4, <1>7 DEF Keys
    <2>2. c # Missing
      BY <1>2, <1>5
    <2>3. ck["slot_b"] # Missing => ck["slot_b"].generation \in Nat
                                    /\ ck["slot_b"].generation <= Loaded.generation
      BY <1>4, <1>6 DEF Keys, Checkpoint
    <2>4. ck["slot_b"] = Missing \/ c.generation >= ck["slot_b"].generation
      BY <1>2, <2>3
    <2>5. Loaded' = c
      BY <2>1, <2>2, <2>4 DEF Loaded
    <2>6. QED BY <1>2, <2>5
  <1>8. CASE k = "slot_b"
    <2>1. ck'["slot_b"] = c /\ ck'["slot_a"] = ck["slot_a"]
      BY <1>4, <1>8 DEF Keys
    <2>2. c # Missing
      BY <1>2, <1>5
    <2>3. ck["slot_a"] # Missing => ck["slot_a"].generation \in Nat
                                    /\ ck["slot_a"].generation <= Loaded.generation
      BY <1>4, <1>6 DEF Keys, Checkpoint
    <2>4. ck["slot_a"] = Missing \/ ~(ck["slot_a"].generation >= c.generation)
      BY <1>2, <2>3
    <2>5. Loaded' = c
      BY <2>1, <2>2, <2>4 DEF Loaded
    <2>6. QED BY <1>2, <2>5
  <1>9. QED BY <1>3, <1>7, <1>8

\* Only an arriving command changes the number.
LEMMA LedgerNumber ==
    ASSUME RecordTypes, saved.image = cmd.image, NEW state,
           LedgerSaves(state) \/ LedgerFails(state) \/ UNCHANGED <<cmd, saved>>
    PROVE  cmd'.image = cmd.image /\ saved'.image = cmd.image
  BY DEF RecordTypes, LedgerSaves, LedgerFails

LEMMA ReportNumber ==
    ASSUME RecordTypes, saved.image = cmd.image, Report
    PROVE  cmd'.image = cmd.image /\ saved'.image = cmd.image
  BY LedgerNumber DEF Report

LEMMA TaskNumber ==
    ASSUME RecordTypes, saved.image = cmd.image, OtaTask
    PROVE  /\ cmd'.image = cmd.image /\ saved'.image = cmd.image /\ job # "none"
           /\ running' = running /\ healthy' = healthy
  <1>1. CASE ManifestRefused \/ Erase \/ InstallFails \/ Select \/ Abort \/ Restart \/ Cancel
             \/ CancelRecord \/ Block
    BY <1>1 DEF ManifestRefused, Erase, InstallFails, Select, Abort, Restart, Cancel, CancelRecord,
       Block, KeepLedger, JobOnly, Restarts
  <1>2. CASE Begin \/ Await \/ CancelReport
    BY <1>2, LedgerNumber DEF Begin, Await, CancelReport, JobOnly
  <1>3. CASE Download \/ AbortReport
    BY <1>3, ReportNumber DEF Download, AbortReport, JobOnly
  <1>4. CASE ManifestVerified
    BY <1>4, ReportNumber DEF ManifestVerified, KeepLedger, JobOnly
  <1>5. CASE Request \/ Verify \/ Record
    BY <1>5, ReportNumber DEF Request, Verify, Record, Advance, NotPersisted, KeepLedger, JobOnly
  <1>6. QED BY <1>1, <1>2, <1>3, <1>4, <1>5 DEF OtaTask

\* Where the task goes.
LEMMA TaskJob ==
    ASSUME OtaTask
    PROVE  /\ job' \in {"begin", "manifest", "erase"} => job \in {"begin", "manifest"}
           /\ job' \in {"select", "record", "await", "restart"} =>
                 Verify \/ (job \in {"select", "record", "await"} /\ UNCHANGED flash)
           /\ ~Erase /\ ~Verify => UNCHANGED flash
  BY DEF OtaTask, Begin, ManifestRefused, ManifestVerified, Erase, Request, Download, Block,
     InstallFails, Verify, Select, Record, Abort, AbortReport, Await, Restart, Cancel,
     CancelRecord, CancelReport, Persisted, NotPersisted, Advance, KeepFlash, flashVars,
     Restarts, PowerOff

\* What the boot does to the number and to the flash.
LEMMA BootNumber ==
    ASSUME RecordTypes, saved.image = cmd.image, Boot
    PROVE  /\ cmd'.image = cmd.image /\ saved'.image = cmd.image
           /\ UNCHANGED <<flash, healthy>> /\ (job' = job \/ job' = "none")
           /\ phase # "off" => running' = running
  <1>1. CASE PowerOn
    BY <1>1 DEF PowerOn
  <1>2. CASE StartupFails \/ Ready \/ ValidateRecords \/ ValidateFails \/ Confirm
             \/ RollbackRecords \/ RollBack
    BY <1>2 DEF StartupFails, Ready, ValidateRecords, ValidateFails, Confirm, RollbackRecords,
       RollBack, Restarts, BootOnly, PowerOff
  <1>3. CASE Reconcile
    BY <1>3, LedgerNumber DEF Reconcile, Restarts, BootOnly, PowerOff
  <1>4. QED BY <1>1, <1>2, <1>3 DEF Boot

LEMMA NumberedStep ==
    ASSUME Inv, Numbered, Next
    PROVE  Numbered'
  <1>t. /\ CoreTypes /\ RecordTypes /\ saved.image = cmd.image /\ Partitions = {0, 1}
        /\ cmd.image \in Nat /\ Trial
    BY DEF Inv, Core, Numbered, Partitions, RecordTypes
  <1>e. /\ running \in {0, 1} /\ Other(running) \in {0, 1} /\ Other(running) # running
        /\ flash[0].image \in Nat /\ flash[1].image \in Nat
    BY <1>t, Entries DEF CoreTypes, Partitions
  <1>1. CASE Accept
    <2>1. /\ cmd'.image = cmd.image + 1 /\ saved' = cmd' /\ UNCHANGED <<flash, running>>
      BY <1>1 DEF Accept, JobOnly, KeepFlash, flashVars
    <2>2. \A p \in Partitions : flash[p].image <= cmd.image
      BY DEF Numbered
    <2>3. \A p \in {0, 1} : ~Fresh(p)' /\ flash'[p].image <= cmd'.image
      BY <1>t, <1>e, <2>1, <2>2 DEF Fresh
    <2>4. ~Fresh(running)'
      BY <1>e, <2>1, <2>3 DEF Fresh
    <2>5. cmd'.image # 0
      BY <1>t, <2>1
    <2>6. QED BY <1>t, <2>1, <2>3, <2>4, <2>5 DEF Numbered
  <1>2. CASE Erase
    <2>1. /\ cmd' = cmd /\ saved' = saved /\ running' = running /\ job = "erase"
          /\ job' \in {"request", "cancel"}
          /\ \/ flash' = flash
             \/ flash' = [flash EXCEPT ![Other(running)] =
                            [image |-> cmd.image, whole |-> FALSE]]
      BY <1>2 DEF Erase, JobOnly, KeepLedger
    <2>2. /\ flash'[running] = flash[running]
          /\ \A p \in {0, 1} : flash'[p].image = flash[p].image \/ flash'[p].image = cmd.image
      BY <1>t, <1>e, <2>1 DEF CoreTypes
    <2>3. /\ cmd.image # 0 /\ ~Fresh(running)
          /\ \A p \in {0, 1} : flash[p].image <= cmd.image
      BY <1>t, <2>1 DEF Numbered
    <2>4. ~Fresh(running)' /\ \A p \in {0, 1} : flash'[p].image <= cmd'.image
      BY <1>t, <2>1, <2>2, <2>3 DEF Fresh
    <2>5. ~Fresh(0)' \/ ~Fresh(1)'
      BY <1>e, <2>1, <2>4 DEF Fresh
    <2>6. QED BY <1>t, <2>1, <2>3, <2>4, <2>5 DEF Numbered
  <1> DEFINE Same == /\ cmd'.image = cmd.image /\ saved'.image = cmd.image
                     /\ \A p \in {0, 1} : flash'[p].image = flash[p].image
  <1>s. ASSUME Same PROVE \A p \in {0, 1} : /\ Fresh(p)' <=> Fresh(p)
                                            /\ flash'[p].image <= cmd'.image
    BY <1>t, <1>s DEF Fresh, Numbered
  <1>3. CASE OtaTask /\ ~Erase
    <2>1. Same
      <3>1. flash' = flash \/ flash' = [flash EXCEPT ![Other(running)].whole = TRUE]
        BY <1>3, TaskJob DEF Verify
      <3>2. \A p \in {0, 1} : flash'[p].image = flash[p].image
        BY <1>t, <3>1 DEF CoreTypes
      <3>3. QED BY <1>3, <1>t, <3>2, TaskNumber
    <2>2. /\ job # "none" /\ running' = running
          /\ job' \in {"begin", "manifest", "erase"} => job \in {"begin", "manifest", "erase"}
      BY <1>3, <1>t, TaskNumber, TaskJob
    <2>3. ~Fresh(running)'
      BY <1>e, <1>s, <2>1, <2>2 DEF Numbered, Fresh
    <2>4. QED BY <1>t, <1>s, <2>1, <2>2, <2>3 DEF Numbered
  <1>4. CASE Boot \/ Crash
    <2>1. Same
      BY <1>4, <1>t, BootNumber DEF Crash, flashVars
    <2>2. job' = "none"
      <3>1. CASE phase # "up"
        BY <1>4, <1>t, <3>1, BootNumber DEF Trial, Crash, PowerOff
      <3>2. CASE phase = "up"
        <4>1. Crash
          BY <1>4, <3>2 DEF Boot, PowerOn, StartupFails, Ready, ValidateRecords, ValidateFails,
             Confirm, RollbackRecords, RollBack, Reconcile
        <4>2. QED BY <4>1 DEF Crash, PowerOff
      <3>3. QED BY <3>1, <3>2
    <2>3. cmd.image = 0 => cmd'.state = "none" /\ saved'.state = "none"
      <3>1. CASE Crash
        BY <3>1 DEF Crash, Numbered
      <3>2. CASE Boot
        <4>1. cmd.image = 0 => ~Interrupted
          BY DEF Numbered, Interrupted
        <4>2. QED
          BY <3>2, <4>1 DEF Numbered, Boot, PowerOn, StartupFails, Ready, ValidateRecords,
             ValidateFails, Confirm, RollbackRecords, RollBack, Reconcile
      <3>3. QED BY <1>4, <3>1, <3>2
    <2>4. QED BY <1>t, <1>s, <2>1, <2>2, <2>3 DEF Numbered
  <1>5. QED BY <1>1, <1>2, <1>3, <1>4 DEF Next

LEMMA IntactStep ==
    ASSUME Inv, Numbered, Intact, Next
    PROVE  Intact'
  <1>t. CoreTypes /\ RecordTypes /\ saved.image = cmd.image /\ Trial
    BY DEF Inv, Core, Numbered
  <1>e. running \in {0, 1} /\ Other(running) \in {0, 1} /\ Other(running) # running
    BY <1>t, Entries
  <1>1. CASE Accept
    BY <1>1 DEF Accept, JobOnly, KeepFlash, flashVars, Intact
  <1>2. CASE OtaTask
    <2>1. running' = running /\ job # "none" /\ phase = "up" /\ flash[running].whole
      BY <1>2, <1>t, TaskNumber DEF Trial, Intact
    <2>2. CASE Erase
      <3>1. flash'[running] = flash[running] /\ job' \in {"request", "cancel"}
        BY <1>t, <1>e, <2>2 DEF Erase, CoreTypes
      <3>2. QED BY <1>e, <2>1, <3>1 DEF Intact
    <2>3. CASE Verify
      <3>1. flash'[running] = flash[running] /\ flash'[Other(running)].whole
        BY <1>t, <1>e, <2>3 DEF Verify, CoreTypes, Partitions
      <3>2. QED BY <1>e, <2>1, <3>1 DEF Intact
    <2>4. CASE ~Erase /\ ~Verify
      BY <1>2, <2>1, <2>4, TaskJob DEF Intact
    <2>5. QED BY <2>2, <2>3, <2>4
  <1>3. CASE PowerOn
    <2>1. /\ flash' = flash /\ job' = job /\ job = "none"
          /\ \E p \in {0, 1} : running' = IF flash[p].whole THEN p ELSE Other(p)
      <3> DEFINE spent == [s \in Sectors |-> Spent(otadata[s])]
                 a == ActiveOf(spent)
                 p == IF Usable(spent[a]) THEN spent[a].part ELSE 0
      <3>1. spent \in [Sectors -> OtaEntry] /\ a \in Sectors
        BY <1>t DEF CoreTypes, Sectors, OtaEntry, Spent, ActiveOf, Other
      <3>2. p \in {0, 1}
        BY <3>1 DEF OtaEntry, Partitions
      <3>3. QED BY <1>3, <1>t, <3>2 DEF PowerOn, Trial
    <2>2. Other(0) = 1 /\ Other(1) = 0
      BY DEF Other
    <2>3. flash'[running'].whole
      BY <2>1, <2>2 DEF Intact
    <2>4. QED BY <2>1, <2>3 DEF Intact
  <1>4. CASE (Boot /\ ~PowerOn) \/ Crash
    <2>1. /\ UNCHANGED <<flash, running>> /\ phase # "off"
          /\ job' = job \/ job' = "none"
      BY <1>4, <1>t, BootNumber DEF Boot, StartupFails, Ready, ValidateRecords, ValidateFails,
         Confirm, RollbackRecords, RollBack, Reconcile, Crash, flashVars, PowerOff
    <2>2. QED BY <2>1 DEF Intact
  <1>5. QED BY <1>1, <1>2, <1>3, <1>4 DEF Next

LEMMA OriginalStep ==
    ASSUME Inv, Numbered, Original, Next
    PROVE  Original'
  <1>t. /\ CoreTypes /\ RecordTypes /\ saved.image = cmd.image /\ Trial /\ Factory /\ Core
        /\ running \in {0, 1} /\ Other(running) \in {0, 1} /\ Other(running) # running
    BY Entries DEF Inv, Core, Numbered
  <1>1. CASE UNCHANGED <<flash, otadata>>
    BY <1>1 DEF Original
  <1>2. CASE Erase \/ Verify
    <2>1. phase = "up" /\ otadata' = otadata
      BY <1>2, <1>t DEF Trial, Erase, Verify
    <2>2. SUFFICES ASSUME otadata[1].state = "blank", otadata[0].state # "valid"
                   PROVE  flash'[0].image = 0
      BY <2>1 DEF Original
    <2>3. running = 0 /\ flash[0].image = 0
      BY <1>t, <2>1, <2>2 DEF Factory, InService, Original
    <2>4. flash'[0] = flash[0]
      BY <1>2, <1>t, <2>3 DEF Erase, Verify, CoreTypes
    <2>5. QED BY <2>3, <2>4
  <1> DEFINE Less == /\ flash' = flash
                     /\ otadata'[1].state = "blank" => otadata[1].state = "blank"
                     /\ otadata'[1].state = "blank" /\ otadata[0].state = "valid" =>
                           otadata'[0].state = "valid"
  <1>l. Less => Original'
    BY DEF Original
  <1>3. ASSUME NEW p \in Partitions, SetBoot(p), flash' = flash PROVE Less
    <2>1. PICK s \in {0, 1} : /\ otadata' = [otadata EXCEPT ![s] = [part |-> p, state |-> "new"]]
                              /\ s = 0 => ~Deciding \/ Active = 1
      BY <1>3, <1>t, TwoSectors DEF SetBoot
    <2>2. CASE s = 1
      BY <1>3, <1>t, <2>1, <2>2 DEF CoreTypes, Sectors
    <2>3. CASE s = 0
      <3>1. otadata'[1] = otadata[1]
        BY <1>t, <2>1, <2>3 DEF CoreTypes, Sectors
      <3>2. CASE ~Deciding
        <4>1. ~Usable(otadata[0])
          BY <1>t, <3>2, TwoSectors DEF Deciding
        <4>2. QED BY <1>3, <3>1, <4>1 DEF Usable
      <3>3. CASE Active = 1
        <4>1. otadata[1].state # "blank"
          BY <1>t, <3>3 DEF Factory, Active, ActiveOf, Usable, Other
        <4>2. QED BY <1>3, <3>1, <4>1
      <3>4. QED BY <2>1, <2>3, <3>2, <3>3
    <2>4. QED BY <2>2, <2>3
  <1>4. CASE Select \/ Record \/ Cancel
    BY <1>1, <1>3, <1>4, <1>l, <1>t DEF Select, Record, Cancel, Partitions
  <1>5. CASE PowerOn
    <2>1. \A s \in {0, 1} : /\ otadata'[s].state = "blank" <=> otadata[s].state = "blank"
                            /\ otadata[s].state = "valid" <=> otadata'[s].state = "valid"
      <3> DEFINE spent == [s \in Sectors |-> Spent(otadata[s])]
                 a == ActiveOf(spent)
      <3>1. otadata' = [spent EXCEPT ![a] = Started(@)]
        BY <1>5 DEF PowerOn
      <3>2. \A s \in {0, 1} : otadata'[s] = Spent(otadata[s]) \/ otadata'[s] = Started(Spent(otadata[s]))
        BY <3>1 DEF Sectors
      <3>3. \A s \in {0, 1} : otadata[s] \in OtaEntry
        BY <1>t DEF CoreTypes, Sectors
      <3>4. QED BY <3>2, <3>3 DEF Spent, Started, OtaEntry
    <2>2. flash' = flash
      BY <1>5 DEF PowerOn
    <2>3. QED BY <1>l, <2>1, <2>2
  <1>6. CASE Confirm \/ RollBack
    <2>1. phase \in {"confirm", "rollback"} /\ flash' = flash
      BY <1>6 DEF Confirm, RollBack, BootOnly, Restarts
    <2>2. otadata[Active].state = "pending" /\ Active \in {0, 1}
      BY <1>t, <2>1, TwoSectors DEF Trial
    <2>3. CASE UNCHANGED otadata
      BY <1>1, <2>1, <2>3
    <2>4. CASE \E st \in {"valid", "aborted"} : otadata' = [otadata EXCEPT ![Active].state = st]
      <3>1. PICK st \in {"valid", "aborted"} : otadata' = [otadata EXCEPT ![Active].state = st]
        BY <2>4
      <3>2. otadata'[Active].state = st /\ \A s \in {0, 1} : s # Active => otadata'[s] = otadata[s]
        BY <1>t, <2>2, <3>1 DEF CoreTypes, Sectors, OtaEntry
      <3>3. Less
        BY <2>1, <2>2, <3>2
      <3>4. QED BY <1>l, <3>3
    <2>5. QED BY <1>6, <2>3, <2>4 DEF Confirm, RollBack
  <1>7. CASE Crash \/ Accept \/ StartupFails \/ Ready \/ ValidateRecords \/ ValidateFails
             \/ RollbackRecords \/ Reconcile
    BY <1>1, <1>7 DEF Crash, Accept, StartupFails, Ready, ValidateRecords, ValidateFails,
       RollbackRecords, Reconcile, Restarts, BootOnly, KeepFlash, flashVars
  <1>8. CASE Begin \/ ManifestRefused \/ ManifestVerified \/ Request \/ Download \/ Block
             \/ InstallFails \/ Abort \/ AbortReport \/ Await \/ Restart \/ CancelRecord \/ CancelReport
    BY <1>1, <1>8 DEF Begin, ManifestRefused, ManifestVerified, Request, Download, Block,
       InstallFails, Abort, AbortReport, Await, Restart, CancelRecord, CancelReport, Restarts,
       KeepFlash, flashVars
  <1>9. QED BY <1>2, <1>4, <1>5, <1>6, <1>7, <1>8 DEF Next, Boot, OtaTask

LEMMA RecordedStep ==
    ASSUME Inv, Recorded, Next
    PROVE  Recorded'
  <1>1. CASE ValidateRecords
    BY <1>1, StoredIsLoaded DEF ValidateRecords, Recorded, Stages, Inv
  <1>2. CASE RollbackRecords
    BY <1>2 DEF RollbackRecords, BootOnly, Recorded, Fit
  <1>3. CASE Boot /\ ~ValidateRecords /\ ~RollbackRecords
    BY <1>3 DEF Boot, PowerOn, StartupFails, Ready, ValidateFails, Confirm, RollBack, Reconcile,
       Restarts, PowerOff, Recorded
  <1>4. CASE Crash
    BY <1>4 DEF Crash, PowerOff, Recorded
  <1>5. CASE Accept \/ OtaTask
    <2>1. phase = "up"
      BY <1>5 DEF Inv, Core, Trial, Accept, OtaTask, Begin, ManifestRefused, ManifestVerified,
         Erase, Request, Download, Block, InstallFails, Verify, Select, Record, Abort,
         AbortReport, Await, Restart, Cancel, CancelRecord, CancelReport
    <2>2. phase' = phase \/ phase' = "off"
      BY <1>5 DEF Accept, OtaTask, Begin, ManifestRefused, ManifestVerified,
         Erase, Request, Download, Block, InstallFails, Verify, Select, Record, Abort,
         AbortReport, Await, Restart, Cancel, CancelRecord, CancelReport, JobOnly, Restarts,
         PowerOff
    <2>3. QED BY <2>1, <2>2 DEF Recorded
  <1>6. QED BY <1>1, <1>2, <1>3, <1>4, <1>5 DEF Next

-----------------------------------------------------------------------------
(***************************************************************************)
(* The steps after at most one fault and one reset.                        *)
(***************************************************************************)
LEMMA MishapView ==
    ASSUME RecordTypes, Next, OneMishap'
    PROVE  /\ OneMishap /\ faults \in {0, 1} /\ crashes \in {0, 1}
           /\ \/ faults' = faults /\ crashes' = crashes /\ ~Crash
              \/ faults = 0 /\ faults' = 1 /\ crashes' = crashes /\ ~Crash
              \/ faults' = faults /\ crashes = 0 /\ crashes' = 1 /\ Crash
  <1>1. faults \in Nat /\ crashes \in Nat
    BY DEF RecordTypes
  <1>2. NoFault => faults' = faults /\ crashes' = crashes
    BY DEF NoFault, bounds
  <1>3. Fault => faults' = faults + 1 /\ crashes' = crashes
    BY DEF Fault
  <1>4. Crash => faults' = faults /\ crashes' = crashes + 1
    BY DEF Crash
  <1>5. Report => NoFault \/ Fault
    BY DEF Report, LedgerFails
  <1>6. CASE Boot
    <2>1. NoFault \/ Fault
      BY <1>6 DEF Boot, PowerOn, StartupFails, Ready, ValidateRecords, ValidateFails, Confirm,
         RollbackRecords, RollBack, Reconcile, StoreFails, LedgerFails, NoFault
    <2>2. QED BY <1>1, <1>2, <1>3, <1>4, <2>1 DEF OneMishap
  <1>7. CASE Accept \/ OtaTask
    <2>1. NoFault \/ Fault
      BY <1>5, <1>7 DEF Accept, OtaTask, Begin, ManifestRefused, ManifestVerified, Erase, Request,
         Download, Block, InstallFails, Verify, Select, Record, Abort, AbortReport, Await, Restart,
         Cancel, CancelRecord, CancelReport, Persisted, NotPersisted, Advance, StoreFails,
         LedgerFails, NoFault
    <2>2. QED BY <1>1, <1>2, <1>3, <1>4, <2>1 DEF OneMishap
  <1>8. CASE Crash
    BY <1>1, <1>4, <1>8 DEF OneMishap
  <1>9. QED BY <1>6, <1>7, <1>8 DEF Next

LEMMA SameView ==
    ASSUME UNCHANGED <<flash, otadata, lead, running, healthy>>, cmd'.image = cmd.image
    PROVE  /\ Decider' = Decider /\ Fallback' = Fallback /\ Active' = Active
           /\ Fit' <=> Fit
           /\ Fresh(Decider.part)' <=> Fresh(Decider.part)
           /\ Fresh(Fallback.part)' <=> Fresh(Fallback.part)
           /\ Fresh(running)' <=> Fresh(running)
           /\ Sound(Decider.part)' <=> Sound(Decider.part)
           /\ Sound(Fallback.part)' <=> Sound(Fallback.part)
           /\ Sound(running)' <=> Sound(running)
  <1>1. Active' = Active /\ Fallback' = Fallback
    BY ActiveKept
  <1>2. Decider' = Decider
    BY <1>1 DEF Decider
  <1>3. QED BY <1>1, <1>2 DEF Fresh, Sound, Fit

\* The running image is sound in service as long as nothing went wrong.
LEMMA UnharmedIsSound ==
    ASSUME Intact, Unharmed, faults = 0, crashes = 0, InService
    PROVE  Sound(running)
  BY DEF Intact, Unharmed, InService, Fit, Sound

\* A step of the task that leaves the flash and otadata alone.
LEMMA TaskKeeps ==
    ASSUME Inv, Numbered, Intact, AfterMishap, job # "none", phase = "up",
           UNCHANGED <<flash, otadata, lead, running, healthy, phase>>, cmd'.image = cmd.image,
           \/ faults' = faults /\ crashes' = crashes
           \/ faults = 0 /\ faults' = 1 /\ crashes' = crashes
    PROVE  Unhidden' /\ SelectedWhole' /\ Unharmed' /\ Behind' /\ Proven'
  <1>k. /\ Decider' = Decider /\ Fallback' = Fallback /\ Active' = Active
        /\ Fit' <=> Fit
        /\ Fresh(Decider.part)' <=> Fresh(Decider.part)
        /\ Fresh(Fallback.part)' <=> Fresh(Fallback.part)
        /\ Fresh(running)' <=> Fresh(running)
        /\ Sound(Decider.part)' <=> Sound(Decider.part)
        /\ Sound(Fallback.part)' <=> Sound(Fallback.part)
        /\ Sound(running)' <=> Sound(running)
    BY SameView
  <1>1. Unhidden'
    BY <1>k DEF AfterMishap, Unhidden, OnTest
  <1>2. SelectedWhole'
    BY <1>k DEF AfterMishap, SelectedWhole
  <1>3. Unharmed'
    BY <1>k DEF AfterMishap, Unharmed, InService, OnTest
  <1>4. Behind'
    <2>1. Reselected => Reselected'
      BY <1>k DEF Reselected
    <2>2. QED BY <1>k, <2>1 DEF AfterMishap, Behind, InService, OnTest
  <1>5. Proven'
    <2>1. Decider.state = "valid" => Decider.part = running
      BY DEF Inv, Core, Confirmed, Decider
    <2>2. ~Fresh(running)
      BY DEF Numbered
    <2>3. QED BY <1>k, <2>1, <2>2 DEF Proven
  <1>6. QED BY <1>1, <1>2, <1>3, <1>4, <1>5

\* Where the update is selected, during an installation.
LEMMA SelectedDuring ==
    ASSUME Inv, Numbered, AfterMishap, job # "none", Usable(Decider)
    PROVE  /\ phase = "up"
           /\ Fresh(Decider.part) => Decider.part # running
           /\ Decider.part # running =>
                 \/ job \in {"record", "await", "restart"}
                 \/ /\ job \in {"abort", "abort_report", "cancel"} /\ faults = 1
                    /\ crashes = 0 => Sound(running)
  <1>1. phase = "up"
    BY DEF Inv, Core, Trial
  <1>2. QED BY <1>1 DEF Numbered, AfterMishap, Placed

LEMMA AcceptStory ==
    ASSUME Inv, Numbered, Numbered', Intact, AfterMishap, Accept
    PROVE  AfterMishap'
  <1>t. /\ UNCHANGED <<flash, otadata, lead, running, healthy, phase, faults, crashes, ck>>
        /\ phase = "up" /\ job = "none" /\ job' = "begin" /\ cmd'.state = "accepted"
    BY DEF Accept, JobOnly, KeepFlash, flashVars, bounds
  <1>k. Decider' = Decider /\ Fallback' = Fallback /\ Active' = Active
    BY <1>t, ActiveKept DEF Decider
  <1>f. Fallback.part \in {0, 1} /\ Decider.part \in {0, 1}
    BY Entries DEF Inv, Core
  <1>n. ~Fresh(Decider.part)' /\ ~Fresh(Fallback.part)'
    <2>1. ~Fresh(0)' /\ ~Fresh(1)'
      BY <1>t DEF Numbered
    <2>2. QED BY <1>f, <1>k, <2>1 DEF Fresh
  <1>1. Progress' /\ SelectedHonest' /\ Unhidden' /\ Proven' /\ Selecting'
    BY <1>t, <1>n DEF Progress, SelectedHonest, Unhidden, Proven, Selecting
  <1>2. SelectedWhole'
    BY <1>t, <1>k DEF AfterMishap, SelectedWhole
  <1>3. Unharmed'
    BY <1>t, <1>k DEF AfterMishap, Unharmed, InService, OnTest, Fit, Sound
  <1>4. Behind'
    <2>1. Reselected => Reselected'
      BY <1>t, <1>k DEF Reselected, Sound
    <2>2. QED BY <1>t, <1>k, <1>n, <2>1 DEF AfterMishap, Behind, InService, OnTest
  <1>5. Placed'
    BY <1>t, <1>k DEF AfterMishap, Placed
  <1>6. QED BY <1>1, <1>2, <1>3, <1>4, <1>5 DEF AfterMishap

\* The steps of the task that leave the flash and otadata alone.
Quiet ==
    \/ Begin \/ ManifestRefused \/ ManifestVerified \/ Request \/ Download \/ Block \/ InstallFails
    \/ Abort \/ AbortReport \/ Await \/ CancelRecord \/ CancelReport
    \/ Erase /\ UNCHANGED flash
    \/ Select /\ job' = "abort"
    \/ Record /\ UNCHANGED <<otadata, lead>>
    \/ Cancel /\ job' = "cancel_report"

LEMMA QuietStory ==
    ASSUME Inv, Numbered, Intact, AfterMishap, Quiet, OtaTask, OneMishap'
    PROVE  AfterMishap'
  <1>t. RecordTypes /\ saved.image = cmd.image
    BY DEF Inv, Numbered
  <1>u. /\ UNCHANGED <<flash, otadata, lead, running, healthy, phase>> /\ job # "none"
        /\ cmd'.image = cmd.image /\ phase = "up"
    <2>1. UNCHANGED <<flash, otadata, lead, running, healthy, phase>>
      BY DEF Quiet, Begin, ManifestRefused, ManifestVerified, Request, Download, Block,
         InstallFails, Abort, AbortReport, Await, CancelRecord, CancelReport, Erase, Select,
         Record, Cancel, JobOnly, KeepFlash, flashVars
    <2>2. QED BY <1>t, <2>1, TaskNumber DEF Inv, Core, Trial
  <1>m. /\ faults \in {0, 1} /\ crashes \in {0, 1}
        /\ \/ faults' = faults /\ crashes' = crashes
           \/ faults = 0 /\ faults' = 1 /\ crashes' = crashes
    BY <1>t, <1>u, MishapView DEF Next, Crash, PowerOff
  <1>f. Fault => faults = 0 /\ faults' = 1
    BY <1>m DEF Fault
  <1>k. Decider' = Decider /\ Fallback' = Fallback /\ Sound(running)' = Sound(running)
        /\ (Fresh(Decider.part)' <=> Fresh(Decider.part))
    BY <1>u, SameView DEF Sound
  <1>1. Unhidden' /\ SelectedWhole' /\ Unharmed' /\ Behind' /\ Proven'
    BY <1>u, <1>m, TaskKeeps
  <1>r. Report => \/ cmd.state # "accepted" /\ UNCHANGED <<cmd, saved>> /\ NoFault
                  \/ cmd.state = "accepted" /\ LedgerSaves("running") /\ NoFault
                  \/ cmd.state = "accepted" /\ Fault
    BY DEF Report, LedgerFails
  <1>s. /\ LedgerSaves("running") => cmd'.state = "running" /\ saved'.state = "running"
        /\ LedgerSaves("awaiting_reboot") =>
              cmd'.state = "awaiting_reboot" /\ saved'.state = "awaiting_reboot"
        /\ LedgerFails("awaiting_reboot") =>
              cmd' = cmd /\ saved'.state \in {saved.state, "awaiting_reboot"}
    BY <1>t DEF LedgerSaves, LedgerFails, RecordTypes
  <1>2. Progress'
    <2>0. Progress
      BY DEF AfterMishap
    <2>1. CASE Begin
      BY <1>f, <1>s, <2>0, <2>1 DEF Begin, Progress, LedgerFails
    <2>2. CASE ManifestRefused \/ InstallFails \/ Abort \/ CancelRecord \/ CancelReport
               \/ AbortReport
      BY <2>2 DEF ManifestRefused, InstallFails, Abort, CancelRecord, CancelReport, AbortReport,
         Progress
    <2>3. CASE ManifestVerified
      <3>1. CASE job' = "erase" /\ Report
        BY <1>f, <1>r, <1>s, <2>0, <2>3, <3>1 DEF ManifestVerified, Progress
      <3>2. CASE job' = "cancel"
        BY <3>2 DEF Progress
      <3>3. QED BY <2>3, <3>1, <3>2 DEF ManifestVerified
    <2>4. CASE Request \/ Block
      BY <2>0, <2>4 DEF Request, Block, Persisted, NotPersisted, KeepLedger, Progress
    <2>5. CASE Download
      BY <1>r, <2>0, <2>5 DEF Download, Progress
    <2>6. CASE Record /\ UNCHANGED <<otadata, lead>>
      BY <1>r, <2>0, <2>6 DEF Record, Persisted, NotPersisted, Progress
    <2>7. CASE Await
      BY <1>s, <2>7 DEF Await, Progress
    <2>8. CASE (Erase /\ UNCHANGED flash) \/ (Select /\ job' = "abort")
               \/ (Cancel /\ job' = "cancel_report")
      BY <2>0, <2>8 DEF Erase, KeepLedger, Progress
    <2>9. QED
      BY <2>1, <2>2, <2>3, <2>4, <2>5, <2>6, <2>7, <2>8 DEF Quiet
  <1>3. SelectedHonest' /\ Placed'
    <2>1. SUFFICES ASSUME Usable(Decider), Decider.part # running
                   PROVE  /\ Fresh(Decider.part) => Honest'
                          /\ \/ job' \in {"record", "await", "restart"}
                             \/ /\ job' \in {"abort", "abort_report", "cancel"} /\ faults' = 1
                                /\ crashes' = 0 => Sound(running)
      BY <1>u, <1>k, SelectedDuring DEF SelectedHonest, Placed
    <2>2. /\ \/ job \in {"record", "await", "restart"}
             \/ /\ job \in {"abort", "abort_report", "cancel"} /\ faults = 1
                /\ crashes = 0 => Sound(running)
          /\ Fresh(Decider.part) => Honest
      BY <1>u, <2>1, SelectedDuring DEF AfterMishap, SelectedHonest
    <2>3. faults = 0 /\ crashes = 0 => Sound(running)
      BY <1>u, UnharmedIsSound DEF AfterMishap, InService
    <2>4. CASE Record /\ UNCHANGED <<otadata, lead>>
      <3>1. cmd.state = "running" /\ saved.state = "running"
        BY <2>4 DEF AfterMishap, Progress, Record
      <3>2. CASE Report /\ job' = "await"
        BY <1>r, <3>1, <3>2 DEF Honest, NotGivenUp
      <3>3. CASE NotPersisted(At(cp, "boot_selected"))
        BY <1>f, <1>m, <2>3, <3>1, <3>3 DEF NotPersisted, StoreFails, KeepLedger, Honest, NotGivenUp
      <3>4. QED BY <2>4, <3>2, <3>3 DEF Record, Persisted
    <2>5. CASE Await
      <3>1. cmd.state = "running" /\ saved.state = "running"
        BY <2>5 DEF AfterMishap, Progress, Await
      <3>2. CASE LedgerSaves("awaiting_reboot") /\ job' = "restart"
        BY <1>s, <3>2 DEF Honest, NotGivenUp
      <3>3. CASE LedgerFails("awaiting_reboot") /\ job' = "cancel"
        BY <1>f, <1>m, <1>s, <2>3, <3>1, <3>3 DEF LedgerFails, Honest, NotGivenUp
      <3>4. QED BY <2>5, <3>2, <3>3 DEF Await
    <2>6. CASE Abort
      BY <1>m, <2>2, <2>6 DEF Abort, KeepLedger, Honest
    <2>7. CASE AbortReport
      <3>1. Fresh(Decider.part) => cmd.state # "accepted"
        BY <2>2 DEF Honest, NotGivenUp
      <3>2. QED BY <1>m, <1>r, <2>2, <2>7, <3>1 DEF AbortReport, Honest
    <2>8. CASE Cancel /\ job' = "cancel_report"
      BY <1>f, <1>m, <2>2, <2>8 DEF Cancel
    <2>9. QED
      BY <2>2, <2>4, <2>5, <2>6, <2>7, <2>8 DEF Quiet, Begin, ManifestRefused, ManifestVerified,
         Request, Download, Block, InstallFails, CancelRecord, CancelReport, Erase, Select
  <1>4. Selecting'
    <2>1. SUFFICES ASSUME job' \in {"record", "await", "restart"}
                   PROVE  job \in {"record", "await", "restart"}
      BY <1>u, <1>k, <1>m, <2>1 DEF AfterMishap, Selecting
    <2>2. QED
      BY <2>1 DEF Quiet, Begin, ManifestRefused, ManifestVerified, Request, Download, Block,
         InstallFails, Abort, AbortReport, Await, CancelRecord, CancelReport, Erase, Select,
         Record, Cancel, Persisted, NotPersisted
  <1>5. QED BY <1>1, <1>2, <1>3, <1>4 DEF AfterMishap

\* The update partition is written: it is not selected, and a selection that the
\* partition stands behind is not dropped.
LEMMA FlashStory ==
    ASSUME Inv, Numbered, Numbered', Intact, AfterMishap, OtaTask, Erase \/ Verify, OneMishap'
    PROVE  AfterMishap'
  <1>t. /\ CoreTypes /\ RecordTypes /\ saved.image = cmd.image
        /\ job \in {"erase", "verify"} /\ phase = "up" /\ InService
        /\ UNCHANGED <<otadata, lead, running, healthy, phase>>
    BY DEF Inv, Core, Numbered, Erase, Verify, JobOnly, Trial, InService
  <1>m. /\ faults \in {0, 1} /\ crashes \in {0, 1}
        /\ \/ faults' = faults /\ crashes' = crashes
           \/ faults = 0 /\ faults' = 1 /\ crashes' = crashes
    BY <1>t, MishapView DEF Next, Crash, PowerOff
  <1>e. /\ running \in {0, 1} /\ Other(running) \in {0, 1} /\ Other(running) # running
        /\ Decider.part \in {0, 1} /\ Fallback.part \in {0, 1}
        /\ OnTest(Decider) => Usable(Decider)
    BY <1>t, Entries
  <1>k. /\ Decider' = Decider /\ Fallback' = Fallback /\ Active' = Active
        /\ flash'[running] = flash[running] /\ cmd'.image = cmd.image
    <2>1. flash'[running] = flash[running]
      BY <1>t, <1>e DEF Erase, Verify, CoreTypes
    <2>2. QED BY <1>t, <2>1, ActiveKept, TaskNumber DEF Decider
  <1>p. Usable(Decider) => Decider.part = running
    BY <1>t, SelectedDuring
  <1>j. /\ job' \in {"request", "cancel", "select", "abort"}
        /\ job' \in {"request", "select"} => cmd'.state = "running" /\ saved'.state = "running"
    <2>1. cmd.state = "running" /\ saved.state = "running"
      BY <1>t DEF AfterMishap, Progress
    <2>2. CASE Erase
      BY <2>1, <2>2 DEF Erase, KeepLedger
    <2>3. CASE Verify
      BY <2>1, <2>3 DEF Verify, Advance, Persisted, NotPersisted, Report
    <2>4. QED BY <2>2, <2>3
  <1>n. ~Fresh(running)'
    BY <1>j DEF Numbered
  <1>d. Usable(Decider) => ~Fresh(Decider.part)'
    BY <1>k, <1>n, <1>p, <1>t DEF Fresh
  <1>1. Progress' /\ Selecting'
    BY <1>j DEF Progress, Selecting
  <1>2. SelectedHonest' /\ Unhidden' /\ Proven'
    BY <1>d, <1>e, <1>k DEF SelectedHonest, Unhidden, Proven, Usable, OnTest
  <1>3. SelectedWhole' /\ Placed'
    BY <1>k, <1>p, <1>t DEF SelectedWhole, Placed, Intact
  <1>4. Unharmed'
    BY <1>k, <1>m, <1>t DEF AfterMishap, Unharmed, InService, Fit
  <1>5. Behind'
    <2>1. SUFFICES ASSUME OnTest(Decider), Usable(Fallback), Fallback.part # Decider.part
                   PROVE  Reselected'
      BY <1>k DEF Behind, OnTest
    <2>2. Reselected
      BY <1>e, <1>p, <1>t, <2>1 DEF AfterMishap, Behind
    <2>3. QED BY <1>k, <1>m, <1>t, <2>2 DEF Reselected, Sound
  <1>6. QED BY <1>1, <1>2, <1>3, <1>4, <1>5 DEF AfterMishap

\* The update is selected in front of the running image.
LEMMA SelectStory ==
    ASSUME Inv, Numbered, Intact, AfterMishap, Select, SetBoot(Other(running)), job' = "record",
           NoFault
    PROVE  AfterMishap'
  <1>t. /\ Core /\ CoreTypes /\ job = "select" /\ phase = "up" /\ InService
        /\ UNCHANGED <<flash, running, healthy, phase, cmd, saved, ck, faults, crashes>>
    BY DEF Inv, Core, Select, JobOnly, KeepLedger, NoFault, bounds, Trial, InService
  <1>e. /\ running \in {0, 1} /\ Other(running) \in {0, 1} /\ Other(running) # running
        /\ Decider \in OtaEntry /\ Fallback \in OtaEntry
        /\ Usable(Decider) <=> OnTest(Decider) \/ Decider.state = "valid"
    BY <1>t, Entries
  <1>p. Usable(Decider) => Decider.part = running
    BY <1>t, SelectedDuring
  <1>v. /\ Decider' = [part |-> Other(running), state |-> "new"]
        /\ \/ Usable(Decider) /\ Fallback' = Decider
           \/ /\ ~Usable(Decider) /\ ~Usable(Fallback') /\ Active' = 0
              /\ Fallback.state = "blank" => Fallback'.state = "blank"
    <2>1. Other(running) \in Partitions
      BY <1>e DEF Partitions
    <2>2. QED BY <1>e, <1>p, <1>t, <2>1, SetBootView
  <1>o. Decider'.part = Other(running) /\ Decider'.state = "new"
    BY <1>v
  <1>h. cmd.state = "running" /\ saved.state = "running"
    BY <1>t DEF AfterMishap, Progress
  <1>1. Progress' /\ SelectedHonest' /\ Placed' /\ Proven'
    BY <1>h, <1>o, <1>t DEF Progress, SelectedHonest, Honest, NotGivenUp, Placed, Proven
  <1>2. Unhidden'
    <2>1. CASE Usable(Decider) /\ Fallback' = Decider
      BY <1>e, <1>o, <1>p, <1>t, <2>1 DEF Unhidden
    <2>2. CASE ~Usable(Fallback') /\ Active' = 0
      BY <1>t, <2>2 DEF Unhidden, Usable
    <2>3. QED BY <1>v, <2>1, <2>2
  <1>3. SelectedWhole'
    BY <1>o, <1>t DEF SelectedWhole, Intact
  <1>4. Unharmed'
    <2>1. SUFFICES ASSUME faults = 0, crashes = 0
                   PROVE  Fallback'.state # "pending" /\ Fit
      BY <1>o, <1>t DEF Unharmed, InService, Fit, Usable
    <2>2. Fit /\ Decider.state # "pending"
      BY <1>t, <2>1 DEF AfterMishap, Unharmed
    <2>3. QED BY <1>v, <2>2 DEF Usable
  <1>5. Behind'
    <2>1. SUFFICES ASSUME Usable(Fallback')
                   PROVE  /\ ~Fresh(Fallback.part)' /\ flash'[Fallback'.part].whole
                          /\ Fallback'.part = running'
      BY DEF Behind
    <2>2. Fallback'.part = running
      BY <1>p, <1>v, <2>1
    <2>3. QED BY <1>t, <2>2 DEF Numbered, Intact, Fresh
  <1>6. Selecting'
    <2>1. Usable(Fallback') => Fallback'.part = running
      BY <1>p, <1>v
    <2>2. faults = 0 /\ crashes = 0 => Fallback'.state # "aborted"
      <3>1. CASE Usable(Decider) /\ Fallback' = Decider
        BY <3>1 DEF Usable
      <3>2. CASE ~Usable(Decider) /\ (Fallback.state = "blank" => Fallback'.state = "blank")
        BY <3>2 DEF AfterMishap, Unharmed
      <3>3. QED BY <1>v, <3>1, <3>2
    <2>3. QED BY <1>t, <1>v, <2>1, <2>2 DEF Selecting
  <1>7. QED BY <1>1, <1>2, <1>3, <1>4, <1>5, <1>6 DEF AfterMishap

\* The running image is selected again: by the cancellation, or because BOOT_SELECTED
\* cannot be recorded.
LEMMA ReselectStory ==
    ASSUME Inv, Numbered, Intact, AfterMishap, SetBoot(running), OneMishap',
           \/ Cancel /\ job' = "cancel_record" /\ NoFault
           \/ Record /\ job' = "abort" /\ Fault
    PROVE  AfterMishap'
  <1>t. /\ Core /\ CoreTypes /\ phase = "up" /\ InService /\ job \in {"cancel", "record"}
        /\ UNCHANGED <<flash, running, healthy, phase>>
        /\ job' \in {"cancel_record", "abort"} /\ cmd' = cmd
    <2>1. cmd' = cmd
      <3>1. CASE Cancel
        BY <3>1 DEF Cancel, KeepLedger
      <3>2. CASE Record /\ job' = "abort"
        BY <3>2 DEF Record, Persisted, NotPersisted, KeepLedger
      <3>3. QED BY <3>1, <3>2
    <2>2. QED BY <2>1 DEF Inv, Core, Cancel, Record, JobOnly, Trial, InService
  <1>m. /\ faults' \in {0, 1} /\ crashes' = crashes
        /\ NoFault => faults' = faults
        /\ Fault => faults = 0 /\ faults' = 1
    BY DEF Inv, RecordTypes, OneMishap, NoFault, Fault, bounds
  <1>e. /\ running \in {0, 1}
        /\ Decider \in OtaEntry /\ Fallback \in OtaEntry
        /\ Usable(Decider) <=> OnTest(Decider) \/ Decider.state = "valid"
    BY <1>t, Entries
  <1>v. \/ /\ Usable(Decider) /\ Decider.part # running
           /\ Decider' = [part |-> running, state |-> "new"] /\ Fallback' = Decider
        \/ /\ Usable(Decider) /\ Decider.part = running
           /\ \/ Decider' = Decider /\ Fallback' = [part |-> running, state |-> "new"]
              \/ Decider' = [part |-> running, state |-> "new"] /\ Fallback' = Decider
        \/ /\ ~Usable(Decider) /\ ~Usable(Fallback')
           /\ Decider' = [part |-> running, state |-> "new"]
    BY <1>e, <1>t, SetBootView DEF Partitions
  <1>p. Decider'.part = running /\ (Decider'.state = "new" \/ Decider' = Decider) /\ Usable(Decider')
    BY <1>v DEF Usable
  <1>n. ~Fresh(running) /\ ~Fresh(Decider.part)'
    BY <1>p, <1>t DEF Numbered, Fresh
  <1>1. Progress' /\ SelectedHonest' /\ Unhidden' /\ Proven' /\ Selecting' /\ Placed'
    BY <1>n, <1>p, <1>t DEF Progress, SelectedHonest, Unhidden, Proven, Selecting, Placed
  <1>2. SelectedWhole'
    BY <1>p, <1>t DEF SelectedWhole, Intact
  <1>3. Unharmed'
    <2>1. SUFFICES ASSUME faults' = 0, crashes = 0
                   PROVE  Fallback'.state # "pending" /\ Fit /\ Decider'.state # "pending"
      BY <1>m, <1>p, <1>t DEF Unharmed, InService, Fit
    <2>2. Fit /\ Decider.state # "pending"
      BY <1>m, <1>t, <2>1 DEF AfterMishap, Unharmed
    <2>3. QED BY <1>p, <1>v, <2>2 DEF Usable
  <1>4. Behind'
    <2>1. SUFFICES ASSUME Usable(Fallback'), Fallback'.part # running
                   PROVE  Reselected'
      BY <1>p DEF Behind
    <2>2. /\ Usable(Decider) /\ Decider.part # running
          /\ Decider' = [part |-> running, state |-> "new"]
      BY <1>v, <2>1
    <2>3. faults' = 1 /\ (crashes = 0 => Sound(running))
      <3>1. CASE Cancel /\ NoFault
        <4>1. job = "cancel"
          BY <3>1 DEF Cancel
        <4>2. QED BY <1>m, <2>2, <3>1, <4>1, SelectedDuring
      <3>2. CASE Record /\ Fault
        BY <1>m, <1>t, <3>2, UnharmedIsSound DEF AfterMishap
      <3>3. QED BY <3>1, <3>2
    <2>4. QED BY <1>m, <1>t, <2>2, <2>3 DEF Reselected, Sound
  <1>5. QED BY <1>1, <1>2, <1>3, <1>4 DEF AfterMishap

\* The bootloader: a trial that was cut short is given up, and what stands behind it is
\* not the update.
LEMMA PowerOnStory ==
    ASSUME Inv, Numbered, Intact, AfterMishap, PowerOn
    PROVE  AfterMishap'
  <1>t. /\ Core /\ CoreTypes /\ phase = "off" /\ phase' = "startup" /\ job' = "none"
        /\ UNCHANGED <<flash, healthy, saved, ck, faults, crashes>> /\ cmd' = saved
        /\ cmd'.image = cmd.image
    BY DEF Inv, Core, PowerOn, Trial, bounds, Numbered
  <1>e. /\ Decider \in OtaEntry /\ Fallback \in OtaEntry
        /\ Usable(Decider) <=> OnTest(Decider) \/ Decider.state = "valid"
        /\ Usable(Fallback) <=> OnTest(Fallback) \/ Fallback.state = "valid"
    BY <1>t, Entries
  <1>s. \A e \in OtaEntry :
           /\ Started(e).part = e.part /\ Spent(e).part = e.part
           /\ Started(e).state = IF e.state = "new" THEN "pending" ELSE e.state
           /\ Spent(e).state = IF e.state = "pending" THEN "aborted" ELSE e.state
    BY DEF OtaEntry, Started, Spent
  <1>f. \A p : Fresh(p)' <=> Fresh(p)
    BY <1>t DEF Fresh
  <1>o. \A p : Sound(p)' <=> Sound(p)
    BY <1>t DEF Sound
  <1>r. Usable(Decider') /\ flash[Decider'.part].whole => running' = Decider'.part
    <2>1. running' = Chosen'
      <3>1. Trial'
        BY <1>t, PowerOnStep DEF Core
      <3>2. QED BY <1>t, <3>1 DEF Trial
    <2>2. Usable(Decider') => Selected' = Decider'.part
      BY DEF Selected, Deciding, Decider
    <2>3. QED BY <1>t, <2>1, <2>2 DEF Chosen
  <1>1. Progress' /\ Selecting'
    BY <1>t DEF Progress, Selecting
  <1>2. CASE ~Usable(Decider) /\ Decider' = Decider /\ Fallback' = Fallback
    <2>1. /\ SelectedHonest' /\ SelectedWhole' /\ Placed' /\ Unhidden' /\ Behind' /\ Proven'
      BY <1>2, <1>e DEF SelectedHonest, SelectedWhole, Placed, Unhidden, Behind, Proven, OnTest,
         Usable
    <2>2. Unharmed'
      BY <1>2, <1>e, <1>t DEF AfterMishap, Unharmed, OnTest, InService, Usable
    <2>3. QED BY <1>1, <2>1, <2>2 DEF AfterMishap
  <1>3. CASE /\ Decider.state \in {"new", "valid"} /\ Active' = Active
             /\ Decider' = Started(Decider) /\ Fallback' = Spent(Fallback)
    <2>1. /\ Decider'.part = Decider.part /\ Fallback'.part = Fallback.part
          /\ Decider'.state = IF Decider.state = "new" THEN "pending" ELSE "valid"
          /\ Fallback'.state = IF Fallback.state = "pending" THEN "aborted" ELSE Fallback.state
          /\ Usable(Decider) /\ Usable(Decider')
      BY <1>3, <1>e, <1>s DEF Usable
    <2>2. /\ Fresh(Decider.part)' <=> Fresh(Decider.part)
          /\ Fresh(Fallback.part)' <=> Fresh(Fallback.part)
          /\ Sound(Decider.part)' <=> Sound(Decider.part)
          /\ Sound(Fallback.part)' <=> Sound(Fallback.part)
      BY <1>t, <2>1 DEF Fresh, Sound
    <2>3. SelectedHonest'
      BY <1>t, <2>1, <2>2 DEF AfterMishap, SelectedHonest, Honest
    <2>4. SelectedWhole' /\ Placed'
      BY <1>r, <1>t, <2>1 DEF AfterMishap, SelectedWhole, Placed
    <2>5. Unhidden'
      BY <1>3, <1>t, <2>1, <2>2 DEF AfterMishap, Unhidden, OnTest
    <2>6. Proven'
      BY <1>3, <1>t, <2>1, <2>2 DEF AfterMishap, Proven, Loaded
    <2>7. Behind'
      <3>1. SUFFICES ASSUME OnTest(Decider'), Usable(Fallback'), Fallback'.part # Decider'.part
                     PROVE  \/ ~Fresh(Fallback.part) /\ flash[Fallback.part].whole
                            \/ Reselected'
        BY <1>t, <2>1, <2>2 DEF Behind, InService
      <3>2. OnTest(Decider) /\ Usable(Fallback) /\ Fallback.part # Decider.part
        BY <1>3, <2>1, <3>1 DEF OnTest, Usable
      <3>3. Reselected => Reselected'
        BY <1>t, <2>2 DEF Reselected
      <3>4. QED BY <3>2, <3>3 DEF AfterMishap, Behind
    <2>8. Unharmed'
      BY <1>3, <1>t, <2>1, <2>2 DEF AfterMishap, Unharmed, OnTest, InService, Usable
    <2>9. QED BY <1>1, <2>3, <2>4, <2>5, <2>6, <2>7, <2>8 DEF AfterMishap
  <1>4. CASE /\ Decider.state = "pending" /\ Fallback.state \in {"new", "valid"}
             /\ Decider' = Started(Fallback) /\ Fallback' = Spent(Decider)
    <2>1. /\ Decider'.part = Fallback.part /\ Fallback'.part = Decider.part
          /\ Fallback'.state = "aborted" /\ OnTest(Decider) /\ Usable(Decider) /\ Usable(Fallback)
          /\ Decider'.state = IF Fallback.state = "new" THEN "pending" ELSE "valid"
          /\ Usable(Decider')
      BY <1>4, <1>e, <1>s DEF Usable, OnTest
    <2>2. ~Fresh(Fallback.part) /\ flash[Fallback.part].whole
      <3>1. CASE Fallback.part # Decider.part
        BY <1>4, <1>t, <2>1, <3>1 DEF AfterMishap, Behind, Reselected
      <3>2. CASE Fallback.part = Decider.part
        BY <1>4, <2>1, <3>2 DEF AfterMishap, Unhidden, SelectedWhole
      <3>3. QED BY <3>1, <3>2
    <2>3. ~Fresh(Decider.part)' /\ (Sound(Decider.part)' <=> Sound(Fallback.part))
      BY <1>t, <2>1, <2>2 DEF Fresh, Sound
    <2>4. /\ SelectedHonest' /\ SelectedWhole' /\ Placed' /\ Unhidden' /\ Behind' /\ Proven'
      BY <1>r, <1>t, <2>1, <2>2, <2>3 DEF SelectedHonest, SelectedWhole, Placed, Unhidden, Behind,
         Proven, Usable
    <2>5. Unharmed'
      <3>1. faults = 0 /\ crashes = 0 => Sound(Fallback.part) /\ Fallback.part # Decider.part
        BY <1>4, <1>t, <2>1 DEF AfterMishap, Unharmed, InService
      <3>2. QED BY <1>t, <2>1, <2>3, <3>1 DEF Unharmed, InService, Usable
    <2>6. QED BY <1>1, <2>4, <2>5 DEF AfterMishap
  <1>5. CASE /\ Decider.state = "pending" /\ Fallback.state \notin {"new", "valid"}
             /\ ~Usable(Decider') /\ ~Usable(Fallback')
             /\ Fallback.state = "blank" => Fallback'.state = "blank"
    <2>1. /\ SelectedHonest' /\ SelectedWhole' /\ Placed' /\ Unhidden' /\ Behind' /\ Proven'
      BY <1>5 DEF SelectedHonest, SelectedWhole, Placed, Unhidden, Behind, Proven, OnTest, Usable
    <2>2. Unharmed'
      <3>1. faults = 0 /\ crashes = 0 => Fallback.state = "blank"
        BY <1>5, <1>e, <1>t DEF AfterMishap, Unharmed, OnTest, InService, OtaEntry
      <3>2. QED BY <1>5, <1>t, <3>1 DEF Unharmed, OnTest, InService, Usable
    <2>3. QED BY <1>1, <2>1, <2>2 DEF AfterMishap
  <1>6. QED BY <1>2, <1>3, <1>4, <1>5, <1>t, PowerOnView

\* A reset: what was selected stays so.
LEMMA OffStory ==
    ASSUME Inv, Intact, AfterMishap, PowerOff, phase # "off",
           UNCHANGED <<flash, otadata, lead, running, healthy>>, cmd'.image = cmd.image,
           Usable(Decider) /\ Fresh(Decider.part) /\ Honest => Honest', Proven',
           faults' = 0 /\ crashes' = 0 =>
              /\ faults = 0 /\ crashes = 0
              /\ (phase \in {"startup", "rollback"} /\ ~Fit) \/ job = "restart",
           Reselected /\ Usable(Decider) =>
              phase = "up" /\ job # "restart" /\ crashes' = 1 /\ crashes = 0 /\ faults' = faults
    PROVE  AfterMishap'
  <1>t. phase' = "off" /\ job' = "none" /\ CoreTypes
    BY DEF PowerOff, Inv, Core
  <1>e. /\ Decider \in OtaEntry /\ Fallback \in OtaEntry /\ Other(running) # running
        /\ Usable(Decider) <=> OnTest(Decider) \/ Decider.state = "valid"
        /\ Usable(Fallback) <=> OnTest(Fallback) \/ Fallback.state = "valid"
    BY <1>t, Entries
  <1>k. /\ Decider' = Decider /\ Fallback' = Fallback /\ Active' = Active
        /\ Fresh(Decider.part)' <=> Fresh(Decider.part)
        /\ Fresh(Fallback.part)' <=> Fresh(Fallback.part)
        /\ Sound(Decider.part)' <=> Sound(Decider.part)
        /\ Sound(Fallback.part)' <=> Sound(Fallback.part)
    BY SameView
  <1>1. Progress' /\ Selecting' /\ Placed'
    BY <1>t DEF Progress, Selecting, Placed
  <1>2. SelectedHonest' /\ SelectedWhole'
    BY <1>k DEF AfterMishap, SelectedHonest, SelectedWhole
  <1>3. Unhidden'
    BY <1>k, <1>t DEF AfterMishap, Unhidden, OnTest
  <1>4. Behind'
    <2>1. SUFFICES ASSUME OnTest(Decider), Usable(Fallback), Fallback.part # Decider.part
                   PROVE  \/ ~Fresh(Fallback.part) /\ flash[Fallback.part].whole
                          \/ Reselected'
      BY <1>k, <1>t DEF Behind, InService, OnTest
    <2>2. Reselected => Reselected'
      BY <1>e, <1>k, <1>t, <2>1 DEF Reselected, Sound
    <2>3. QED BY <2>1, <2>2 DEF AfterMishap, Behind
  <1>5. Unharmed'
    <2>1. SUFFICES ASSUME faults' = 0, crashes' = 0 PROVE Unharmed'
      BY DEF Unharmed
    <2>2. faults = 0 /\ crashes = 0 /\ Unharmed
      BY <2>1 DEF AfterMishap
    <2>3. CASE phase \in {"startup", "rollback"} /\ ~Fit
      <3>1. ~InService /\ ~InService'
        BY <1>t, <2>3 DEF InService
      <3>2. Usable(Decider) => Decider.part = running
        BY <2>3 DEF AfterMishap, Placed
      <3>3. ~(OnTest(Decider) /\ Fallback.state = "aborted")
        BY <1>e, <2>2, <2>3, <3>1, <3>2 DEF Unharmed, Sound, Fit
      <3>4. QED BY <1>k, <2>2, <3>1, <3>3 DEF Unharmed, OnTest
    <2>4. CASE job = "restart"
      <3>1. phase = "up" /\ InService
        BY <2>4 DEF Inv, Core, Trial, InService
      <3>2. Sound(running)
        BY <2>2, <3>1, UnharmedIsSound
      <3>3. /\ Decider = [part |-> Other(running), state |-> "new"]
            /\ Usable(Fallback) => Fallback.part = running
            /\ Fallback.state # "aborted"
        BY <2>2, <2>4 DEF AfterMishap, Selecting
      <3>4. Fallback.state # "blank" => Usable(Fallback)
        BY <3>3 DEF Usable
      <3>5. Decider.part = Other(running)
        BY <3>3
      <3>6. QED BY <1>e, <1>k, <1>t, <2>2, <3>2, <3>3, <3>4, <3>5 DEF Unharmed, InService, Sound
    <2>5. QED BY <2>1, <2>3, <2>4
  <1>6. QED BY <1>1, <1>2, <1>3, <1>4, <1>5 DEF AfterMishap

\* esp_ota_get_state_partition() finds the trial unless an entry before it hides it.
LEMMA TrialIsRead ==
    ASSUME CoreTypes, Decider.state = "pending", Decider.part = running,
           Fallback.part # running \/ Fallback.state = "blank" \/ Active = 0
    PROVE  StateRead = "pending"
  <1>1. /\ Active \in {0, 1} /\ Other(Active) \in {0, 1} /\ Other(Active) # Active
        /\ \A s \in {0, 1} : s = Active \/ s = Other(Active)
    BY TwoSectors
  <1>2. /\ Named \subseteq {0, 1} /\ Active \in Named
        /\ Fallback.part # running \/ Fallback.state = "blank" => Other(Active) \notin Named
    BY <1>1 DEF Named, Sectors, Decider, Fallback
  <1>3. \A r \in Named : Active <= r
    BY <1>1, <1>2
  <1>4. \A s \in Named : (\A r \in Named : s <= r) => s = Active
    BY <1>1, <1>2, <1>3
  <1>5. (CHOOSE s \in Named : \A r \in Named : s <= r) = Active
    BY <1>2, <1>3, <1>4
  <1>6. QED BY <1>2, <1>5 DEF StateRead, Decider

LEMMA ReadyStory ==
    ASSUME Inv, Numbered, Intact, AfterMishap, Ready
    PROVE  AfterMishap'
  <1>t. /\ Core /\ CoreTypes /\ phase = "startup" /\ job' = "none"
        /\ UNCHANGED <<flash, otadata, lead, running, healthy, cmd, saved, ck, faults, crashes>>
        /\ phase' = IF StateRead = "pending" THEN "validate" ELSE "reconcile"
        /\ Decider.state # "new" /\ running = Chosen
    BY DEF Inv, Core, Ready, BootOnly, Trial, bounds, Decider
  <1>e. /\ Decider \in OtaEntry /\ Fallback \in OtaEntry
        /\ Usable(Decider) <=> OnTest(Decider) \/ Decider.state = "valid"
        /\ OnTest(Decider) => Decider.state = "pending"
    BY <1>t, Entries DEF OnTest
  <1>k. /\ Decider' = Decider /\ Fallback' = Fallback /\ Active' = Active
        /\ Fit' <=> Fit
        /\ Fresh(Decider.part)' <=> Fresh(Decider.part)
        /\ Fresh(Fallback.part)' <=> Fresh(Fallback.part)
        /\ Sound(Decider.part)' <=> Sound(Decider.part)
        /\ Sound(Fallback.part)' <=> Sound(Fallback.part)
    BY <1>t, SameView
  <1>p. Usable(Decider) => Decider.part = running
    BY <1>t DEF AfterMishap, Placed
  <1>r. phase' = "reconcile" /\ OnTest(Decider) =>
           Fallback.part = running /\ Fallback.state # "blank" /\ Active # 0
    BY <1>e, <1>p, <1>t, TrialIsRead
  <1>1. Progress' /\ Selecting' /\ SelectedHonest' /\ SelectedWhole' /\ Placed' /\ Proven'
    BY <1>k, <1>p, <1>t DEF AfterMishap, Progress, Selecting, SelectedHonest, Honest,
       SelectedWhole, Placed, Proven, Loaded
  <1>2. Unhidden'
    BY <1>e, <1>k, <1>p, <1>r, <1>t DEF AfterMishap, Unhidden, OnTest
  <1>3. Behind'
    <2>1. Reselected /\ phase' = "validate" => Reselected'
      BY <1>k, <1>t DEF Reselected
    <2>2. QED BY <1>e, <1>k, <1>p, <1>r, <1>t, <2>1 DEF AfterMishap, Behind, InService, OnTest
  <1>4. Unharmed'
    <2>1. SUFFICES ASSUME faults = 0, crashes = 0 PROVE Unharmed'
      BY <1>t DEF Unharmed
    <2>2. Unharmed /\ ~InService
      BY <1>t DEF AfterMishap, InService
    <2>3. CASE phase' = "validate"
      BY <1>k, <1>t, <2>1, <2>2, <2>3 DEF Unharmed, InService, OnTest
    <2>4. CASE phase' = "reconcile"
      <3>1. Decider.state # "pending"
        BY <1>e, <1>p, <1>r, <2>1, <2>2, <2>4 DEF Unharmed, OnTest, Usable
      <3>2. Fit
        <4>1. CASE Usable(Decider)
          <5>1. Decider.state = "valid"
            BY <1>e, <3>1, <4>1
          <5>2. QED BY <1>p, <1>t, <4>1, <5>1 DEF Core, Confirmed, Decider, Sound, Fit
        <4>2. CASE ~Usable(Decider)
          <5>1. Fallback.state = "blank" /\ Decider.state # "valid"
            BY <1>e, <2>1, <2>2, <4>2 DEF Unharmed
          <5>2. Sound(0)
            BY <1>t, <5>1, BlankBehind
          <5>3. running = 0
            <6>1. ~Deciding
              BY <1>t, <4>2, Entries
            <6>2. QED BY <1>t, <5>2, <6>1 DEF Chosen, Selected, Sound
          <5>4. QED BY <5>2, <5>3 DEF Sound, Fit
        <4>3. QED BY <4>1, <4>2
      <3>3. QED BY <1>k, <2>1, <2>2, <2>4, <3>1, <3>2 DEF Unharmed, InService
    <2>5. QED BY <1>t, <2>3, <2>4
  <1>5. QED BY <1>1, <1>2, <1>3, <1>4 DEF AfterMishap

\* The outcome of the validation is recorded.
LEMMA ValidateStory ==
    ASSUME Inv, AfterMishap, ValidateRecords \/ RollbackRecords
    PROVE  AfterMishap'
  <1>t. /\ phase = "validate" /\ phase' \in {"confirm", "rollback"} /\ job' = "none"
        /\ UNCHANGED <<flash, otadata, lead, running, healthy, cmd, saved, faults, crashes>>
        /\ Decider.state = "pending" /\ Decider.part = running
    BY DEF Inv, Core, ValidateRecords, RollbackRecords, BootOnly, Trial, bounds, Decider
  <1>k. /\ Decider' = Decider /\ Fallback' = Fallback /\ Active' = Active
        /\ Fresh(Decider.part)' <=> Fresh(Decider.part)
        /\ Fresh(Fallback.part)' <=> Fresh(Fallback.part)
        /\ Sound(Decider.part)' <=> Sound(Decider.part)
        /\ Sound(Fallback.part)' <=> Sound(Fallback.part)
    BY <1>t, SameView
  <1>1. Progress' /\ Selecting' /\ SelectedHonest' /\ SelectedWhole' /\ Placed' /\ Proven'
    BY <1>k, <1>t DEF AfterMishap, Progress, Selecting, SelectedHonest, Honest,
       SelectedWhole, Placed, Proven
  <1>2. Unhidden'
    BY <1>k, <1>t DEF AfterMishap, Unhidden, OnTest
  <1>3. Behind'
    <2>1. Reselected => Reselected'
      BY <1>k, <1>t DEF Reselected
    <2>2. QED BY <1>k, <1>t, <2>1 DEF AfterMishap, Behind, InService, OnTest
  <1>4. Unharmed'
    BY <1>k, <1>t DEF AfterMishap, Unharmed, InService, OnTest
  <1>5. QED BY <1>1, <1>2, <1>3, <1>4 DEF AfterMishap

\* A confirmed update has its checkpoint.
LEMMA ConfirmStory ==
    ASSUME Inv, Recorded, Intact, AfterMishap, phase = "confirm", phase' = "reconcile",
           otadata' = [otadata EXCEPT ![Active].state = "valid"],
           UNCHANGED <<flash, lead, running, healthy, cmd, saved, ck, job, faults, crashes>>
    PROVE  AfterMishap'
  <1>t. /\ Core /\ CoreTypes /\ Active \in Sectors /\ Other(Active) \in Sectors
        /\ Other(Active) # Active /\ job = "none" /\ Fit
        /\ Decider = [part |-> running, state |-> "pending"] /\ lead \in {0, 1}
    BY TwoSectors DEF Inv, Core, Trial, Sectors, Decider, CoreTypes
  <1>1. /\ otadata'[Active] = [part |-> running, state |-> "valid"]
        /\ otadata'[Other(Active)] = otadata[Other(Active)]
    BY <1>t DEF CoreTypes, OtaEntry, Decider
  <1>2. Active' = Active
    BY <1>t, <1>1 DEF Sectors, Active, ActiveOf, Usable, Other, Decider
  <1>3. Decider' = [part |-> running, state |-> "valid"] /\ Fallback' = Fallback
    BY <1>1, <1>2 DEF Decider, Fallback
  <1>4. /\ Decider'.part = Decider.part /\ Decider'.part = running /\ Decider'.state = "valid"
        /\ Usable(Decider) /\ Decider.part = running
    BY <1>3, <1>t DEF Usable
  <1>5. Fresh(Decider.part)' <=> Fresh(Decider.part)
    BY <1>4 DEF Fresh
  <1>6. Progress' /\ Selecting' /\ Placed' /\ SelectedWhole'
    BY <1>4, <1>t DEF Progress, Selecting, Placed, SelectedWhole, Intact
  <1>7. SelectedHonest'
    BY <1>4, <1>5 DEF AfterMishap, SelectedHonest, Honest
  <1>8. Unhidden' /\ Behind'
    BY <1>4 DEF Unhidden, Behind, OnTest
  <1>9. Proven'
    BY DEF Proven, Recorded, Loaded
  <1>10. Unharmed'
    BY <1>3, <1>4, <1>t DEF AfterMishap, Unharmed, InService, OnTest, Usable, Fit
  <1>11. QED BY <1>6, <1>7, <1>8, <1>9, <1>10 DEF AfterMishap

\* The rollback: what stands behind the update is not it.
LEMMA RollBackStory ==
    ASSUME Inv, Recorded, AfterMishap, phase = "rollback", Returnable, PowerOff,
           otadata' = [otadata EXCEPT ![Active].state = "aborted"],
           UNCHANGED <<flash, lead, running, healthy, cmd, saved, ck, faults, crashes>>
    PROVE  AfterMishap'
  <1>t. /\ Core /\ CoreTypes /\ Active \in Sectors /\ Other(Active) \in Sectors
        /\ Other(Active) # Active /\ job' = "none" /\ phase' = "off" /\ ~Fit
        /\ Decider = [part |-> running, state |-> "pending"] /\ lead \in {0, 1}
        /\ Usable(Fallback) /\ flash[Fallback.part].whole
        /\ Other(Other(Active)) = Active
    BY TwoSectors
       DEF Inv, Core, Trial, Sectors, Decider, CoreTypes, PowerOff, Recorded, Returnable, Other
  <1>1. /\ otadata'[Active] = [part |-> running, state |-> "aborted"]
        /\ otadata'[Other(Active)] = otadata[Other(Active)]
    BY <1>t DEF CoreTypes, OtaEntry, Decider
  <1>2. Active' = Other(Active)
    <2>1. Active = lead
      BY <1>t DEF Active, ActiveOf, Fallback, Sectors, Other
    <2>2. QED BY <1>1, <1>t, <2>1 DEF Active, ActiveOf, Usable, Fallback
  <1>3. Decider' = Fallback /\ Fallback' = [part |-> running, state |-> "aborted"]
    BY <1>1, <1>2, <1>t DEF Decider, Fallback
  <1>4. /\ Fallback'.state = "aborted" /\ Fallback'.part = running
        /\ OnTest(Decider) /\ Decider.part = running /\ Decider.state = "pending"
    BY <1>3, <1>t DEF OnTest
  <1>5. ~Fresh(Fallback.part)
    <2>1. CASE Fallback.part # Decider.part
      <3>1. ~Sound(Decider.part)
        BY <1>4, <1>t DEF Sound, Fit
      <3>2. QED BY <1>4, <1>t, <2>1, <3>1 DEF AfterMishap, Behind, Reselected
    <2>2. CASE Fallback.part = Decider.part
      BY <1>4, <1>t, <2>2 DEF AfterMishap, Unhidden, Usable
    <2>3. QED BY <2>1, <2>2
  <1>6. ~Fresh(Decider.part)' /\ (Sound(Decider.part)' <=> Sound(Fallback.part))
    BY <1>3, <1>5 DEF Fresh, Sound
  <1>7. Progress' /\ Selecting' /\ Placed' /\ SelectedWhole'
    BY <1>3, <1>t DEF Progress, Selecting, Placed, SelectedWhole
  <1>8. SelectedHonest' /\ Unhidden' /\ Behind' /\ Proven'
    BY <1>4, <1>6 DEF SelectedHonest, Unhidden, Behind, Proven, Usable
  <1>9. Unharmed'
    <2>1. SUFFICES ASSUME faults = 0, crashes = 0 PROVE Unharmed'
      BY DEF Unharmed
    <2>2. /\ Fallback.state # "pending" /\ Sound(Fallback.part) /\ Fallback.part # running
      BY <1>4, <1>t, <2>1 DEF AfterMishap, Unharmed, InService, Usable
    <2>3. QED BY <1>3, <1>4, <1>6, <1>t, <2>2 DEF Unharmed, InService, OnTest, Usable
  <1>10. QED BY <1>7, <1>8, <1>9 DEF AfterMishap

\* The load of the checkpoint leaves one that says VALID alone.
LEMMA InitialiseKeeps ==
    ASSUME Initialise, Loaded.stage = "valid"
    PROVE  ck' = ck
  BY DEF Initialise, Loaded, Next1, ZeroCheckpoint

\* In reconciliation a selected update was confirmed, so what the ledger gets is not a failure.
LEMMA OutcomeIsHonest ==
    ASSUME Inv, AfterMishap, phase = "reconcile", Usable(Decider), Fresh(Decider.part)
    PROVE  /\ Honest /\ Decider.state = "valid"
           /\ Interrupted => Outcome = "succeeded" /\ Loaded.stage = "valid"
  <1>t. CoreTypes
    BY DEF Inv, Core
  <1>1. Honest
    BY DEF AfterMishap, SelectedHonest
  <1>2. Decider.state = "valid"
    BY <1>t, Entries DEF AfterMishap, Unhidden
  <1>3. Interrupted => Loaded.stage = "valid"
    BY <1>2 DEF AfterMishap, Proven, Interrupted
  <1>4. cmd.state # "accepted"
    BY <1>1 DEF Honest, NotGivenUp
  <1>5. QED BY <1>1, <1>2, <1>3, <1>4 DEF Outcome

\* Reconciliation ends the boot.
LEMMA ReconcileStory ==
    ASSUME Inv, Numbered, Intact, AfterMishap, Reconcile, phase' = "up"
    PROVE  AfterMishap'
  <1>t. /\ Core /\ CoreTypes /\ RecordTypes /\ phase = "reconcile" /\ job = "none" /\ Initialise
        /\ UNCHANGED <<flash, otadata, lead, running, healthy, job, faults, crashes>>
        /\ \/ Interrupted /\ LedgerSaves(Outcome)
           \/ UNCHANGED <<cmd, saved>>
    BY DEF Inv, Core, Reconcile, BootOnly, Trial, bounds, NoFault, Restarts, PowerOff
  <1>c. cmd'.image = cmd.image
    BY <1>t, LedgerNumber DEF Numbered
  <1>e. /\ Decider \in OtaEntry /\ Usable(Decider) <=> OnTest(Decider) \/ Decider.state = "valid"
    BY <1>t, Entries
  <1>k. /\ Decider' = Decider /\ Fallback' = Fallback /\ Active' = Active
        /\ Fit' <=> Fit
        /\ Fresh(Decider.part)' <=> Fresh(Decider.part)
        /\ Fresh(Fallback.part)' <=> Fresh(Fallback.part)
        /\ Sound(Decider.part)' <=> Sound(Decider.part)
        /\ Sound(Fallback.part)' <=> Sound(Fallback.part)
    BY <1>c, <1>t, SameView
  <1>p. Usable(Decider) => Decider.part = running
    BY <1>t DEF AfterMishap, Placed
  <1>1. Progress' /\ Selecting' /\ SelectedWhole' /\ Placed'
    BY <1>k, <1>p, <1>t DEF AfterMishap, Progress, Selecting, SelectedWhole, Placed
  <1>2. SelectedHonest'
    <2>1. SUFFICES ASSUME Usable(Decider), Fresh(Decider.part) PROVE Honest'
      BY <1>k DEF SelectedHonest
    <2>2. Honest /\ (Interrupted => Outcome = "succeeded")
      BY <1>t, <2>1, OutcomeIsHonest
    <2>3. Interrupted /\ LedgerSaves(Outcome) => cmd'.state = "succeeded" /\ saved'.state = "succeeded"
      BY <1>t, <2>2 DEF LedgerSaves, RecordTypes
    <2>4. QED BY <1>t, <2>2, <2>3 DEF Honest, NotGivenUp
  <1>3. Unhidden'
    BY <1>k, <1>t DEF AfterMishap, Unhidden, OnTest
  <1>4. Behind'
    BY <1>k, <1>t DEF AfterMishap, Behind, Reselected, InService, OnTest
  <1>5. Unharmed'
    BY <1>k, <1>t DEF AfterMishap, Unharmed, InService, OnTest
  <1>6. Proven'
    <2>1. SUFFICES ASSUME Decider.state = "valid", Fresh(Decider.part),
                 {cmd.state, saved.state}' \cap {"accepted", "running", "awaiting_reboot"} # {}
                   PROVE  Loaded'.stage = "valid"
      BY <1>k DEF Proven
    <2>2. Usable(Decider)
      BY <2>1 DEF Usable
    <2>3. Interrupted => Outcome = "succeeded"
      BY <1>t, <2>1, <2>2, OutcomeIsHonest
    <2>4. Interrupted /\ LedgerSaves(Outcome) => cmd'.state = "succeeded" /\ saved'.state = "succeeded"
      BY <1>t, <2>3 DEF LedgerSaves, RecordTypes
    <2>5. UNCHANGED <<cmd, saved>>
      BY <1>t, <2>1, <2>4
    <2>6. Loaded.stage = "valid"
      BY <2>1, <2>5 DEF AfterMishap, Proven
    <2>7. ck' = ck
      BY <1>t, <2>6, InitialiseKeeps
    <2>8. QED BY <2>6, <2>7 DEF Loaded
  <1>7. QED BY <1>1, <1>2, <1>3, <1>4, <1>5, <1>6 DEF AfterMishap

\* A reset that changes no record.
LEMMA PlainOff ==
    ASSUME Inv, Numbered, Intact, Recorded, AfterMishap, Next, OneMishap',
           PowerOff, UNCHANGED <<flash, otadata, lead, running, healthy, ck, cmd, saved>>,
           \/ phase \in {"startup", "rollback"} /\ ~Fit
           \/ job = "restart"
           \/ phase # "off" /\ Crash
           \/ phase = "confirm" /\ Fault
    PROVE  AfterMishap'
  <1>t. /\ RecordTypes /\ CoreTypes /\ phase # "off" /\ (job # "none" => phase = "up")
    BY DEF Inv, Core, Trial
  <1>m. /\ faults \in {0, 1} /\ crashes \in {0, 1}
        /\ \/ faults' = faults /\ crashes' = crashes /\ ~Crash
           \/ faults = 0 /\ faults' = 1 /\ crashes' = crashes /\ ~Crash
           \/ faults' = faults /\ crashes = 0 /\ crashes' = 1 /\ Crash
        /\ Fault => faults = 0 /\ faults' = 1
    BY <1>t, MishapView DEF Fault, RecordTypes
  <1>k. Decider' = Decider /\ (Fresh(Decider.part)' <=> Fresh(Decider.part))
    BY SameView
  <1>1. Usable(Decider) /\ Fresh(Decider.part) /\ Honest => Honest'
    BY DEF Honest
  <1>2. Proven'
    BY <1>k DEF AfterMishap, Proven, Loaded
  <1>3. faults' = 0 /\ crashes' = 0 =>
              /\ faults = 0 /\ crashes = 0
              /\ (phase \in {"startup", "rollback"} /\ ~Fit) \/ job = "restart"
    BY <1>m
  <1>4. ASSUME Reselected, Usable(Decider)
        PROVE  phase = "up" /\ job # "restart" /\ crashes' = 1 /\ crashes = 0 /\ faults' = faults
    <2>1. job # "restart"
      <3>1. SUFFICES ASSUME job = "restart" PROVE FALSE
        OBVIOUS
      <3>2. Decider.part = Other(running) /\ Other(running) # running
        BY <1>t, <3>1, Entries DEF AfterMishap, Selecting
      <3>3. QED BY <1>4, <1>t, <3>1, <3>2 DEF Reselected
    <2>2. ~(phase \in {"startup", "rollback"} /\ ~Fit)
      <3>1. SUFFICES ASSUME phase \in {"startup", "rollback"}, ~Fit PROVE FALSE
        OBVIOUS
      <3>2. Decider.part = running
        BY <1>4, <1>t, <3>1 DEF AfterMishap, Placed
      <3>3. QED BY <1>4, <3>1, <3>2 DEF Reselected, Sound, Fit
    <2>3. ~Fault
      BY <1>4, <1>m DEF Reselected
    <2>4. Crash
      BY <2>1, <2>2, <2>3
    <2>5. QED BY <1>4, <1>m, <2>1, <2>4 DEF Reselected
  <1>5. QED BY <1>1, <1>2, <1>3, <1>4, <1>t, OffStory

\* A reset because a record could not be written.
LEMMA FaultOff ==
    ASSUME Inv, Numbered, Intact, AfterMishap, Next, OneMishap', Fault, phase # "off",
           PowerOff, UNCHANGED <<flash, otadata, lead, running, healthy>>, cmd'.image = cmd.image,
           Usable(Decider) /\ Fresh(Decider.part) /\ Honest => Honest', Proven'
    PROVE  AfterMishap'
  <1>1. faults = 0 /\ faults' = 1
    BY MishapView DEF Inv, RecordTypes, Fault
  <1>2. ~Reselected
    BY <1>1 DEF Reselected
  <1>3. QED BY <1>1, <1>2, OffStory

LEMMA ValidateOffStory ==
    ASSUME Inv, Numbered, Intact, AfterMishap, ValidateFails, OneMishap'
    PROVE  AfterMishap'
  <1>t. /\ phase = "validate" /\ Decider.state = "pending" /\ Fault /\ PowerOff
        /\ UNCHANGED <<flash, otadata, lead, running, healthy, cmd, saved>> /\ Next
    BY DEF Inv, Core, Trial, Decider, ValidateFails, StoreFails, Restarts, Next, Boot
  <1>1. Decider' = Decider
    BY <1>t, SameView
  <1>2. Proven'
    BY <1>1, <1>t DEF Proven
  <1>3. Usable(Decider) /\ Fresh(Decider.part) /\ Honest => Honest'
    BY <1>t DEF Honest
  <1>4. QED BY <1>2, <1>3, <1>t, FaultOff

LEMMA ReconcileOffStory ==
    ASSUME Inv, Numbered, Intact, AfterMishap, Reconcile, phase' # "up", OneMishap'
    PROVE  AfterMishap'
  <1>t. /\ phase = "reconcile" /\ Fault /\ PowerOff /\ Initialise /\ Interrupted /\ RecordTypes
        /\ cmd' = cmd /\ saved' \in {saved, [cmd EXCEPT !.state = Outcome]}
        /\ UNCHANGED <<flash, otadata, lead, running, healthy>> /\ Next
    BY DEF Inv, Reconcile, LedgerFails, Restarts, Next, Boot
  <1>k. Decider' = Decider /\ (Fresh(Decider.part)' <=> Fresh(Decider.part))
    BY <1>t, SameView
  <1>1. Usable(Decider) /\ Fresh(Decider.part) => Outcome = "succeeded" /\ Loaded.stage = "valid"
    BY <1>t, OutcomeIsHonest
  <1>2. Usable(Decider) /\ Fresh(Decider.part) /\ Honest => Honest'
    BY <1>1, <1>t DEF Honest, NotGivenUp, RecordTypes
  <1>3. Proven'
    <2>1. SUFFICES ASSUME Decider.state = "valid", Fresh(Decider.part)
                   PROVE  Loaded'.stage = "valid"
      BY <1>k DEF Proven
    <2>2. Loaded.stage = "valid"
      BY <1>1, <2>1 DEF Usable
    <2>3. ck' = ck
      BY <1>t, <2>2, InitialiseKeeps
    <2>4. QED BY <2>2, <2>3 DEF Loaded
  <1>4. QED BY <1>2, <1>3, <1>t, FaultOff
LEMMA TaskStory ==
    ASSUME Inv, Numbered, Numbered', Intact, Recorded, AfterMishap, OtaTask, OneMishap'
    PROVE  AfterMishap'
  <1>n. Next
    BY DEF Next
  <1>1. CASE Quiet
    BY <1>1, QuietStory
  <1>2. CASE Erase \/ Verify
    BY <1>2, FlashStory
  <1>3. CASE Select /\ ~Quiet
    <2>1. SetBoot(Other(running)) /\ job' = "record" /\ NoFault
      BY <1>3 DEF Select, Quiet
    <2>2. QED BY <1>3, <2>1, SelectStory
  <1>4. CASE Record /\ ~Quiet
    <2>1. SetBoot(running) /\ job' = "abort" /\ Fault
      BY <1>4 DEF Record, Quiet, NotPersisted, StoreFails
    <2>2. QED BY <1>4, <2>1, ReselectStory
  <1>5. CASE Cancel /\ ~Quiet
    <2>1. SetBoot(running) /\ job' = "cancel_record" /\ NoFault
      BY <1>5 DEF Cancel, Quiet
    <2>2. QED BY <1>5, <2>1, ReselectStory
  <1>6. CASE Restart
    BY <1>6, <1>n, PlainOff DEF Restart, Restarts, KeepLedger
  <1>7. QED BY <1>1, <1>2, <1>3, <1>4, <1>5, <1>6 DEF OtaTask, Quiet

LEMMA BootStory ==
    ASSUME Inv, Numbered, Intact, Recorded, AfterMishap, Boot, OneMishap'
    PROVE  AfterMishap'
  <1>n. Next
    BY DEF Next
  <1>1. CASE PowerOn
    BY <1>1, PowerOnStory
  <1>2. CASE StartupFails
    BY <1>2, <1>n, PlainOff DEF StartupFails, Restarts
  <1>3. CASE Ready
    BY <1>3, ReadyStory
  <1>4. CASE ValidateRecords \/ RollbackRecords
    BY <1>4, ValidateStory
  <1>5. CASE ValidateFails
    BY <1>5, ValidateOffStory
  <1>6. CASE Confirm
    <2>1. CASE phase' = "reconcile"
      BY <1>6, <2>1, ConfirmStory DEF Confirm, NoFault, bounds, BootOnly, Restarts, PowerOff
    <2>2. CASE phase' # "reconcile"
      BY <1>6, <1>n, <2>2, PlainOff DEF Confirm, Restarts
    <2>3. QED BY <2>1, <2>2
  <1>7. CASE RollBack
    <2>1. CASE Returnable /\ otadata' = [otadata EXCEPT ![Active].state = "aborted"] /\ NoFault
      BY <1>7, <2>1, RollBackStory DEF RollBack, NoFault, bounds, Restarts
    <2>2. CASE UNCHANGED otadata
      <3>1. phase = "rollback" /\ ~Fit
        BY <1>7 DEF RollBack, Recorded
      <3>2. QED BY <1>7, <1>n, <2>2, <3>1, PlainOff DEF RollBack, Restarts
    <2>3. QED BY <1>7, <2>1, <2>2 DEF RollBack
  <1>8. CASE Reconcile
    BY <1>8, ReconcileStory, ReconcileOffStory
  <1>9. QED BY <1>1, <1>2, <1>3, <1>4, <1>5, <1>6, <1>7, <1>8 DEF Boot

LEMMA StoryStep ==
    ASSUME Inv, Story, [Next]_vars
    PROVE  Story'
  <1>s. Numbered /\ Intact /\ Original /\ Recorded
    BY DEF Story
  <1>1. CASE Next
    <2>1. Numbered' /\ Intact' /\ Original' /\ Recorded'
      BY <1>1, <1>s, NumberedStep, IntactStep, OriginalStep, RecordedStep
    <2>2. ASSUME OneMishap' PROVE AfterMishap'
      <3>1. AfterMishap
        BY <1>1, <2>2, MishapView DEF Inv, Story
      <3>2. CASE Boot
        BY <1>s, <2>2, <3>1, <3>2, BootStory
      <3>3. CASE Accept
        BY <1>s, <2>1, <3>1, <3>3, AcceptStory
      <3>4. CASE OtaTask
        BY <1>s, <2>1, <2>2, <3>1, <3>4, TaskStory
      <3>5. CASE Crash
        BY <1>1, <1>s, <2>2, <3>1, <3>5, PlainOff DEF Crash, flashVars
      <3>6. QED BY <1>1, <3>2, <3>3, <3>4, <3>5 DEF Next
    <2>3. QED BY <2>1, <2>2 DEF Story
  <1>2. CASE UNCHANGED vars
    <2>1. /\ UNCHANGED <<flash, otadata, lead, running, healthy, ck, cmd, saved, job, phase>>
          /\ UNCHANGED <<faults, crashes>>
      BY <1>2 DEF vars, flashVars, bounds
    <2>2. /\ Decider' = Decider /\ Fallback' = Fallback /\ Active' = Active
          /\ Fit' <=> Fit
          /\ Fresh(Decider.part)' <=> Fresh(Decider.part)
          /\ Fresh(Fallback.part)' <=> Fresh(Fallback.part)
          /\ Fresh(running)' <=> Fresh(running)
          /\ Sound(Decider.part)' <=> Sound(Decider.part)
          /\ Sound(Fallback.part)' <=> Sound(Fallback.part)
          /\ Sound(running)' <=> Sound(running)
      BY <2>1, SameView
    <2>3. Numbered' /\ Intact' /\ Original' /\ Recorded'
      BY <1>s, <2>1, <2>2 DEF Numbered, Intact, Original, Recorded, Fresh, Loaded
    <2>4. /\ OneMishap' <=> OneMishap
          /\ InService' <=> InService
          /\ Honest' <=> Honest
          /\ Reselected' <=> Reselected
      BY <2>1, <2>2 DEF OneMishap, InService, Honest, Reselected
    <2>5. AfterMishap => AfterMishap'
      <3>1. SUFFICES ASSUME AfterMishap PROVE AfterMishap'
        OBVIOUS
      <3>2. Progress' /\ SelectedHonest' /\ Unhidden' /\ SelectedWhole'
        BY <2>1, <2>2, <2>4, <3>1 DEF AfterMishap, Progress, SelectedHonest, Unhidden,
           SelectedWhole, OnTest
      <3>3. Unharmed' /\ Behind'
        BY <2>1, <2>2, <2>4, <3>1 DEF AfterMishap, Unharmed, Behind, OnTest
      <3>4. Placed' /\ Selecting' /\ Proven'
        BY <2>1, <2>2, <2>4, <3>1 DEF AfterMishap, Placed, Selecting, Proven, Loaded
      <3>5. QED BY <3>2, <3>3, <3>4 DEF AfterMishap
    <2>6. QED BY <2>3, <2>4, <2>5 DEF Story
  <1>3. QED BY <1>1, <1>2

LEMMA InitStory == Init => Story
  <1>1. SUFFICES ASSUME Init PROVE Story
    OBVIOUS
  <1>2. /\ cmd.image = 0 /\ cmd.state = "none" /\ saved.image = 0 /\ saved.state = "none"
        /\ flash[0].image = 0 /\ flash[1].image = 0 /\ flash[0].whole
        /\ job = "none" /\ phase = "off"
        /\ otadata[0].state = "blank" /\ otadata[1].state = "blank" /\ lead = 0
    BY <1>1 DEF Init, Partitions, Sectors, NoCommand
  <1>3. ~Usable(Decider) /\ ~OnTest(Decider) /\ Decider.state = "blank" /\ Fallback.state = "blank"
    BY <1>2 DEF Decider, Fallback, Active, ActiveOf, Usable, OnTest, Other
  <1>4. Numbered /\ Intact /\ Original /\ Recorded
    BY <1>2 DEF Numbered, Intact, Original, Recorded, Fresh, Partitions
  <1>5. Progress /\ SelectedHonest /\ Unhidden /\ SelectedWhole
    BY <1>2, <1>3 DEF Progress, SelectedHonest, Unhidden, SelectedWhole
  <1>6. Unharmed /\ Behind /\ Placed /\ Selecting /\ Proven
    BY <1>2, <1>3 DEF Unharmed, Behind, Placed, Selecting, Proven, InService
  <1>7. QED BY <1>4, <1>5, <1>6 DEF Story, AfterMishap

LEMMA StoryHolds == Spec => []Story
  <1>1. QED BY InitStory, StoryStep, Inductive, PTL DEF Spec

\* For every number of updates and every use of one fault and one reset: the
\* failure that reconcile_interrupted_commands() or ota_task() reports is true, the
\* image of the command is not the one that is running.
THEOREM FailedNotRunning == Spec => []FailedUpdateIsNotRunning
  <1>1. ASSUME Inv, Story PROVE FailedUpdateIsNotRunning
    <2>1. SUFFICES ASSUME Backed, OneMishap, Serving, cmd.state \in {"failed", "rolled_back"},
                          flash[running].image = cmd.image
                   PROVE  FALSE
      BY DEF FailedUpdateIsNotRunning
    <2>2. /\ AfterMishap /\ Numbered /\ Original /\ Core /\ CoreTypes /\ phase = "up"
      BY <1>1, <2>1 DEF Story, Inv, Core, Serving
    <2>3. Fresh(running)
      BY <2>1, <2>2 DEF Numbered, Fresh
    <2>4. CASE Usable(Decider)
      <3>1. Decider.part = running
        BY <2>2, <2>3, <2>4 DEF AfterMishap, Placed, Numbered
      <3>2. Honest
        BY <2>2, <2>3, <2>4, <3>1 DEF AfterMishap, SelectedHonest
      <3>3. QED BY <2>1, <3>2 DEF Honest, NotGivenUp
    <2>5. CASE ~Usable(Decider)
      <3>1. otadata[0].state # "valid" /\ otadata[1].state # "valid"
        BY <2>2, <2>5, TwoSectors DEF Usable, Decider
      <3>2. otadata[1].state = "blank"
        BY <2>1, <2>2, <3>1 DEF Backed, Sectors, Core, Factory
      <3>3. running = 0 /\ flash[0].image = 0
        BY <2>2, <3>1, <3>2 DEF Core, Factory, InService, Original
      <3>4. QED BY <2>3, <3>3 DEF Fresh
    <2>6. QED BY <2>4, <2>5
  <1>2. QED BY <1>1, Inductive, StoryHolds, PTL


=============================================================================
