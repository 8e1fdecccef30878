---------------------------- MODULE BacklogProofs ----------------------------
(***************************************************************************)
(* Theorems of BacklogDelivery for any number range, block size, segment   *)
(* size, batch and number of faults, timeouts and overlapping calls.  What *)
(* the device takes for acknowledged is what the server gave, however the  *)
(* calls into pm_sequence.c interleave.  Until two of them overlap, no     *)
(* number is handed out twice, an acknowledgement is not forgotten, power  *)
(* cuts alone leave a store that loads, a prefix given up as lost is       *)
(* really missing, and reclaiming deletes only what the server knows of.   *)
(***************************************************************************)
EXTENDS BacklogDelivery, SequenceProofs

-----------------------------------------------------------------------------
(* The acknowledgements the device holds anywhere: only an answer of the   *)
(* server adds one.  This part holds for calls that overlap, too.          *)

Acks == {0, best, ram.ack} \cup {slots[k].state.ack : k \in Keys}
          \cup {call[t].copy.ack : t \in Tasks}

\* What every copy of the state is made of, whoever changed it last.
Plain ==
  /\ slots \in [Keys -> [read : {"missing", "invalid", "ok"}, state : SequenceState]]
  /\ ram \in SequenceState /\ best \in 0 .. Limit
  /\ call \in [Tasks -> CallType]
  /\ \A t \in Tasks : call[t].op = "reserve" => call[t].copy.next < Limit

LEMMA CallAcks ==
    ASSUME Plain, NEW t \in Tasks, NEW c \in CallType, call' = [call EXCEPT ![t] = c],
           c.op = "reserve" => c.copy.next < Limit,
           UNCHANGED <<slots, ram, best>>
    PROVE  Plain' /\ Acks' \subseteq Acks \cup {c.copy.ack}
  <1>1. \A u \in Tasks : call'[u] = IF u = t THEN c ELSE call[u]
    BY DEF Plain
  <1>2. call' \in [Tasks -> CallType]
    BY DEF Plain
  <1>3. QED BY <1>1, <1>2 DEF Acks, Plain

LEMMA FailsAcks ==
    ASSUME Plain, NEW t \in Tasks, Fails(t), UNCHANGED <<ram, best>>,
           slots' \in [Keys -> [read : {"missing", "invalid", "ok"}, state : SequenceState]],
           \A k \in Keys : slots'[k].state.ack \in Acks
    PROVE  Plain' /\ Acks' \subseteq Acks
  <1> DEFINE c == IF t = "boot" THEN IdleCall ELSE [call[t] EXCEPT !.pc = "failed"]
  <1>1. call \in [Tasks -> CallType] /\ call[t] \in CallType
    BY DEF Plain
  <1>2. IdleCall.copy.ack = 0 /\ IdleCall.op # "reserve" /\ IdleCall \in CallType
    BY IdleCallType DEF IdleCall, Fresh
  <1>3. /\ [call[t] EXCEPT !.pc = "failed"].copy = call[t].copy
        /\ [call[t] EXCEPT !.pc = "failed"].op = call[t].op
        /\ [call[t] EXCEPT !.pc = "failed"] \in CallType
    BY <1>1 DEF CallType
  <1>4. /\ c \in CallType /\ c.copy.ack \in Acks
        /\ c.op = "reserve" => c.copy.next < Limit
        /\ call' = [call EXCEPT ![t] = c]
    <2>1. call[t].op = "reserve" => call[t].copy.next < Limit
      BY DEF Plain
    <2>2. call[t].copy.ack \in Acks /\ 0 \in Acks
      BY DEF Acks
    <2>3. QED BY <1>1, <1>2, <1>3, <2>1, <2>2 DEF Fails
  <1> HIDE DEF c
  <1>5. \A u \in Tasks : call'[u] = IF u = t THEN c ELSE call[u]
    BY <1>1, <1>4
  <1>6. call' \in [Tasks -> CallType]
    BY <1>1, <1>4
  <1>7. \A u \in Tasks : call'[u].copy.ack \in Acks
    BY <1>4, <1>5 DEF Acks
  <1>8. Acks' \subseteq Acks
    BY <1>7 DEF Acks
  <1>9. \A u \in Tasks : call'[u].op = "reserve" => call'[u].copy.next < Limit
    BY <1>4, <1>5 DEF Plain
  <1>10. QED BY <1>6, <1>8, <1>9 DEF Plain

LEMMA SlotAcks ==
    ASSUME Plain
    PROVE  /\ \A k \in Keys : slots[k].state.ack \in Acks
           /\ \A t \in Tasks : call[t] \in CallType /\ call[t].copy.ack \in Acks
           /\ 0 \in Acks /\ best \in Acks /\ ram.ack \in Acks
  BY DEF Plain, CallType, Acks

LEMMA StoreAcks == ASSUME Plain, StoreStep PROVE Plain' /\ Acks' \subseteq Acks
  <1>1. PICK t \in Tasks : Plan(t) \/ WriteSlot(t) \/ SelectSlot(t) \/ Assign(t)
    BY DEF StoreStep
  <1>t. /\ call \in [Tasks -> CallType] /\ call[t] \in CallType /\ call[t].key \in Keys
        /\ call[t].copy \in SequenceState
        /\ slots \in [Keys -> [read : {"missing", "invalid", "ok"}, state : SequenceState]]
        /\ call[t].op = "reserve" => call[t].copy.next < Limit
    BY DEF Plain, CallType
  <1>p. /\ Persisted(call[t].copy).ack = call[t].copy.ack
        /\ Persisted(call[t].copy).next = call[t].copy.next
        /\ Persisted(call[t].copy) \in SequenceState
    BY <1>t, PersistedType
  <1>2. CASE Plan(t)
    <2>1. UNCHANGED <<slots, ram, best>>
      BY <1>2 DEF Plan
    <2>2. CASE Fails(t)
      BY <1>t, <2>1, <2>2, FailsAcks, SlotAcks
    <2>3. CASE call' = [call EXCEPT ![t].pc = "planned", ![t].key = Inactive]
      <3> DEFINE c == [call[t] EXCEPT !.pc = "planned", !.key = Inactive]
      <3>1. c \in CallType /\ c.copy = call[t].copy /\ c.op = call[t].op
        BY <1>t DEF CallType, Inactive, Keys
      <3>2. call' = [call EXCEPT ![t] = c]
        BY <1>t, <2>3
      <3> HIDE DEF c
      <3>3. QED BY <1>t, <2>1, <3>1, <3>2, CallAcks, SlotAcks
    <2>4. QED BY <1>2, <2>2, <2>3 DEF Plan
  <1>3. CASE WriteSlot(t)
    <2> DEFINE new == Holding(Persisted(call[t].copy))
    <2>1. UNCHANGED <<ram, best>>
      BY <1>3 DEF WriteSlot
    <2>2. new.state.ack \in Acks /\ Unreadable.state.ack \in Acks
      BY <1>p, SlotAcks DEF Holding, Unreadable, Fresh
    <2>3. PICK left \in {slots[call[t].key], new, Unreadable} :
             slots' = [slots EXCEPT ![call[t].key] = left]
      BY <1>3 DEF WriteSlot
    <2>4. \A k \in Keys : slots'[k].state.ack \in Acks
      <3>1. left.state.ack \in Acks
        BY <1>t, <2>2, SlotAcks
      <3>2. QED BY <1>t, <2>3, <3>1, SlotAcks
    <2>8. slots' \in [Keys -> [read : {"missing", "invalid", "ok"}, state : SequenceState]]
      <3> DEFINE SlotType == [read : {"missing", "invalid", "ok"}, state : SequenceState]
      <3>1. new \in SlotType /\ Unreadable \in SlotType /\ slots[call[t].key] \in SlotType
        BY <1>t, <1>p, SlotTypes
      <3>2. left \in SlotType /\ slots \in [Keys -> SlotType]
        BY <1>t, <3>1
      <3> HIDE DEF SlotType
      <3>3. slots' \in [Keys -> SlotType]
        BY <1>t, <2>3, <3>2
      <3>4. QED BY <3>3 DEF SlotType
    <2>5. CASE Fails(t)
      BY <2>1, <2>4, <2>5, <2>8, FailsAcks
    <2>6. CASE call' = [call EXCEPT ![t].pc = "written"]
      <3>1. \A u \in Tasks : call'[u].copy = call[u].copy /\ call'[u].op = call[u].op
        BY <1>t, <2>6 DEF CallType
      <3>2. call' \in [Tasks -> CallType]
        BY <1>t, <2>6 DEF CallType
      <3>3. Acks' \subseteq Acks
        BY <2>1, <2>4, <3>1, SlotAcks DEF Acks
      <3>4. QED BY <2>1, <2>8, <3>1, <3>2, <3>3 DEF Plain
    <2>7. QED BY <1>3, <2>5, <2>6 DEF WriteSlot
  <1>4. CASE SelectSlot(t)
    <2>1. UNCHANGED <<slots, ram, best>>
      BY <1>4 DEF SelectSlot
    <2>2. CASE Fails(t)
      BY <1>t, <2>1, <2>2, FailsAcks, SlotAcks
    <2>3. CASE call' = [call EXCEPT ![t].pc = "selected"]
      <3>1. \A u \in Tasks : call'[u].copy = call[u].copy /\ call'[u].op = call[u].op
        BY <1>t, <2>3 DEF CallType
      <3>2. call' \in [Tasks -> CallType]
        BY <1>t, <2>3 DEF CallType
      <3>3. Acks' \subseteq Acks
        BY <2>1, <3>1 DEF Acks
      <3>4. QED BY <2>1, <3>1, <3>2, <3>3 DEF Plain
    <2>4. QED BY <1>4, <2>2, <2>3 DEF SelectSlot
  <1>5. CASE Assign(t)
    <2> DEFINE s == Persisted(call[t].copy)
               c == CASE call[t].op = "fresh" -> IdleCall
                      [] call[t].op = "reserve" ->
                           [call[t] EXCEPT !.pc = "copied", !.op = "allocate", !.copy = Allocated(s)]
                      [] OTHER -> [call[t] EXCEPT !.pc = "done"]
    <2>1. /\ slots' = slots /\ ram' = s /\ best' = IF s.ack > best THEN s.ack ELSE best
          /\ call' = [call EXCEPT ![t] = c]
      BY <1>t, <1>5 DEF Assign, Adopted
    <2>2. s.ack \in Acks /\ ram'.ack \in Acks /\ best' \in Acks
      BY <1>p, <2>1, SlotAcks
    <2>6. best' \in 0 .. Limit
      BY <1>p, <2>1, StateNumbers DEF Plain
    <2>3. /\ c.copy.ack \in Acks /\ c \in CallType
          /\ c.op = "reserve" => c.copy.next < Limit
      <3>2. CASE call[t].op = "fresh"
        BY <3>2, SlotAcks, IdleCallType DEF IdleCall, Fresh
      <3>3. CASE call[t].op = "reserve"
        <4>1. s.next + 1 \in 1 .. Limit + 1 /\ s.next \in 0 .. Limit
          <5>1. s.next \in Nat /\ Limit \in Nat /\ s.next < Limit
            BY <1>t, <1>p, <3>3, StateNumbers
          <5>2. QED BY <5>1
        <4>2. Allocated(s) \in SequenceState /\ Allocated(s).ack = s.ack
          BY <1>p, <4>1 DEF Allocated, SequenceState
        <4> HIDE DEF s
        <4>3. c = [call[t] EXCEPT !.pc = "copied", !.op = "allocate", !.copy = Allocated(s)]
          BY <3>3
        <4>4. c \in CallType /\ c.op = "allocate" /\ c.copy = Allocated(s)
          BY <1>t, <4>2, <4>3 DEF CallType
        <4>5. QED BY <2>2, <4>2, <4>4
      <3>4. CASE call[t].op \notin {"fresh", "reserve"}
        <4>1. c = [call[t] EXCEPT !.pc = "done"]
          BY <3>4
        <4>2. c \in CallType /\ c.op = call[t].op /\ c.copy = call[t].copy
          BY <1>t, <4>1 DEF CallType
        <4>3. QED BY <3>4, <4>2, SlotAcks
      <3>5. QED BY <3>2, <3>3, <3>4
    <2> HIDE DEF c
    <2>7. \A u \in Tasks : call'[u] = IF u = t THEN c ELSE call[u]
      BY <1>t, <2>1
    <2>8. call' \in [Tasks -> CallType]
      BY <1>t, <2>1, <2>3
    <2>4. \A u \in Tasks : call'[u].copy.ack \in Acks
      BY <2>3, <2>7, SlotAcks
    <2>5. Acks' \subseteq Acks
      BY <2>1, <2>2, <2>4, SlotAcks DEF Acks
    <2>9. \A u \in Tasks : call'[u].op = "reserve" => call'[u].copy.next < Limit
      BY <2>3, <2>7 DEF Plain
    <2> HIDE DEF s
    <2>10. QED BY <1>t, <1>p, <2>1, <2>5, <2>6, <2>8, <2>9 DEF Plain, s
  <1>6. QED BY <1>1, <1>2, <1>3, <1>4, <1>5

LEMMA BeginAcks ==
    ASSUME Plain, NEW t \in Tasks, NEW op \in {"fresh", "reserve", "allocate", "ack", "floor"},
           NEW s \in SequenceState, Begin(t, op, s), UNCHANGED <<slots, best>>,
           op = "reserve" => s.next < Limit,
           ram' \in SequenceState, ram'.ack \in Acks \cup {s.ack}
    PROVE  Plain' /\ Acks' \subseteq Acks \cup {s.ack}
  <1> DEFINE c == [IdleCall EXCEPT !.pc = "copied", !.op = op, !.copy = s]
  <1>1. c.copy = s /\ c.op = op /\ c \in CallType
    BY IdleCallType DEF CallType
  <1>2. \A u \in Tasks : call'[u] = IF u = t THEN c ELSE call[u]
    BY DEF Begin, Plain
  <1>4. call' = [call EXCEPT ![t] = c]
    BY DEF Begin
  <1> HIDE DEF c
  <1>3. Acks' \subseteq Acks \cup {s.ack}
    BY <1>1, <1>2 DEF Acks
  <1>5. call' \in [Tasks -> CallType]
    BY <1>1, <1>4 DEF Plain
  <1>6. QED BY <1>1, <1>2, <1>3, <1>5 DEF Plain

LEMMA NextAcks == ASSUME Plain, BeginNext PROVE Plain' /\ Acks' \subseteq Acks
  <1>1. ram \in SequenceState
    BY DEF Plain
  <1>2. UNCHANGED <<slots, ram, best>> /\ ram'.ack \in Acks /\ ram.ack \in Acks
        /\ ram' \in SequenceState
    BY <1>1, SlotAcks DEF BeginNext
  <1>n. /\ ram.next \in Nat /\ ram.reserved \in Nat /\ Limit \in Nat /\ Block \in Nat \ {0}
        /\ ram.next < Limit
    BY <1>1, StateNumbers, SequenceAssumption DEF BeginNext
  <1>3. CASE ram.next > ram.reserved
    <2>1. Begin("interval", "reserve", Reserved(ram)) /\ ram.next + Block - 1 \in 0 .. Limit
      BY <1>3, <1>n DEF BeginNext
    <2>2. /\ Reserved(ram) \in SequenceState /\ Reserved(ram).ack = ram.ack
          /\ Reserved(ram).next = ram.next
      BY <1>1, <2>1 DEF Reserved, SequenceState
    <2>3. QED BY <1>n, <1>2, <2>1, <2>2, BeginAcks DEF Tasks
  <1>4. CASE ~(ram.next > ram.reserved)
    <2>1. Begin("interval", "allocate", Allocated(ram)) /\ ram.next < Limit
      BY <1>4 DEF BeginNext
    <2>2. Allocated(ram) \in SequenceState /\ Allocated(ram).ack = ram.ack
      <3>1. ram.next + 1 \in 1 .. Limit + 1 /\ ram.next \in 0 .. Limit
        BY <1>n, <2>1
      <3>2. QED BY <1>1, <3>1 DEF Allocated, SequenceState
    <2>3. QED BY <1>2, <2>1, <2>2, BeginAcks DEF Tasks
  <1>5. QED BY <1>3, <1>4

LEMMA LoadAcks == ASSUME Plain, LoadNewest \/ LoadFresh PROVE Plain' /\ Acks' \subseteq Acks
  <1>1. CASE LoadNewest
    <2> DEFINE G(k) == slots[k].state.gen
    <2>1. \A k \in Keys : G(k) \in Nat
      BY DEF Plain, SequenceState
    <2>2. \E k \in Readable : \A j \in Readable : G(k) >= G(j)
      BY <1>1, <2>1 DEF Readable, Keys, LoadNewest
    <2>3. Newest \in Readable
      BY <2>2 DEF Newest
    <2>4. /\ Newest \in Keys /\ slots[Newest].state \in SequenceState
          /\ SlotValid(slots[Newest].state)
      BY <2>3 DEF Readable, Plain
    <2>5. ram' \in SequenceState /\ ram'.ack = slots[Newest].state.ack
      BY <1>1, <2>4, LoadedIs DEF LoadNewest
    <2>6. ram'.ack \in Acks /\ best' \in Acks
      BY <1>1, <2>4, <2>5, SlotAcks DEF LoadNewest
    <2>7. best' \in 0 .. Limit
      BY <1>1, <2>5, StateNumbers DEF LoadNewest, Plain
    <2>8. Acks' \subseteq Acks
      BY <1>1, <2>6, SlotAcks DEF LoadNewest, Acks
    <2>9. QED BY <1>1, <2>5, <2>7, <2>8 DEF LoadNewest, Plain
  <1>2. CASE LoadFresh
    <2>1. Begin("boot", "fresh", Fresh) /\ ram' = Fresh /\ UNCHANGED <<slots, best>>
          /\ Fresh.ack = 0
      BY <1>2 DEF LoadFresh, Fresh
    <2>2. QED BY <2>1, FreshType, BeginAcks, SlotAcks DEF Tasks
  <1>3. QED BY <1>1, <1>2

LEMMA CutAcks == ASSUME Plain, PowerCut PROVE Plain' /\ Acks' \subseteq Acks
  <1>1. IdleCall.copy.ack = 0 /\ Fresh.ack = 0 /\ IdleCall.op = "none"
    BY DEF IdleCall, Fresh
  <1>2. \A t \in Tasks : call'[t].copy.ack = 0 /\ call'[t].op = "none"
    BY <1>1 DEF PowerCut
  <1>3. call' \in [Tasks -> CallType]
    BY IdleCallType DEF PowerCut
  <1>4. Acks' \subseteq Acks
    BY <1>1, <1>2, SlotAcks DEF PowerCut, Acks
  <1>5. QED BY <1>2, <1>3, <1>4, FreshType DEF PowerCut, Plain

\* A task takes the result of its call.
LEMMA TakeAcks ==
    ASSUME Plain, NEW t \in Tasks, call' = [call EXCEPT ![t] = IdleCall],
           UNCHANGED <<slots, ram, best>>
    PROVE  Plain' /\ Acks' \subseteq Acks
  <1>1. IdleCall.copy.ack = 0 /\ IdleCall.op # "reserve"
    BY DEF IdleCall, Fresh
  <1>2. QED BY <1>1, IdleCallType, CallAcks, SlotAcks

LEMMA SameAcks == ASSUME Plain, UNCHANGED storeVars PROVE Plain' /\ Acks' = Acks
  BY DEF Plain, Acks, storeVars

-----------------------------------------------------------------------------
(* What the server vouched for.                                            *)

\* The server knows every number up to the n-th.
KnownUpTo(n) == 1 .. n \subseteq Known

Vouched ==
  /\ \A n \in Acks : KnownUpTo(n)
  /\ net.step \in {"reply", "saving"} => net.ack \in 0 .. Limit /\ KnownUpTo(net.ack)

\* The shape of net; nothing here depends on what its last number is.
NetRecord == net = [step |-> net.step, kind |-> net.kind, ack |-> net.ack, last |-> net.last]

VouchInv == Plain /\ NetRecord /\ Vouched

\* What the server answers with.
LEMMA ServerAckIs ==
    ASSUME NEW known
    PROVE  ServerAck(known) \in 0 .. Limit /\ 1 .. ServerAck(known) \subseteq known
  <1> DEFINE T == {n \in 0 .. Limit : 1 .. n \subseteq known}
  <1>1. Limit \in Nat /\ T \in SUBSET (0 .. Limit) /\ 0 \in T
    BY SequenceAssumption
  <1>2. Max(T) \in T
    BY <1>1, GreatestNumber
  <1>3. QED BY <1>2 DEF ServerAck

LEMMA VouchedStep ==
    ASSUME Vouched, Known \subseteq Known',
           \A n \in Acks' : n \in Acks \/ KnownUpTo(n),
           net'.step \in {"reply", "saving"} =>
               net'.ack \in 0 .. Limit /\ 1 .. net'.ack \subseteq Known'
    PROVE  Vouched'
  <1>1. \A n \in Acks' : 1 .. n \subseteq Known'
    BY DEF Vouched, KnownUpTo
  <1>2. QED BY <1>1 DEF Vouched, KnownUpTo

\* A step on which the server learns nothing and answers nothing.
LEMMA VouchedSame ==
    ASSUME Vouched, Acks' \subseteq Acks, UNCHANGED <<received, lost, phantoms>>,
           net' = net \/ net'.step \notin {"reply", "saving"}
    PROVE  Vouched'
  <1>1. \A n \in Acks' : n \in Acks \/ KnownUpTo(n)
    OBVIOUS
  <1>k. Known' = Known
    BY DEF Known
  <1>2. net'.step \in {"reply", "saving"} =>
            net'.ack \in 0 .. Limit /\ 1 .. net'.ack \subseteq Known'
    BY <1>k DEF Vouched, KnownUpTo
  <1>3. QED BY <1>1, <1>2, <1>k, VouchedStep

\* A step of the network task that leaves the store alone.
LEMMA NetStep ==
    ASSUME VouchInv, UNCHANGED storeVars, NetRecord', Known \subseteq Known',
           net'.step \in {"reply", "saving"} =>
               net'.ack \in 0 .. Limit /\ 1 .. net'.ack \subseteq Known'
    PROVE  VouchInv'
  <1>1. Plain' /\ Acks' = Acks
    BY SameAcks DEF VouchInv
  <1>2. \A n \in Acks' : n \in Acks \/ KnownUpTo(n)
    BY <1>1
  <1>3. QED BY <1>1, <1>2, VouchedStep DEF VouchInv

LEMMA AwaitsIs ==
    ASSUME NEW kind, NEW known, NEW last, Awaits(kind, known, last), known = Known'
    PROVE  /\ NetRecord'
           /\ net'.ack \in 0 .. Limit /\ 1 .. net'.ack \subseteq Known'
  <1>1. NetRecord' /\ net'.ack = ServerAck(known)
    BY DEF Awaits, NetRecord
  <1>2. QED BY <1>1, ServerAckIs

LEMMA QuietNet ==
    ASSUME \/ net' = IdleNet
           \/ \E st \in {"scanned", "backlog"} : net' = [IdleNet EXCEPT !.step = st]
    PROVE  NetRecord' /\ net'.step \notin {"reply", "saving"}
  BY DEF IdleNet, NetRecord

LEMMA UploadIs ==
    ASSUME NEW batch, NEW junk, Upload(batch, junk), lost' = lost
    PROVE  /\ Known \subseteq Known'
           /\ \/ net' = IdleNet
              \/ Awaits("readings", Known \cup batch \cup junk, Max(batch \cup junk))
                 /\ Known \cup batch \cup junk = Known'
  BY DEF Upload, Known

LEMMA SendingStep ==
    ASSUME VouchInv, Heartbeat \/ ReportLoss \/ SendBacklog
    PROVE  VouchInv'
  <1>u. UNCHANGED storeVars
    BY DEF Heartbeat, ReportLoss, SendBacklog, seqVars
  <1>1. CASE Heartbeat
    <2>1. Known = Known' /\ Awaits("heartbeat", Known, 0)
      BY <1>1 DEF Heartbeat, Known
    <2>2. QED BY <1>u, <2>1, AwaitsIs, NetStep
  <1>2. CASE ReportLoss
    <2>1. Known \subseteq Known'
      BY <1>2 DEF ReportLoss, Known
    <2>2. CASE net' = IdleNet
      BY <1>u, <2>1, <2>2, QuietNet, NetStep
    <2>3. CASE net' # IdleNet
      <3>1. Known \cup Report = Known' /\ Awaits("loss", Known \cup Report, Max(Report))
        BY <1>2, <2>3 DEF ReportLoss, Known
      <3>2. QED BY <1>u, <2>1, <3>1, AwaitsIs, NetStep
    <2>4. QED BY <2>2, <2>3
  <1>3. CASE SendBacklog
    <2>1. lost' = lost /\ \E batch, junk : Upload(batch, junk)
      BY <1>3 DEF SendBacklog
    <2>2. PICK batch, junk : Upload(batch, junk)
      BY <2>1
    <2>3. /\ Known \subseteq Known'
          /\ \/ net' = IdleNet
             \/ Awaits("readings", Known \cup batch \cup junk, Max(batch \cup junk))
                /\ Known \cup batch \cup junk = Known'
      BY <2>1, <2>2, UploadIs
    <2>4. CASE net' = IdleNet
      BY <1>u, <2>3, <2>4, QuietNet, NetStep
    <2>5. CASE net' # IdleNet
      BY <1>u, <2>3, <2>5, AwaitsIs, NetStep
    <2>6. QED BY <2>4, <2>5
  <1>4. QED BY <1>1, <1>2, <1>3

LEMMA QuietStep ==
    ASSUME VouchInv, \/ ScanInventory \/ ScanFails \/ NothingLost \/ NotConfirmed
                     \/ BacklogFails \/ AcknowledgeRefused \/ AcknowledgeSame
    PROVE  VouchInv'
  <1>u. UNCHANGED <<storeVars, received, lost, phantoms>>
    BY DEF ScanInventory, ScanFails, NothingLost, NotConfirmed, BacklogFails,
           AcknowledgeRefused, AcknowledgeSame, seqVars, netVars
  <1>k. Known' = Known
    BY <1>u DEF Known
  <1>1. CASE ScanFails
    <2>1. net' = net
      BY <1>1 DEF ScanFails, netVars
    <2>2. NetRecord' /\ (net'.step \in {"reply", "saving"} =>
              net'.ack \in 0 .. Limit /\ 1 .. net'.ack \subseteq Known')
      BY <1>k, <2>1 DEF VouchInv, NetRecord, Vouched, KnownUpTo
    <2>3. QED BY <1>u, <1>k, <2>2, NetStep
  <1>2. CASE ~ScanFails
    <2>1. \/ net' = IdleNet
          \/ \E st \in {"scanned", "backlog"} : net' = [IdleNet EXCEPT !.step = st]
      BY <1>2 DEF ScanInventory, NothingLost, NotConfirmed, BacklogFails,
                  AcknowledgeRefused, AcknowledgeSame, Accepted
    <2>2. QED BY <1>u, <1>k, <2>1, QuietNet, NetStep
  <1>3. QED BY <1>1, <1>2

\* The call that saves an answer: it is the server's word.
LEMMA AnswerIs ==
    ASSUME VouchInv, AcknowledgeNew
    PROVE  /\ net.ack \in 0 .. Limit /\ KnownUpTo(net.ack) /\ ram \in SequenceState
           /\ LET s == Acknowledged(ram, net.ack)
              IN  /\ s \in SequenceState /\ s.ack = net.ack /\ s.gen = ram.gen /\ s.seen = ram.seen
                  /\ s.next = ram.next /\ s.reserved = ram.reserved
                  /\ Begin("network", "ack", s)
           /\ MayCall("network") /\ ~AckRefused(net.ack)
  <1>1. net.ack \in 0 .. Limit /\ KnownUpTo(net.ack) /\ ram \in SequenceState
    BY DEF VouchInv, Vouched, Plain, AcknowledgeNew
  <1> DEFINE s == Acknowledged(ram, net.ack)
  <1>2. /\ s \in SequenceState /\ s.ack = net.ack /\ s.gen = ram.gen /\ s.seen = ram.seen
        /\ s.next = ram.next /\ s.reserved = ram.reserved
    BY <1>1 DEF Acknowledged, SequenceState
  <1>3. Begin("network", "ack", s) /\ MayCall("network") /\ ~AckRefused(net.ack)
    BY DEF AcknowledgeNew, BeginAcknowledge, Answered
  <1> HIDE DEF s
  <1>4. QED BY <1>1, <1>2, <1>3 DEF s

LEMMA AcknowledgeNewStep == ASSUME VouchInv, AcknowledgeNew PROVE VouchInv'
  <1>t. /\ Plain /\ NetRecord /\ Vouched /\ ram \in SequenceState
        /\ UNCHANGED <<slots, ram, best, received, lost, phantoms>>
    BY DEF VouchInv, AcknowledgeNew, Plain
  <1> DEFINE s == Acknowledged(ram, net.ack)
  <1>1. /\ net.ack \in 0 .. Limit /\ KnownUpTo(net.ack)
        /\ s \in SequenceState /\ s.ack = net.ack /\ Begin("network", "ack", s)
    BY AnswerIs
  <1> HIDE DEF s
  <1>2. Plain' /\ Acks' \subseteq Acks \cup {net.ack}
    BY <1>t, <1>1, BeginAcks, SlotAcks DEF Tasks
  <1>3. NetRecord' /\ net'.ack = net.ack
    <2>1. net' = [net EXCEPT !.step = "saving"]
      BY DEF AcknowledgeNew
    <2>2. QED BY <1>t, <2>1 DEF NetRecord
  <1>k. Known' = Known
    BY <1>t DEF Known
  <1>4. Vouched'
    <2>1. \A n \in Acks' : n \in Acks \/ KnownUpTo(n)
      BY <1>1, <1>2
    <2>2. net'.ack \in 0 .. Limit /\ 1 .. net'.ack \subseteq Known'
      BY <1>k, <1>1, <1>3 DEF KnownUpTo
    <2>3. QED BY <1>t, <1>k, <2>1, <2>2, VouchedStep
  <1>5. QED BY <1>2, <1>3, <1>4 DEF VouchInv

\* The steps that change the store and leave the server alone.
LEMMA StoreVouched ==
    ASSUME VouchInv, StoreCall \/ Interval \/ AcknowledgeSaved \/ Boot \/ LosePower
    PROVE  VouchInv'
  <1>t. Plain /\ NetRecord /\ Vouched
    BY DEF VouchInv
  <1>1. UNCHANGED <<received, lost, phantoms>>
    BY DEF StoreCall, Interval, DropInterval, AppendInterval, AppendTimesOut, AcknowledgeSaved,
           Boot, LosePower, netVars
  <1>2. net' = net \/ net' = IdleNet
    BY DEF StoreCall, Interval, DropInterval, AppendInterval, AppendTimesOut, AcknowledgeSaved,
           Accepted, Boot, LosePower, netVars
  <1>3. NetRecord' /\ (net' = net \/ net'.step \notin {"reply", "saving"})
    BY <1>t, <1>2, QuietNet DEF NetRecord
  <1>4. Plain' /\ Acks' \subseteq Acks
    <2>1. CASE StoreCall
      BY <1>t, <2>1, NextAcks, StoreAcks DEF StoreCall
    <2>2. CASE Interval
      <3>1. /\ call' = [call EXCEPT !["interval"] = IdleCall]
            /\ UNCHANGED <<slots, ram, best>>
        BY <2>2 DEF Interval, DropInterval, AppendInterval, AppendTimesOut
      <3>2. QED BY <1>t, <3>1, TakeAcks DEF Tasks
    <2>3. CASE AcknowledgeSaved
      <3>1. /\ call' = [call EXCEPT !["network"] = IdleCall]
            /\ UNCHANGED <<slots, ram, best>>
        BY <2>3 DEF AcknowledgeSaved
      <3>2. QED BY <1>t, <3>1, TakeAcks DEF Tasks
    <2>4. CASE Boot
      BY <1>t, <2>4, LoadAcks DEF Boot
    <2>5. CASE LosePower
      BY <1>t, <2>5, CutAcks DEF LosePower
    <2>6. QED BY <2>1, <2>2, <2>3, <2>4, <2>5
  <1>5. QED BY <1>t, <1>1, <1>3, <1>4, VouchedSame DEF VouchInv

LEMMA VouchInit == Init => VouchInv
  <1> SUFFICES ASSUME Init PROVE VouchInv
    OBVIOUS
  <1>1. SeqInv /\ SeqInit
    BY SeqInitInv DEF Init
  <1>2. Plain
    <2>1. IdleCall.op = "none"
      BY DEF IdleCall
    <2>2. \A t \in Tasks : call[t].op = "none"
      BY <1>1, <2>1 DEF SeqInit
    <2>3. QED BY <1>1, <2>2 DEF SeqInv, SeqTypeOK, CallType, Plain
  <1>3. NetRecord /\ net.step = "idle"
    BY DEF Init, IdleNet, NetRecord
  <1>4. \A n \in Acks : n = 0
    <2>1. Fresh.ack = 0 /\ IdleCall.copy.ack = 0 /\ Missing.state.ack = 0
      BY DEF Fresh, IdleCall, Missing
    <2>2. QED BY <1>1, <2>1 DEF SeqInit, Acks
  <1>5. KnownUpTo(0)
    BY DEF KnownUpTo
  <1>6. QED BY <1>2, <1>3, <1>4, <1>5 DEF VouchInv, Vouched

LEMMA VouchStep == VouchInv /\ [Next]_vars => VouchInv'
  <1> SUFFICES ASSUME VouchInv, [Next]_vars PROVE VouchInv'
    OBVIOUS
  <1>1. CASE StoreLate \/ BootFails \/ UNCHANGED vars
    <2>1. UNCHANGED <<storeVars, net, received, lost, phantoms>>
      BY <1>1 DEF StoreLate, BootFails, LoadFails, vars, seqVars, netVars
    <2>2. Known' = Known
      BY <2>1 DEF Known
    <2>3. NetRecord' /\ (net'.step \in {"reply", "saving"} =>
              net'.ack \in 0 .. Limit /\ 1 .. net'.ack \subseteq Known')
      BY <2>1, <2>2 DEF VouchInv, NetRecord, Vouched, KnownUpTo
    <2>4. QED BY <2>1, <2>2, <2>3, NetStep
  <1>2. CASE Next /\ ~(StoreLate \/ BootFails)
    BY <1>2, StoreVouched, SendingStep, QuietStep, AcknowledgeNewStep
       DEF Next, Network, Acknowledging
  <1>3. QED BY <1>1, <1>2

-----------------------------------------------------------------------------
(* The store, as long as its callers take turns.                           *)

BacklogInv == VouchInv /\ SeqInv /\ PowerCutsNeverHalt

\* The count of overlapping calls only grows.
LEMMA OverlapsGrow ==
    ASSUME overlaps \in Nat, [Next]_vars
    PROVE  overlaps' \in Nat /\ overlaps' >= overlaps
  <1>1. CASE UNCHANGED overlaps
    BY <1>1
  <1>2. CASE BeginNext \/ AcknowledgeNew
    BY <1>2 DEF BeginNext, AcknowledgeNew, BeginAcknowledge, MayCall
  <1>3. CASE Next /\ ~(BeginNext \/ AcknowledgeNew)
    <2>1. CASE StoreCall
      BY <1>3, <2>1, StoreStepCounts DEF StoreCall
    <2>2. CASE StoreLate \/ Interval
      BY <2>2 DEF StoreLate, Interval, DropInterval, AppendInterval, AppendTimesOut, storeVars
    <2>3. CASE Network
      BY <1>3, <2>3 DEF Network, Heartbeat, ScanInventory, ScanFails, NothingLost, NotConfirmed,
           ReportLoss, SendBacklog, BacklogFails, Acknowledging, AcknowledgeRefused,
           AcknowledgeSame, AcknowledgeSaved, seqVars, storeVars
    <2>4. CASE Boot \/ BootFails \/ LosePower
      BY <2>4 DEF Boot, LoadNewest, LoadFresh, BootFails, LoadFails, LosePower, PowerCut, storeVars
    <2>5. QED BY <1>3, <2>1, <2>2, <2>3, <2>4 DEF Next
  <1>4. QED BY <1>1, <1>2, <1>3 DEF vars, seqVars, storeVars

\* The storage task and the network task leave the store alone; the card may fail.
LEMMA CardStep ==
    ASSUME SeqInv, UNCHANGED <<power, storeVars, crashes>>,
           faults' \in 0 .. MaxFaults, faults' >= faults
    PROVE  SeqInv' /\ (PowerCutsNeverHalt => PowerCutsNeverHalt')
  <1>t. SeqTypeOK /\ Sound /\ faults \in 0 .. MaxFaults
    BY DEF SeqInv, SeqTypeOK
  <1>s. Still /\ UNCHANGED <<power, slots, selector, ram, call, handed, best, crashes, overlaps>>
    BY DEF storeVars, Still
  <1>f. faults' = 0 => faults = 0
    BY <1>t
  <1>1. SeqTypeOK'
    BY <1>t, <1>s DEF SeqTypeOK
  <1>2. Turns' /\ Phases' /\ Written' /\ Working'
    BY <1>t, <1>s DEF Sound, Turns, Phases, Written, Working, Busy, Running, Covers, SlotValid
  <1>3. Candidates'
    BY <1>t, <1>s DEF Sound, Candidates, Candidate, Busy, SlotValid
  <1>4. Latest' /\ Blank' /\ SlotsValid' /\ Once'
    BY <1>t, <1>s, StillKept DEF Sound
  <1>5. Clean'
    BY <1>t, <1>s, <1>f DEF Sound, Clean, Running
  <1>6. PowerCutsNeverHalt => PowerCutsNeverHalt'
    <2>1. Readable' = Readable
      BY <1>s DEF Readable, SlotValid
    <2>2. faults > 0 => faults' > 0
      BY <1>t, SequenceAssumption
    <2>3. QED BY <1>s, <2>1, <2>2 DEF PowerCutsNeverHalt
  <1>7. QED BY <1>1, <1>2, <1>3, <1>4, <1>5, <1>6 DEF SeqInv, Sound

\* Nothing halts by a step of the running system.
LEMMA StaysUp == ASSUME power' # "halted" PROVE PowerCutsNeverHalt'
  BY DEF PowerCutsNeverHalt

LEMMA ExecutesFaults ==
    ASSUME SeqInv, Faulty \/ NoFault
    PROVE  faults' \in 0 .. MaxFaults /\ faults' >= faults
  BY SequenceAssumption DEF SeqInv, SeqTypeOK, Faulty, NoFault

LEMMA StoreCallStep ==
    ASSUME SeqInv, overlaps \in Nat, overlaps' = 0, StoreCall
    PROVE  SeqInv' /\ PowerCutsNeverHalt'
  <1>1. CASE BeginNext
    <2>1. SeqInv' /\ power' = "on"
      BY <1>1, BeginNextStep DEF BeginNext, On
    <2>2. QED BY <2>1, StaysUp
  <1>2. CASE StoreStep
    <2>1. SeqInv' /\ (power' = "halted" => power = "halted" \/ faults' > 0)
      BY <1>2, StoreStepInv
    <2>2. power # "halted"
      BY <1>2, StoreStepRuns DEF Running
    <2>3. QED BY <2>1, <2>2 DEF PowerCutsNeverHalt
  <1>3. QED BY <1>1, <1>2 DEF StoreCall

LEMMA TakenStep ==
    ASSUME SeqInv, Interval \/ AcknowledgeSaved
    PROVE  SeqInv' /\ PowerCutsNeverHalt'
  <1>1. Faulty \/ NoFault
    BY DEF Interval, DropInterval, AppendInterval, AppendTimesOut, AcknowledgeSaved, Executes,
           NoFault
  <1>2. /\ On /\ UNCHANGED <<power, slots, selector, ram, crashes, handed, best>>
        /\ \E t \in {"interval", "network"} :
              call[t].pc \in {"done", "failed"} /\ call' = [call EXCEPT ![t] = IdleCall]
    BY DEF Interval, DropInterval, AppendInterval, AppendTimesOut, AcknowledgeSaved
  <1>3. SeqInv' /\ power' # "halted"
    BY <1>1, <1>2, ExecutesFaults, TakeStep DEF Tasks, On
  <1>4. QED BY <1>3, StaysUp

\* A step that leaves the store alone.
LEMMA AsideStep ==
    ASSUME SeqInv, PowerCutsNeverHalt,
           \/ StoreLate \/ Heartbeat \/ ScanInventory \/ ScanFails \/ NothingLost \/ NotConfirmed
           \/ ReportLoss \/ SendBacklog \/ BacklogFails \/ AcknowledgeRefused \/ AcknowledgeSame
           \/ UNCHANGED vars
    PROVE  SeqInv' /\ PowerCutsNeverHalt'
  <1>1. UNCHANGED <<power, storeVars, crashes>>
    BY DEF StoreLate, Heartbeat, ScanInventory, ScanFails, NothingLost, NotConfirmed, ReportLoss,
           SendBacklog, BacklogFails, AcknowledgeRefused, AcknowledgeSame, vars, seqVars
  <1>2. Faulty \/ NoFault
    <2>1. CASE StoreLate
      BY <2>1 DEF StoreLate, Executes, Succeeds, FailsTo, Refreshes, RefreshFails, Reads, ReadFails
    <2>2. CASE ScanInventory \/ ScanFails \/ SendBacklog \/ BacklogFails
      BY <2>2 DEF ScanInventory, ScanFails, SendBacklog, BacklogFails, RequestAnswered,
           RequestFails, Succeeds, FailsTo, Refreshes, RefreshFails, Reads, ReadFails
    <2>3. CASE faults' = faults
      BY <2>3 DEF NoFault
    <2>4. QED
      BY <2>1, <2>2, <2>3 DEF Heartbeat, NothingLost, NotConfirmed, ReportLoss, AcknowledgeRefused,
           AcknowledgeSame, vars, seqVars
  <1>3. QED BY <1>1, <1>2, ExecutesFaults, CardStep

LEMMA NewTurn ==
    ASSUME VouchInv, SeqInv, overlaps \in Nat, overlaps' = 0, AcknowledgeNew
    PROVE  SeqInv' /\ PowerCutsNeverHalt'
  <1> DEFINE s == Acknowledged(ram, net.ack)
  <1>t. /\ On /\ UNCHANGED <<power, slots, selector, ram, faults, crashes, handed, best>>
    BY DEF AcknowledgeNew
  <1>1. /\ net.ack \in 0 .. Limit /\ ram \in SequenceState
        /\ s \in SequenceState /\ s.ack = net.ack /\ s.gen = ram.gen /\ s.seen = ram.seen
        /\ s.next = ram.next /\ s.reserved = ram.reserved
        /\ Begin("network", "ack", s) /\ MayCall("network") /\ ~AckRefused(net.ack)
    BY AnswerIs
  <1> HIDE DEF s
  <1>2. Candidate("ack", s)
    <2>1. SlotValid(ram)
      BY <1>t DEF SeqInv, Sound, Working, Running, On
    <2>2. ram.ack \in Nat /\ ram.seen \in Nat /\ ram.next \in Nat /\ ram.reserved \in Nat
      BY <1>1, StateNumbers
    <2>3. net.ack >= ram.ack /\ net.ack <= ram.seen
      BY <1>1, <2>2 DEF AckRefused
    <2>4. QED BY <1>1, <2>1, <2>2, <2>3 DEF Candidate, SlotValid
  <1>3. SeqInv'
    BY <1>t, <1>1, <1>2, BeginStep DEF Tasks
  <1>4. QED BY <1>t, <1>3, StaysUp DEF On

LEMMA StartStep ==
    ASSUME SeqInv, Boot \/ BootFails \/ LosePower
    PROVE  SeqInv' /\ PowerCutsNeverHalt'
  <1>1. CASE Boot
    <2>1. SeqInv' /\ power' # "halted"
      BY <1>1, LoadNewestStep, LoadFreshStep DEF Boot
    <2>2. QED BY <2>1, StaysUp
  <1>2. CASE BootFails
    <2>1. /\ SeqInv' /\ (faults' > 0 \/ \E k \in Readable : slots[k].state.reserved = Limit)
      BY <1>2, LoadFailsStep DEF BootFails
    <2>2. slots' = slots
      BY <1>2 DEF BootFails, LoadFails, storeVars
    <2>3. Readable' = Readable
      BY <2>2 DEF Readable, SlotValid
    <2>4. QED BY <2>1, <2>2, <2>3 DEF PowerCutsNeverHalt
  <1>3. CASE LosePower
    <2>1. SeqInv' /\ power' = "off"
      BY <1>3, PowerCutStep DEF LosePower
    <2>2. QED BY <2>1, StaysUp
  <1>4. QED BY <1>1, <1>2, <1>3

LEMMA BacklogInit == Init => BacklogInv
  <1> SUFFICES ASSUME Init PROVE BacklogInv
    OBVIOUS
  <1>1. SeqInv /\ SeqInit
    BY SeqInitInv DEF Init
  <1>2. PowerCutsNeverHalt
    BY <1>1 DEF SeqInit, PowerCutsNeverHalt
  <1>3. QED BY <1>1, <1>2, VouchInit DEF BacklogInv

LEMMA BacklogStep ==
    ASSUME BacklogInv, overlaps \in Nat, overlaps' = 0, [Next]_vars
    PROVE  BacklogInv'
  <1>1. VouchInv'
    BY VouchStep DEF BacklogInv
  <1>2. SeqInv' /\ PowerCutsNeverHalt'
    BY StoreCallStep, TakenStep, AsideStep, NewTurn, StartStep
       DEF BacklogInv, Next, Network, Acknowledging
  <1>3. QED BY <1>1, <1>2 DEF BacklogInv

-----------------------------------------------------------------------------
(* The records: where the numbers are between the drawing and the deletion. *)

HealthType == [status : {"READY", "FULL", "IO_ERROR"}, oldest : 0..Limit, first : 0..Limit,
               last : 0..Limit, complete : BOOLEAN, ack : 0..Limit]

\* The numbers of a queue or a file ascend; a request of network_task() is none.
Climbs(q) ==
  /\ q \in Seq(Nat)
  /\ \A i, j \in DOMAIN q : i < j /\ q[i] \in Numbers /\ q[j] \in Numbers => q[i] < q[j]

InOrder(files) == \A f \in files : f \in Seq(Numbers) /\ f # <<>> /\ Climbs(f)

\* A number was handed out.
Given(n) == \E i \in DOMAIN handed : handed[i] = n

\* The number that interval_task() has drawn and not yet appended.
InHand == call["interval"].pc = "done"
Drawn == call["interval"].copy.seen

\* The numbers on their way to the card.
Coming == Queued \cup {n \in {Drawn} : InHand}

\* An index of the card that may be believed.
Covering(h, files) ==
  h.status \in {"READY", "FULL"} =>
    /\ \A x \in OnFiles(files) : h.oldest <= x
    /\ h.oldest = 0 => OnFiles(files) = {}

Shape ==
  /\ health \in HealthType /\ InOrder(card) /\ Climbs(late)
  /\ Busy("interval") => call["interval"].op \in {"reserve", "allocate"}
  /\ InHand => \A n \in Queued : n < Drawn

\* What was drawn first is stored first, the index is not ahead of it, and what was
\* given up as a prefix was drawn before and is nowhere.
Flow ==
  /\ \A x \in OnCard, n \in Coming : x < n
  /\ \A x \in OnCard \cup Coming : Given(x)
  /\ health.oldest # 0 => Given(health.oldest)
  /\ \A n \in Coming : health.oldest <= n
  /\ Running => Covering(health, card)
  /\ prefixes \cap (OnCard \cup Coming) = {}
  /\ \A p \in prefixes : \E i \in DOMAIN handed : p < handed[i]

\* The storage task deletes by an acknowledgement that the server gave.
Trusted == KnownUpTo(health.ack)

CardInv == Shape /\ Flow /\ Trusted

LEMMA ClimbsTail ==
    ASSUME NEW q, Climbs(q), q # <<>>
    PROVE  /\ Climbs(Tail(q)) /\ Head(q) \in Nat
           /\ ToSet(q) = {Head(q)} \cup ToSet(Tail(q))
           /\ Head(q) \in Numbers => \A n \in ToSet(Tail(q)) \cap Numbers : Head(q) < n
  <1>1. /\ q \in Seq(Nat) /\ Len(q) \in Nat /\ Len(q) >= 1
        /\ Head(q) = q[1] /\ Tail(q) \in Seq(Nat) /\ Len(Tail(q)) = Len(q) - 1
        /\ \A i \in 1..Len(q) - 1 : Tail(q)[i] = q[i + 1]
        /\ DOMAIN q = 1..Len(q) /\ DOMAIN Tail(q) = 1..Len(q) - 1
    BY DEF Climbs
  <1>2. \A i \in 1..Len(q) : i = 1 \/ (i - 1 \in 1..Len(q) - 1 /\ q[i] = Tail(q)[i - 1])
    BY <1>1
  <1>3. \A i \in 1..Len(q) - 1 : i + 1 \in 1..Len(q) /\ Tail(q)[i] = q[i + 1]
    BY <1>1
  <1>4. ToSet(q) = {Head(q)} \cup ToSet(Tail(q))
    <2>1. ASSUME NEW i \in 1..Len(q) PROVE q[i] = q[1] \/ \E j \in 1..Len(q) - 1 : q[i] = Tail(q)[j]
      BY <1>2
    <2>2. 1 \in 1..Len(q)
      BY <1>1
    <2>3. ToSet(q) \subseteq {Head(q)} \cup ToSet(Tail(q))
      <3>1. SUFFICES ASSUME NEW x \in ToSet(q) PROVE x = q[1] \/ x \in ToSet(Tail(q))
        BY <1>1
      <3>2. PICK i \in 1..Len(q) : x = q[i]
        BY <1>1 DEF ToSet
      <3>3. QED BY <1>1, <2>1, <3>2 DEF ToSet
    <2>4. {Head(q)} \cup ToSet(Tail(q)) \subseteq ToSet(q)
      BY <1>1, <1>3, <2>2 DEF ToSet
    <2>5. QED BY <2>3, <2>4
  <1>5. Climbs(Tail(q))
    BY <1>1, <1>3 DEF Climbs
  <1>6. Head(q) \in Numbers => \A n \in ToSet(Tail(q)) \cap Numbers : Head(q) < n
    BY <1>1, <1>3 DEF Climbs, ToSet
  <1>7. Head(q) \in Nat
    BY <1>1
  <1>8. QED BY <1>4, <1>5, <1>6, <1>7

LEMMA ClimbsAppend ==
    ASSUME NEW q, Climbs(q), NEW n \in Nat,
           n \in Numbers => \A m \in ToSet(q) \cap Numbers : m < n
    PROVE  /\ Climbs(Append(q, n)) /\ Append(q, n) # <<>>
           /\ ToSet(Append(q, n)) = ToSet(q) \cup {n}
  <1>1. /\ q \in Seq(Nat) /\ Len(q) \in Nat
        /\ Append(q, n) \in Seq(Nat) /\ Len(Append(q, n)) = Len(q) + 1
        /\ \A i \in 1..Len(q) : Append(q, n)[i] = q[i]
        /\ Append(q, n)[Len(q) + 1] = n
        /\ DOMAIN q = 1..Len(q) /\ DOMAIN Append(q, n) = 1..Len(q) + 1
    BY DEF Climbs
  <1>2. \A i \in 1..Len(q) + 1 : i \in 1..Len(q) \/ i = Len(q) + 1
    BY <1>1
  <1>3. \A i \in 1..Len(q) : i \in 1..Len(q) + 1 /\ q[i] \in ToSet(q)
    BY <1>1 DEF ToSet
  <1>4. ToSet(Append(q, n)) = ToSet(q) \cup {n}
    <2>1. Len(q) + 1 \in 1..Len(q) + 1
      BY <1>1
    <2>2. QED BY <1>1, <1>2, <1>3, <2>1 DEF ToSet
  <1>5. Climbs(Append(q, n))
    <2>1. ASSUME NEW i \in 1..Len(q) + 1, NEW j \in 1..Len(q) + 1, i < j,
                 Append(q, n)[i] \in Numbers, Append(q, n)[j] \in Numbers
          PROVE  Append(q, n)[i] < Append(q, n)[j]
      <3>1. /\ i \in 1..Len(q) /\ Append(q, n)[i] = q[i]
            /\ q[i] \in ToSet(q) \cap Numbers
        BY <1>1, <1>3, <2>1
      <3>2. CASE j \in 1..Len(q)
        BY <1>1, <2>1, <3>1, <3>2 DEF Climbs
      <3>3. CASE j = Len(q) + 1
        BY <1>1, <2>1, <3>1, <3>3
      <3>4. QED BY <1>2, <3>2, <3>3
    <2>2. QED BY <1>1, <2>1 DEF Climbs
  <1>6. QED BY <1>1, <1>4, <1>5

LEMMA OnFilesNumbers == ASSUME NEW files, InOrder(files) PROVE OnFiles(files) \subseteq Numbers
  BY DEF InOrder, OnFiles, ToSet

\* A new record is on the card, and so is every other.
LEMMA WithRecordIs ==
    ASSUME NEW files, InOrder(files), NEW n \in Numbers, \A x \in OnFiles(files) : x < n
    PROVE  /\ InOrder(WithRecord(files, n))
           /\ OnFiles(WithRecord(files, n)) = OnFiles(files) \cup {n}
  <1> DEFINE open == {f \in files : Len(f) < SegmentRecords}
  <1>n. n \in Nat
    BY SequenceAssumption DEF Numbers
  <1>1. \A f \in files : \A x \in ToSet(f) : x < n
    BY DEF OnFiles
  <1>2. \A f \in files : Append(f, n) \in Seq(Numbers) /\ Append(f, n) # <<>>
    BY DEF InOrder
  <1>3. \A f \in files : Climbs(Append(f, n)) /\ ToSet(Append(f, n)) = ToSet(f) \cup {n}
    BY <1>n, <1>1, ClimbsAppend DEF InOrder
  <1>4. CASE open = {}
    <2>1. WithRecord(files, n) = files \cup {<<n>>}
      BY <1>4 DEF WithRecord
    <2>2. <<n>> \in Seq(Numbers) /\ <<n>> # <<>> /\ ToSet(<<n>>) = {n} /\ Climbs(<<n>>)
      BY <1>n DEF ToSet, Climbs
    <2>3. QED BY <2>1, <2>2 DEF InOrder, OnFiles
  <1>5. CASE open # {}
    <2>1. WithRecord(files, n) = (files \ open) \cup {Append(f, n) : f \in open}
      BY <1>5 DEF WithRecord
    <2>2. open \subseteq files
      OBVIOUS
    <2> HIDE DEF open
    <2>3. InOrder(WithRecord(files, n))
      BY <1>2, <1>3, <2>1, <2>2 DEF InOrder
    <2>4. \A x \in OnFiles(WithRecord(files, n)) : x \in OnFiles(files) \cup {n}
      <3>1. SUFFICES ASSUME NEW g \in WithRecord(files, n), NEW x \in ToSet(g)
                     PROVE  x = n \/ \E f \in files : x \in ToSet(f)
        BY DEF OnFiles
      <3>2. CASE g \in files
        BY <3>2
      <3>3. CASE g \notin files
        <4>1. PICK f \in open : g = Append(f, n)
          BY <2>1, <3>3
        <4>2. QED BY <1>3, <2>2, <4>1
      <3>4. QED BY <3>2, <3>3
    <2>5. \A x \in OnFiles(files) : x \in OnFiles(WithRecord(files, n))
      <3>1. SUFFICES ASSUME NEW f \in files, NEW x \in ToSet(f)
                     PROVE  \E g \in WithRecord(files, n) : x \in ToSet(g)
        BY DEF OnFiles
      <3>2. CASE f \in open
        BY <1>3, <2>1, <3>1, <3>2
      <3>3. CASE f \notin open
        BY <2>1, <3>1, <3>3
      <3>4. QED BY <3>2, <3>3
    <2>6. n \in OnFiles(WithRecord(files, n))
      <3>1. PICK f \in open : TRUE
        BY <1>5
      <3>2. Append(f, n) \in WithRecord(files, n) /\ n \in ToSet(Append(f, n))
        BY <1>3, <2>1, <2>2, <3>1
      <3>3. QED BY <3>2 DEF OnFiles
    <2>7. QED BY <2>3, <2>4, <2>5, <2>6
  <1>6. QED BY <1>4, <1>5

LEMMA LeastIs ==
    ASSUME NEW S \in SUBSET Numbers
    PROVE  /\ Least(S) \in 0..Limit /\ Least(S) \in S \cup {0}
           /\ \A x \in S : Least(S) <= x
           /\ Least(S) = 0 => S = {}
  <1>1. S \in SUBSET Nat /\ Limit \in Nat /\ \A x \in S : x \in 1..Limit
    BY SequenceAssumption DEF Numbers
  <1>2. CASE S = {}
    BY <1>1, <1>2 DEF Least
  <1>3. CASE S # {}
    <2>1. \E x \in S : \A y \in S : x <= y
      BY <1>1, <1>3, LeastNumber
    <2>2. Min(S) \in S /\ \A y \in S : Min(S) <= y
      BY <2>1 DEF Min
    <2>3. Least(S) = Min(S) /\ Min(S) \in 1..Limit
      BY <1>1, <1>3, <2>2 DEF Least
    <2>4. Min(S) \in 0..Limit /\ Min(S) # 0
      BY <1>1, <2>3
    <2>5. QED BY <2>2, <2>3, <2>4
  <1>4. QED BY <1>2, <1>3

LEMMA GreatestIs == ASSUME NEW S \in SUBSET Numbers PROVE Greatest(S) \in 0..Limit
  <1>1. Limit \in Nat /\ S \in SUBSET (0..Limit)
    BY SequenceAssumption DEF Numbers
  <1>2. CASE S # {}
    BY <1>1, <1>2, GreatestNumber DEF Greatest
  <1>3. CASE S = {}
    BY <1>1, <1>3 DEF Greatest
  <1>4. QED BY <1>2, <1>3

LEMMA RebuiltIs ==
    ASSUME NEW h \in HealthType, NEW files, InOrder(files)
    PROVE  /\ Rebuilt(h, files) \in HealthType
           /\ Rebuilt(h, files).status = h.status /\ Rebuilt(h, files).ack = h.ack
           /\ Rebuilt(h, files).oldest \in OnFiles(files) \cup {0}
           /\ Covering(Rebuilt(h, files), files)
  <1> DEFINE gaps == UNION {GapsIn(f) : f \in files}
             r == [h EXCEPT !.oldest = Least(OnFiles(files)), !.first = Least(gaps),
                            !.last = Greatest(gaps), !.complete = TRUE]
  <1>1. gaps \in SUBSET Numbers /\ OnFiles(files) \in SUBSET Numbers
    BY OnFilesNumbers DEF GapsIn
  <1>2. Least(gaps) \in 0..Limit /\ Greatest(gaps) \in 0..Limit
    BY <1>1, LeastIs, GreatestIs
  <1>3. /\ Least(OnFiles(files)) \in 0..Limit /\ Least(OnFiles(files)) \in OnFiles(files) \cup {0}
        /\ \A x \in OnFiles(files) : Least(OnFiles(files)) <= x
        /\ Least(OnFiles(files)) = 0 => OnFiles(files) = {}
    BY <1>1, LeastIs
  <1>4. Rebuilt(h, files) = r
    BY DEF Rebuilt
  <1> HIDE DEF gaps
  <1>5. r \in HealthType /\ r.status = h.status /\ r.ack = h.ack /\ r.oldest = Least(OnFiles(files))
    BY <1>2, <1>3 DEF HealthType
  <1>6. QED BY <1>3, <1>4, <1>5 DEF Covering

\* reclaim_acknowledged_segments() goes by a segment's last record, the highest.
LEMMA ReclaimedIs ==
    ASSUME InOrder(card), health.ack \in Nat, NEW f \in card, ~Kept(f), NEW x \in ToSet(f)
    PROVE  x <= health.ack
  <1>1. f \in Seq(Numbers) /\ f # <<>> /\ Climbs(f)
    BY DEF InOrder
  <1>2. Len(f) \in Nat /\ Len(f) >= 1 /\ DOMAIN f = 1..Len(f) /\ Len(f) \in 1..Len(f)
    BY <1>1
  <1>3. \A i \in 1..Len(f) : f[i] \in Numbers
    BY <1>1
  <1>4. \A i \in 1..Len(f) : f[i] \in Nat /\ f[i] # 0
    BY <1>3, SequenceAssumption DEF Numbers
  <1>5. PICK i \in 1..Len(f) : x = f[i]
    BY <1>2 DEF ToSet
  <1>6. f[Len(f)] <= health.ack
    BY <1>2, <1>4 DEF Kept, Last
  <1>7. f[i] <= f[Len(f)]
    <2>1. CASE i = Len(f)
      BY <1>2, <1>4, <2>1
    <2>2. CASE i # Len(f)
      <3>1. i < Len(f)
        <4>1. Len(f) \in Nat /\ i \in 1..Len(f) /\ i # Len(f)
          BY <1>2, <2>2
        <4>2. QED BY <4>1
      <3>2. f[i] < f[Len(f)]
        BY <1>1, <1>2, <1>3, <3>1 DEF Climbs
      <3>3. QED BY <1>2, <1>4, <3>2
    <2>3. QED BY <2>1, <2>2
  <1>8. QED BY <1>2, <1>4, <1>5, <1>6, <1>7

\* append_record(): how the card and its index come out.
LEMMA AppendsIs ==
    ASSUME health \in HealthType, InOrder(card), Covering(health, card),
           NEW n \in Numbers, \A x \in OnCard : x < n, NEW r \in Appends(n)
    PROVE  /\ r.health \in HealthType /\ r.health.ack = health.ack
           /\ r.health.oldest \in OnCard \cup {0, n, health.oldest}
           /\ InOrder(r.card) /\ Covering(r.health, r.card)
           /\ OnFiles(r.card) \subseteq OnCard \cup {n}
           /\ \A x \in OnCard \ OnFiles(r.card) : x <= health.ack
  <1> DEFINE low == Cardinality(OnCard) >= CardRecords
             files == IF low THEN {f \in card : Kept(f)} ELSE card
             h == IF low THEN Rebuilt(health, files) ELSE health
             stored == [h EXCEPT !.oldest = IF @ = 0 \/ n < @ THEN n ELSE @]
             full == [health EXCEPT !.status = "FULL"]
             broken == [h EXCEPT !.status = "IO_ERROR"]
  <1>n. n \in 0..Limit /\ n \in Nat /\ Limit \in Nat /\ n # 0
    BY SequenceAssumption DEF Numbers
  <1>t. health.ack \in Nat /\ health.oldest \in Nat /\ health.oldest \in 0..Limit
    BY SequenceAssumption DEF HealthType
  <1>1. files \subseteq card
    OBVIOUS
  <1>2. \A x \in OnCard : x \in OnFiles(files) \/ x <= health.ack
    <2>1. SUFFICES ASSUME NEW f \in card, NEW x \in ToSet(f), f \notin files
                   PROVE  x <= health.ack
      BY DEF OnFiles, OnCard
    <2>2. ~Kept(f)
      BY <2>1
    <2>3. QED BY <1>t, <2>1, <2>2, ReclaimedIs
  <1>3. InOrder(files) /\ OnFiles(files) \subseteq OnCard
    BY <1>1 DEF InOrder, OnFiles, OnCard
  <1>4. /\ h \in HealthType /\ h.status = health.status /\ h.ack = health.ack
        /\ h.oldest \in OnCard \cup {0, health.oldest} /\ Covering(h, files)
    <2>1. CASE low
      BY <1>3, <2>1, RebuiltIs
    <2>2. CASE ~low
      BY <2>2
    <2>3. QED BY <2>1, <2>2
  <1>5. \/ r = [card |-> card, health |-> health, ok |-> FALSE, fault |-> FALSE]
        \/ r = [card |-> files, health |-> full, ok |-> FALSE, fault |-> FALSE] /\ health.status = "READY"
        \/ /\ r = [card |-> WithRecord(files, n), health |-> stored, ok |-> TRUE, fault |-> FALSE]
           /\ health.status = "READY"
        \/ \E left \in {files, WithRecord(files, n)} :
              r = [card |-> left, health |-> broken, ok |-> FALSE, fault |-> TRUE]
    BY DEF Appends
  <1> HIDE DEF low, files, h
  <1>6. /\ full \in HealthType /\ full.ack = health.ack /\ full.oldest = health.oldest
        /\ full.status = "FULL"
    BY DEF HealthType
  <1>7. /\ broken \in HealthType /\ broken.ack = health.ack /\ broken.oldest = h.oldest
        /\ broken.status = "IO_ERROR"
    BY <1>4 DEF HealthType
  <1>8. /\ stored \in HealthType /\ stored.ack = health.ack /\ stored.status = health.status
        /\ stored.oldest = IF h.oldest = 0 \/ n < h.oldest THEN n ELSE h.oldest
    BY <1>n, <1>4 DEF HealthType
  <1> HIDE DEF full, broken, stored
  <1>9. \A x \in OnFiles(files) : x < n
    BY <1>3
  <1>10. InOrder(WithRecord(files, n)) /\ OnFiles(WithRecord(files, n)) = OnFiles(files) \cup {n}
    BY <1>3, <1>9, WithRecordIs
  <1>11. CASE r = [card |-> card, health |-> health, ok |-> FALSE, fault |-> FALSE]
    BY <1>11 DEF OnCard
  <1>12. CASE /\ r = [card |-> files, health |-> full, ok |-> FALSE, fault |-> FALSE]
              /\ health.status = "READY"
    <2>1. Covering(full, files)
      BY <1>3, <1>6, <1>12 DEF Covering, OnCard
    <2>2. r.card = files /\ r.health = full
      BY <1>12
    <2>3. QED BY <1>2, <1>3, <1>6, <2>1, <2>2
  <1>13. CASE /\ r = [card |-> WithRecord(files, n), health |-> stored, ok |-> TRUE, fault |-> FALSE]
              /\ health.status = "READY"
    <2>1. r.card = WithRecord(files, n) /\ r.health = stored
      BY <1>13
    <2>2. h.oldest \in Nat /\ \A x \in OnFiles(files) : x \in Nat
      BY <1>3, <1>4, OnFilesNumbers, SequenceAssumption DEF HealthType, Numbers
    <2>3. /\ \A x \in OnFiles(files) : h.oldest <= x
          /\ h.oldest = 0 => OnFiles(files) = {}
      BY <1>4, <1>13 DEF Covering
    <2>4. Covering(stored, WithRecord(files, n))
      <3>1. \A x \in OnFiles(files) \cup {n} : stored.oldest <= x
        BY <1>n, <1>8, <1>9, <2>2, <2>3
      <3>2. stored.oldest # 0
        BY <1>n, <1>8, <2>2
      <3>3. QED BY <1>10, <3>1, <3>2 DEF Covering
    <2>5. stored.oldest \in OnCard \cup {0, n, health.oldest}
      BY <1>4, <1>8
    <2>6. QED BY <1>2, <1>3, <1>8, <1>10, <2>1, <2>4, <2>5
  <1>14. ASSUME NEW left \in {files, WithRecord(files, n)},
                r = [card |-> left, health |-> broken, ok |-> FALSE, fault |-> TRUE]
         PROVE  /\ r.health \in HealthType /\ r.health.ack = health.ack
                /\ r.health.oldest \in OnCard \cup {0, n, health.oldest}
                /\ InOrder(r.card) /\ Covering(r.health, r.card)
                /\ OnFiles(r.card) \subseteq OnCard \cup {n}
                /\ \A x \in OnCard \ OnFiles(r.card) : x <= health.ack
    <2>1. r.card = left /\ r.health = broken
      BY <1>14
    <2>2. InOrder(left) /\ OnFiles(left) \subseteq OnCard \cup {n} /\ OnFiles(files) \subseteq OnFiles(left)
      BY <1>3, <1>10
    <2>3. Covering(broken, left)
      BY <1>7 DEF Covering
    <2>4. QED BY <1>2, <1>4, <1>7, <2>1, <2>2, <2>3
  <1>15. QED BY <1>5, <1>11, <1>12, <1>13, <1>14

LEMMA FlowNumbers ==
    ASSUME SeqInv, Shape, Flow
    PROVE  /\ OnCard \subseteq Numbers /\ Coming \subseteq Numbers /\ Numbers \subseteq Nat
           /\ health.oldest \in Nat /\ health.ack \in Nat
           /\ \A i \in DOMAIN handed : handed[i] \in Numbers
  <1>1. \A i \in DOMAIN handed : handed[i] \in Numbers
    BY DEF SeqInv, SeqTypeOK
  <1>2. Numbers \subseteq Nat
    BY SequenceAssumption DEF Numbers
  <1>3. OnCard \subseteq Numbers /\ Coming \subseteq Numbers
    BY <1>1 DEF Flow, Given
  <1>4. health.oldest \in Nat /\ health.ack \in Nat
    BY SequenceAssumption DEF Shape, HealthType
  <1>5. QED BY <1>1, <1>2, <1>3, <1>4

\* The card stays as it is; its index does, too, or is rebuilt.
LEMMA FlowQuiet ==
    ASSUME SeqInv, Shape, Flow, card' = card, Coming' \subseteq Coming, prefixes' = prefixes,
           \A i \in DOMAIN handed : i \in DOMAIN handed' /\ handed'[i] = handed[i],
           health'.oldest \in OnCard \cup {0, health.oldest}, Running' => Covering(health, card)'
    PROVE  Flow'
  <1>n. /\ OnCard \subseteq Numbers /\ Coming \subseteq Numbers /\ Numbers \subseteq Nat
        /\ health.oldest \in Nat
    BY FlowNumbers
  <1>1. OnCard' = OnCard
    BY DEF OnCard
  <1>2. \A x : Given(x) => Given(x)'
    BY DEF Given
  <1>3. \A x \in OnCard, n \in Coming' : x < n
    BY DEF Flow
  <1>4. \A x \in OnCard \cup Coming' : Given(x)'
    BY <1>2 DEF Flow
  <1>5. (health.oldest # 0 => Given(health.oldest))'
    <2>1. health'.oldest # 0 => Given(health'.oldest)
      BY DEF Flow
    <2>2. QED BY <2>1 DEF Given
  <1>6. \A n \in Coming' : health'.oldest <= n
    <2>1. SUFFICES ASSUME NEW n \in Coming PROVE health'.oldest <= n
      OBVIOUS
    <2>2. n \in Nat /\ 0 <= n
      BY <1>n
    <2>3. CASE health'.oldest \in OnCard
      <3>1. health'.oldest < n /\ health'.oldest \in Nat
        BY <1>n, <2>1, <2>3 DEF Flow
      <3>2. QED BY <2>2, <3>1
    <2>4. CASE health'.oldest \in {0, health.oldest}
      BY <2>1, <2>2, <2>4 DEF Flow
    <2>5. QED BY <2>3, <2>4
  <1>7. prefixes' \cap (OnCard \cup Coming') = {}
    BY DEF Flow
  <1>8. \A p \in prefixes' : \E i \in DOMAIN handed' : p < handed'[i]
    BY DEF Flow
  <1>9. QED BY <1>1, <1>3, <1>4, <1>5, <1>6, <1>7, <1>8 DEF Flow, Given

\* The storage task executes the append of the first number that is coming.
LEMMA FlowAppend ==
    ASSUME SeqInv, Shape, Flow, On, power' = power, NEW n \in Coming, NEW r \in Appends(n),
           card' = r.card, health'.oldest = r.health.oldest, health'.status = r.health.status,
           \A m \in Coming' : m \in Coming /\ n < m, UNCHANGED <<handed, prefixes>>
    PROVE  /\ Flow' /\ InOrder(card') /\ r.health \in HealthType /\ r.health.ack = health.ack
           /\ \A x \in OnCard \ OnCard' : x <= health.ack
  <1>n. /\ OnCard \subseteq Numbers /\ Coming \subseteq Numbers /\ Numbers \subseteq Nat
        /\ health.oldest \in Nat /\ n \in Numbers
    BY FlowNumbers
  <1>1. \A x \in OnCard : x < n
    BY DEF Flow
  <1>2. Covering(health, card)
    BY DEF Flow, Running, On
  <1>3. /\ r.health \in HealthType /\ r.health.ack = health.ack
        /\ r.health.oldest \in OnCard \cup {0, n, health.oldest}
        /\ InOrder(r.card) /\ Covering(r.health, r.card)
        /\ OnFiles(r.card) \subseteq OnCard \cup {n}
        /\ \A x \in OnCard \ OnFiles(r.card) : x <= health.ack
    BY <1>n, <1>1, <1>2, AppendsIs DEF Shape
  <1>4. OnCard' = OnFiles(r.card)
    BY DEF OnCard
  <1>5. \A x \in OnCard', m \in Coming' : x < m
    BY <1>3, <1>4 DEF Flow
  <1>6. \A x \in OnCard' \cup Coming' : Given(x)
    BY <1>3, <1>4 DEF Flow
  <1>7. health'.oldest # 0 => Given(health'.oldest)
    BY <1>3 DEF Flow
  <1>8. \A m \in Coming' : health'.oldest <= m
    <2>1. SUFFICES ASSUME NEW m \in Coming, n < m PROVE health'.oldest <= m
      OBVIOUS
    <2>2. m \in Nat /\ 0 <= m /\ n \in Nat
      BY <1>n
    <2>3. CASE health'.oldest \in OnCard
      <3>1. health'.oldest < m /\ health'.oldest \in Nat
        BY <1>n, <2>1, <2>3 DEF Flow
      <3>2. QED BY <2>2, <3>1
    <2>4. CASE health'.oldest \in {0, n, health.oldest}
      BY <2>1, <2>2, <2>4 DEF Flow
    <2>5. QED BY <1>3, <2>3, <2>4
  <1>9. Covering(health', card')
    BY <1>3 DEF Covering
  <1>10. prefixes \cap (OnCard' \cup Coming') = {}
    BY <1>3, <1>4 DEF Flow
  <1>11. Flow'
    BY <1>5, <1>6, <1>7, <1>8, <1>9, <1>10 DEF Flow, Given
  <1>12. QED BY <1>3, <1>4, <1>11

LEMMA TrustedStep ==
    ASSUME Trusted, health'.ack = health.ack, received \subseteq received', lost \subseteq lost',
           phantoms \subseteq phantoms'
    PROVE  Trusted'
  BY DEF Trusted, KnownUpTo, Known

LEMMA UnavailableIs ==
    ASSUME NEW h \in HealthType, NEW n \in Numbers
    PROVE  /\ Unavailable(h, n) \in HealthType
           /\ Unavailable(h, n).status = h.status /\ Unavailable(h, n).oldest = h.oldest
           /\ Unavailable(h, n).ack = h.ack
  <1> DEFINE a == IF h.first = 0 \/ n < h.first THEN n ELSE h.first
             b == IF n > h.last THEN n ELSE h.last
  <1>1. a \in 0..Limit /\ b \in 0..Limit
    BY SequenceAssumption DEF HealthType, Numbers
  <1>2. Unavailable(h, n) = [h EXCEPT !.first = a, !.last = b]
    BY DEF Unavailable
  <1> HIDE DEF a, b
  <1>3. QED BY <1>1, <1>2 DEF HealthType

\* A step that leaves the card and the interval task alone; requests may come and go.
LEMMA QuietCard ==
    ASSUME SeqInv, CardInv, UNCHANGED <<card, handed, prefixes>>,
           late' = late \/ (Climbs(late') /\ Queued' \subseteq Queued),
           call'["interval"] = call["interval"], power' = power,
           health' \in HealthType, health'.oldest \in OnCard \cup {0, health.oldest},
           Running => Covering(health', card),
           Trusted'
    PROVE  CardInv' /\ OnCard' = OnCard
  <1>1. /\ (InHand' <=> InHand) /\ Drawn' = Drawn /\ Queued' \subseteq Queued
        /\ (Busy("interval")' <=> Busy("interval"))
    BY DEF InHand, Drawn, Queued, Busy
  <1>2. Coming' \subseteq Coming /\ OnCard' = OnCard
    BY <1>1 DEF Coming, OnCard
  <1>3. Flow'
    <2>1. Running' => Covering(health', card')
      BY DEF Running
    <2>2. QED BY <1>2, <2>1, FlowQuiet DEF CardInv
  <1>4. Shape'
    BY <1>1 DEF CardInv, Shape
  <1>5. QED BY <1>2, <1>3, <1>4 DEF CardInv

\* A refresh or a read, whether it succeeds or not, leaves an index of the card that
\* may be believed, or none.
LEMMA ServedIs ==
    ASSUME CardInv, NEW request, Succeeds(request) \/ FailsTo(request)
    PROVE  /\ health' \in HealthType /\ health'.oldest \in OnCard \cup {0, health.oldest}
           /\ health'.ack = health.ack
           /\ Running => Covering(health', card)
  <1>t. health \in HealthType /\ InOrder(card) /\ (Running => Covering(health, card))
    BY DEF CardInv, Shape, Flow
  <1>1. CASE health' = health
    BY <1>t, <1>1
  <1>2. CASE health' = Rebuilt(health, card)
    BY <1>t, <1>2, RebuiltIs DEF OnCard
  <1>3. CASE health' = [health EXCEPT !.complete = FALSE]
    <2>1. /\ health' \in HealthType /\ health'.oldest = health.oldest
          /\ health'.status = health.status /\ health'.ack = health.ack
      BY <1>t, <1>3 DEF HealthType
    <2>2. QED BY <1>t, <2>1 DEF Covering
  <1>4. CASE health' = [health EXCEPT !.complete = FALSE, !.status = "IO_ERROR"]
    <2>1. /\ health' \in HealthType /\ health'.oldest = health.oldest
          /\ health'.status = "IO_ERROR" /\ health'.ack = health.ack
      BY <1>t, <1>4 DEF HealthType
    <2>2. QED BY <2>1 DEF Covering
  <1>5. QED
    BY <1>1, <1>2, <1>3, <1>4 DEF Succeeds, FailsTo, Refreshes, RefreshFails, Reads, ReadFails

LEMMA StoreLateCard ==
    ASSUME SeqInv, CardInv, StoreLate
    PROVE  CardInv' /\ \A x \in OnCard \ OnCard' : x <= health.ack
  <1>t. /\ Shape /\ Flow /\ Trusted /\ On /\ late # <<>> /\ late' = Tail(late)
        /\ UNCHANGED <<power, call, handed, prefixes, received, lost, phantoms>>
    BY DEF CardInv, StoreLate, storeVars, netVars
  <1>1. /\ Climbs(late') /\ ToSet(late) = {Head(late)} \cup ToSet(late')
        /\ Head(late) \in Numbers => \A n \in ToSet(late') \cap Numbers : Head(late) < n
    BY <1>t, ClimbsTail DEF Shape
  <1>2. /\ (InHand <=> InHand') /\ Drawn' = Drawn
        /\ Busy("interval")' => call'["interval"].op \in {"reserve", "allocate"}
    BY <1>t DEF InHand, Drawn, Shape, Busy
  <1>3. Queued' \subseteq Queued
    BY <1>1 DEF Queued
  <1>4. Coming' \subseteq Coming
    BY <1>2, <1>3 DEF Coming
  <1>5. InHand' => \A n \in Queued' : n < Drawn'
    BY <1>t, <1>2, <1>3 DEF Shape
  <1>6. CASE Head(late) \notin Numbers
    <2>1. card' = card /\ (Succeeds(Head(late)) \/ FailsTo(Head(late)))
      BY <1>6 DEF StoreLate
    <2>2. /\ health' \in HealthType /\ health'.oldest \in OnCard \cup {0, health.oldest}
          /\ health'.ack = health.ack /\ (Running => Covering(health', card))
      BY <2>1, ServedIs
    <2>3. Trusted'
      BY <1>t, <2>2, TrustedStep
    <2>4. QED BY <1>t, <1>1, <1>3, <2>1, <2>2, <2>3, QuietCard
  <1>7. CASE Head(late) \in Numbers
    <2> DEFINE n == Head(late)
    <2>1. PICK r \in Appends(n) : card' = r.card /\ health' = r.health
      BY <1>7 DEF StoreLate, Executes
    <2>2. n \in Queued /\ n \in Coming
      BY <1>1, <1>7 DEF Queued, Coming
    <2>3. \A m \in Coming' : m \in Coming /\ n < m
      <3>1. \A m \in Queued' : n < m
        BY <1>1, <1>7 DEF Queued
      <3>2. InHand => n < Drawn
        BY <1>t, <2>2 DEF Shape
      <3>3. QED BY <1>2, <1>4, <3>1, <3>2 DEF Coming
    <2> HIDE DEF n
    <2>4. /\ Flow' /\ InOrder(card') /\ r.health \in HealthType /\ r.health.ack = health.ack
          /\ \A x \in OnCard \ OnCard' : x <= health.ack
      BY <1>t, <2>1, <2>2, <2>3, FlowAppend
    <2>5. Trusted'
      BY <1>t, <2>1, <2>4, TrustedStep
    <2>6. Shape'
      BY <1>1, <1>2, <1>5, <2>1, <2>4 DEF Shape
    <2>7. QED BY <2>4, <2>5, <2>6 DEF CardInv
  <1>8. QED BY <1>6, <1>7

\* The interval task has taken its result.
LEMMA HandEmpty ==
    ASSUME SeqInv, call' = [call EXCEPT !["interval"] = IdleCall]
    PROVE  ~InHand' /\ ~Busy("interval")' /\ Coming' = Queued'
  <1>1. call'["interval"] = IdleCall
    BY DEF SeqInv, SeqTypeOK, Tasks
  <1>2. QED BY <1>1, IdleCallType DEF InHand, Busy, InFlight, Coming

LEMMA DropCard == ASSUME SeqInv, CardInv, DropInterval PROVE CardInv' /\ OnCard' = OnCard
  <1>t. /\ Shape /\ Flow /\ Trusted /\ On /\ ~InHand
        /\ call' = [call EXCEPT !["interval"] = IdleCall]
        /\ UNCHANGED <<power, handed, card, late, health, prefixes, received, lost, phantoms>>
    BY DEF CardInv, DropInterval, cardVars, netVars, InHand
  <1>1. ~InHand' /\ ~Busy("interval")' /\ Coming' = Queued'
    BY <1>t, HandEmpty
  <1>2. OnCard' = OnCard /\ Queued' = Queued /\ Coming' \subseteq Coming
    BY <1>t, <1>1 DEF OnCard, Queued, Coming
  <1>3. Flow'
    <2>1. Covering(health', card')
      BY <1>t DEF Flow, Running, On
    <2>2. QED BY <1>t, <1>2, <2>1, FlowQuiet
  <1>4. Trusted'
    BY <1>t, TrustedStep
  <1>5. Shape'
    BY <1>t, <1>1 DEF Shape
  <1>6. QED BY <1>2, <1>3, <1>4, <1>5 DEF CardInv

\* A number in hand is the last in the storage task's queue.
LEMMA TurnIs ==
    ASSUME SeqInv, Shape, Flow, InHand
    PROVE  /\ Drawn \in Numbers /\ Climbs(Append(late, Drawn)) /\ Append(late, Drawn) # <<>>
           /\ ToSet(Append(late, Drawn)) \cap Numbers = Coming
  <1>1. Drawn \in Coming /\ Drawn \in Numbers /\ Drawn \in Nat
    BY FlowNumbers DEF Coming
  <1>2. \A m \in ToSet(late) \cap Numbers : m < Drawn
    BY DEF Shape, Queued
  <1>3. /\ Climbs(Append(late, Drawn)) /\ Append(late, Drawn) # <<>>
        /\ ToSet(Append(late, Drawn)) = ToSet(late) \cup {Drawn}
    BY <1>1, <1>2, ClimbsAppend DEF Shape
  <1>4. QED BY <1>1, <1>3 DEF Coming, Queued

LEMMA AppendCard ==
    ASSUME SeqInv, CardInv, AppendInterval
    PROVE  CardInv' /\ \A x \in OnCard \ OnCard' : x <= health.ack
  <1> DEFINE turn == Append(late, Drawn)
             n == Head(turn)
  <1>t. /\ Shape /\ Flow /\ Trusted /\ On /\ InHand
        /\ call' = [call EXCEPT !["interval"] = IdleCall]
        /\ UNCHANGED <<power, handed, prefixes, received, lost, phantoms>>
    BY DEF CardInv, AppendInterval, netVars, InHand
  <1>1. PICK r \in Appends(n) :
          /\ n \in Numbers /\ card' = r.card /\ late' = Tail(turn)
          /\ health' = IF r.ok THEN r.health ELSE Unavailable(r.health, Drawn)
    BY DEF AppendInterval, Executes, Drawn
  <1>2. /\ Drawn \in Numbers /\ Climbs(turn) /\ turn # <<>> /\ ToSet(turn) \cap Numbers = Coming
    BY <1>t, TurnIs
  <1> HIDE DEF turn
  <1>3. /\ Climbs(late') /\ ToSet(turn) = {n} \cup ToSet(late')
        /\ n \in Numbers => \A m \in ToSet(late') \cap Numbers : n < m
    BY <1>1, <1>2, ClimbsTail
  <1> HIDE DEF n
  <1>4. ~InHand' /\ ~Busy("interval")' /\ Coming' = Queued'
    BY <1>t, HandEmpty
  <1>5. n \in Coming /\ \A m \in Coming' : m \in Coming /\ n < m
    BY <1>1, <1>2, <1>3, <1>4 DEF Queued
  <1>6. r.health \in HealthType /\ InOrder(r.card)
    <2>1. \A x \in OnCard : x < n
      BY <1>t, <1>5 DEF Flow
    <2>2. Covering(health, card) /\ n \in Numbers
      BY <1>t, <1>5, FlowNumbers DEF Flow, Running, On
    <2>3. QED BY <1>t, <2>1, <2>2, AppendsIs DEF Shape
  <1>7. /\ health' \in HealthType /\ health'.oldest = r.health.oldest
        /\ health'.status = r.health.status /\ health'.ack = r.health.ack
    BY <1>1, <1>2, <1>6, UnavailableIs
  <1>8. /\ Flow' /\ r.health.ack = health.ack /\ \A x \in OnCard \ OnCard' : x <= health.ack
    BY <1>t, <1>1, <1>5, <1>7, FlowAppend
  <1>9. Trusted'
    BY <1>t, <1>7, <1>8, TrustedStep
  <1>10. Shape'
    BY <1>1, <1>3, <1>4, <1>6, <1>7 DEF Shape
  <1>11. QED BY <1>8, <1>9, <1>10 DEF CardInv

LEMMA TimeoutCard == ASSUME SeqInv, CardInv, AppendTimesOut PROVE CardInv' /\ OnCard' = OnCard
  <1>t. /\ Shape /\ Flow /\ Trusted /\ On /\ InHand
        /\ call' = [call EXCEPT !["interval"] = IdleCall]
        /\ late' = Append(late, Drawn) /\ health' = Unavailable(health, Drawn)
        /\ UNCHANGED <<power, handed, card, prefixes, received, lost, phantoms>>
    BY DEF CardInv, AppendTimesOut, netVars, InHand, Drawn
  <1>1. /\ Drawn \in Numbers /\ Climbs(late') /\ ToSet(late') \cap Numbers = Coming
    BY <1>t, TurnIs
  <1>2. ~InHand' /\ ~Busy("interval")' /\ Coming' = Queued'
    BY <1>t, HandEmpty
  <1>3. Coming' = Coming
    BY <1>1, <1>2 DEF Queued
  <1>4. /\ health' \in HealthType /\ health'.oldest = health.oldest
        /\ health'.status = health.status /\ health'.ack = health.ack
    BY <1>t, <1>1, UnavailableIs DEF Shape
  <1>5. Covering(health', card')
    BY <1>t, <1>4 DEF Flow, Running, On, Covering
  <1>6. Flow'
    BY <1>t, <1>3, <1>4, <1>5, FlowQuiet
  <1>7. Trusted'
    BY <1>t, <1>4, TrustedStep
  <1>8. Shape'
    BY <1>t, <1>1, <1>2, <1>4 DEF Shape
  <1>9. QED BY <1>t, <1>6, <1>7, <1>8 DEF CardInv, OnCard

\* The store hands out a number that is greater than all before, to the interval task.
LEMMA DrawIs ==
    ASSUME SeqInv, Shape, NEW t \in Tasks, Assign(t)
    PROVE  /\ \A i \in DOMAIN handed : i \in DOMAIN handed' /\ handed'[i] = handed[i]
           /\ Busy("interval")' => call'["interval"].op \in {"reserve", "allocate"}
           /\ \/ (InHand' <=> InHand) /\ Drawn' = Drawn
              \/ ~InHand'
              \/ /\ ~InHand /\ InHand' /\ Given(Drawn)' /\ Drawn' \in Numbers
                 /\ \A i \in DOMAIN handed : handed[i] < Drawn'
  <1>t. /\ SeqTypeOK /\ Sound /\ call \in [Tasks -> CallType] /\ call[t] \in CallType
        /\ handed \in Seq(Numbers) /\ call[t].pc = "selected" /\ Busy(t) /\ "interval" \in Tasks
        /\ call[t].copy \in SequenceState
    BY DEF SeqInv, SeqTypeOK, CallType, Assign, Busy, InFlight, Tasks
  <1> DEFINE s == call[t].copy
             new == Adopted(s, call[t].op)
  <1>1. /\ handed' = IF call[t].op = "allocate" THEN Append(handed, s.seen) ELSE handed
        /\ call' = [call EXCEPT ![t] =
                      CASE call[t].op = "fresh" -> IdleCall
                        [] call[t].op = "reserve" ->
                             [@ EXCEPT !.pc = "copied", !.op = "allocate", !.copy = Allocated(new)]
                        [] OTHER -> [@ EXCEPT !.pc = "done"]]
    BY DEF Assign
  <1>2. \A i \in DOMAIN handed : i \in DOMAIN handed' /\ handed'[i] = handed[i]
    <2>1. CASE call[t].op = "allocate"
      <3>1. handed' = Append(handed, s.seen)
        BY <1>1, <2>1
      <3>2. QED BY <1>t, <3>1
    <2>2. CASE call[t].op # "allocate"
      BY <1>1, <2>2
    <2>3. QED BY <2>1, <2>2
  <1>3. CASE t # "interval"
    <2>1. call'["interval"] = call["interval"]
      BY <1>t, <1>1, <1>3
    <2>2. QED BY <1>2, <2>1 DEF Shape, Busy, InHand, Drawn
  <1>4. CASE t = "interval"
    <2>1. call[t].op \in {"reserve", "allocate"} /\ ~InHand
      BY <1>t, <1>4 DEF Shape, InHand
    <2>2. CASE call[t].op = "reserve"
      <3>1. call'["interval"] = [call[t] EXCEPT !.pc = "copied", !.op = "allocate",
                                                !.copy = Allocated(new)]
        BY <1>t, <1>1, <1>4, <2>2
      <3>2. call'["interval"].pc = "copied" /\ call'["interval"].op = "allocate"
        BY <1>t, <3>1 DEF CallType
      <3>3. QED BY <1>2, <3>2 DEF InHand
    <2>3. CASE call[t].op = "allocate"
      <3>1. call'["interval"] = [call[t] EXCEPT !.pc = "done"]
        BY <1>t, <1>1, <1>4, <2>3
      <3>2. call'["interval"].pc = "done" /\ call'["interval"].copy = s
        BY <1>t, <3>1 DEF CallType
      <3>3. InHand' /\ Drawn' = s.seen /\ ~Busy("interval")'
        BY <3>2 DEF InHand, Drawn, Busy, InFlight
      <3>4. Candidate("allocate", s)
        BY <1>t, <2>3 DEF Sound, Candidates
      <3>5. Running
        BY <1>t, <1>4 DEF Sound, Phases, Running, SeqTypeOK
      <3>6. s.seen = ram.next /\ ram.seen < ram.next /\ ram \in SequenceState
        BY <1>t, <3>4, <3>5 DEF Sound, Working, Candidate, SlotValid, SeqTypeOK
      <3>7. \A i \in DOMAIN handed : handed[i] <= ram.seen /\ handed[i] \in Nat
        BY <1>t, <3>5, HandedNumbers DEF Sound, Working, Covers
      <3>8. \A i \in DOMAIN handed : handed[i] < s.seen
        BY <3>6, <3>7, StateNumbers
      <3>9. s.seen \in Numbers
        BY <1>t, <3>6, StateNumbers DEF Numbers
      <3>10. Given(Drawn)'
        <4>1. handed' = Append(handed, s.seen) /\ Len(handed) \in Nat
          BY <1>t, <1>1, <2>3
        <4>2. Len(handed) + 1 \in DOMAIN handed' /\ handed'[Len(handed) + 1] = s.seen
          BY <1>t, <3>9, <4>1
        <4>3. QED BY <3>3, <4>2 DEF Given
      <3>11. QED BY <1>2, <2>1, <3>3, <3>8, <3>9, <3>10
    <2>4. QED BY <2>1, <2>2, <2>3
  <1>5. QED BY <1>3, <1>4

\* The steps of a call before its end draw nothing.
LEMMA UnderwayIs ==
    ASSUME SeqInv, Shape, NEW t \in Tasks, Plan(t) \/ WriteSlot(t) \/ SelectSlot(t)
    PROVE  /\ handed' = handed
           /\ Busy("interval")' => call'["interval"].op \in {"reserve", "allocate"}
           /\ (InHand' <=> InHand) /\ (Drawn' = Drawn \/ ~InHand')
  <1>t. /\ call \in [Tasks -> CallType] /\ call[t] \in CallType /\ "interval" \in Tasks
        /\ call[t].pc \in {"copied", "planned", "written"} /\ Busy(t)
        /\ handed' = handed
    BY DEF SeqInv, SeqTypeOK, CallType, Plan, WriteSlot, SelectSlot, Busy, InFlight, Tasks
  <1>1. \E c : call' = [call EXCEPT ![t] = c]
    BY DEF Plan, WriteSlot, SelectSlot, Fails
  <1>2. CASE t # "interval"
    <2>1. call'["interval"] = call["interval"]
      BY <1>t, <1>1, <1>2
    <2>2. QED BY <1>t, <2>1 DEF Shape, Busy, InHand, Drawn
  <1>3. CASE t = "interval"
    <2>1. \/ \E k : call' = [call EXCEPT ![t].pc = "planned", ![t].key = k]
          \/ \E pc \in {"written", "selected"} : call' = [call EXCEPT ![t].pc = pc]
          \/ call' = [call EXCEPT ![t] = [@ EXCEPT !.pc = "failed"]]
      BY <1>3 DEF Plan, WriteSlot, SelectSlot, Fails
    <2>2. /\ call'["interval"].op = call["interval"].op
          /\ call'["interval"].pc \in {"planned", "written", "selected", "failed"}
      BY <1>t, <1>3, <2>1 DEF CallType
    <2>3. QED BY <1>t, <1>3, <2>2 DEF Shape, InHand
  <1>4. QED BY <1>2, <1>3

LEMMA StoreCallCard == ASSUME SeqInv, CardInv, StoreCall PROVE CardInv' /\ OnCard' = OnCard
  <1>t. /\ Shape /\ Flow /\ Trusted
        /\ UNCHANGED <<card, late, health, prefixes, received, lost, phantoms>>
    BY DEF CardInv, StoreCall, cardVars, netVars
  <1>c. OnCard' = OnCard /\ Queued' = Queued
    BY <1>t DEF OnCard, Queued
  <1>h. Trusted' /\ health' \in HealthType /\ InOrder(card') /\ Climbs(late')
    BY <1>t, TrustedStep DEF Shape
  <1>r. Running' => Running /\ Covering(health', card')
    <2>1. Running
      <3>1. CASE BeginNext
        BY <3>1 DEF BeginNext, Running, On
      <3>2. CASE StoreStep
        BY <3>2, StoreStepRuns
      <3>3. QED BY <3>1, <3>2 DEF StoreCall
    <2>2. QED BY <1>t, <2>1 DEF Flow
  <1>1. /\ \A i \in DOMAIN handed : i \in DOMAIN handed' /\ handed'[i] = handed[i]
        /\ Busy("interval")' => call'["interval"].op \in {"reserve", "allocate"}
        /\ \/ (InHand' <=> InHand) /\ Drawn' = Drawn
           \/ ~InHand'
           \/ /\ ~InHand /\ InHand' /\ Given(Drawn)' /\ Drawn' \in Numbers
              /\ \A i \in DOMAIN handed : handed[i] < Drawn'
    <2>1. CASE BeginNext
      <3>1. PICK op \in {"reserve", "allocate"}, st \in {Reserved(ram), Allocated(ram)} :
                     Begin("interval", op, st)
        BY <2>1 DEF BeginNext
      <3>2. /\ call'["interval"] = [IdleCall EXCEPT !.pc = "copied", !.op = op, !.copy = st]
            /\ handed' = handed
        BY <2>1, <3>1 DEF Begin, BeginNext, SeqInv, SeqTypeOK, Tasks
      <3>3. call'["interval"].pc = "copied" /\ call'["interval"].op = op
        BY <3>2 DEF IdleCall
      <3>4. QED BY <3>1, <3>2, <3>3 DEF InHand
    <2>2. CASE StoreStep
      BY <1>t, <2>2, DrawIs, UnderwayIs DEF StoreStep
    <2>3. QED BY <2>1, <2>2 DEF StoreCall
  <1>2. CASE ((InHand' <=> InHand) /\ Drawn' = Drawn) \/ ~InHand'
    <2>1. Coming' \subseteq Coming
      BY <1>c, <1>2 DEF Coming
    <2>2. InHand' => \A n \in Queued' : n < Drawn'
      BY <1>t, <1>c, <1>2 DEF Shape
    <2>3. Shape'
      BY <1>h, <1>1, <2>2 DEF Shape
    <2>4. Flow'
      BY <1>t, <1>r, <1>1, <2>1, FlowQuiet
    <2>5. QED BY <1>c, <1>h, <2>3, <2>4 DEF CardInv
  <1>3. CASE /\ ~InHand /\ InHand' /\ Given(Drawn)' /\ Drawn' \in Numbers
             /\ \A i \in DOMAIN handed : handed[i] < Drawn'
    <2>1. Coming = Queued /\ Coming' = Queued \cup {Drawn'}
      BY <1>c, <1>3 DEF Coming
    <2>2. \A x \in OnCard \cup Coming : x < Drawn' /\ Given(x)'
      BY <1>1, <1>3, <1>t DEF Flow, Given
    <2>n. /\ \A x \in OnCard \cup Coming : x \in Nat
          /\ health.oldest \in Nat /\ Drawn' \in Nat /\ 0 <= Drawn'
      BY <1>t, <1>3, FlowNumbers
    <2>3. health.oldest # 0 => health.oldest < Drawn' /\ Given(health.oldest)'
      BY <1>1, <1>3, <1>t DEF Flow, Given
    <2>4. health.oldest <= Drawn'
      BY <2>n, <2>3
    <2>5. \A p \in prefixes : p # Drawn' /\ \E i \in DOMAIN handed' : p < handed'[i]
      <3>1. SUFFICES ASSUME NEW p \in prefixes
                     PROVE  p # Drawn' /\ \E i \in DOMAIN handed' : p < handed'[i]
        OBVIOUS
      <3>2. PICK i \in DOMAIN handed : p < handed[i]
        BY <1>t DEF Flow
      <3>3. handed[i] < Drawn' /\ handed[i] \in Nat /\ Drawn' \in Nat
        BY <1>3, <1>t, <2>n, FlowNumbers
      <3>4. p # Drawn'
        BY <3>2, <3>3
      <3>5. QED BY <1>1, <3>2, <3>4
    <2>6. Flow'
      <3>1. \A x \in OnCard', n \in Coming' : x < n
        BY <1>c, <1>t, <2>1, <2>2 DEF Flow
      <3>2. \A x \in OnCard' \cup Coming' : Given(x)'
        BY <1>c, <1>3, <2>1, <2>2
      <3>3. (health.oldest # 0 => Given(health.oldest))'
        BY <1>t, <2>3
      <3>4. \A n \in Coming' : health'.oldest <= n
        BY <1>t, <2>1, <2>4 DEF Flow
      <3>5. prefixes' \cap (OnCard' \cup Coming') = {}
        BY <1>c, <1>t, <2>1, <2>5 DEF Flow
      <3>6. QED BY <1>r, <1>t, <2>5, <3>1, <3>2, <3>3, <3>4, <3>5 DEF Flow
    <2>7. Shape'
      BY <1>c, <1>h, <1>1, <1>3, <2>1, <2>2 DEF Shape
    <2>8. QED BY <1>c, <1>h, <2>6, <2>7 DEF CardInv
  <1>4. QED BY <1>1, <1>2, <1>3

\* The index of a running device covers the card as long as the health stays.
LEMMA SameHealth ==
    ASSUME CardInv, health' = health, received \subseteq received', lost \subseteq lost',
           phantoms \subseteq phantoms'
    PROVE  /\ health' \in HealthType /\ health'.oldest \in OnCard \cup {0, health.oldest}
           /\ Running => Covering(health', card)
           /\ Trusted'
  <1>1. Trusted'
    BY TrustedStep DEF CardInv
  <1>2. QED BY <1>1 DEF CardInv, Shape, Flow

LEMMA AcceptedIs ==
    ASSUME CardInv, NEW n \in 0..Limit, KnownUpTo(n), Accepted(n),
           UNCHANGED <<received, lost, phantoms>>
    PROVE  /\ health' \in HealthType /\ health'.oldest \in OnCard \cup {0, health.oldest}
           /\ Running => Covering(health', card)
           /\ Trusted'
  <1>1. /\ health' \in HealthType /\ health'.oldest = health.oldest
        /\ health'.status = health.status /\ health'.ack = n
    BY DEF Accepted, CardInv, Shape, HealthType
  <1>2. Trusted'
    BY <1>1 DEF Trusted, KnownUpTo, Known
  <1>3. Running => Covering(health', card)
    BY <1>1 DEF CardInv, Flow, Covering
  <1>4. QED BY <1>1, <1>2, <1>3

LEMMA NetworkIdleCard ==
    ASSUME SeqInv, CardInv, Heartbeat \/ NothingLost \/ NotConfirmed \/ AcknowledgeRefused
    PROVE  CardInv' /\ OnCard' = OnCard
  <1>1. UNCHANGED <<card, late, handed, prefixes, power, call, health, lost, received, phantoms>>
    BY DEF Heartbeat, NothingLost, NotConfirmed, AcknowledgeRefused, seqVars, storeVars, cardVars
  <1>2. QED BY <1>1, SameHealth, QuietCard

\* A request of network_task() is no number, and none is lost from the queue by it.
LEMMA RequestIs ==
    ASSUME SeqInv, CardInv, NEW request \in {RefreshRequest, ReadRequest(ram.ack)},
           RequestAnswered(request) \/ RequestFails(request)
    PROVE  /\ Climbs(late') /\ Queued' \subseteq Queued
           /\ health' = health \/ \E served : Succeeds(served) \/ FailsTo(served)
  <1>1. request \in Nat /\ request \notin Numbers
    <2>1. ram.ack \in Nat /\ Limit \in Nat
      BY StateNumbers DEF SeqInv, SeqTypeOK
    <2>2. QED BY <2>1 DEF RefreshRequest, ReadRequest, Numbers
  <1>2. /\ Climbs(Turn(request)) /\ Turn(request) # <<>>
        /\ ToSet(Turn(request)) = ToSet(late) \cup {request}
    BY <1>1, ClimbsAppend DEF Turn, CardInv, Shape
  <1>3. late' = Turn(request) \/ late' = Tail(Turn(request))
    BY DEF RequestAnswered, RequestFails
  <1>4. Climbs(late') /\ ToSet(late') \subseteq ToSet(late) \cup {request}
    BY <1>2, <1>3, ClimbsTail
  <1>5. Queued' \subseteq Queued
    BY <1>1, <1>4 DEF Queued
  <1>6. health' = health \/ \E served : Succeeds(served) \/ FailsTo(served)
    BY DEF RequestAnswered, RequestFails
  <1>7. QED BY <1>4, <1>5, <1>6

LEMMA RequestCard ==
    ASSUME SeqInv, CardInv, ScanInventory \/ ScanFails \/ SendBacklog \/ BacklogFails
    PROVE  CardInv' /\ OnCard' = OnCard
  <1>1. /\ UNCHANGED <<card, handed, prefixes, power, call>>
        /\ received \subseteq received' /\ lost \subseteq lost' /\ phantoms \subseteq phantoms'
    <2>1. CASE ScanInventory \/ ScanFails \/ BacklogFails
      BY <2>1 DEF ScanInventory, ScanFails, BacklogFails, storeVars, netVars
    <2>2. CASE SendBacklog
      <3>1. UNCHANGED <<card, handed, prefixes, power, call, lost>> /\ \E batch, junk : Upload(batch, junk)
        BY <2>2 DEF SendBacklog, storeVars
      <3>2. QED BY <3>1 DEF Upload
    <2>3. QED BY <2>1, <2>2
  <1>2. \/ UNCHANGED <<late, health>>
        \/ \E request \in {RefreshRequest, ReadRequest(ram.ack)} :
              RequestAnswered(request) \/ RequestFails(request)
    BY DEF ScanInventory, ScanFails, SendBacklog, BacklogFails
  <1>3. CASE UNCHANGED <<late, health>>
    BY <1>1, <1>3, SameHealth, QuietCard
  <1>4. CASE \E request \in {RefreshRequest, ReadRequest(ram.ack)} :
               RequestAnswered(request) \/ RequestFails(request)
    <2>1. /\ Climbs(late') /\ Queued' \subseteq Queued
          /\ health' = health \/ \E served : Succeeds(served) \/ FailsTo(served)
      BY <1>4, RequestIs
    <2>2. CASE health' = health
      BY <1>1, <2>1, <2>2, SameHealth, QuietCard
    <2>3. CASE \E served : Succeeds(served) \/ FailsTo(served)
      <3>1. /\ health' \in HealthType /\ health'.oldest \in OnCard \cup {0, health.oldest}
            /\ health'.ack = health.ack /\ (Running => Covering(health', card))
        BY <2>3, ServedIs
      <3>2. Trusted'
        BY <1>1, <3>1, TrustedStep DEF CardInv
      <3>3. QED BY <1>1, <2>1, <3>1, <3>2, QuietCard
    <2>4. QED BY <2>1, <2>2, <2>3
  <1>5. QED BY <1>2, <1>3, <1>4

\* What is given up as a prefix lies below the earliest record, so it is not on the
\* card, and neither queued nor in hand, since those come later.
LEMMA ReportCard == ASSUME SeqInv, CardInv, ReportLoss PROVE CardInv' /\ OnCard' = OnCard
  <1> DEFINE gone == MissingPrefix(ram.ack, health.oldest)
  <1>1. /\ UNCHANGED <<card, late, health, handed, power, call, received, phantoms>> /\ On
        /\ prefixes' \subseteq prefixes \cup gone /\ lost \subseteq lost'
        /\ Shape /\ Flow /\ Trusted /\ (gone = {} \/ Confirmed)
    BY DEF ReportLoss, seqVars, storeVars, cardVars, CardInv
  <1>2. /\ OnCard \subseteq Numbers /\ Coming \subseteq Numbers /\ Numbers \subseteq Nat
        /\ health.oldest \in Nat /\ ram.ack \in Nat
        /\ \A i \in DOMAIN handed : handed[i] \in Numbers
    BY <1>1, FlowNumbers, StateNumbers DEF SeqInv, SeqTypeOK
  <1>3. \A p \in gone : p \in Nat /\ p < health.oldest /\ health.oldest # 0
    BY <1>2 DEF MissingPrefix
  <1>4. gone # {} => \A x \in OnCard \cup Coming : health.oldest <= x
    BY <1>1 DEF Confirmed, Flow, Covering, Running, On, OnCard
  <1>5. gone \cap (OnCard \cup Coming) = {}
    <2>1. SUFFICES ASSUME NEW p \in gone, p \in OnCard \cup Coming PROVE FALSE
      OBVIOUS
    <2>2. p < health.oldest /\ health.oldest <= p /\ p \in Nat
      BY <1>3, <1>4, <2>1
    <2>3. QED BY <1>2, <2>2
  <1>6. \A p \in gone : \E i \in DOMAIN handed : p < handed[i]
    BY <1>1, <1>3 DEF Flow, Given
  <1> HIDE DEF gone
  <1>7. /\ (InHand' <=> InHand) /\ Drawn' = Drawn /\ Queued' = Queued
        /\ (Busy("interval")' <=> Busy("interval"))
    BY <1>1 DEF InHand, Drawn, Queued, Busy
  <1>8. Coming' = Coming /\ OnCard' = OnCard
    BY <1>1, <1>7 DEF Coming, OnCard
  <1>9. Flow'
    BY <1>1, <1>5, <1>6, <1>8 DEF Flow, Given, Covering, Running
  <1>10. Shape'
    BY <1>1, <1>7 DEF Shape
  <1>11. Trusted'
    BY <1>1, TrustedStep
  <1>12. QED BY <1>8, <1>9, <1>10, <1>11 DEF CardInv

LEMMA AcknowledgeCard ==
    ASSUME BacklogInv, CardInv, AcknowledgeSame \/ AcknowledgeNew \/ AcknowledgeSaved
    PROVE  CardInv' /\ OnCard' = OnCard
  <1>t. /\ SeqInv /\ net.step \in {"reply", "saving"} /\ Vouched
        /\ UNCHANGED <<card, late, handed, prefixes, power, lost, received, phantoms>>
    BY DEF BacklogInv, VouchInv, AcknowledgeSame, AcknowledgeNew, AcknowledgeSaved, seqVars,
           storeVars, cardVars
  <1>1. net.ack \in 0..Limit /\ KnownUpTo(net.ack)
    BY <1>t DEF Vouched
  <1>2. health' = health \/ Accepted(net.ack)
    BY DEF AcknowledgeSame, AcknowledgeNew, AcknowledgeSaved, Answered, cardVars
  <1>3. call'["interval"] = call["interval"]
    <2>1. call' = call \/ \E c : call' = [call EXCEPT !["network"] = c]
      BY DEF AcknowledgeSame, AcknowledgeNew, AcknowledgeSaved, BeginAcknowledge, Begin, seqVars,
             storeVars
    <2>2. QED BY <1>t, <2>1 DEF SeqInv, SeqTypeOK, Tasks
  <1>4. QED BY <1>t, <1>1, <1>2, <1>3, SameHealth, AcceptedIs, QuietCard

LEMMA BootCard ==
    ASSUME BacklogInv, BacklogInv', CardInv, Boot
    PROVE  CardInv' /\ OnCard' = OnCard
  <1>t. /\ SeqInv /\ Shape /\ Flow /\ power = "off" /\ ram' \in SequenceState
        /\ UNCHANGED <<card, late, handed, prefixes, received, lost, phantoms>>
    BY DEF BacklogInv, CardInv, Boot, LoadNewest, LoadFresh, netVars, SeqInv, SeqTypeOK
  <1>1. call["interval"].pc = "idle" /\ call'["interval"] = call["interval"]
    <2>1. call["interval"].pc = "idle"
      BY <1>t DEF SeqInv, Sound, Phases, Tasks
    <2>2. call' = call \/ \E c : call' = [call EXCEPT !["boot"] = c]
      BY DEF Boot, LoadNewest, LoadFresh, Begin
    <2>3. QED BY <1>t, <2>1, <2>2 DEF SeqInv, SeqTypeOK, Tasks
  <1>2. ~InHand /\ ~InHand' /\ ~Busy("interval")' /\ Queued' = Queued
    BY <1>t, <1>1 DEF InHand, Busy, InFlight, Queued
  <1>3. Coming' = Coming /\ OnCard' = OnCard
    BY <1>t, <1>2 DEF Coming, OnCard
  <1>4. ZeroHealth \in HealthType
    BY SequenceAssumption DEF ZeroHealth, HealthType
  <1> DEFINE r == Rebuilt(ZeroHealth, card)
  <1>5. r \in HealthType /\ r.oldest \in OnCard \cup {0} /\ Covering(r, card)
    BY <1>t, <1>4, RebuiltIs DEF Shape, OnCard
  <1>6. health' = [r EXCEPT !.ack = ram'.ack] /\ ram'.ack \in 0..Limit
    BY <1>t, StateNumbers DEF Boot
  <1> HIDE DEF r
  <1>7. /\ health' \in HealthType /\ health'.oldest = r.oldest /\ health'.status = r.status
        /\ health'.ack = ram'.ack
    BY <1>5, <1>6 DEF HealthType
  <1>8. Covering(health', card')
    BY <1>t, <1>5, <1>7 DEF Covering
  <1>9. Flow'
    BY <1>t, <1>3, <1>5, <1>7, <1>8, FlowQuiet
  <1>10. Shape'
    BY <1>t, <1>2, <1>7 DEF Shape
  <1>11. Trusted'
    <2>1. KnownUpTo(ram.ack)'
      BY DEF BacklogInv, VouchInv, Vouched, Acks
    <2>2. QED BY <1>7, <2>1 DEF Trusted, KnownUpTo
  <1>12. QED BY <1>3, <1>9, <1>10, <1>11 DEF CardInv

LEMMA OffCard ==
    ASSUME SeqInv, CardInv, BootFails \/ LosePower
    PROVE  CardInv' /\ (power' # "off" => OnCard' = OnCard)
  <1>t. Shape /\ Flow /\ Trusted
    BY DEF CardInv
  <1>1. CASE BootFails
    <2>1. UNCHANGED <<card, late, health, handed, prefixes, received, lost, phantoms, call>> /\ power' = "halted"
      BY <1>1 DEF BootFails, LoadFails, storeVars, cardVars, netVars
    <2>2. /\ (InHand' <=> InHand) /\ Drawn' = Drawn /\ Queued' = Queued
          /\ (Busy("interval")' <=> Busy("interval"))
      BY <2>1 DEF InHand, Drawn, Queued, Busy
    <2>3. Coming' = Coming /\ OnCard' = OnCard /\ ~Running'
      BY <2>1, <2>2 DEF Coming, OnCard, Running
    <2>4. Flow'
      BY <1>t, <2>1, <2>3, FlowQuiet
    <2>5. Shape' /\ Trusted'
      BY <1>t, <2>1, <2>2, TrustedStep DEF Shape
    <2>6. QED BY <2>3, <2>4, <2>5 DEF CardInv
  <1>2. CASE LosePower
    <2>1. /\ late' = <<>> /\ health' = ZeroHealth /\ card' \in {card, {}} /\ power' = "off"
          /\ call' = [t \in Tasks |-> IdleCall] /\ UNCHANGED <<handed, prefixes, received, lost, phantoms>>
      BY <1>2 DEF LosePower, PowerCut
    <2>2. ~InHand' /\ ~Busy("interval")' /\ Queued' = {} /\ ~Running'
      BY <2>1, IdleCallType DEF InHand, Busy, InFlight, Tasks, Queued, ToSet, Running
    <2>3. Coming' = {} /\ OnCard' \subseteq OnCard /\ InOrder(card')
      BY <1>t, <2>1, <2>2 DEF Coming, OnCard, OnFiles, InOrder, Shape
    <2>4. ZeroHealth \in HealthType /\ ZeroHealth.oldest = 0 /\ ZeroHealth.ack = 0
      BY SequenceAssumption DEF ZeroHealth, HealthType
    <2>5. Flow'
      BY <1>t, <2>1, <2>2, <2>3, <2>4 DEF Flow, Given
    <2>6. Shape'
      <3>1. Climbs(late')
        BY <2>1 DEF Climbs
      <3>2. QED BY <2>1, <2>2, <2>3, <2>4, <3>1 DEF Shape
    <2>7. Trusted'
      BY <2>1, <2>4 DEF Trusted, KnownUpTo
    <2>8. QED BY <2>1, <2>5, <2>6, <2>7 DEF CardInv
  <1>3. QED BY <1>1, <1>2

LEMMA CardInit == Init => CardInv
  <1> SUFFICES ASSUME Init PROVE CardInv
    OBVIOUS
  <1>1. /\ late = <<>> /\ health = ZeroHealth /\ card = {} /\ prefixes = {} /\ power = "off"
        /\ call = [t \in Tasks |-> IdleCall]
    BY DEF Init, SeqInit
  <1>2. ~InHand /\ ~Busy("interval") /\ Queued = {} /\ OnCard = {} /\ ~Running
    BY <1>1, IdleCallType DEF InHand, Busy, InFlight, Tasks, Queued, ToSet, Running, OnCard, OnFiles
  <1>3. ZeroHealth \in HealthType /\ ZeroHealth.oldest = 0 /\ ZeroHealth.ack = 0
    BY SequenceAssumption DEF ZeroHealth, HealthType
  <1>4. Climbs(late) /\ InOrder(card)
    BY <1>1 DEF Climbs, InOrder
  <1>5. Flow
    BY <1>1, <1>2, <1>3 DEF Flow, Coming
  <1>6. Shape /\ Trusted
    BY <1>1, <1>2, <1>3, <1>4 DEF Shape, Trusted, KnownUpTo
  <1>7. QED BY <1>5, <1>6 DEF CardInv

\* The card in every step: what leaves it was acknowledged, unless the card is replaced.
LEMMA CardStepInv ==
    ASSUME BacklogInv, BacklogInv', CardInv, [Next]_vars
    PROVE  /\ CardInv'
           /\ power' # "off" => \A x \in OnCard \ OnCard' : x <= health.ack
  <1>s. SeqInv
    BY DEF BacklogInv
  <1>1. CASE StoreCall
    BY <1>1, <1>s, StoreCallCard
  <1>2. CASE StoreLate
    BY <1>2, <1>s, StoreLateCard
  <1>3. CASE Interval
    BY <1>3, <1>s, DropCard, AppendCard, TimeoutCard DEF Interval
  <1>4. CASE Network
    BY <1>4, <1>s, NetworkIdleCard, RequestCard, ReportCard, AcknowledgeCard
       DEF Network, Acknowledging
  <1>5. CASE Boot
    BY <1>5, BootCard
  <1>6. CASE BootFails \/ LosePower
    BY <1>6, <1>s, OffCard
  <1>7. CASE UNCHANGED vars
    <2>1. UNCHANGED <<card, late, handed, prefixes, power, call, health, lost, received, phantoms>>
      BY <1>7 DEF vars, seqVars, storeVars, cardVars, netVars
    <2>2. QED BY <1>s, <2>1, SameHealth, QuietCard
  <1>8. QED BY <1>1, <1>2, <1>3, <1>4, <1>5, <1>6, <1>7 DEF Next

-----------------------------------------------------------------------------
(* Theorems.                                                               *)

\* What holds however the calls interleave, and what holds until two overlap.
Inv ==
  /\ overlaps \in Nat /\ VouchInv
  /\ overlaps = 0 => BacklogInv /\ CardInv

LEMMA InvInit == Init => Inv
  BY BacklogInit, CardInit DEF Inv, BacklogInv, Init, SeqInit

LEMMA InvStep == Inv /\ [Next]_vars => Inv'
  <1> SUFFICES ASSUME Inv, [Next]_vars PROVE Inv'
    OBVIOUS
  <1>1. overlaps' \in Nat /\ (overlaps' = 0 => overlaps = 0)
    BY OverlapsGrow DEF Inv
  <1>2. VouchInv'
    BY VouchStep DEF Inv
  <1>3. ASSUME overlaps' = 0 PROVE BacklogInv' /\ CardInv'
    <2>1. overlaps \in Nat /\ BacklogInv /\ CardInv
      BY <1>1, <1>3 DEF Inv
    <2>2. BacklogInv'
      BY <1>3, <2>1, BacklogStep
    <2>3. QED BY <2>1, <2>2, CardStepInv
  <1>4. QED BY <1>1, <1>2, <1>3 DEF Inv

LEMMA Invariant == Spec => []Inv
  BY InvInit, InvStep, PTL DEF Spec

\* Until two calls overlap, pm_sequence_next() hands out no number twice, whatever
\* write fails, whatever the failed write leaves in the slot and whenever the power
\* goes.  What overlapping calls do to it is shown by TLC.
THEOREM NoNumberTwice == Spec => []InTurnNumbersUsedOnce
  <1>1. Inv => InTurnNumbersUsedOnce
    BY DEF Inv, BacklogInv, SeqInv, Sound, Once, InTurnNumbersUsedOnce, NumbersUsedOnce,
           IsInjective
  <1>2. QED BY <1>1, Invariant, PTL

\* Until two calls overlap, an acknowledgement the device acted on is in the state that
\* every later boot loads: persist() before the assignment, and the election of the
\* newer slot.
THEOREM AcksSurvive == Spec => []InTurnAcknowledgementKept
  <1>1. Inv => InTurnAcknowledgementKept
    <2> SUFFICES ASSUME SeqInv, On PROVE ram.ack >= best
      BY DEF Inv, BacklogInv, InTurnAcknowledgementKept, AcknowledgementKept
    <2>1. best <= ram.ack /\ best \in 0 .. Limit /\ ram \in SequenceState
      BY DEF SeqInv, SeqTypeOK, Sound, Working, Running, On, Covers
    <2>2. QED BY <2>1, StateNumbers
  <1>2. QED BY <1>1, Invariant, PTL

\* A device whose NVS never fails and whose calls never overlapped loads its sequence
\* state after any number of power cuts, until the last number is reserved.
THEOREM CutsNeverHalt == Spec => []PowerCutsNeverHalt
  <1>1. Inv => PowerCutsNeverHalt
    <2> SUFFICES ASSUME Inv PROVE PowerCutsNeverHalt
      OBVIOUS
    <2>1. overlaps = 0 \/ overlaps > 0
      BY DEF Inv
    <2>2. QED BY <2>1 DEF Inv, BacklogInv, PowerCutsNeverHalt
  <1>2. QED BY <1>1, Invariant, PTL

\* Every number up to the acknowledgement the device has acted on was given to the
\* server as received or as lost, whatever answers are lost or late and however the
\* calls into pm_sequence.c interleave.
THEOREM OnlyKnownAcknowledged == Spec => []AcknowledgedIsKnown
  <1>1. Inv => AcknowledgedIsKnown
    BY DEF Inv, VouchInv, Vouched, Acks, KnownUpTo, AcknowledgedIsKnown
  <1>2. QED BY <1>1, Invariant, PTL

\* pm_backlog_detect_missing_prefix(): until two calls overlap, a number that was given
\* up as lost at the start of the card is not there, is not waiting in the storage
\* task's queue and never gets there, although completions may be taken for those of
\* other requests.
THEOREM PrefixesAreMissing == Spec => []PrefixIsMissing
  <1>1. Inv => PrefixIsMissing
    BY DEF Inv, CardInv, Flow, Coming, PrefixIsMissing
  <1>2. QED BY <1>1, Invariant, PTL

\* reclaim_acknowledged_segments(): until two calls overlap or a batch is sent that no
\* read filled, every record in a deleted segment had reached the server or was
\* reported to it as lost.
THEOREM OnlyKnownDeleted == Spec => DeletesOnlyKnown
  <1>1. Inv /\ Inv' /\ [Next]_vars =>
          [power' # "off" /\ overlaps' = 0 /\ phantoms = {}
             => OnCard \ OnCard' \subseteq received \cup lost]_vars
    <2> SUFFICES ASSUME Inv, Inv', [Next]_vars, power' # "off", overlaps' = 0, phantoms = {},
                        NEW x \in OnCard \ OnCard'
                 PROVE  x \in received \cup lost
      OBVIOUS
    <2>1. BacklogInv /\ CardInv /\ BacklogInv'
      BY OverlapsGrow DEF Inv
    <2>2. x <= health.ack
      BY <2>1, CardStepInv
    <2>3. x \in Numbers /\ health.ack \in Nat
      BY <2>1, FlowNumbers DEF BacklogInv, CardInv
    <2>4. x \in 1..health.ack
      BY <2>2, <2>3 DEF Numbers
    <2>5. QED BY <2>1, <2>4 DEF CardInv, Trusted, KnownUpTo, Known
  <1>2. QED BY <1>1, Invariant, PTL DEF DeletesOnlyKnown, Spec

=============================================================================
