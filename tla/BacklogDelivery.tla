--------------------------- MODULE BacklogDelivery ---------------------------
(***************************************************************************)
(* The retired measurement pipeline: interval_task() of app_main.c numbers *)
(* a record and appends it to the card through the storage task's queue,   *)
(* and network_task() of pm_network.c reports lost numbers, uploads the    *)
(* backlog and takes over the server's acknowledgement.  The sequence      *)
(* store is SequenceStore; the card is kept here as the numbers in each    *)
(* file (StorageJournal has its detail).  The server is external: it keeps *)
(* what it received or was told is lost and acknowledges the highest       *)
(* number below which nothing is missing.                                  *)
(***************************************************************************)
EXTENDS SequenceStore, SequencesExt

CONSTANTS
  SegmentRecords,   \* records in a sealed segment
  CardRecords,      \* records above which append_record() reclaims segments
  BatchMax,         \* PM_STORAGE_BATCH_MAX
  RecordBytes, BodyBytes,   \* a record's share of a request body, and its capacity
  MaxTimeouts       \* bound: storage requests that time out

ASSUME BacklogAssumption ==
  /\ {SegmentRecords, CardRecords, BatchMax, RecordBytes, BodyBytes} \subseteq Nat \ {0}
  /\ MaxTimeouts \in Nat

VARIABLES
  card,       \* the journal files, each as the numbers in it; a full one is sealed
  late,       \* storage requests whose caller gave up waiting
  timeouts,
  health,     \* s_storage
  net,        \* where network_task() is, and the answer it holds
  reported,   \* permanent_loss_reported_through
  received, lost,   \* the server: records stored, numbers reported lost
  phantoms,   \* the server: numbers it took from a batch that was never read
  prefixes    \* observer: numbers reported as a missing prefix

cardVars == <<card, late, timeouts, health>>
netVars == <<net, reported, received, lost, phantoms, prefixes>>
vars == <<seqVars, cardVars, netVars>>

\* What the storage task's queue holds: a number to append, or a request of
\* network_task(), a refresh of the inventory or a batch of records behind a cursor.
RefreshRequest == 0
ReadRequest(cursor) == Limit + 1 + cursor
CursorOf(request) == request - Limit - 1

IdleNet == [step |-> "idle", kind |-> "none", ack |-> 0, last |-> 0]
ZeroHealth == [status |-> "READY", oldest |-> 0, first |-> 0, last |-> 0,
               complete |-> TRUE, ack |-> 0]

OnFiles(files) == UNION {ToSet(f) : f \in files}
OnCard == OnFiles(card)
Queued == ToSet(late) \cap Numbers

Least(S) == IF S = {} THEN 0 ELSE Min(S)
Greatest(S) == IF S = {} THEN 0 ELSE Max(S)

-----------------------------------------------------------------------------
(* The storage task.                                                       *)

\* Numbers missing inside a file; none are known between two files.
GapsIn(f) == {n \in Numbers : f[1] <= n /\ n < Last(f) /\ n \notin ToSet(f)}

\* pm_storage_rebuild_index(): the gaps are kept as one range, and what
\* record_unavailable() noted is replaced by them.
Rebuilt(h, files) ==
  LET gaps == UNION {GapsIn(f) : f \in files}
  IN  [h EXCEPT !.oldest = Least(OnFiles(files)), !.first = Least(gaps),
                !.last = Greatest(gaps), !.complete = TRUE]

\* record_unavailable().
Unavailable(h, n) ==
  [h EXCEPT !.first = IF @ = 0 \/ n < @ THEN n ELSE @,
            !.last = IF n > @ THEN n ELSE @]

\* Fault of Kept: reclaiming goes by a segment's first record.
KeptByFirst(f) == Len(f) < SegmentRecords \/ f[1] > health.ack

\* What reclaim_acknowledged_segments() spares: the open file and every segment
\* with an unacknowledged record.
Kept(f) == Len(f) < SegmentRecords \/ Last(f) > health.ack

\* The record goes into the open file; without one a file is created.
WithRecord(files, n) ==
  LET open == {f \in files : Len(f) < SegmentRecords}
  IN  IF open = {} THEN files \cup {<<n>>}
      ELSE (files \ open) \cup {Append(f, n) : f \in open}

\* append_record(): the card, the health and the result it may end with.
Appends(n) ==
  LET low == Cardinality(OnCard) >= CardRecords
      files == IF low THEN {f \in card : Kept(f)} ELSE card
      h == IF low THEN Rebuilt(health, files) ELSE health
      stored == [h EXCEPT !.oldest = IF @ = 0 \/ n < @ THEN n ELSE @]
  IN  IF health.status # "READY"
        THEN {[card |-> card, health |-> health, ok |-> FALSE, fault |-> FALSE]}
      ELSE IF Cardinality(OnFiles(files)) >= CardRecords
        THEN {[card |-> files, health |-> [health EXCEPT !.status = "FULL"],
               ok |-> FALSE, fault |-> FALSE]}
      ELSE {[card |-> WithRecord(files, n), health |-> stored, ok |-> TRUE, fault |-> FALSE]}
        \cup {[card |-> left, health |-> [h EXCEPT !.status = "IO_ERROR"], ok |-> FALSE,
               fault |-> TRUE] : left \in {files, WithRecord(files, n)}}

Executes(r) == /\ card' = r.card
               /\ IF r.fault THEN Faulty ELSE NoFault

TimesOut == timeouts < MaxTimeouts /\ timeouts' = timeouts + 1

Confirmed == health.status \in {"READY", "FULL"} /\ health.complete

\* STORAGE_MESSAGE_REFRESH_INVENTORY and STORAGE_MESSAGE_READ_BATCH.
Refreshes == NoFault /\ health' = Rebuilt(health, card)
RefreshFails == Faulty /\ health' = [health EXCEPT !.complete = FALSE]
Reads == Confirmed /\ NoFault /\ UNCHANGED health
ReadFails ==
  \/ ~Confirmed /\ NoFault /\ UNCHANGED health
  \/ /\ Confirmed /\ Faulty
     /\ health' \in {health, [health EXCEPT !.complete = FALSE, !.status = "IO_ERROR"]}

Succeeds(request) == IF request = RefreshRequest THEN Refreshes ELSE Reads
FailsTo(request) == IF request = RefreshRequest THEN RefreshFails ELSE ReadFails

\* A request nobody waits for any more is carried out all the same.  A batch goes
\* to where its reader's stack frame was: nothing comes of it, or the device crashes
\* (LosePower).
StoreLate ==
  /\ On /\ late # <<>>
  /\ late' = Tail(late)
  /\ IF Head(late) \in Numbers
       THEN \E r \in Appends(Head(late)) : Executes(r) /\ health' = r.health
       ELSE (Succeeds(Head(late)) \/ FailsTo(Head(late))) /\ UNCHANGED card
  /\ UNCHANGED <<power, storeVars, crashes, timeouts, netVars>>

-----------------------------------------------------------------------------
(* interval_task().                                                        *)

\* A number was drawn, or pm_sequence_next() failed and the interval is dropped.
DropInterval ==
  /\ On /\ call["interval"].pc = "failed"
  /\ call' = [call EXCEPT !["interval"] = IdleCall]
  /\ UNCHANGED <<power, slots, selector, ram, handed, best, overlaps, faults, crashes,
                 cardVars, netVars>>

\* pm_storage_append() answered in time.  If an earlier append is still queued,
\* its completion is the first notification and is taken for this one's.
AppendInterval ==
  /\ On /\ call["interval"].pc = "done"
  /\ LET n == call["interval"].copy.seen
         turn == Append(late, n)
     IN  \E r \in Appends(Head(turn)) :
           /\ Head(turn) \in Numbers
           /\ Executes(r)
           /\ late' = Tail(turn)
           /\ health' = IF r.ok THEN r.health ELSE Unavailable(r.health, n)
  /\ call' = [call EXCEPT !["interval"] = IdleCall]
  /\ UNCHANGED <<power, slots, selector, ram, handed, best, overlaps, crashes, timeouts, netVars>>

\* It did not: the number counts as unavailable, the record stays queued.
AppendTimesOut ==
  /\ On /\ call["interval"].pc = "done" /\ TimesOut
  /\ late' = Append(late, call["interval"].copy.seen)
  /\ health' = Unavailable(health, call["interval"].copy.seen)
  /\ call' = [call EXCEPT !["interval"] = IdleCall]
  /\ UNCHANGED <<power, slots, selector, ram, handed, best, overlaps, faults, crashes,
                 card, netVars>>

-----------------------------------------------------------------------------
(* network_task() and the server.                                          *)

Known == received \cup lost \cup phantoms
ServerAck(known) == Max({n \in 0..Limit : 1..n \subseteq known})

Awaits(kind, known, last) ==
  net' = [step |-> "reply", kind |-> kind, ack |-> ServerAck(known), last |-> last]

\* send_heartbeat(): a request that gets no answer changes nothing.
Heartbeat ==
  /\ On /\ net.step = "idle"
  /\ Awaits("heartbeat", Known, 0)
  /\ UNCHANGED <<seqVars, cardVars, reported, received, lost, phantoms, prefixes>>

\* send_and_wait() for network_task(): its request waits behind those queued before
\* it.  The first completion it gets is taken for its own, although it may be that of
\* an earlier request it had given up; its own is then the one nobody waits for.
Turn(request) == Append(late, request)

RequestAnswered(request) ==
  /\ Head(Turn(request)) \notin Numbers
  /\ late' = Tail(Turn(request))
  /\ Succeeds(Head(Turn(request)))

RequestFails(request) ==
  \/ /\ Head(Turn(request)) \notin Numbers
     /\ late' = Tail(Turn(request))
     /\ FailsTo(Head(Turn(request)))
     /\ UNCHANGED timeouts
  \/ /\ TimesOut /\ NoFault
     /\ late' = Turn(request)
     /\ UNCHANGED health

\* The first half of send_permanent_loss(): the inventory is refreshed if
\* anything looks lost.
InventoryDoubtful ==
  \/ health.oldest > ram.ack + 1
  \/ health.first # 0 /\ health.last > reported
  \/ ~health.complete

ScanInventory ==
  /\ On /\ net.step = "idle"
  /\ IF InventoryDoubtful THEN RequestAnswered(RefreshRequest)
     ELSE NoFault /\ UNCHANGED <<late, health>>
  /\ net' = [IdleNet EXCEPT !.step = "scanned"]
  /\ UNCHANGED <<power, storeVars, crashes, card, timeouts, reported, received, lost, phantoms,
                 prefixes>>

ScanFails ==
  /\ On /\ net.step = "idle" /\ InventoryDoubtful
  /\ RequestFails(RefreshRequest)
  /\ UNCHANGED <<power, storeVars, crashes, card, netVars>>

\* Fault of MissingPrefix: the earliest record on the card is reported, too.
MissingPrefixInclusive(acked, earliest) ==
  IF earliest > acked + 1 THEN acked + 1..earliest ELSE {}

\* pm_backlog_detect_missing_prefix(): between the acknowledgement and the
\* earliest record.
MissingPrefix(acked, earliest) ==
  IF earliest > acked + 1 THEN acked + 1..earliest - 1 ELSE {}

\* The range that is reported, if any.
Report ==
  LET prefix == MissingPrefix(ram.ack, health.oldest)
  IN  IF prefix # {} THEN prefix
      ELSE IF health.first # 0 THEN health.first..health.last ELSE {}

\* Nothing to report: network_task() goes on to the backlog.
NothingLost ==
  /\ On /\ net.step = "scanned"
  /\ health.complete
  /\ MissingPrefix(ram.ack, health.oldest) = {} \/ Confirmed
  /\ Greatest(Report) <= reported
  /\ net' = [IdleNet EXCEPT !.step = "backlog"]
  /\ UNCHANGED <<seqVars, cardVars, reported, received, lost, phantoms, prefixes>>

\* Not confirmed: the attempt ends.
NotConfirmed ==
  /\ On /\ net.step = "scanned"
  /\ ~health.complete \/ (MissingPrefix(ram.ack, health.oldest) # {} /\ ~Confirmed)
  /\ net' = IdleNet
  /\ UNCHANGED <<seqVars, cardVars, reported, received, lost, phantoms, prefixes>>

\* The report, or the answer to it, may be lost on the way.
ReportLoss ==
  /\ On /\ net.step = "scanned"
  /\ health.complete
  /\ MissingPrefix(ram.ack, health.oldest) = {} \/ Confirmed
  /\ Greatest(Report) > reported
  /\ \/ /\ lost' = lost \cup Report
        /\ prefixes' = prefixes \cup MissingPrefix(ram.ack, health.oldest)
        /\ Awaits("loss", Known \cup Report, Max(Report)) \/ net' = IdleNet
     \/ net' = IdleNet /\ UNCHANGED <<lost, prefixes>>
  /\ UNCHANGED <<seqVars, cardVars, reported, received, phantoms>>

\* pm_backlog_select_largest_fitting() among the records available.
Selected(available) ==
  Greatest({k \in 1..Min({available, BatchMax}) : k * RecordBytes < BodyBytes})

\* The records behind a cursor, in order (pm_storage_read_batch()), and those of
\* them that are sent.
Pending(cursor) == SetToSortSeq({n \in OnCard : n > cursor}, LAMBDA m, n : m < n)
Batch(cursor) ==
  ToSet(SubSeq(Pending(cursor), 1, Selected(Min({Len(Pending(cursor)), BatchMax}))))

\* There is nothing to send, or the request or its answer is lost on the way.
Upload(batch, junk) ==
  \/ net' = IdleNet /\ UNCHANGED <<received, phantoms>>
  \/ /\ batch \cup junk # {}
     /\ received' = received \cup batch /\ phantoms' = phantoms \cup junk
     /\ \/ Awaits("readings", Known \cup batch \cup junk, Max(batch \cup junk))
        \/ net' = IdleNet

\* send_backlog().  Its batch is a local variable that only a read fills: after the
\* completion of a refresh it holds whatever was on the stack.
SendBacklog ==
  /\ On /\ net.step = "backlog"
  /\ RequestAnswered(ReadRequest(ram.ack))
  /\ LET served == Head(Turn(ReadRequest(ram.ack)))
     IN  IF served # RefreshRequest THEN Upload(Batch(CursorOf(served)), {})
         ELSE \E junk \in SUBSET Numbers : Cardinality(junk) <= BatchMax /\ Upload({}, junk)
  /\ UNCHANGED <<power, storeVars, crashes, card, timeouts, reported, lost, prefixes>>

BacklogFails ==
  /\ On /\ net.step = "backlog"
  /\ RequestFails(ReadRequest(ram.ack))
  /\ net' = IdleNet
  /\ UNCHANGED <<power, storeVars, crashes, card, reported, received, lost, phantoms, prefixes>>

\* The acknowledgement in the answer, after which the caller's own notes follow.
Accepted(n) ==
  /\ health' = [health EXCEPT !.ack = n]
  /\ reported' = IF net.kind = "loss" THEN net.last ELSE reported
  /\ net' = IdleNet

\* Fault of Answered: what was sent counts as acknowledged.
AnsweredLast == IF net.kind = "readings" THEN net.last ELSE net.ack

\* The number that the device takes over from the answer.
Answered == net.ack

\* A loss report must be covered by the answer.
Believed == net.kind = "loss" => net.ack >= net.last

AcknowledgeRefused ==
  /\ On /\ net.step = "reply"
  /\ ~Believed \/ AckRefused(Answered)
  /\ net' = IdleNet
  /\ UNCHANGED <<seqVars, cardVars, reported, received, lost, phantoms, prefixes>>

AcknowledgeSame ==
  /\ On /\ net.step = "reply" /\ Believed
  /\ Answered = ram.ack
  /\ Accepted(Answered)
  /\ UNCHANGED <<seqVars, card, late, timeouts, received, lost, phantoms, prefixes>>

AcknowledgeNew ==
  /\ On /\ net.step = "reply" /\ Believed
  /\ ~AckRefused(Answered) /\ Answered # ram.ack
  /\ BeginAcknowledge(Answered)
  /\ net' = [net EXCEPT !.step = "saving"]
  /\ UNCHANGED <<power, slots, selector, ram, handed, best, faults, crashes, cardVars,
                 reported, received, lost, phantoms, prefixes>>

AcknowledgeSaved ==
  /\ On /\ net.step = "saving" /\ call["network"].pc \in {"done", "failed"}
  /\ IF call["network"].pc = "done" THEN Accepted(Answered)
     ELSE net' = IdleNet /\ UNCHANGED <<health, reported>>
  /\ call' = [call EXCEPT !["network"] = IdleCall]
  /\ UNCHANGED <<power, slots, selector, ram, handed, best, overlaps, faults, crashes, card, late,
                 timeouts, received, lost, phantoms, prefixes>>

-----------------------------------------------------------------------------
(* Start-up, power cuts and a replaced card.                               *)

\* app_main(): the sequence store, then the card with a complete inventory.
Boot ==
  /\ LoadNewest \/ LoadFresh
  /\ health' = [Rebuilt(ZeroHealth, card) EXCEPT !.ack = ram'.ack]
  /\ UNCHANGED <<card, late, timeouts, netVars>>

BootFails == LoadFails /\ UNCHANGED <<cardVars, netVars>>

\* What was only queued is gone; the card may be another one afterwards.
LosePower ==
  /\ PowerCut
  /\ late' = <<>> /\ health' = ZeroHealth /\ net' = IdleNet /\ reported' = 0
  /\ card' \in {card, {}}
  /\ UNCHANGED <<timeouts, received, lost, phantoms, prefixes>>

Init ==
  /\ SeqInit
  /\ card = {} /\ late = <<>> /\ timeouts = 0 /\ health = ZeroHealth
  /\ net = IdleNet /\ reported = 0 /\ received = {} /\ lost = {}
  /\ phantoms = {} /\ prefixes = {}

Interval == DropInterval \/ AppendInterval \/ AppendTimesOut
Acknowledging == AcknowledgeRefused \/ AcknowledgeSame \/ AcknowledgeNew \/ AcknowledgeSaved
Network == \/ Heartbeat \/ ScanInventory \/ ScanFails \/ NothingLost \/ NotConfirmed
           \/ ReportLoss \/ SendBacklog \/ BacklogFails \/ Acknowledging
StoreCall == (BeginNext \/ StoreStep) /\ UNCHANGED <<cardVars, netVars>>

Next == StoreCall \/ StoreLate \/ Interval \/ Network \/ Boot \/ BootFails \/ LosePower

Spec == Init /\ [][Next]_vars

-----------------------------------------------------------------------------
(* Properties.                                                             *)

\* The type invariant of the store, the card and the two tasks.
TypeOK ==
  /\ SeqTypeOK
  /\ card \in SUBSET Seq(Numbers) /\ late \in Seq(0..2 * Limit + 1) /\ timeouts \in 0..MaxTimeouts
  /\ health \in [status : {"READY", "FULL", "IO_ERROR"}, oldest : 0..Limit,
                 first : 0..Limit, last : 0..Limit, complete : BOOLEAN, ack : 0..Limit]
  /\ net \in [step : {"idle", "scanned", "backlog", "reply", "saving"},
              kind : {"none", "heartbeat", "loss", "readings"}, ack : 0..Limit,
              last : 0..Limit]
  /\ reported \in 0..Limit
  /\ received \subseteq Numbers /\ lost \subseteq Numbers
  /\ phantoms \subseteq Numbers /\ prefixes \subseteq Numbers /\ overlaps \in 0..MaxOverlaps

\* The device never acknowledges to itself anything the server has not vouched
\* for, whatever answers and requests are lost.
AcknowledgedIsKnown == 1..best \subseteq Known

\* While the callers of pm_sequence.c take turns and no batch was sent unread,
\* reclaiming deletes no record that the server has neither received nor been told is
\* lost; only a replaced card loses one.
DeletesOnlyKnown ==
  [][power' # "off" /\ overlaps' = 0 /\ phantoms = {}
       => OnCard \ OnCard' \subseteq received \cup lost]_vars

\* While the callers of pm_sequence.c take turns, a number reported as a missing
\* prefix is on no file and in no queue: the inventory is complete when the report is
\* made, records reach the card in the order of their numbers, and the queue keeps it
\* ("incomplete_inventory_or_older_rotated_record_blocks_over_report",
\* test_backlog_recovery.py).
PrefixIsMissing == overlaps = 0 => prefixes \cap (OnCard \cup Queued) = {}

=============================================================================
