--------------------------- MODULE StorageJournal ---------------------------
(***************************************************************************)
(* The microSD journal of components/pm_storage (pm_storage.c and          *)
(* pm_journal.c).  One task owns the card and runs one request at a time,  *)
(* so every request is an action; a power cut may fall inside any of them. *)
(* The release notes retire this component: it is in the repository, with  *)
(* its tests, but the stateless image does not link it.                    *)
(*                                                                         *)
(* A file is its header and the units behind it, in order: the sequence    *)
(* number of a whole record, Torn for a fragment shorter than a record, or *)
(* Bad for a record's worth of bytes that does not decode.                 *)
(***************************************************************************)
EXTENDS Integers, FiniteSets, SequencesExt

CONSTANTS
  MaxSequence,      \* bound: the last sequence number a run hands out
  SegmentRecords,   \* records that fill a segment (PM_STORAGE_SEGMENT_LIMIT)
  CardRecords,      \* records the card holds outside the emergency reserve
  BatchMax,         \* PM_STORAGE_BATCH_MAX
  MaxFaults,        \* bound: card operations that fail
  MaxCrashes        \* bound: power cuts

ASSUME JournalAssumption ==
  /\ {MaxSequence, SegmentRecords, CardRecords, BatchMax} \subseteq Nat \ {0}
  /\ {MaxFaults, MaxCrashes} \subseteq Nat

VARIABLES
  power,    \* "off", "on", or "idle" when the storage task could not start
  card,     \* "ok", or "blank" when no file system can be mounted
  cur,      \* current.tmp
  sealed,   \* the seg_<first>_<last>.bin files
  quar,     \* the quarantine_*.bin files
  health,   \* pm_storage_health_t
  ram,      \* s_current, s_current_first and s_current_last
  unsaved,  \* card_id, which goes into every header, is not in card.id
  format,   \* s_format.state
  intent,   \* a destructive intent is in the caller's persistent journal
  ack,      \* acknowledged_sequence, restored from the sequence store
  nextSeq,  \* the next sequence number an interval can receive
  batch,    \* the last answer of a batch read
  faults, crashes,
  kept,     \* observer: appends answered OK and not yet deleted on purpose
  exposed   \* observer: the ones of them written behind a fragment, or under a card
            \* id that is not on the card

files == <<cur, sealed, quar>>
observers == <<kept, exposed>>
vars == <<power, card, files, health, ram, unsaved, format, intent, ack, nextSeq, batch,
          faults, crashes, observers>>

Torn == 0
Bad == -1
Sequences == 1..MaxSequence

NoFile == [header |-> "none", base |-> 0, units |-> <<>>]
BadHeader == [header |-> "bad", base |-> 0, units |-> <<>>]
NewFile(n) == [header |-> "ok", base |-> n, units |-> <<>>]
File == [header : {"none", "bad", "ok"}, base : 0..MaxSequence,
         units : Seq(Sequences \cup {Torn, Bad})]

StatusSet == {"UNINITIALIZED", "READY", "MISSING", "FULL", "CORRUPT", "IO_ERROR"}
ZeroHealth == [status |-> "UNINITIALIZED", oldest |-> 0, newest |-> 0,
               lostFirst |-> 0, lostLast |-> 0, complete |-> FALSE, low |-> FALSE]
ZeroRam == [open |-> FALSE, first |-> 0, last |-> 0]
EmptyBatch == [after |-> 0, recs |-> <<>>, more |-> FALSE]

-----------------------------------------------------------------------------
(* What is on the card.                                                    *)

FilesOf(c, s, q) == ({c} \ {NoFile}) \cup {g.file : g \in s} \cup q

\* pm_journal_decode_record() accepts a unit only whole and intact.
Records(f) == IF f.header = "ok" THEN ToSet(f.units) \cap Sequences ELSE {}

Intact == UNION {Records(f) : f \in FilesOf(cur, sealed, quar)}

\* The capacity that esp_vfs_fat_info() reports against the reserve.
Low(c, s, q) ==
  MapThenSumSet(LAMBDA f : Len(f.units), FilesOf(c, s, q)) > CardRecords

-----------------------------------------------------------------------------
(* Scanning.                                                               *)

\* scan_segment() passes over damage as long as a whole record follows it; a
\* damaged tail or header ends it with an error.
Scannable(f) ==
  /\ f.header = "ok"
  /\ f.units # <<>> => Last(f.units) \in Sequences

\* The numbers between the header's and a record that no record carries.  An
\* append that failed used its number up, so a resynchronised record is never
\* the expected one.
Gaps(f) == {m \in Sequences : /\ f.base <= m
                              /\ m \notin Records(f)
                              /\ \E n \in Records(f) : m < n}

Least(S) == IF S = {} THEN 0 ELSE Min(S)
Greatest(S) == IF S = {} THEN 0 ELSE Max(S)

\* Fault of Rebuilt: the file scanned last decides which record is the oldest.
RebuiltLastFile(h, fs) ==
  LET recs == UNION {Records(f) : f \in fs}
      firsts == {Least(Records(f)) : f \in fs}
  IN  IF \A f \in fs : Scannable(f)
        THEN [h EXCEPT !.oldest = Greatest(firsts), !.newest = Greatest(recs),
                       !.complete = TRUE]
        ELSE [h EXCEPT !.complete = FALSE]

\* pm_storage_rebuild_index(): all or nothing, except that a failed scan has
\* already withdrawn the old inventory.
Rebuilt(h, fs) ==
  LET recs == UNION {Records(f) : f \in fs}
      gaps == UNION {Gaps(f) : f \in fs}
  IN  IF \A f \in fs : Scannable(f)
        THEN [h EXCEPT !.oldest = Least(recs), !.newest = Greatest(recs),
                       !.lostFirst = Least(gaps), !.lostLast = Greatest(gaps),
                       !.complete = TRUE]
        ELSE [h EXCEPT !.complete = FALSE]

\* Fault of InsertSorted: a record past a full batch replaces its last one.
InsertSortedReplaces(b, n) ==
  IF n <= b.after \/ n \in ToSet(b.recs) THEN b
  ELSE IF Len(b.recs) = BatchMax THEN [b EXCEPT !.recs[BatchMax] = n, !.more = TRUE]
  ELSE [b EXCEPT !.recs = Append(@, n)]

\* insert_sorted(): ascending, without duplicates, the greatest falls out.
InsertSorted(b, n) ==
  LET smaller(m) == m < n
      greater(m) == m > n
      merged == SelectSeq(b.recs, smaller) \o <<n>> \o SelectSeq(b.recs, greater)
  IN  IF n <= b.after \/ n \in ToSet(b.recs) THEN b
      ELSE [b EXCEPT !.recs = SubSeq(merged, 1, Min({BatchMax, Len(merged)})),
                     !.more = @ \/ Len(merged) > BatchMax]

\* The records of the files in the order readdir() happens to return them.
Stream(order) ==
  LET valid(f) == SelectSeq(f.units, LAMBDA u : u \in Records(f))
  IN  FoldLeft(LAMBDA s, f : s \o valid(f), <<>>, order)

-----------------------------------------------------------------------------
(* Requests of the storage task.                                           *)

On == power = "on"
Faulty == faults < MaxFaults /\ faults' = faults + 1
NoFault == faults' = faults

\* The interval task draws a number for every record, stored or not.
Draw(n) == n = nextSeq /\ n \in Sequences /\ nextSeq' = n + 1

\* Fault of Victims: reclaiming goes by a segment's first record.
VictimsByFirst ==
  {g \in sealed : Low(cur, sealed, quar) /\ g.first <= ack}

\* reclaim_acknowledged_segments(): the oldest sealed segments that are wholly
\* acknowledged, one after the other until the reserve is free again.
Victims ==
  LET candidates == {g \in sealed : g.last <= ack}
      oldest(k) == {g \in candidates :
                      Cardinality({o \in candidates : o.first < g.first}) < k}
      enough == {k \in 0..Cardinality(candidates) :
                   ~Low(cur, sealed \ oldest(k), quar)}
  IN  IF enough = {} THEN candidates ELSE oldest(Min(enough))

\* What reclaiming leaves behind when no call of it fails.
Reclaimed ==
  [sealed |-> sealed \ Victims,
   full |-> Low(cur, sealed \ Victims, quar),
   health |-> Rebuilt([health EXCEPT !.oldest = 0, !.newest = 0, !.low = FALSE],
                      FilesOf(cur, sealed \ Victims, quar))]

\* The first half of append_record(): free space is made if the last reading
\* of the capacity was below the reserve.
Admitted(s, h) ==
  \/ ~health.low /\ s = sealed /\ h = health
  \/ /\ health.low /\ ~Reclaimed.full /\ Reclaimed.health.complete
     /\ s = Reclaimed.sealed /\ h = Reclaimed.health

\* What has been deleted when reclaiming stops half-way: the oldest go first.
Unlinked == {v \in SUBSET Victims : \A g \in v, o \in Victims \ v : g.first <= o.first}

\* What was acknowledged may be deleted.
Deleted(s) == IF s = sealed THEN {} ELSE 1..ack

\* A status other than READY refuses the record; its number is spent.
AppendRefused(n) ==
  /\ On /\ health.status # "READY"
  /\ Draw(n)
  /\ UNCHANGED <<power, card, files, health, ram, unsaved, format, intent, ack, batch, faults,
                 crashes, observers>>

\* Not enough acknowledged segments, or the index cannot be rebuilt.
AppendNoRoom(n) ==
  /\ On /\ card = "ok" /\ health.status = "READY" /\ health.low
  /\ Reclaimed.full \/ ~Reclaimed.health.complete
  /\ Draw(n)
  /\ sealed' = Reclaimed.sealed
  /\ kept' = kept \ Deleted(sealed')
  /\ health' = IF Reclaimed.full THEN [health EXCEPT !.status = "FULL"]
                                 ELSE [Reclaimed.health EXCEPT !.status = "IO_ERROR"]
  /\ UNCHANGED <<power, card, cur, quar, ram, unsaved, format, intent, ack, batch, faults,
                 crashes, exposed>>

Extended(h, n) ==
  [h EXCEPT !.oldest = IF @ = 0 \/ n < @ THEN n ELSE @,
            !.newest = IF n > @ THEN n ELSE @]

\* open_current() continues the file that is there.
Begun(n) == IF cur = NoFile THEN NewFile(n) ELSE cur

Written(n) == [Begun(n) EXCEPT !.units = Append(@, n)]

\* The second half of append_record(): the record is on the card, the index
\* follows it, and a full segment is sealed under its first and last number.
\* "fails" is a failing sync or rename in rotate_current(): the file stays.
AppendStored(n, fails) ==
  /\ On /\ card = "ok" /\ health.status = "READY"
  /\ Draw(n)
  /\ IF fails THEN Faulty ELSE NoFault
  /\ \E s \in {sealed, Reclaimed.sealed}, h \in {health, Reclaimed.health} :
       /\ Admitted(s, h)
       /\ LET first == IF cur = NoFile THEN n ELSE ram.first
              file == Written(n)
              full == Cardinality(Records(file)) >= SegmentRecords
              seals == full /\ ~fails
              after == IF seals THEN s \cup {[first |-> first, last |-> n, file |-> file]}
                                ELSE s
              left == IF seals THEN NoFile ELSE file
          IN  /\ fails => full
              /\ cur' = left
              /\ sealed' = after
              /\ ram' = IF seals THEN ZeroRam
                                 ELSE [open |-> ~full, first |-> first, last |-> n]
              /\ health' = [Extended(h, n) EXCEPT !.low = Low(left, after, quar)]
              /\ kept' = (kept \ Deleted(s)) \cup (IF fails THEN {} ELSE {n})
       /\ exposed' = IF unsaved \/ (cur.units # <<>> /\ Torn \in ToSet(cur.units))
                       THEN exposed \cup {n} ELSE exposed
  /\ UNCHANGED <<power, card, quar, unsaved, format, intent, ack, batch, crashes>>

\* What a write that does not finish can leave of a record in file f.
Remains(f, us) == {f} \cup {[f EXCEPT !.units = Append(@, u)] : u \in us}

\* The same for an append that may have had to create the file.
Unfinished(n) ==
  Remains(Begun(n), {Torn, Bad, n})
    \cup (IF cur = NoFile THEN {NoFile, BadHeader} ELSE {})

\* fopen(), fwrite() or the sync fails, after the segments were reclaimed, if that was
\* called for.  ENOSPC stores nothing more or a fragment and makes the storage FULL;
\* everything else is an IO_ERROR.
AppendFails(n) ==
  /\ On /\ card = "ok" /\ health.status = "READY"
  /\ Faulty
  /\ Draw(n)
  /\ \E s \in {sealed, Reclaimed.sealed}, h \in {health, Reclaimed.health} :
       /\ Admitted(s, h)
       /\ sealed' = s /\ kept' = kept \ Deleted(s)
       /\ \/ cur' \in Remains(Begun(n), {Torn}) /\ health' = [h EXCEPT !.status = "FULL"]
          \/ cur' \in Unfinished(n) /\ health' = [h EXCEPT !.status = "IO_ERROR"]
  /\ ram' = [ram EXCEPT !.open = cur' # NoFile,
                        !.first = IF cur = NoFile /\ cur'.header = "ok" THEN n ELSE @]
  /\ UNCHANGED <<power, card, quar, unsaved, format, intent, ack, batch, crashes, exposed>>

\* On a card without a file system neither the file nor the capacity can be had.
AppendNoCard(n) ==
  /\ On /\ card = "blank" /\ health.status = "READY"
  /\ Draw(n)
  /\ health' = [health EXCEPT !.status = "IO_ERROR"]
  /\ UNCHANGED <<power, card, files, ram, unsaved, format, intent, ack, batch, faults, crashes,
                 observers>>

\* A failing unlink(), opendir() or capacity query while reclaiming, or a failing scan
\* once it is done.
ReclaimFails(n) ==
  /\ On /\ card = "ok" /\ health.status = "READY" /\ health.low
  /\ Faulty
  /\ Draw(n)
  /\ \/ /\ \E v \in Unlinked : sealed' = sealed \ v
        /\ health' = [health EXCEPT !.status = "IO_ERROR"]
     \/ /\ ~Reclaimed.full /\ sealed' = Reclaimed.sealed
        /\ health' = [health EXCEPT !.status = "IO_ERROR", !.oldest = 0, !.newest = 0,
                                    !.low = FALSE, !.complete = FALSE]
  /\ kept' = kept \ Deleted(sealed')
  /\ UNCHANGED <<power, card, cur, quar, ram, unsaved, format, intent, ack, batch, crashes,
                 exposed>>

\* read_batch_owner() for the records behind the acknowledged one.
ReadBatch ==
  /\ On /\ health.complete /\ health.status \in {"READY", "FULL"}
  /\ IF card = "ok" /\ \A f \in FilesOf(cur, sealed, quar) : Scannable(f)
       THEN /\ \E order \in SetToSeqs(FilesOf(cur, sealed, quar)) :
                 batch' = FoldLeft(InsertSorted, [EmptyBatch EXCEPT !.after = ack],
                                   Stream(order))
            /\ UNCHANGED health
       ELSE /\ health' = [health EXCEPT !.complete = FALSE, !.status = "IO_ERROR"]
            /\ UNCHANGED batch
  /\ UNCHANGED <<power, card, files, ram, unsaved, format, intent, ack, nextSeq, faults, crashes,
                 observers>>

\* STORAGE_MESSAGE_REFRESH_INVENTORY.
RefreshInventory ==
  /\ On
  /\ health' = IF card = "ok" THEN Rebuilt(health, FilesOf(cur, sealed, quar))
                              ELSE [health EXCEPT !.complete = FALSE]
  /\ UNCHANGED <<power, card, files, ram, unsaved, format, intent, ack, nextSeq, batch, faults,
                 crashes, observers>>

\* refresh_capacity(), once a minute while no request arrives.
RefreshCapacity ==
  /\ On /\ card = "ok"
  /\ LET low == Low(cur, sealed, quar)
     IN  health' = [health EXCEPT !.low = low,
                                  !.status = IF @ = "FULL" /\ ~low THEN "READY" ELSE @]
  /\ UNCHANGED <<power, card, files, ram, unsaved, format, intent, ack, nextSeq, batch, faults,
                 crashes, observers>>

-----------------------------------------------------------------------------
(* Formatting.                                                             *)

PrepareFormat ==
  /\ power # "off" /\ format # "prepared"
  /\ format' = "prepared"
  /\ UNCHANGED <<power, card, files, health, ram, unsaved, intent, ack, nextSeq, batch, faults,
                 crashes, observers>>

\* pm_storage_cancel_format(), or the token's expiry: it cannot be used again.
CancelFormat ==
  /\ format # "idle"
  /\ format' = "idle"
  /\ UNCHANGED <<power, card, files, health, ram, unsaved, intent, ack, nextSeq, batch, faults,
                 crashes, observers>>

\* The caller persists its authenticated intent before it asks for a format
\* that needs no token, at once or after the next boot.
CommitIntent ==
  /\ format = "prepared" /\ ~intent
  /\ intent' = TRUE
  /\ UNCHANGED <<power, card, files, health, ram, unsaved, format, ack, nextSeq, batch,
                 faults, crashes, observers>>

\* rotate_current() before the card is erased: an open segment is sealed.
Rotated ==
  IF ram.open /\ ram.last # 0 /\ cur # NoFile
    THEN [cur |-> NoFile,
          sealed |-> sealed \cup {[first |-> ram.first, last |-> ram.last, file |-> cur]}]
    ELSE [cur |-> cur, sealed |-> sealed]

\* format_storage(): by a prepared token, or as the recovery of an
\* authenticated intent, which needs none.  The ranges reported lost and the
\* completeness of the inventory survive it.
FormatCard ==
  /\ On /\ card = "ok" /\ (format = "prepared" \/ intent)
  /\ format' = "complete" /\ intent' = FALSE
  /\ cur' = NoFile /\ sealed' = {} /\ quar' = {}
  /\ ram' = IF Rotated.cur = NoFile THEN ZeroRam ELSE [ram EXCEPT !.open = FALSE]
  /\ health' = [health EXCEPT !.oldest = 0, !.newest = 0, !.status = "READY", !.low = FALSE]
  /\ kept' = {} /\ exposed' = {} /\ unsaved' = FALSE
  /\ UNCHANGED <<power, card, ack, nextSeq, batch, faults, crashes>>

\* It fails before anything is erased, after it, or in between; the status of
\* the storage does not change.  Once the card is erased its id is on it only if
\* card_identity() succeeded.
FormatFails ==
  /\ On /\ card = "ok" /\ (format = "prepared" \/ intent)
  /\ Faulty
  /\ format' = "failed"
  /\ ram' = IF Rotated.cur = NoFile THEN ZeroRam ELSE [ram EXCEPT !.open = FALSE]
  /\ \/ /\ cur' = Rotated.cur /\ sealed' = Rotated.sealed
        /\ UNCHANGED <<card, quar, unsaved, observers>>
     \/ /\ cur' = NoFile /\ sealed' = {} /\ quar' = {}
        /\ card' \in {"ok", "blank"} /\ unsaved' \in BOOLEAN
        /\ kept' = {} /\ exposed' = {}
  /\ UNCHANGED <<power, health, intent, ack, nextSeq, batch, crashes>>

-----------------------------------------------------------------------------
(* Start-up and power cuts.                                                *)

\* The units left of current.tmp once recover_current() has cut it to whole
\* records, counted from the header: a fragment at the end disappears, one in
\* the middle costs the last record its end.  With several fragments the cut
\* depends on their lengths.
Truncations(u) ==
  LET torn == {i \in DOMAIN u : u[i] = Torn}
  IN  IF torn = {} THEN {u}
      ELSE IF torn = {Len(u)} THEN {Front(u)}
      ELSE {Append(Front(u), Torn)} \cup (IF Cardinality(torn) > 1 THEN {u} ELSE {})

\* recover_current(): a file that does not decode to its end is set aside.
Recovered ==
  IF cur.header # "ok"
    THEN {[cur |-> NoFile, quar |-> quar \cup ({cur} \ {NoFile}), last |-> 0]}
    ELSE {IF {Torn, Bad} \cap ToSet(u) # {}
            THEN [cur |-> NoFile, quar |-> quar \cup {[cur EXCEPT !.units = u]}, last |-> 0]
            ELSE [cur |-> [cur EXCEPT !.units = u], quar |-> quar,
                  last |-> IF u = <<>> THEN 0 ELSE Last(u)]
          : u \in Truncations(cur.units)}

\* pm_storage_start().  The sequence store, loaded just before, may have skipped
\* the numbers that were only reserved.
Start ==
  /\ power = "off" /\ card = "ok"
  /\ unsaved => FilesOf(cur, sealed, quar) = {}
  /\ \E r \in Recovered :
       LET now == [ZeroHealth EXCEPT !.status = "READY"]
           h == Rebuilt(now, FilesOf(r.cur, sealed, r.quar))
       IN  /\ cur' = r.cur
           /\ quar' = r.quar
           /\ ram' = [open |-> FALSE, first |-> r.cur.base, last |-> r.last]
           /\ health' = IF h.complete
                          THEN [h EXCEPT !.low = Low(r.cur, sealed, r.quar)]
                          ELSE [h EXCEPT !.status = "CORRUPT",
                                         !.low = Low(r.cur, sealed, r.quar)]
  /\ power' = "on" /\ unsaved' = FALSE
  /\ nextSeq' \in {nextSeq, nextSeq + 1} \cap 1..MaxSequence + 1
  /\ UNCHANGED <<card, sealed, format, intent, ack, batch, faults, crashes, observers>>

\* The same when card_identity() has to draw another id: recover_current() and
\* scan_segment() reject every file.
Foreign(f) == [f EXCEPT !.header = "bad"]

StartForeign ==
  /\ power = "off" /\ card = "ok"
  /\ unsaved /\ FilesOf(cur, sealed, quar) # {}
  /\ cur' = NoFile
  /\ sealed' = {[g EXCEPT !.file = Foreign(@)] : g \in sealed}
  /\ quar' = {Foreign(f) : f \in quar \cup ({cur} \ {NoFile})}
  /\ health' = [ZeroHealth EXCEPT !.status = "CORRUPT", !.low = Low(cur', sealed', quar')]
  /\ power' = "on" /\ unsaved' = FALSE
  /\ nextSeq' \in {nextSeq, nextSeq + 1} \cap 1..MaxSequence + 1
  /\ UNCHANGED <<card, ram, format, intent, ack, batch, faults, crashes, observers>>

\* mount_card() fails, or the recovery does: without a mounted card the task
\* is not even created.
StartFails ==
  /\ power = "off"
  /\ IF card = "ok" THEN Faulty ELSE NoFault
  /\ \/ /\ power' = "idle"
        /\ health' = [ZeroHealth EXCEPT !.status = IF card = "ok" THEN "IO_ERROR" ELSE "MISSING"]
     \/ /\ card = "ok"
        /\ power' = "on"
        /\ health' = [ZeroHealth EXCEPT !.status = "CORRUPT"]
  /\ UNCHANGED <<card, files, ram, unsaved, format, intent, ack, nextSeq, batch, crashes, observers>>

\* The card as a power cut leaves it: between requests, in the middle of an
\* append (the record, its header or the reclaiming before it), or in the
\* middle of a format.
CutIdle == UNCHANGED <<card, files, observers, nextSeq>>

CutInAppend ==
  /\ On /\ card = "ok" /\ health.status = "READY"
  /\ \E n \in Sequences : Draw(n) /\ cur' \in Unfinished(n)
  /\ \E s \in {sealed, Reclaimed.sealed}, h \in {health, Reclaimed.health} :
       Admitted(s, h) /\ sealed' = s /\ kept' = kept \ Deleted(s)
  /\ UNCHANGED <<card, quar, exposed>>

CutInReclaim ==
  /\ On /\ card = "ok" /\ health.status = "READY" /\ health.low
  /\ \E v \in Unlinked : sealed' = sealed \ v
  /\ kept' = kept \ Deleted(sealed')
  /\ UNCHANGED <<card, cur, quar, nextSeq, exposed>>

CutInFormat ==
  /\ On /\ card = "ok" /\ (format = "prepared" \/ intent)
  /\ cur' = NoFile /\ sealed' = {} /\ quar' = {} /\ kept' = {} /\ exposed' = {}
  /\ card' \in {"ok", "blank"}
  /\ UNCHANGED nextSeq

PowerCut ==
  /\ power # "off" /\ crashes < MaxCrashes
  /\ crashes' = crashes + 1
  /\ power' = "off"
  /\ health' = ZeroHealth /\ ram' = ZeroRam /\ format' = "idle" /\ batch' = EmptyBatch
  /\ CutIdle \/ CutInAppend \/ CutInReclaim \/ CutInFormat
  /\ UNCHANGED <<unsaved, intent, ack, faults>>

\* The server's acknowledgement of a stored record, persisted by the sequence
\* store before the storage task sees it.
Acknowledge ==
  /\ On
  /\ \E a \in ack + 1 .. nextSeq - 1 : ack' = a
  /\ UNCHANGED <<power, card, files, health, ram, unsaved, format, intent, nextSeq, batch, faults,
                 crashes, observers>>

Init ==
  /\ power = "off" /\ card = "ok"
  /\ cur = NoFile /\ sealed = {} /\ quar = {}
  /\ health = ZeroHealth /\ ram = ZeroRam /\ unsaved = FALSE /\ format = "idle" /\ intent = FALSE
  /\ ack = 0 /\ nextSeq = 1 /\ batch = EmptyBatch
  /\ faults = 0 /\ crashes = 0
  /\ kept = {} /\ exposed = {}

AppendRecord ==
  \E n \in Sequences :
    \/ AppendRefused(n)
    \/ AppendNoRoom(n)
    \/ \E fails \in BOOLEAN : AppendStored(n, fails)
    \/ AppendFails(n)
    \/ AppendNoCard(n)
    \/ ReclaimFails(n)

Formatting == PrepareFormat \/ CancelFormat \/ CommitIntent \/ FormatCard \/ FormatFails

Next ==
  \/ AppendRecord
  \/ ReadBatch \/ RefreshInventory \/ RefreshCapacity
  \/ Formatting
  \/ Start \/ StartForeign \/ StartFails \/ PowerCut
  \/ Acknowledge

Spec == Init /\ [][Next]_vars

-----------------------------------------------------------------------------
(* Properties.                                                             *)

\* Every variable has its type; the current file is the only one open.
TypeOK ==
  /\ power \in {"off", "on", "idle"} /\ card \in {"ok", "blank"}
  /\ cur \in File /\ quar \subseteq File
  /\ sealed \subseteq [first : 0..MaxSequence, last : Sequences, file : File]
  /\ health \in [status : StatusSet, oldest : 0..MaxSequence, newest : 0..MaxSequence,
                  lostFirst : 0..MaxSequence, lostLast : 0..MaxSequence,
                  complete : BOOLEAN, low : BOOLEAN]
  /\ ram \in [open : BOOLEAN, first : 0..MaxSequence, last : 0..MaxSequence]
  /\ format \in {"idle", "prepared", "complete", "failed"} /\ intent \in BOOLEAN
  /\ ack \in 0..MaxSequence /\ nextSeq \in 1..MaxSequence + 1
  /\ batch \in [after : 0..MaxSequence, recs : Seq(Sequences), more : BOOLEAN]
  /\ Len(batch.recs) <= BatchMax
  /\ unsaved \in BOOLEAN /\ kept \cup exposed \subseteq Sequences
  /\ faults \in 0..MaxFaults /\ crashes \in 0..MaxCrashes

\* An append that pm_storage_append() answered with ESP_OK stays whole on the
\* card through every later fault, power cut and recovery, until the server has
\* acknowledged it or the card is formatted.  There are two exceptions.  A record
\* written behind the fragment that an ENOSPC left in the same file: recover_current()
\* cuts the file at a multiple of the record size and so cuts through it.  And one
\* written after a format that failed in card_identity(): the next boot draws another
\* card id and rejects every header (and, in the program, formats again).
DurableAppends == kept \ exposed \subseteq Intact

\* While the storage accepts or serves records, no record on the card lies
\* outside the range of the index.  pm_backlog_detect_missing_prefix() declares
\* everything below oldest_sequence lost for good, so a record under it would be
\* given up although it can be read.
IndexCoversCard ==
  On /\ health.status \in {"READY", "FULL"} =>
    \A n \in Intact : health.oldest <= n /\ n <= health.newest

\* The batch a read returns is the first BatchMax records behind the cursor, in
\* order, whatever order readdir() lists the files in, and says exactly whether
\* there are more.
BatchIsNext ==
  [][batch' \notin {batch, EmptyBatch} =>
       LET behind == {n \in Intact : n > batch'.after}
           sent == ToSet(batch'.recs)
       IN  /\ sent \subseteq behind
           /\ Cardinality(sent) = Min({BatchMax, Cardinality(behind)})
           /\ \A n \in behind \ sent : \A m \in sent : m < n
           /\ \A i, j \in DOMAIN batch'.recs : i < j => batch'.recs[i] < batch'.recs[j]
           /\ batch'.more <=> behind # sent]_vars

=============================================================================
