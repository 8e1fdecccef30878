---------------------------- MODULE JournalProofs ----------------------------
(***************************************************************************)
(* Proofs about StorageJournal for every number of records, card size,     *)
(* faults and power cuts: a record answered with ESP_OK stays on the card, *)
(* and the index covers every record that can be read.                     *)
(***************************************************************************)
EXTENDS StorageJournal, WellFoundedInduction, TLAPS

Units == Sequences \cup {Torn, Bad}
Numbers == 0..MaxSequence
Segment == [first : Numbers, last : Sequences, file : File]
Health == [status : StatusSet, oldest : Numbers, newest : Numbers,
           lostFirst : Numbers, lostLast : Numbers, complete : BOOLEAN, low : BOOLEAN]

\* The types of all but the answer of the last batch read.
Types ==
  /\ power \in {"off", "on", "idle"} /\ card \in {"ok", "blank"}
  /\ cur \in File /\ quar \subseteq File /\ sealed \subseteq Segment
  /\ health \in Health
  /\ ram \in [open : BOOLEAN, first : Numbers, last : Numbers]
  /\ format \in {"idle", "prepared", "complete", "failed"} /\ intent \in BOOLEAN
  /\ ack \in Numbers /\ nextSeq \in 1..MaxSequence + 1
  /\ kept \subseteq Sequences /\ exposed \subseteq Sequences
  /\ faults \in 0..MaxFaults /\ crashes \in 0..MaxCrashes

\* While the storage accepts or serves records.
Serving == On /\ health.status \in {"READY", "FULL"}

\* A file without a good header is empty, and appending never continues one.
Headed ==
  /\ cur.header # "ok" => cur \in {NoFile, BadHeader}
  /\ Serving => cur.header # "bad"

\* Numbers are drawn once: everything on the card, and everything answered, was
\* drawn before.
Past(S) == \A n \in S : n < nextSeq
Drawn == Past(Intact) /\ Past(kept)

\* Whole records stand in current.tmp in the order in which they were drawn ...
Ascends(u) ==
  \A i, j \in DOMAIN u : i < j /\ u[i] \in Sequences /\ u[j] \in Sequences => u[i] < u[j]

\* ... and an append behind a fragment is known as such.
Marked(u) ==
  \A i, j \in DOMAIN u : i < j /\ u[i] = Torn /\ u[j] \in kept => u[j] \in exposed

\* A segment's name, and the one current.tmp would get, covers what was answered.
Capped(f, last) == \A n \in kept \cap Records(f) : n <= last
Named ==
  /\ \A g \in sealed : Capped(g.file, g.last)
  /\ power # "off" /\ ram.last # 0 => Capped(cur, ram.last)
  /\ power = "off" => ram = ZeroRam

\* The index, if it has an oldest record, covers the card.
Covers(h, S) ==
  /\ \A n \in S : h.oldest <= n /\ n <= h.newest
  /\ h.oldest = 0 => S = {}

Indexed == Serving => Covers(health, Intact)

Inv == /\ Types /\ Headed /\ Drawn
       /\ Ascends(cur.units) /\ Marked(cur.units)
       /\ Named /\ Indexed /\ DurableAppends

\* What is written under a card id that is not on the card is known as such.
Unkept == unsaved => kept \subseteq exposed

-----------------------------------------------------------------------------
(***************************************************************************)
(* Numbers: a set of naturals has a least member, a bounded one a greatest.*)
(***************************************************************************)
LEMMA LeastMember ==
    ASSUME NEW T \in SUBSET Nat, T # {}
    PROVE  \E x \in T : \A y \in T : x <= y
  <1> DEFINE R == OpToRel(<, Nat)
  <1>1. IsWellFoundedOn(R, Nat)
    BY NatLessThanWellFounded
  <1>2. R = {ss \in Nat \X Nat : ss[1] < ss[2]}
    BY DEF OpToRel
  <1> HIDE DEF R
  <1>3. PICK x \in T : \A y \in T : ~(<<y, x>> \in R)
    BY <1>1, WFMin
  <1>4. \A y \in T : ~(y < x)
    BY <1>2, <1>3
  <1>5. QED BY <1>4

LEMMA NumberTypes ==
    /\ MaxSequence \in Nat /\ Sequences \subseteq Nat /\ Sequences \subseteq Numbers
    /\ 0 \in Numbers /\ 0 \notin Sequences
    /\ Torn = 0 /\ Torn \notin Sequences /\ Bad \notin Sequences
  BY JournalAssumption DEF Sequences, Numbers, Torn, Bad

\* The bounds of a set of records, zero if there is none.
LEMMA LeastBound ==
    ASSUME NEW S \in SUBSET Sequences
    PROVE  /\ Least(S) \in Numbers
           /\ \A n \in S : Least(S) <= n
           /\ Least(S) = 0 => S = {}
  <1>1. CASE S = {}
    BY <1>1, NumberTypes DEF Least
  <1>2. CASE S # {}
    <2>1. \E x \in S : \A y \in S : x <= y
      BY <1>2, LeastMember, NumberTypes
    <2>2. Min(S) \in S /\ \A y \in S : Min(S) <= y
      BY <2>1 DEF Min
    <2>3. Least(S) = Min(S)
      BY <1>2 DEF Least
    <2>4. QED BY <2>2, <2>3, NumberTypes
  <1>3. QED BY <1>1, <1>2

LEMMA GreatestBound ==
    ASSUME NEW S \in SUBSET Sequences
    PROVE  /\ Greatest(S) \in Numbers
           /\ \A n \in S : n <= Greatest(S)
  <1>1. CASE S = {}
    BY <1>1, NumberTypes DEF Greatest
  <1>2. CASE S # {}
    <2> DEFINE U == {MaxSequence - y : y \in S}
    <2>1. \A y \in S : y \in 1..MaxSequence /\ MaxSequence - y \in Nat
      BY JournalAssumption DEF Sequences
    <2>2. U \in SUBSET Nat /\ U # {}
      BY <1>2, <2>1
    <2>3. PICK v \in U : \A w \in U : v <= w
      BY <2>2, LeastMember
    <2>4. PICK x \in S : v = MaxSequence - x
      BY <2>3
    <2>5. \A y \in S : x >= y
      <3>1. TAKE y \in S
      <3>2. MaxSequence - x <= MaxSequence - y
        BY <2>3, <2>4
      <3>3. QED BY <2>1, <3>2, NumberTypes
    <2>6. Max(S) \in S /\ \A y \in S : Max(S) >= y
      BY <2>4, <2>5 DEF Max
    <2>7. Greatest(S) = Max(S)
      BY <1>2 DEF Greatest
    <2>8. \A y \in S : y \in Nat
      BY NumberTypes
    <2>9. QED BY <2>6, <2>7, <2>8, NumberTypes
  <1>3. QED BY <1>1, <1>2

-----------------------------------------------------------------------------
(***************************************************************************)
(* What is on the card.                                                    *)
(***************************************************************************)
OnCard(c, s, q) ==
  {n \in Sequences : \/ n \in Records(c)
                     \/ \E g \in s : n \in Records(g.file)
                     \/ \E f \in q : n \in Records(f)}

LEMMA RecordsAreNumbers == \A f : Records(f) \subseteq Sequences
  BY DEF Records

LEMMA CardRecordsAre ==
    ASSUME NEW c, NEW s, NEW q
    PROVE  UNION {Records(f) : f \in FilesOf(c, s, q)} = OnCard(c, s, q)
  <1>1. Records(NoFile) = {}
    BY DEF Records, NoFile
  <1> DEFINE A == UNION {Records(f) : f \in FilesOf(c, s, q)}
             B == OnCard(c, s, q)
  <1>2. ASSUME NEW n \in A PROVE n \in B
    <2>1. PICK f \in FilesOf(c, s, q) : n \in Records(f)
      OBVIOUS
    <2>2. f = c \/ (\E g \in s : f = g.file) \/ f \in q
      BY DEF FilesOf
    <2>3. QED BY <2>1, <2>2, RecordsAreNumbers DEF OnCard
  <1>3. ASSUME NEW n \in B PROVE n \in A
    <2>1. n \in Records(c) \/ (\E g \in s : n \in Records(g.file)) \/ \E f \in q : n \in Records(f)
      BY DEF OnCard
    <2>2. n \in Records(c) => c \in FilesOf(c, s, q)
      BY <1>1 DEF FilesOf
    <2>3. \A g \in s : g.file \in FilesOf(c, s, q)
      BY DEF FilesOf
    <2>4. \A f \in q : f \in FilesOf(c, s, q)
      BY DEF FilesOf
    <2>5. QED BY <2>1, <2>2, <2>3, <2>4
  <1>4. QED BY <1>2, <1>3

LEMMA IntactIs == Intact = OnCard(cur, sealed, quar)
  BY CardRecordsAre DEF Intact

LEMMA NoRecords == Records(NoFile) = {} /\ Records(BadHeader) = {}
  BY DEF Records, NoFile, BadHeader

LEMMA OnCardNumbers ==
    ASSUME NEW c, NEW s, NEW q
    PROVE  OnCard(c, s, q) \subseteq Sequences
  BY DEF OnCard

LEMMA UnitsOf ==
    ASSUME NEW f \in File
    PROVE  /\ f.units \in Seq(Units) /\ DOMAIN f.units = 1..Len(f.units) /\ Len(f.units) \in Nat
           /\ \A i \in DOMAIN f.units : f.units[i] \in Units
           /\ f.header \in {"none", "bad", "ok"} /\ f.base \in Numbers
           /\ f = [header |-> f.header, base |-> f.base, units |-> f.units]
  BY DEF File, Units, Numbers

LEMMA SpecialFiles ==
    /\ NoFile \in File /\ BadHeader \in File
    /\ \A n \in Numbers : NewFile(n) \in File
  <1>1. <<>> \in Seq(Units)
    OBVIOUS
  <1>2. QED BY <1>1, NumberTypes DEF NoFile, BadHeader, NewFile, File, Units, Numbers

\* A record appended to a file with a good header.
LEMMA Appended ==
    ASSUME NEW f \in File, f.header = "ok", NEW x \in Units, NEW g,
           g = [f EXCEPT !.units = Append(@, x)]
    PROVE  /\ g \in File /\ g.header = "ok" /\ g.base = f.base /\ g.units = Append(f.units, x)
           /\ Records(g) = Records(f) \cup ({x} \cap Sequences)
  <1>1. f.units \in Seq(Units)
    BY UnitsOf
  <1>2. /\ g.header = "ok" /\ g.base = f.base /\ g.units = Append(f.units, x)
    BY DEF File
  <1>3. Append(f.units, x) \in Seq(Units)
    BY <1>1
  <1>4. g \in File
    BY <1>3 DEF File, Units
  <1>5. ToSet(Append(f.units, x)) = ToSet(f.units) \cup {x}
    <2>1. /\ Len(Append(f.units, x)) = Len(f.units) + 1 /\ Len(f.units) \in Nat
          /\ DOMAIN Append(f.units, x) = 1..Len(f.units) + 1 /\ DOMAIN f.units = 1..Len(f.units)
          /\ \A i \in 1..Len(f.units) : Append(f.units, x)[i] = f.units[i]
          /\ Append(f.units, x)[Len(f.units) + 1] = x
      BY <1>1
    <2>2. QED BY <2>1 DEF ToSet
  <1>6. QED BY <1>2, <1>4, <1>5 DEF Records

-----------------------------------------------------------------------------
(***************************************************************************)
(* The index.                                                              *)
(***************************************************************************)
LEMMA LowIsBoolean == ASSUME NEW c, NEW s, NEW q PROVE Low(c, s, q) \in BOOLEAN
  <1> DEFINE used == MapThenSumSet(LAMBDA f : Len(f.units), FilesOf(c, s, q))
  <1>1. Low(c, s, q) = (used > CardRecords)
    BY DEF Low
  <1> HIDE DEF used
  <1>2. (used > CardRecords) \in BOOLEAN
    OBVIOUS
  <1>3. QED BY <1>1, <1>2

LEMMA HealthFields ==
    ASSUME NEW h \in Health
    PROVE  /\ h.status \in StatusSet /\ h.oldest \in Numbers /\ h.newest \in Numbers
           /\ h.lostFirst \in Numbers /\ h.lostLast \in Numbers
           /\ h.complete \in BOOLEAN /\ h.low \in BOOLEAN
  BY DEF Health

\* pm_storage_rebuild_index() covers what it scanned, or says that it could not.
LEMMA RebuiltView ==
    ASSUME NEW h \in Health, NEW c, NEW s, NEW q, NEW r,
           r = Rebuilt(h, FilesOf(c, s, q))
    PROVE  /\ r \in Health /\ r.status = h.status /\ r.low = h.low
           /\ r.complete => Covers(r, OnCard(c, s, q))
           /\ ~r.complete => r.oldest = h.oldest /\ r.newest = h.newest
  <1> DEFINE fs == FilesOf(c, s, q)
             recs == UNION {Records(f) : f \in fs}
             gaps == UNION {Gaps(f) : f \in fs}
             good == \A f \in fs : Scannable(f)
  <1>1. recs = OnCard(c, s, q) /\ recs \subseteq Sequences
    BY CardRecordsAre, OnCardNumbers
  <1>2. gaps \subseteq Sequences
    <2>1. \A f : Gaps(f) \subseteq Sequences
      BY DEF Gaps
    <2>2. QED BY <2>1
  <1>3. r = IF good THEN [h EXCEPT !.oldest = Least(recs), !.newest = Greatest(recs),
                                   !.lostFirst = Least(gaps), !.lostLast = Greatest(gaps),
                                   !.complete = TRUE]
                    ELSE [h EXCEPT !.complete = FALSE]
    BY DEF Rebuilt
  <1> HIDE DEF fs, recs, gaps, good
  <1>4. /\ Least(recs) \in Numbers /\ \A n \in recs : Least(recs) <= n
        /\ Least(recs) = 0 => recs = {}
        /\ Least(gaps) \in Numbers
    BY <1>1, <1>2, LeastBound
  <1>5. /\ Greatest(recs) \in Numbers /\ \A n \in recs : n <= Greatest(recs)
        /\ Greatest(gaps) \in Numbers
    BY <1>1, <1>2, GreatestBound
  <1>6. CASE good
    <2>1. /\ r \in Health /\ r.status = h.status /\ r.low = h.low /\ r.complete
          /\ r.oldest = Least(recs) /\ r.newest = Greatest(recs)
      BY <1>3, <1>4, <1>5, <1>6 DEF Health
    <2>2. QED BY <1>1, <1>4, <1>5, <2>1 DEF Covers
  <1>7. CASE ~good
    <2>1. /\ r \in Health /\ r.status = h.status /\ r.low = h.low /\ ~r.complete
          /\ r.oldest = h.oldest /\ r.newest = h.newest
      BY <1>3, <1>7 DEF Health
    <2>2. QED BY <2>1
  <1>8. QED BY <1>6, <1>7

\* A record that was stored is in the index.
LEMMA ExtendedCovers ==
    ASSUME NEW h \in Health, NEW S \in SUBSET Sequences, Covers(h, S), NEW n \in Sequences,
           NEW r, NEW b \in BOOLEAN, r = [Extended(h, n) EXCEPT !.low = b]
    PROVE  r \in Health /\ r.status = h.status /\ Covers(r, S \cup {n})
  <1>1. /\ r \in Health /\ r.status = h.status
        /\ r.oldest = IF h.oldest = 0 \/ n < h.oldest THEN n ELSE h.oldest
        /\ r.newest = IF n > h.newest THEN n ELSE h.newest
    BY NumberTypes DEF Extended, Health
  <1>2. /\ h.oldest \in Nat /\ h.newest \in Nat /\ n \in Nat /\ n # 0 /\ \A m \in S : m \in Nat
    BY NumberTypes, HealthFields DEF Numbers
  <1>3. \A m \in S : h.oldest # 0 /\ h.oldest <= m /\ m <= h.newest
    BY DEF Covers
  <1>4. ASSUME NEW m \in S \cup {n} PROVE r.oldest <= m /\ m <= r.newest
    <2>1. CASE m = n
      BY <1>1, <1>2, <2>1
    <2>2. CASE m \in S
      BY <1>1, <1>2, <1>3, <2>2
    <2>3. QED BY <2>1, <2>2
  <1>5. r.oldest # 0
    BY <1>1, <1>2
  <1>6. QED BY <1>1, <1>4, <1>5 DEF Covers

-----------------------------------------------------------------------------
(***************************************************************************)
(* Reclaiming.                                                             *)
(***************************************************************************)
LEMMA VictimsAreAcknowledged == \A g \in Victims : g \in sealed /\ g.last <= ack
  BY DEF Victims

\* What was answered and is not deleted on purpose is not in a victim.
LEMMA ReclaimKeeps ==
    ASSUME Inv, NEW s \in SUBSET sealed, \A g \in sealed \ s : g.last <= ack,
           NEW k \in SUBSET kept, s = sealed \/ k = kept \ (1..ack)
    PROVE  k \ exposed \subseteq OnCard(cur, s, quar)
  <1>1. ASSUME NEW n \in k \ exposed PROVE n \in OnCard(cur, s, quar)
    <2>1. n \in kept /\ n \in OnCard(cur, sealed, quar) /\ n \in Sequences
      BY IntactIs, OnCardNumbers DEF Inv, DurableAppends
    <2>2. CASE s = sealed
      BY <2>1, <2>2
    <2>3. CASE s # sealed
      <3>1. n \notin 1..ack /\ n \in Nat /\ n >= 1 /\ ack \in Nat
        BY <2>1, <2>3, NumberTypes DEF Inv, Types, Numbers, Sequences
      <3>2. ASSUME NEW g \in sealed, n \in Records(g.file) PROVE g \in s
        <4>1. n <= g.last /\ g.last \in Nat
          BY <2>1, <3>2, NumberTypes DEF Inv, Named, Capped, Types, Segment
        <4>2. QED BY <3>1, <4>1
      <3>3. QED BY <2>1, <3>2 DEF OnCard
    <2>4. QED BY <2>2, <2>3
  <1>2. QED BY <1>1

\* The segments and the index that reclaiming leaves.
LEMMA ReclaimedView ==
    ASSUME Inv
    PROVE  /\ Reclaimed.sealed \subseteq sealed
           /\ \A g \in sealed \ Reclaimed.sealed : g.last <= ack
           /\ Reclaimed.health \in Health /\ Reclaimed.health.status = health.status
           /\ Reclaimed.health.complete =>
                 Covers(Reclaimed.health, OnCard(cur, Reclaimed.sealed, quar))
  <1> DEFINE h == [health EXCEPT !.oldest = 0, !.newest = 0, !.low = FALSE]
  <1>1. h \in Health /\ h.status = health.status
    BY NumberTypes DEF Inv, Types, Health
  <1>2. /\ Reclaimed.sealed = sealed \ Victims
        /\ Reclaimed.health = Rebuilt(h, FilesOf(cur, sealed \ Victims, quar))
    BY DEF Reclaimed
  <1> HIDE DEF h
  <1>3. QED BY <1>1, <1>2, RebuiltView, VictimsAreAcknowledged

-----------------------------------------------------------------------------
(***************************************************************************)
(* The current file.                                                       *)
(***************************************************************************)
\* Nothing that is drawn now was on the card or answered before.
LEMMA FreshNumber ==
    ASSUME Inv, NEW n \in Sequences, n = nextSeq
    PROVE  /\ n \notin kept /\ n \notin OnCard(cur, sealed, quar) /\ n \notin Records(cur)
           /\ \A m \in kept : m < n
           /\ \A m \in OnCard(cur, sealed, quar) : m < n
           /\ \A m \in Records(cur) : m < n
           /\ \A g \in sealed : n \notin Records(g.file)
           /\ \A g \in sealed : \A m \in Records(g.file) : m < n
  <1>1. /\ \A m \in kept : m < n
        /\ \A m \in OnCard(cur, sealed, quar) : m < n
    BY IntactIs DEF Inv, Drawn, Past
  <1>2. /\ Records(cur) \subseteq OnCard(cur, sealed, quar)
        /\ \A g \in sealed : Records(g.file) \subseteq OnCard(cur, sealed, quar)
    BY RecordsAreNumbers DEF OnCard
  <1>3. n \in Nat
    BY NumberTypes
  <1>4. QED BY <1>1, <1>2, <1>3

\* open_current() continues the file or begins one.
LEMMA BegunView ==
    ASSUME Inv, NEW n \in Sequences, n = nextSeq, cur.header # "bad"
    PROVE  /\ Begun(n) \in File /\ Begun(n).header = "ok"
           /\ Records(Begun(n)) = Records(cur) /\ Begun(n).units = cur.units
           /\ cur.header = "none" => cur = NoFile /\ cur.units = <<>>
  <1>1. cur \in File /\ (cur.header # "ok" => cur = NoFile)
    BY DEF Inv, Types, Headed, BadHeader
  <1>2. NewFile(n).header = "ok" /\ NewFile(n).units = <<>> /\ NewFile(n) \in File
    BY SpecialFiles, NumberTypes DEF NewFile
  <1>3. NoFile.units = <<>> /\ NoFile.header = "none"
    BY DEF NoFile
  <1>4. CASE cur = NoFile
    <2>1. Records(NewFile(n)) = {} /\ Records(cur) = {}
      BY <1>2, <1>4, NoRecords DEF Records, ToSet
    <2>2. QED BY <1>2, <1>3, <1>4, <2>1 DEF Begun
  <1>5. CASE cur # NoFile
    BY <1>1, <1>5, UnitsOf DEF Begun
  <1>6. QED BY <1>4, <1>5

\* A unit behind the others keeps them in order; a fragment before it is known.
LEMMA AppendedUnits ==
    ASSUME NEW f \in File, f.header = "ok", NEW x \in Units, Ascends(f.units),
           x \in Sequences => \A m \in Records(f) : m < x
    PROVE  /\ Ascends(Append(f.units, x))
           /\ \A i, j \in DOMAIN Append(f.units, x) :
                 i < j => /\ i \in DOMAIN f.units /\ Append(f.units, x)[i] = f.units[i]
                          /\ \/ j \in DOMAIN f.units /\ Append(f.units, x)[j] = f.units[j]
                             \/ Append(f.units, x)[j] = x
  <1> DEFINE u == Append(f.units, x)
             l == Len(f.units)
  <1>1. /\ f.units \in Seq(Units) /\ l \in Nat /\ DOMAIN f.units = 1..l /\ DOMAIN u = 1..l + 1
        /\ \A i \in 1..l : u[i] = f.units[i]
        /\ u[l + 1] = x
    BY UnitsOf
  <1> HIDE DEF u, l
  <1>2. \A i, j \in DOMAIN u :
           i < j => /\ i \in DOMAIN f.units /\ u[i] = f.units[i]
                    /\ (j \in DOMAIN f.units /\ u[j] = f.units[j]) \/ u[j] = x
    BY <1>1
  <1>3. \A i \in DOMAIN f.units : f.units[i] \in Sequences => f.units[i] \in Records(f)
    BY DEF Records, ToSet
  <1>4. Ascends(u)
    BY <1>2, <1>3 DEF Ascends
  <1>5. QED BY <1>2, <1>4 DEF u

\* Whatever is left of an append that does not finish.
LEMMA UnfinishedView ==
    ASSUME Inv, NEW n \in Sequences, n = nextSeq, cur.header # "bad", NEW c,
           c \in Unfinished(n)
    PROVE  /\ c \in File /\ Ascends(c.units) /\ Marked(c.units)
           /\ c.header # "ok" => c \in {NoFile, BadHeader}
           /\ Records(cur) \subseteq Records(c) /\ Records(c) \subseteq Records(cur) \cup {n}
           /\ c \in Remains(Begun(n), {Torn}) => c.header = "ok" /\ Records(c) = Records(cur)
  <1> DEFINE f == Begun(n)
  <1>1. /\ f \in File /\ f.header = "ok" /\ Records(f) = Records(cur) /\ f.units = cur.units
        /\ cur.header = "none" => cur = NoFile /\ cur.units = <<>>
    BY BegunView
  <1>2. Ascends(f.units) /\ Marked(f.units)
    BY <1>1 DEF Inv
  <1> HIDE DEF f
  <1>3. {Torn, Bad, n} \subseteq Units
    BY DEF Units
  <1>4. ASSUME NEW x \in {Torn, Bad, n}, c = [f EXCEPT !.units = Append(@, x)]
        PROVE  /\ c \in File /\ c.header = "ok" /\ Ascends(c.units) /\ Marked(c.units)
               /\ Records(c) = Records(cur) \cup ({x} \cap Sequences)
    <2>1. /\ c \in File /\ c.header = "ok" /\ c.units = Append(f.units, x)
          /\ Records(c) = Records(f) \cup ({x} \cap Sequences)
      BY <1>1, <1>3, <1>4, Appended
    <2>2. x \in Sequences => \A m \in Records(f) : m < x
      BY <1>1, <1>4, FreshNumber, NumberTypes
    <2>3. /\ Ascends(c.units)
          /\ \A i, j \in DOMAIN c.units :
                 i < j => /\ i \in DOMAIN f.units /\ c.units[i] = f.units[i]
                          /\ \/ j \in DOMAIN f.units /\ c.units[j] = f.units[j]
                             \/ c.units[j] = x
      BY <1>1, <1>2, <1>3, <2>1, <2>2, AppendedUnits
    <2>4. x \notin kept
      BY <1>4, FreshNumber, NumberTypes DEF Inv, Types
    <2>5. Marked(c.units)
      BY <1>2, <2>3, <2>4 DEF Marked
    <2>6. QED BY <1>1, <2>1, <2>3, <2>5
  <1>5. CASE c = f
    BY <1>1, <1>2, <1>5
  <1>6. CASE \E x \in {Torn, Bad, n} : c = [f EXCEPT !.units = Append(@, x)]
    <2>1. PICK x \in {Torn, Bad, n} : c = [f EXCEPT !.units = Append(@, x)]
      BY <1>6
    <2>2. /\ c \in File /\ c.header = "ok" /\ Ascends(c.units) /\ Marked(c.units)
          /\ Records(c) = Records(cur) \cup ({x} \cap Sequences)
      BY <1>4, <2>1
    <2>3. c \in Remains(f, {Torn}) => Records(c) = Records(cur)
      <3>1. SUFFICES ASSUME c \in Remains(f, {Torn}) PROVE Records(c) = Records(cur)
        OBVIOUS
      <3>2. c = f \/ c = [f EXCEPT !.units = Append(@, Torn)]
        BY <3>1 DEF Remains
      <3>3. CASE c = f
        BY <1>1, <3>3
      <3>4. CASE c = [f EXCEPT !.units = Append(@, Torn)]
        BY <1>4, <3>4, NumberTypes
      <3>5. QED BY <3>2, <3>3, <3>4
    <2>4. QED BY <2>1, <2>2, <2>3, NumberTypes DEF f
  <1>7. CASE cur = NoFile /\ c \in {NoFile, BadHeader}
    <2>1. Records(cur) = {} /\ Records(c) = {} /\ c \in File
      BY <1>7, NoRecords, SpecialFiles
    <2>2. c.units = <<>> /\ c.header # "ok"
      BY <1>7 DEF NoFile, BadHeader
    <2>3. Ascends(<<>>) /\ Marked(<<>>)
      BY DEF Ascends, Marked
    <2>4. c \notin Remains(f, {Torn})
      <3>1. \A y : [f EXCEPT !.units = Append(@, y)].header = "ok"
        BY <1>1, UnitsOf
      <3>2. QED BY <1>1, <2>2, <3>1 DEF Remains
    <2>5. QED BY <1>7, <2>1, <2>2, <2>3, <2>4 DEF f
  <1>8. QED BY <1>5, <1>6, <1>7 DEF Unfinished, Remains, f

-----------------------------------------------------------------------------
(***************************************************************************)
(* Recovery.                                                               *)
(***************************************************************************)
\* What is left of a file that was cut: no record but one behind a fragment is lost.
LEMMA TruncationView ==
    ASSUME Types, Ascends(cur.units), Marked(cur.units), NEW u \in Truncations(cur.units)
    PROVE  /\ u \in Seq(Units) /\ Ascends(u)
           /\ ToSet(u) \cap Sequences \subseteq ToSet(cur.units)
           /\ (kept \ exposed) \cap ToSet(cur.units) \subseteq ToSet(u)
  <1> DEFINE w == cur.units
             l == Len(w)
             torn == {i \in DOMAIN w : w[i] = Torn}
  <1>1. w \in Seq(Units) /\ l \in Nat /\ DOMAIN w = 1..l
    BY UnitsOf DEF Types
  <1>2. \/ u = w
        \/ l # 0 /\ w[l] = Torn /\ u = Front(w)
        \/ torn # {} /\ torn # {l} /\ u = Append(Front(w), Torn)
    <2>1. torn = {l} => l \in DOMAIN w /\ w[l] = Torn
      OBVIOUS
    <2>2. QED BY <1>1, <2>1 DEF Truncations
  <1>3. ToSet(w) = {w[i] : i \in 1..l}
    BY <1>1 DEF ToSet
  <1>4. l # 0 => /\ Front(w) \in Seq(Units) /\ Len(Front(w)) = l - 1
                 /\ DOMAIN Front(w) = 1..l - 1 /\ \A i \in 1..l - 1 : Front(w)[i] = w[i]
    BY <1>1 DEF Front
  <1>5. CASE u = w
    BY <1>1, <1>5
  <1>6. CASE l # 0 /\ w[l] = Torn /\ u = Front(w)
    <2>1. u \in Seq(Units) /\ DOMAIN u = 1..l - 1 /\ \A i \in 1..l - 1 : u[i] = w[i]
      BY <1>4, <1>6
    <2>2. Ascends(u)
      BY <1>1, <1>6, <2>1 DEF Ascends
    <2>3. ToSet(u) \subseteq ToSet(w)
      BY <1>1, <1>3, <1>6, <2>1 DEF ToSet
    <2>4. ASSUME NEW n \in kept, n \in ToSet(w) PROVE n \in ToSet(u)
      <3>1. PICK i \in 1..l : w[i] = n
        BY <1>3, <2>4
      <3>2. i # l
        BY <1>6, <3>1, NumberTypes DEF Types
      <3>3. i \in 1..l - 1
        BY <1>1, <3>2
      <3>4. QED BY <2>1, <3>1, <3>3 DEF ToSet
    <2>5. QED BY <2>1, <2>2, <2>3, <2>4
  <1>7. CASE torn # {} /\ torn # {l} /\ u = Append(Front(w), Torn)
    <2>1. l # 0
      BY <1>1, <1>7
    <2>2. PICK t \in 1..l : w[t] = Torn /\ (t # l \/ w[l] = Torn)
      BY <1>1, <1>7
    <2>3. /\ u \in Seq(Units) /\ DOMAIN u = 1..l
          /\ (\A i \in 1..l - 1 : u[i] = w[i]) /\ u[l] = Torn
      <3>1. Torn \in Units
        BY DEF Units
      <3>2. /\ Append(Front(w), Torn) \in Seq(Units)
            /\ DOMAIN Append(Front(w), Torn) = 1..l - 1 + 1
            /\ \A i \in 1..l - 1 : Append(Front(w), Torn)[i] = Front(w)[i]
            /\ Append(Front(w), Torn)[l - 1 + 1] = Torn
        BY <1>1, <1>4, <2>1, <3>1
      <3>3. l - 1 + 1 = l
        BY <1>1
      <3>4. QED BY <1>4, <1>7, <2>1, <3>2, <3>3
    <2>4. Ascends(u)
      BY <1>1, <2>3, NumberTypes DEF Ascends
    <2>5. ToSet(u) \cap Sequences \subseteq ToSet(w)
      <3>1. ASSUME NEW n \in ToSet(u), n \in Sequences PROVE n \in ToSet(w)
        <4>1. PICK i \in 1..l : u[i] = n
          BY <2>3 DEF ToSet
        <4>2. i # l
          BY <2>3, <3>1, <4>1, NumberTypes
        <4>3. w[i] = n
          BY <1>1, <2>3, <4>1, <4>2
        <4>4. QED BY <1>3, <4>3
      <3>2. QED BY <3>1
    <2>6. ASSUME NEW n \in kept \ exposed, n \in ToSet(w) PROVE n \in ToSet(u)
      <3>1. PICK i \in 1..l : w[i] = n
        BY <1>3, <2>6
      <3>2. i # l
        <4>1. SUFFICES ASSUME i = l PROVE FALSE
          OBVIOUS
        <4>2. w[l] # Torn
          BY <3>1, <4>1, NumberTypes DEF Types
        <4>3. t < l
          BY <1>1, <2>2, <4>2
        <4>4. QED BY <1>1, <2>2, <3>1, <4>1, <4>3 DEF Marked
      <3>3. i \in 1..l - 1
        BY <1>1, <3>2
      <3>4. u[i] = n /\ i \in DOMAIN u
        BY <2>3, <3>1, <3>3
      <3>5. QED BY <3>4 DEF ToSet
    <2>7. QED BY <2>3, <2>4, <2>5, <2>6
  <1>8. QED BY <1>2, <1>5, <1>6, <1>7

\* recover_current() keeps, in one file or the other, what was answered.
LEMMA RecoveredView ==
    ASSUME Inv, NEW r \in Recovered
    PROVE  /\ r.cur \in File /\ r.quar \subseteq File /\ r.last \in Numbers
           /\ r.cur.header = "ok" \/ r.cur = NoFile
           /\ Ascends(r.cur.units) /\ Marked(r.cur.units)
           /\ r.last # 0 => Capped(r.cur, r.last)
           /\ OnCard(r.cur, sealed, r.quar) \subseteq OnCard(cur, sealed, quar)
           /\ OnCard(cur, sealed, quar) \cap (kept \ exposed) \subseteq OnCard(r.cur, sealed, r.quar)
  <1>t. /\ Types /\ Ascends(cur.units) /\ Marked(cur.units) /\ cur \in File /\ quar \subseteq File
    BY DEF Inv, Types
  <1>n. /\ NoFile \in File /\ NoFile.units = <<>> /\ Ascends(<<>>) /\ Marked(<<>>)
        /\ Records(NoFile) = {}
    BY SpecialFiles, NoRecords DEF NoFile, Ascends, Marked
  <1>1. CASE cur.header # "ok"
    <2>1. r = [cur |-> NoFile, quar |-> quar \cup ({cur} \ {NoFile}), last |-> 0]
      BY <1>1 DEF Recovered
    <2>2. r.cur = NoFile /\ r.quar = quar \cup ({cur} \ {NoFile}) /\ r.last = 0
      BY <2>1
    <2>3. Records(cur) = {}
      BY <1>1 DEF Records
    <2>4. OnCard(r.cur, sealed, r.quar) = OnCard(cur, sealed, quar)
      BY <1>n, <2>2, <2>3 DEF OnCard
    <2>5. QED BY <1>n, <1>t, <2>2, <2>4, NumberTypes
  <1>2. CASE cur.header = "ok"
    <2>1. PICK u \in Truncations(cur.units) :
             r = IF {Torn, Bad} \cap ToSet(u) # {}
                   THEN [cur |-> NoFile, quar |-> quar \cup {[cur EXCEPT !.units = u]}, last |-> 0]
                   ELSE [cur |-> [cur EXCEPT !.units = u], quar |-> quar,
                         last |-> IF u = <<>> THEN 0 ELSE Last(u)]
      BY <1>2 DEF Recovered
    <2>2. /\ u \in Seq(Units) /\ Ascends(u)
          /\ ToSet(u) \cap Sequences \subseteq ToSet(cur.units)
          /\ (kept \ exposed) \cap ToSet(cur.units) \subseteq ToSet(u)
      BY <1>t, TruncationView
    <2> DEFINE f == [cur EXCEPT !.units = u]
    <2>3. f \in File /\ f.header = "ok" /\ f.units = u
      BY <1>2, <1>t, <2>2 DEF File, Units
    <2>4. /\ Records(f) \subseteq Records(cur)
          /\ Records(cur) \cap (kept \ exposed) \subseteq Records(f)
      BY <1>2, <2>2, <2>3 DEF Records
    <2>5. CASE {Torn, Bad} \cap ToSet(u) # {}
      <3>1. r.cur = NoFile /\ r.quar = quar \cup {f} /\ r.last = 0
        BY <2>1, <2>5
      <3> HIDE DEF f
      <3>2. /\ OnCard(r.cur, sealed, r.quar) \subseteq OnCard(cur, sealed, quar)
            /\ OnCard(cur, sealed, quar) \cap (kept \ exposed) \subseteq OnCard(r.cur, sealed, r.quar)
        BY <1>n, <2>4, <3>1 DEF OnCard
      <3>3. QED BY <1>n, <1>t, <2>3, <3>1, <3>2, NumberTypes
    <2>6. CASE {Torn, Bad} \cap ToSet(u) = {}
      <3>1. r.cur = f /\ r.quar = quar /\ r.last = IF u = <<>> THEN 0 ELSE Last(u)
        BY <2>1, <2>6
      <3> HIDE DEF f
      <3>2. /\ OnCard(r.cur, sealed, r.quar) \subseteq OnCard(cur, sealed, quar)
            /\ OnCard(cur, sealed, quar) \cap (kept \ exposed) \subseteq OnCard(r.cur, sealed, r.quar)
        BY <2>4, <3>1 DEF OnCard
      <3>3. \A i \in DOMAIN u : u[i] \in Sequences
        BY <2>2, <2>6 DEF ToSet, Units
      <3>4. Marked(u)
        BY <3>3, NumberTypes DEF Marked
      <3>5. /\ DOMAIN u = 1..Len(u) /\ Len(u) \in Nat /\ (u # <<>> => Len(u) # 0)
        BY <2>2
      <3>6. u # <<>> => /\ Last(u) \in Sequences
                        /\ \A i \in DOMAIN u : u[i] <= Last(u)
        <4>1. SUFFICES ASSUME u # <<>> PROVE /\ Last(u) \in Sequences
                                             /\ \A i \in DOMAIN u : u[i] <= Last(u)
          OBVIOUS
        <4>2. Len(u) \in DOMAIN u /\ Last(u) = u[Len(u)]
          BY <3>5, <4>1 DEF Last
        <4>3. ASSUME NEW i \in DOMAIN u PROVE u[i] <= Last(u)
          <5>1. u[i] \in Nat /\ Last(u) \in Nat
            BY <3>3, <4>2, NumberTypes
          <5>2. CASE i = Len(u)
            BY <4>2, <5>1, <5>2
          <5>3. CASE i # Len(u)
            <6>1. i < Len(u)
              BY <3>5, <5>3
            <6>2. u[i] < u[Len(u)]
              BY <2>2, <3>3, <4>2, <6>1 DEF Ascends
            <6>3. QED BY <4>2, <5>1, <6>2
          <5>4. QED BY <5>2, <5>3
        <4>4. QED BY <3>3, <4>2, <4>3
      <3>7. r.last \in Numbers /\ (r.last # 0 => Capped(r.cur, r.last))
        BY <2>3, <3>1, <3>6, NumberTypes DEF Capped, Records, ToSet
      <3>8. QED BY <1>t, <2>2, <2>3, <3>1, <3>2, <3>4, <3>7
    <2>7. QED BY <2>5, <2>6
  <1>3. QED BY <1>1, <1>2

-----------------------------------------------------------------------------
(***************************************************************************)
(* The steps.                                                              *)
(***************************************************************************)
\* A step that leaves the card and what was answered alone.
LEMMA QuietStep ==
    ASSUME Inv, Types', UNCHANGED <<files, kept, exposed, power>>, nextSeq <= nextSeq',
           ram' = ram \/ (ram'.last \in {0, ram.last} /\ power # "off"),
           Serving' => Serving /\ Covers(health', Intact)
    PROVE  Inv'
  <1>1. UNCHANGED <<cur, sealed, quar, kept, exposed, power>>
    BY DEF files
  <1>2. Intact' = Intact /\ \A n \in Intact : n \in Sequences
    BY <1>1, IntactIs, OnCardNumbers DEF Intact
  <1>3. Drawn'
    <2>1. nextSeq \in Nat /\ nextSeq' \in Nat /\ \A n \in kept : n \in Sequences
      BY NumberTypes DEF Inv, Types
    <2>2. \A n \in Sequences : n < nextSeq => n < nextSeq'
      BY <2>1, NumberTypes
    <2>3. (\A n \in Intact : n < nextSeq) /\ (\A n \in kept : n < nextSeq)
      BY DEF Inv, Drawn, Past
    <2>4. (\A n \in Intact' : n < nextSeq') /\ (\A n \in kept' : n < nextSeq')
      BY <1>1, <1>2, <2>1, <2>2, <2>3
    <2>5. QED BY <2>4 DEF Drawn, Past
  <1>4. Headed' /\ Ascends(cur.units)' /\ Marked(cur.units)'
    BY <1>1 DEF Inv, Headed, Ascends, Marked
  <1>5. Named'
    BY <1>1 DEF Inv, Named, Capped
  <1>6. Indexed' /\ DurableAppends'
    BY <1>1, <1>2 DEF Inv, Indexed, DurableAppends
  <1>7. QED BY <1>3, <1>4, <1>5, <1>6 DEF Inv

LEMMA DrawView ==
    ASSUME Types, NEW n, Draw(n)
    PROVE  n \in Sequences /\ n = nextSeq /\ nextSeq' = n + 1 /\ nextSeq' \in 1..MaxSequence + 1
           /\ nextSeq <= nextSeq' /\ nextSeq \in Nat
  BY JournalAssumption DEF Draw, Sequences, Types

LEMMA FaultTypes ==
    ASSUME Types, Faulty \/ NoFault \/ UNCHANGED faults
    PROVE  faults' \in 0..MaxFaults
  BY JournalAssumption DEF Types, Faulty, NoFault

LEMMA RefusedStep ==
    ASSUME Inv, NEW n \in Sequences, AppendRefused(n) \/ AppendNoCard(n)
    PROVE  Inv'
  <1>1. /\ UNCHANGED <<power, card, files, ram, format, intent, ack, crashes, faults, kept, exposed>>
        /\ health' = health \/ health' = [health EXCEPT !.status = "IO_ERROR"]
        /\ Draw(n)
    BY DEF AppendRefused, AppendNoCard, observers
  <1>2. Types /\ nextSeq <= nextSeq' /\ nextSeq' \in 1..MaxSequence + 1
    BY <1>1, DrawView DEF Inv
  <1>3. health' \in Health /\ (health' # health => health'.status = "IO_ERROR")
    BY <1>1, <1>2 DEF Types, Health, StatusSet
  <1>4. Types'
    BY <1>1, <1>2, <1>3 DEF Types, files
  <1>5. Serving' => Serving /\ health' = health
    BY <1>1, <1>3 DEF Serving, On
  <1>6. QED BY <1>1, <1>2, <1>4, <1>5, QuietStep DEF Inv, Indexed

\* Requests that only read the card, or look at something else.
LEMMA ReadStep ==
    ASSUME Inv,
           \/ ReadBatch \/ RefreshInventory \/ RefreshCapacity
           \/ PrepareFormat \/ CancelFormat \/ CommitIntent \/ Acknowledge
    PROVE  Inv'
  <1>t. Types /\ health \in Health
    BY DEF Inv, Types
  <1>1. UNCHANGED <<power, card, files, ram, crashes, faults, kept, exposed, nextSeq>>
    BY DEF ReadBatch, RefreshInventory, RefreshCapacity, PrepareFormat, CancelFormat,
       CommitIntent, Acknowledge, observers
  <1>2. format' \in {"idle", "prepared", "complete", "failed"} /\ intent' \in BOOLEAN
    BY <1>t DEF ReadBatch, RefreshInventory, RefreshCapacity, PrepareFormat, CancelFormat,
       CommitIntent, Acknowledge, Types
  <1>3. ack' \in Numbers
    <2>1. CASE Acknowledge
      <3>1. PICK a \in ack + 1 .. nextSeq - 1 : ack' = a
        BY <2>1 DEF Acknowledge
      <3>2. QED BY <1>t, <3>1, JournalAssumption DEF Types, Numbers
    <2>2. CASE UNCHANGED ack
      BY <1>t, <2>2 DEF Types
    <2>3. QED BY <2>1, <2>2 DEF ReadBatch, RefreshInventory, RefreshCapacity, PrepareFormat,
            CancelFormat, CommitIntent
  <1>4. health' \in Health /\ (Serving' => Serving /\ Covers(health', Intact))
    <2>1. CASE health' = health
      BY <1>1, <1>t, <2>1 DEF Inv, Indexed, Serving, On
    <2>2. CASE health' = Rebuilt(health, FilesOf(cur, sealed, quar))
      <3>1. /\ health' \in Health /\ health'.status = health.status
            /\ health'.complete => Covers(health', OnCard(cur, sealed, quar))
            /\ ~health'.complete => health'.oldest = health.oldest /\ health'.newest = health.newest
        BY <1>t, <2>2, RebuiltView
      <3>2. Serving' => Serving
        BY <1>1, <3>1 DEF Serving, On
      <3>3. QED BY <3>1, <3>2, IntactIs DEF Inv, Indexed, Covers
    <2>3. ASSUME NEW l \in BOOLEAN, NEW c \in BOOLEAN, NEW s \in StatusSet,
                 health' = [health EXCEPT !.low = l, !.complete = c, !.status = s],
                 s \in {"READY", "FULL"} => health.status \in {"READY", "FULL"}
          PROVE  health' \in Health /\ (Serving' => Serving /\ Covers(health', Intact))
      <3>1. /\ health' \in Health /\ health'.oldest = health.oldest
            /\ health'.newest = health.newest /\ health'.status = s
        BY <1>t, <2>3 DEF Health
      <3>2. QED BY <1>1, <2>3, <3>1 DEF Inv, Indexed, Covers, Serving, On
    <2>4. CASE ReadBatch /\ health' # health
      <3>1. health' = [health EXCEPT !.complete = FALSE, !.status = "IO_ERROR"]
        BY <2>4 DEF ReadBatch
      <3>2. health' = [health EXCEPT !.low = health.low, !.complete = FALSE, !.status = "IO_ERROR"]
        BY <1>t, <3>1 DEF Health
      <3>3. QED BY <1>t, <2>3, <3>2, HealthFields DEF StatusSet
    <2>5. CASE RefreshInventory /\ health' # Rebuilt(health, FilesOf(cur, sealed, quar))
      <3>1. health' = [health EXCEPT !.complete = FALSE]
        BY <2>5 DEF RefreshInventory
      <3>2. health' = [health EXCEPT !.low = health.low, !.complete = FALSE,
                                     !.status = health.status]
        BY <1>t, <3>1 DEF Health
      <3>3. QED BY <1>t, <2>3, <3>2, HealthFields
    <2>6. CASE RefreshCapacity
      <3> DEFINE l == Low(cur, sealed, quar)
                 s == IF health.status = "FULL" /\ ~l THEN "READY" ELSE health.status
      <3>1. health' = [health EXCEPT !.low = l, !.status = s] /\ l \in BOOLEAN
        BY <2>6, LowIsBoolean DEF RefreshCapacity
      <3>2. s \in StatusSet /\ (s \in {"READY", "FULL"} => health.status \in {"READY", "FULL"})
        BY <1>t, HealthFields DEF StatusSet
      <3> HIDE DEF l, s
      <3>3. health' = [health EXCEPT !.low = l, !.complete = health.complete, !.status = s]
        BY <1>t, <3>1 DEF Health
      <3>4. QED BY <1>t, <2>3, <3>1, <3>2, <3>3, HealthFields
    <2>7. QED BY <2>1, <2>2, <2>4, <2>5, <2>6
            DEF PrepareFormat, CancelFormat, CommitIntent, Acknowledge
  <1>5. Types'
    BY <1>1, <1>2, <1>3, <1>4, <1>t DEF Types, files
  <1>6. nextSeq <= nextSeq'
    BY <1>1, <1>t DEF Types
  <1>7. QED BY <1>1, <1>4, <1>5, <1>6, QuietStep

\* An append that stops somewhere, behind the reclaiming, adds at most its own record,
\* which was not answered.
LEMMA StoppedStep ==
    ASSUME Inv, Types', NEW n \in Sequences, n = nextSeq, nextSeq' = n + 1,
           cur.header # "bad", cur' \in Unfinished(n),
           NEW s \in SUBSET sealed, \A g \in sealed \ s : g.last <= ack,
           sealed' = s, kept' \subseteq kept, s = sealed \/ kept' = kept \ (1..ack),
           UNCHANGED <<quar, exposed>>,
           \/ power' = "off" /\ ram' = ZeroRam
           \/ power' # "off" /\ power # "off" /\ ram'.last = ram.last,
           Serving' => /\ cur' \in Remains(Begun(n), {Torn})
                       /\ Covers(health', OnCard(cur, s, quar))
    PROVE  Inv'
  <1>1. /\ cur' \in File /\ Ascends(cur'.units) /\ Marked(cur'.units)
        /\ cur'.header # "ok" => cur' \in {NoFile, BadHeader}
        /\ Records(cur) \subseteq Records(cur') /\ Records(cur') \subseteq Records(cur) \cup {n}
        /\ cur' \in Remains(Begun(n), {Torn}) => cur'.header = "ok" /\ Records(cur') = Records(cur)
    BY UnfinishedView
  <1>2. /\ n \notin kept /\ \A m \in OnCard(cur, sealed, quar) : m < n
        /\ \A m \in kept : m < n
    BY FreshNumber
  <1> DEFINE S == OnCard(cur, s, quar)
  <1>3. /\ S \subseteq Intact' /\ Intact' \subseteq S \cup {n}
        /\ S \subseteq OnCard(cur, sealed, quar)
        /\ Records(cur') = Records(cur) => Intact' = S
    <2>1. Intact' = OnCard(cur', s, quar)
      BY CardRecordsAre DEF Intact
    <2>2. QED BY <1>1, <2>1 DEF OnCard
  <1>4. Drawn'
    <2>1. /\ n \in Nat /\ \A m \in kept : m \in Nat
          /\ \A m \in OnCard(cur, sealed, quar) : m \in Nat
      BY NumberTypes, OnCardNumbers DEF Inv, Types
    <2> HIDE DEF S
    <2>2. (\A m \in Intact' : m < nextSeq') /\ (\A m \in kept' : m < nextSeq')
      BY <1>2, <1>3, <2>1
    <2>3. QED BY <2>2 DEF Drawn, Past
  <1>5. Headed'
    BY <1>1 DEF Headed
  <1>6. Ascends(cur.units)' /\ Marked(cur.units)'
    BY <1>1 DEF Ascends, Marked
  <1>7. Named'
    <2>1. kept' \cap Records(cur') \subseteq kept \cap Records(cur)
      BY <1>1, <1>2
    <2>2. \A g \in s : Capped(g.file, g.last)'
      BY DEF Inv, Named, Capped
    <2>3. power # "off" /\ ram.last # 0 => Capped(cur, ram.last)
      BY DEF Inv, Named
    <2>4. ZeroRam.last = 0
      BY DEF ZeroRam
    <2>5. power' # "off" /\ ram'.last # 0 => Capped(cur, ram.last)'
      BY <2>1, <2>3, <2>4 DEF Capped
    <2>6. QED BY <2>2, <2>4, <2>5 DEF Named
  <1>8. Indexed'
    BY <1>1, <1>3 DEF Indexed, Covers
  <1>9. DurableAppends'
    <2>1. kept' \ exposed \subseteq S
      BY ReclaimKeeps
    <2>2. QED BY <1>3, <2>1 DEF DurableAppends
  <1>10. QED BY <1>4, <1>5, <1>6, <1>7, <1>8, <1>9 DEF Inv

\* Segments are deleted, and with them what the server has.
LEMMA DeletedStep ==
    ASSUME Inv, Types', NEW s \in SUBSET sealed, \A g \in sealed \ s : g.last <= ack,
           sealed' = s, UNCHANGED <<cur, quar, exposed>>, kept' \subseteq kept,
           s = sealed \/ kept' = kept \ (1..ack), nextSeq <= nextSeq',
           \/ power' = "off" /\ ram' = ZeroRam
           \/ power' # "off" /\ power # "off" /\ ram' = ram,
           Serving' => Serving /\ health'.oldest = health.oldest /\ health'.newest = health.newest
    PROVE  Inv'
  <1>1. Intact' = OnCard(cur, s, quar) /\ Intact = OnCard(cur, sealed, quar) /\ Intact' \subseteq Intact
    <2>1. OnCard(cur, s, quar) \subseteq OnCard(cur, sealed, quar)
      BY DEF OnCard
    <2>2. Intact' = OnCard(cur, s, quar)
      BY CardRecordsAre DEF Intact
    <2>3. QED BY <2>1, <2>2, IntactIs
  <1>2. DurableAppends'
    BY <1>1, ReclaimKeeps DEF DurableAppends
  <1>3. Drawn'
    <2>1. /\ nextSeq \in Nat /\ nextSeq' \in Nat /\ (\A m \in kept : m \in Nat)
          /\ \A m \in Intact : m \in Nat
      <3>1. Intact \subseteq Sequences
        BY <1>1, OnCardNumbers
      <3>2. QED BY <3>1, NumberTypes DEF Inv, Types
    <2>2. (\A m \in Intact : m < nextSeq) /\ (\A m \in kept : m < nextSeq)
      BY DEF Inv, Drawn, Past
    <2>3. (\A m \in Intact' : m < nextSeq') /\ (\A m \in kept' : m < nextSeq')
      BY <1>1, <2>1, <2>2
    <2>4. QED BY <2>3 DEF Drawn, Past
  <1>4. Headed' /\ Ascends(cur.units)' /\ Marked(cur.units)'
    BY DEF Inv, Headed, Ascends, Marked
  <1>5. Named'
    <2>1. ZeroRam.last = 0
      BY DEF ZeroRam
    <2>2. QED BY <2>1 DEF Inv, Named, Capped
  <1>6. Indexed'
    BY <1>1 DEF Inv, Indexed, Covers
  <1>7. QED BY <1>2, <1>3, <1>4, <1>5, <1>6 DEF Inv

LEMMA NoRoomStep ==
    ASSUME Inv, NEW n \in Sequences, AppendNoRoom(n)
    PROVE  Inv'
  <1>t. /\ Types /\ health \in Health /\ On /\ health.status = "READY"
        /\ UNCHANGED <<power, card, cur, quar, ram, format, intent, ack, faults, crashes, exposed>>
    BY DEF Inv, Types, AppendNoRoom
  <1>d. nextSeq' \in 1..MaxSequence + 1 /\ nextSeq <= nextSeq'
    BY <1>t, DrawView DEF AppendNoRoom
  <1>1. /\ sealed' = Reclaimed.sealed /\ sealed' \subseteq sealed
        /\ \A g \in sealed \ sealed' : g.last <= ack
        /\ Reclaimed.health \in Health
    BY ReclaimedView DEF AppendNoRoom
  <1>2. kept' \subseteq kept /\ (sealed' = sealed \/ kept' = kept \ (1..ack))
    BY DEF AppendNoRoom, Deleted
  <1>3. /\ health' \in Health
        /\ \/ health'.status = "FULL" /\ health'.oldest = health.oldest
              /\ health'.newest = health.newest
           \/ health'.status = "IO_ERROR"
    <2>1. CASE health' = [health EXCEPT !.status = "FULL"]
      BY <1>t, <2>1 DEF Health, StatusSet
    <2>2. CASE health' = [Reclaimed.health EXCEPT !.status = "IO_ERROR"]
      BY <1>1, <2>2 DEF Health, StatusSet
    <2>3. QED BY <2>1, <2>2 DEF AppendNoRoom
  <1>4. Types'
    BY <1>1, <1>2, <1>3, <1>d, <1>t DEF Types
  <1>5. Serving' => Serving /\ health'.oldest = health.oldest /\ health'.newest = health.newest
    BY <1>3, <1>t DEF Serving
  <1>6. power # "off"
    BY <1>t DEF On
  <1>7. QED BY <1>1, <1>2, <1>4, <1>5, <1>6, <1>d, <1>t, DeletedStep

\* Half of the segments are gone, or all of them and the index cannot be rebuilt.
LEMMA UnlinkedView ==
    ASSUME NEW v \in Unlinked
    PROVE  \A g \in sealed \ (sealed \ v) : g.last <= ack
  BY VictimsAreAcknowledged DEF Unlinked

LEMMA ReclaimFailsStep ==
    ASSUME Inv, NEW n \in Sequences, ReclaimFails(n)
    PROVE  Inv'
  <1>t. /\ Types /\ health \in Health /\ On /\ health.status = "READY"
        /\ UNCHANGED <<power, card, cur, quar, ram, format, intent, ack, crashes, exposed>>
    BY DEF Inv, Types, ReclaimFails
  <1>d. nextSeq' \in 1..MaxSequence + 1 /\ nextSeq <= nextSeq'
    BY <1>t, DrawView DEF ReclaimFails
  <1>1. sealed' \subseteq sealed /\ \A g \in sealed \ sealed' : g.last <= ack
    <2>1. CASE \E v \in Unlinked : sealed' = sealed \ v
      BY <2>1, UnlinkedView
    <2>2. CASE sealed' = Reclaimed.sealed
      BY <2>2, ReclaimedView
    <2>3. QED BY <2>1, <2>2 DEF ReclaimFails
  <1>2. kept' \subseteq kept /\ (sealed' = sealed \/ kept' = kept \ (1..ack))
    BY DEF ReclaimFails, Deleted
  <1>3. health' \in Health /\ health'.status = "IO_ERROR"
    <2>1. CASE health' = [health EXCEPT !.status = "IO_ERROR"]
      BY <1>t, <2>1 DEF Health, StatusSet
    <2>2. CASE health' = [health EXCEPT !.status = "IO_ERROR", !.oldest = 0, !.newest = 0,
                                        !.low = FALSE, !.complete = FALSE]
      BY <1>t, <2>2, NumberTypes DEF Health, StatusSet
    <2>3. QED BY <2>1, <2>2 DEF ReclaimFails
  <1>4. Types'
    <2>1. faults' \in 0..MaxFaults
      BY <1>t, FaultTypes DEF ReclaimFails
    <2>2. QED BY <1>1, <1>2, <1>3, <1>d, <1>t, <2>1 DEF Types
  <1>5. ~Serving' /\ power # "off"
    BY <1>3, <1>t DEF Serving, On
  <1>6. QED BY <1>1, <1>2, <1>4, <1>5, <1>d, <1>t, DeletedStep

\* The segments and the index an append goes on with.
LEMMA AdmittedView ==
    ASSUME Inv, Serving, NEW s, NEW h, Admitted(s, h)
    PROVE  /\ s \subseteq sealed /\ \A g \in sealed \ s : g.last <= ack
           /\ h \in Health /\ h.status = health.status /\ Covers(h, OnCard(cur, s, quar))
  <1>1. CASE s = sealed /\ h = health
    BY <1>1, IntactIs DEF Inv, Types, Indexed
  <1>2. CASE s = Reclaimed.sealed /\ h = Reclaimed.health /\ Reclaimed.health.complete
    BY <1>2, ReclaimedView
  <1>3. QED BY <1>1, <1>2 DEF Admitted

LEMMA AppendFailsStep ==
    ASSUME Inv, NEW n \in Sequences, AppendFails(n)
    PROVE  Inv'
  <1>t. Types /\ On /\ health.status = "READY" /\ Serving /\ health \in Health
    BY DEF Inv, Types, AppendFails, Serving
  <1>d. /\ n = nextSeq /\ nextSeq' = n + 1 /\ nextSeq' \in 1..MaxSequence + 1
        /\ nextSeq <= nextSeq' /\ cur.header # "bad"
    BY <1>t, DrawView DEF AppendFails, Inv, Headed
  <1>u. UNCHANGED <<power, card, quar, format, intent, ack, crashes, exposed>> /\ Faulty
    BY DEF AppendFails
  <1>1. PICK s \in {sealed, Reclaimed.sealed}, h \in {health, Reclaimed.health} :
             /\ Admitted(s, h)
             /\ sealed' = s /\ kept' = kept \ Deleted(s)
             /\ \/ cur' \in Remains(Begun(n), {Torn}) /\ health' = [h EXCEPT !.status = "FULL"]
                \/ cur' \in Unfinished(n) /\ health' = [h EXCEPT !.status = "IO_ERROR"]
    BY DEF AppendFails
  <1>2. /\ s \subseteq sealed /\ \A g \in sealed \ s : g.last <= ack
        /\ h \in Health /\ Covers(h, OnCard(cur, s, quar))
    BY <1>1, <1>t, AdmittedView
  <1>3. /\ health' \in Health /\ health'.oldest = h.oldest /\ health'.newest = h.newest
        /\ cur' \in Remains(Begun(n), {Torn}) \/ health'.status = "IO_ERROR"
    BY <1>1, <1>2 DEF Health, StatusSet
  <1>4. /\ ram' \in [open : BOOLEAN, first : Numbers, last : Numbers] /\ ram'.last = ram.last
    <2>1. /\ ram' = [ram EXCEPT !.open = cur' # NoFile,
                                !.first = IF cur = NoFile /\ cur'.header = "ok" THEN n ELSE @]
      BY DEF AppendFails
    <2>2. QED BY <1>t, <2>1, NumberTypes DEF Types
  <1>5. cur' \in Unfinished(n)
    <2>1. Remains(Begun(n), {Torn}) \subseteq Unfinished(n)
      BY DEF Remains, Unfinished
    <2>2. QED BY <1>1, <2>1
  <1>6. cur' \in File
    BY <1>5, <1>d, UnfinishedView
  <1>7. kept' \subseteq kept /\ (s = sealed \/ kept' = kept \ (1..ack))
    BY <1>1 DEF Deleted
  <1>8. Types'
    <2>1. faults' \in 0..MaxFaults
      BY <1>t, <1>u, FaultTypes
    <2>2. sealed' \subseteq Segment /\ kept' \subseteq Sequences
      BY <1>1, <1>2, <1>7, <1>t DEF Types
    <2>3. QED BY <1>3, <1>4, <1>6, <1>d, <1>t, <1>u, <2>1, <2>2 DEF Types
  <1>9. power # "off" /\ power' # "off"
    BY <1>t, <1>u DEF On
  <1>10. Serving' => /\ cur' \in Remains(Begun(n), {Torn})
                     /\ Covers(health', OnCard(cur, s, quar))
    BY <1>2, <1>3 DEF Serving, Covers
  <1>11. QED BY <1>1, <1>2, <1>4, <1>5, <1>7, <1>8, <1>9, <1>10, <1>d, <1>u, StoppedStep

\* A record is stored, and the segment sealed if it is full.
LEMMA StoredStep ==
    ASSUME Inv, NEW n \in Sequences, NEW fails \in BOOLEAN, AppendStored(n, fails)
    PROVE  Inv'
  <1>t. /\ Types /\ health \in Health /\ On /\ health.status = "READY" /\ Serving
        /\ cur.header # "bad"
        /\ UNCHANGED <<power, card, quar, format, intent, ack, crashes>>
    BY DEF Inv, Types, AppendStored, Serving, Headed
  <1>d. n = nextSeq /\ nextSeq' = n + 1 /\ nextSeq' \in 1..MaxSequence + 1 /\ n \in Nat
    BY <1>t, DrawView, NumberTypes DEF AppendStored
  <1>x. faults' \in 0..MaxFaults
    BY <1>t, FaultTypes DEF AppendStored
  <1> DEFINE first == IF cur = NoFile THEN n ELSE ram.first
             file == Written(n)
             full == Cardinality(Records(file)) >= SegmentRecords
             seals == full /\ ~fails
             Grown(s) == s \cup {[first |-> first, last |-> n, file |-> file]}
  <1>1. PICK s \in {sealed, Reclaimed.sealed}, h \in {health, Reclaimed.health} :
             /\ Admitted(s, h)
             /\ cur' = IF seals THEN NoFile ELSE file
             /\ sealed' = IF seals THEN Grown(s) ELSE s
             /\ ram' = IF seals THEN ZeroRam ELSE [open |-> ~full, first |-> first, last |-> n]
             /\ health' = [Extended(h, n) EXCEPT !.low = Low(cur', sealed', quar)]
             /\ kept' = (kept \ Deleted(s)) \cup (IF fails THEN {} ELSE {n})
             /\ exposed' = IF unsaved \/ (cur.units # <<>> /\ Torn \in ToSet(cur.units))
                             THEN exposed \cup {n} ELSE exposed
    BY DEF AppendStored
  <1>2. /\ s \subseteq sealed /\ \A g \in sealed \ s : g.last <= ack
        /\ h \in Health /\ h.status = health.status /\ Covers(h, OnCard(cur, s, quar))
    BY <1>1, <1>t, AdmittedView
  <1>3. /\ file \in File /\ file.header = "ok" /\ file.units = Append(cur.units, n)
        /\ Records(file) = Records(cur) \cup {n}
        /\ Ascends(file.units)
        /\ \A i, j \in DOMAIN file.units :
              i < j => /\ i \in DOMAIN cur.units /\ file.units[i] = cur.units[i]
                       /\ \/ j \in DOMAIN cur.units /\ file.units[j] = cur.units[j]
                          \/ file.units[j] = n
    <2>1. /\ Begun(n) \in File /\ Begun(n).header = "ok"
          /\ Records(Begun(n)) = Records(cur) /\ Begun(n).units = cur.units
      BY <1>d, <1>t, BegunView
    <2>2. n \in Units /\ (\A m \in Records(cur) : m < n) /\ Ascends(cur.units)
      BY <1>d, FreshNumber DEF Units, Inv
    <2>3. /\ file \in File /\ file.header = "ok" /\ file.units = Append(cur.units, n)
          /\ Records(file) = Records(Begun(n)) \cup ({n} \cap Sequences)
      BY <2>1, <2>2, Appended DEF Written
    <2>4. /\ Ascends(Append(Begun(n).units, n))
          /\ \A i, j \in DOMAIN Append(Begun(n).units, n) :
                i < j => /\ i \in DOMAIN Begun(n).units
                         /\ Append(Begun(n).units, n)[i] = Begun(n).units[i]
                         /\ \/ /\ j \in DOMAIN Begun(n).units
                               /\ Append(Begun(n).units, n)[j] = Begun(n).units[j]
                            \/ Append(Begun(n).units, n)[j] = n
      BY <2>1, <2>2, AppendedUnits
    <2>5. QED BY <2>1, <2>3, <2>4
  <1>4. first \in Numbers /\ full \in BOOLEAN
    BY <1>t, NumberTypes DEF Types
  <1> HIDE DEF first, file, full
  <1>5. /\ n \notin kept /\ n \notin Records(cur)
        /\ \A m \in kept : m < n
        /\ \A m \in OnCard(cur, sealed, quar) : m < n
        /\ \A m \in Records(cur) : m < n
        /\ \A g \in sealed : n \notin Records(g.file)
    BY <1>d, FreshNumber
  <1>6. kept' \subseteq kept \cup {n}
    BY <1>1
  <1>7. /\ Intact' = OnCard(cur, s, quar) \cup {n}
        /\ OnCard(cur, s, quar) \subseteq OnCard(cur, sealed, quar)
    <2>1. Intact' = OnCard(cur', sealed', quar)
      BY <1>t, CardRecordsAre DEF Intact
    <2>2. CASE seals
      <3>1. cur' = NoFile /\ sealed' = Grown(s) /\ Records(cur') = {}
        BY <1>1, <2>2, NoRecords
      <3>2. PICK seg : seg = [first |-> first, last |-> n, file |-> file]
        OBVIOUS
      <3>3. seg.file = file /\ sealed' = s \cup {seg}
        BY <3>1, <3>2
      <3>4. \A m : (\E g \in sealed' : m \in Records(g.file))
                     <=> (\E g \in s : m \in Records(g.file)) \/ m \in Records(file)
        BY <3>3
      <3>5. Intact' = OnCard(cur, s, quar) \cup {n}
        BY <1>3, <2>1, <3>1, <3>4 DEF OnCard
      <3>6. QED BY <1>2, <3>5 DEF OnCard
    <2>3. CASE ~seals
      BY <1>1, <1>2, <1>3, <2>1, <2>3 DEF OnCard
    <2>4. QED BY <2>2, <2>3
  <1>h. health' \in Health /\ Covers(health', OnCard(cur, s, quar) \cup {n})
    <2> DEFINE b == Low(cur', sealed', quar)
               S == OnCard(cur, s, quar)
    <2>1. b \in BOOLEAN /\ S \in SUBSET Sequences
      BY LowIsBoolean, OnCardNumbers
    <2>2. health' = [Extended(h, n) EXCEPT !.low = b] /\ Covers(h, S) /\ h \in Health
      BY <1>1, <1>2
    <2> HIDE DEF b, S
    <2>3. health' \in Health /\ Covers(health', S \cup {n})
      BY <2>1, <2>2, ExtendedCovers
    <2>4. QED BY <2>3 DEF S
  <1>8. Types'
    <2>1. health' \in Health
      BY <1>h
    <2>2. cur' \in File
      BY <1>1, <1>3, SpecialFiles
    <2>3. sealed' \subseteq Segment
      <3>1. s \subseteq Segment
        BY <1>2, <1>t DEF Types
      <3>2. [first |-> first, last |-> n, file |-> file] \in Segment
        BY <1>3, <1>4 DEF Segment
      <3>3. QED BY <1>1, <3>1, <3>2
    <2>4. ram' \in [open : BOOLEAN, first : Numbers, last : Numbers]
      <3>1. ZeroRam \in [open : BOOLEAN, first : Numbers, last : Numbers]
        BY NumberTypes DEF ZeroRam
      <3>2. [open |-> ~full, first |-> first, last |-> n]
               \in [open : BOOLEAN, first : Numbers, last : Numbers]
        BY <1>4, NumberTypes
      <3>3. QED BY <1>1, <3>1, <3>2
    <2>5. kept' \subseteq Sequences /\ exposed' \subseteq Sequences
      BY <1>1, <1>6, <1>t DEF Types
    <2>6. QED BY <1>d, <1>t, <1>x, <2>1, <2>2, <2>3, <2>4, <2>5 DEF Types
  <1>9. Headed'
    BY <1>1, <1>3 DEF Headed, NoFile
  <1>10. Drawn'
    <2>1. /\ \A m \in kept : m \in Nat
          /\ \A m \in OnCard(cur, sealed, quar) : m \in Nat
      BY <1>t, NumberTypes, OnCardNumbers DEF Types
    <2>2. (\A m \in Intact' : m < nextSeq') /\ (\A m \in kept' : m < nextSeq')
      BY <1>5, <1>6, <1>7, <1>d, <2>1
    <2>3. QED BY <2>2 DEF Drawn, Past
  <1>11. Ascends(cur.units)' /\ Marked(cur.units)'
    <2>1. CASE cur' = NoFile
      <3>1. cur'.units = <<>>
        BY <2>1 DEF NoFile
      <3>2. QED BY <3>1 DEF Ascends, Marked
    <2>2. CASE cur' = file
      <3>1. ASSUME NEW i \in DOMAIN file.units, NEW j \in DOMAIN file.units, i < j,
                   file.units[i] = Torn, file.units[j] \in kept'
            PROVE  file.units[j] \in exposed'
        <4>1. i \in DOMAIN cur.units /\ cur.units[i] = Torn
          BY <1>3, <3>1
        <4>2. Torn \in ToSet(cur.units) /\ cur.units # <<>>
          BY <4>1 DEF ToSet
        <4>3. exposed' = exposed \cup {n}
          BY <1>1, <4>2
        <4>4. CASE file.units[j] = n
          BY <4>3, <4>4
        <4>5. CASE file.units[j] # n
          <5>1. j \in DOMAIN cur.units /\ file.units[j] = cur.units[j]
            BY <1>3, <3>1, <4>5
          <5>2. cur.units[j] \in kept
            BY <1>6, <3>1, <4>5, <5>1
          <5>3. QED BY <3>1, <4>1, <4>3, <5>1, <5>2 DEF Inv, Marked
        <4>6. QED BY <4>4, <4>5
      <3>2. Marked(cur.units)'
        BY <2>2, <3>1 DEF Marked
      <3>3. QED BY <1>3, <2>2, <3>2 DEF Ascends
    <2>3. QED BY <1>1, <2>1, <2>2
  <1>12. Named'
    <2>1. \A m \in Records(file) : m <= n
      <3>1. \A m \in Records(cur) : m \in Nat
        BY RecordsAreNumbers, NumberTypes
      <3>2. QED BY <1>3, <1>5, <1>d, <3>1
    <2>2. ASSUME NEW g \in s PROVE \A m \in kept' \cap Records(g.file) : m <= g.last
      <3>1. g \in sealed
        BY <1>2
      <3>2. kept' \cap Records(g.file) \subseteq kept \cap Records(g.file)
        BY <1>5, <1>6, <3>1
      <3>3. QED BY <3>1, <3>2 DEF Inv, Named, Capped
    <2>3. ASSUME NEW g \in sealed' PROVE \A m \in kept' \cap Records(g.file) : m <= g.last
      <3>1. CASE g \in s
        BY <2>2, <3>1
      <3>2. CASE g = [first |-> first, last |-> n, file |-> file]
        BY <2>1, <3>2
      <3>3. QED BY <1>1, <2>3, <3>1, <3>2
    <2>4. ram'.last # 0 => cur' = file /\ ram'.last = n
      BY <1>1 DEF ZeroRam
    <2>5. power' # "off"
      BY <1>t DEF On
    <2>6. QED BY <2>1, <2>3, <2>4, <2>5 DEF Named, Capped
  <1>13. Indexed'
    BY <1>7, <1>h DEF Indexed, Covers
  <1>14. DurableAppends'
    <2>1. (kept \ Deleted(s)) \ exposed \subseteq OnCard(cur, s, quar)
      BY <1>2, ReclaimKeeps DEF Deleted
    <2>2. QED BY <1>1, <1>7, <2>1 DEF DurableAppends
  <1>15. QED BY <1>8, <1>9, <1>10, <1>11, <1>12, <1>13, <1>14 DEF Inv

\* The card is erased, and nothing that was answered has to be on it any more.
LEMMA ErasedStep ==
    ASSUME Inv, Types', cur' = NoFile, sealed' = {}, quar' = {}, kept' = {}, exposed' = {},
           nextSeq' = nextSeq, power' = "off" => ram' = ZeroRam
    PROVE  Inv'
  <1>1. Intact' = {}
    <2>1. Intact' = OnCard(cur', sealed', quar')
      BY CardRecordsAre DEF Intact
    <2>2. QED BY <2>1, NoRecords DEF OnCard
  <1>2. NoFile.header = "none" /\ NoFile.units = <<>>
    BY DEF NoFile
  <1>3. Headed' /\ Ascends(cur.units)' /\ Marked(cur.units)'
    BY <1>2 DEF Headed, Ascends, Marked
  <1>4. Drawn' /\ DurableAppends'
    BY <1>1 DEF Drawn, Past, DurableAppends
  <1>5. Named'
    BY DEF Named, Capped
  <1>6. Indexed'
    BY <1>1 DEF Indexed, Covers
  <1>7. QED BY <1>3, <1>4, <1>5, <1>6 DEF Inv

\* The open segment gets its name before anything is erased.
LEMMA RotatedStep ==
    ASSUME Inv, Types', On, ram.last # 0, cur # NoFile,
           cur' = NoFile, sealed' = sealed \cup {[first |-> ram.first, last |-> ram.last, file |-> cur]},
           ram' = ZeroRam, UNCHANGED <<power, quar, health, nextSeq, kept, exposed>>
    PROVE  Inv'
  <1>1. PICK seg : seg = [first |-> ram.first, last |-> ram.last, file |-> cur]
    OBVIOUS
  <1>2. seg.file = cur /\ seg.last = ram.last /\ sealed' = sealed \cup {seg}
    BY <1>1
  <1>3. NoFile.header = "none" /\ NoFile.units = <<>> /\ ZeroRam.last = 0
    BY DEF NoFile, ZeroRam
  <1>4. Intact' = Intact
    <2>1. Intact' = OnCard(cur', sealed', quar) /\ Intact = OnCard(cur, sealed, quar)
      BY CardRecordsAre DEF Intact
    <2>2. \A m : (\E g \in sealed' : m \in Records(g.file))
                    <=> (\E g \in sealed : m \in Records(g.file)) \/ m \in Records(cur)
      BY <1>2
    <2>3. QED BY <2>1, <2>2, NoRecords DEF OnCard
  <1>5. Headed' /\ Ascends(cur.units)' /\ Marked(cur.units)'
    BY <1>3 DEF Headed, Ascends, Marked
  <1>6. Drawn' /\ DurableAppends'
    BY <1>4 DEF Inv, Drawn, Past, DurableAppends
  <1>7. Named'
    <2>1. Capped(cur, ram.last) /\ power # "off"
      BY DEF Inv, Named, On
    <2>2. ASSUME NEW g \in sealed' PROVE Capped(g.file, g.last)'
      BY <1>2, <2>1 DEF Inv, Named, Capped
    <2>3. QED BY <1>3, <2>1, <2>2 DEF Named
  <1>8. Indexed'
    BY <1>4 DEF Inv, Indexed, Covers, Serving, On
  <1>9. QED BY <1>5, <1>6, <1>7, <1>8 DEF Inv

LEMMA FormatStep ==
    ASSUME Inv, FormatCard \/ FormatFails
    PROVE  Inv'
  <1>t. /\ Types /\ health \in Health /\ On /\ power # "off"
        /\ UNCHANGED <<power, ack, nextSeq, crashes>>
    BY DEF Inv, Types, FormatCard, FormatFails, On
  <1>1. faults' \in 0..MaxFaults
    BY <1>t, FaultTypes DEF FormatCard, FormatFails
  <1>2. /\ ram' \in [open : BOOLEAN, first : Numbers, last : Numbers]
        /\ ram'.last \in {0, ram.last}
    <2>1. ram' = ZeroRam \/ ram' = [ram EXCEPT !.open = FALSE]
      BY DEF FormatCard, FormatFails
    <2>2. CASE ram' = ZeroRam
      BY <2>2, NumberTypes DEF ZeroRam
    <2>3. CASE ram' = [ram EXCEPT !.open = FALSE]
      <3>1. ram \in [open : BOOLEAN, first : Numbers, last : Numbers]
        BY <1>t DEF Types
      <3>2. QED BY <2>3, <3>1
    <2>4. QED BY <2>1, <2>2, <2>3
  <1>3. health' \in Health
    BY <1>t, NumberTypes DEF FormatCard, FormatFails, Health, StatusSet
  <1>4. card' \in {"ok", "blank"} /\ format' \in {"idle", "prepared", "complete", "failed"}
        /\ intent' \in BOOLEAN
    BY <1>t DEF FormatCard, FormatFails, Types
  <1>5. CASE /\ cur' = NoFile /\ sealed' = {} /\ quar' = {} /\ kept' = {} /\ exposed' = {}
    <2>1. Types'
      BY <1>1, <1>2, <1>3, <1>4, <1>5, <1>t, SpecialFiles DEF Types
    <2>2. QED BY <1>5, <1>t, <2>1, ErasedStep
  <1>6. CASE /\ FormatFails /\ cur' = Rotated.cur /\ sealed' = Rotated.sealed
             /\ UNCHANGED <<card, quar, kept, exposed>>
    <2>1. /\ UNCHANGED health
          /\ ram' = IF Rotated.cur = NoFile THEN ZeroRam ELSE [ram EXCEPT !.open = FALSE]
      BY <1>6 DEF FormatFails
    <2>2. CASE ram.open /\ ram.last # 0 /\ cur # NoFile
      <3> DEFINE seg == [first |-> ram.first, last |-> ram.last, file |-> cur]
      <3>1. cur' = NoFile /\ sealed' = sealed \cup {seg} /\ ram' = ZeroRam
        BY <1>6, <2>1, <2>2 DEF Rotated
      <3>2. seg \in Segment
        BY <1>t, <2>2 DEF Segment, Types, Numbers, Sequences
      <3>3. sealed' \subseteq Segment
        BY <1>t, <3>1, <3>2 DEF Types
      <3>4. Types'
        BY <1>1, <1>2, <1>3, <1>4, <1>6, <1>t, <3>1, <3>3, SpecialFiles DEF Types
      <3>5. QED BY <1>6, <1>t, <2>1, <2>2, <3>1, <3>4, RotatedStep
    <2>3. CASE ~(ram.open /\ ram.last # 0 /\ cur # NoFile)
      <3>1. cur' = cur /\ sealed' = sealed
        BY <1>6, <2>3 DEF Rotated
      <3>2. Types'
        BY <1>1, <1>2, <1>3, <1>4, <1>6, <1>t, <3>1 DEF Types
      <3>3. Serving' => Serving /\ Covers(health', Intact)
        BY <1>t, <2>1 DEF Inv, Indexed, Serving, On
      <3>4. nextSeq <= nextSeq'
        BY <1>t DEF Types
      <3>5. QED BY <1>2, <1>6, <1>t, <3>1, <3>2, <3>3, <3>4, QuietStep DEF files
    <2>4. QED BY <2>2, <2>3
  <1>7. QED BY <1>5, <1>6 DEF FormatCard, FormatFails, observers

\* What the health record and the volatile state are after a restart.
LEMMA ZeroTypes ==
    /\ ZeroHealth \in Health /\ ZeroRam \in [open : BOOLEAN, first : Numbers, last : Numbers]
    /\ ZeroRam.last = 0
    /\ \A t \in StatusSet : /\ [ZeroHealth EXCEPT !.status = t] \in Health
                            /\ [ZeroHealth EXCEPT !.status = t].status = t
  BY NumberTypes DEF ZeroHealth, ZeroRam, Health, StatusSet

\* pm_storage_start(): the recovered card and a new index.
LEMMA StartStep ==
    ASSUME Inv, Start
    PROVE  Inv'
  <1>t. /\ Types /\ power' = "on"
        /\ UNCHANGED <<card, sealed, format, intent, ack, faults, crashes, kept, exposed>>
    BY DEF Inv, Start, observers
  <1> DEFINE now == [ZeroHealth EXCEPT !.status = "READY"]
             H(r) == Rebuilt(now, FilesOf(r.cur, sealed, r.quar))
  <1>1. PICK r \in Recovered :
             /\ cur' = r.cur /\ quar' = r.quar
             /\ ram' = [open |-> FALSE, first |-> r.cur.base, last |-> r.last]
             /\ health' = IF H(r).complete
                            THEN [H(r) EXCEPT !.low = Low(r.cur, sealed, r.quar)]
                            ELSE [H(r) EXCEPT !.status = "CORRUPT",
                                              !.low = Low(r.cur, sealed, r.quar)]
    BY DEF Start
  <1> DEFINE h == H(r)
             b == Low(r.cur, sealed, r.quar)
             S == OnCard(r.cur, sealed, r.quar)
  <1>2. /\ r.cur \in File /\ r.quar \subseteq File /\ r.last \in Numbers
        /\ r.cur.header = "ok" \/ r.cur = NoFile
        /\ Ascends(r.cur.units) /\ Marked(r.cur.units)
        /\ r.last # 0 => Capped(r.cur, r.last)
        /\ S \subseteq OnCard(cur, sealed, quar)
        /\ OnCard(cur, sealed, quar) \cap (kept \ exposed) \subseteq S
    BY RecoveredView
  <1>3. now \in Health /\ b \in BOOLEAN
    BY ZeroTypes, LowIsBoolean DEF StatusSet
  <1>4. h \in Health /\ (h.complete => Covers(h, S))
    BY <1>3, RebuiltView
  <1>5. health' = IF h.complete THEN [h EXCEPT !.low = b] ELSE [h EXCEPT !.status = "CORRUPT", !.low = b]
    BY <1>1
  <1>6. Intact' = S /\ Intact = OnCard(cur, sealed, quar)
    BY <1>1, <1>t, CardRecordsAre DEF Intact
  <1> HIDE DEF h, b, S, now
  <1>7. health' \in Health /\ (health'.status # "CORRUPT" => Covers(health', S))
    <2>1. CASE h.complete
      <3>1. health' \in Health /\ health'.oldest = h.oldest /\ health'.newest = h.newest
        BY <1>3, <1>4, <1>5, <2>1 DEF Health
      <3>2. QED BY <1>4, <2>1, <3>1 DEF Covers
    <2>2. CASE ~h.complete
      BY <1>3, <1>4, <1>5, <2>2 DEF Health, StatusSet
    <2>3. QED BY <2>1, <2>2
  <1>8. nextSeq \in Nat /\ nextSeq' \in 1..MaxSequence + 1 /\ nextSeq' \in Nat /\ nextSeq <= nextSeq'
    BY <1>t, JournalAssumption DEF Start, Types
  <1>9. ram' \in [open : BOOLEAN, first : Numbers, last : Numbers] /\ ram'.last = r.last
    <2>1. r.cur.base \in Numbers
      BY <1>2, UnitsOf
    <2>2. QED BY <1>1, <1>2, <2>1
  <1>10. Types'
    BY <1>1, <1>2, <1>7, <1>8, <1>9, <1>t DEF Types
  <1>11. Headed'
    BY <1>1, <1>2 DEF Headed, NoFile
  <1>12. Drawn'
    <2>1. /\ \A m \in kept : m \in Nat
          /\ \A m \in Intact : m \in Nat
      BY <1>6, <1>t, NumberTypes, OnCardNumbers DEF Types
    <2>2. (\A m \in Intact : m < nextSeq) /\ (\A m \in kept : m < nextSeq)
      BY DEF Inv, Drawn, Past
    <2>3. (\A m \in Intact' : m < nextSeq') /\ (\A m \in kept' : m < nextSeq')
      BY <1>2, <1>6, <1>8, <1>t, <2>1, <2>2
    <2>4. QED BY <2>3 DEF Drawn, Past
  <1>13. Ascends(cur.units)' /\ Marked(cur.units)'
    BY <1>1, <1>2, <1>t DEF Ascends, Marked
  <1>14. Named'
    BY <1>1, <1>2, <1>9, <1>t DEF Inv, Named, Capped
  <1>15. Indexed'
    BY <1>6, <1>7 DEF Indexed, Serving, Covers
  <1>16. DurableAppends'
    BY <1>2, <1>6, <1>t DEF Inv, DurableAppends
  <1>17. QED BY <1>10, <1>11, <1>12, <1>13, <1>14, <1>15, <1>16 DEF Inv

\* A restart that leaves the card alone and serves nothing.
LEMMA SilentStep ==
    ASSUME Inv, Types', UNCHANGED <<files, kept, exposed, nextSeq>>, ram' = ZeroRam, ~Serving'
    PROVE  Inv'
  <1>1. UNCHANGED <<cur, sealed, quar>> /\ Intact' = Intact
    BY DEF files, Intact
  <1>2. Headed' /\ Ascends(cur.units)' /\ Marked(cur.units)'
    BY <1>1 DEF Inv, Headed, Ascends, Marked
  <1>3. Drawn' /\ DurableAppends'
    BY <1>1 DEF Inv, Drawn, Past, DurableAppends
  <1>4. Named'
    BY <1>1, ZeroTypes DEF Inv, Named, Capped
  <1>5. Indexed'
    BY DEF Indexed
  <1>6. QED BY <1>2, <1>3, <1>4, <1>5 DEF Inv

LEMMA StartFailsStep ==
    ASSUME Inv, StartFails
    PROVE  Inv'
  <1>1. /\ Types /\ ram = ZeroRam
        /\ UNCHANGED <<card, files, ram, format, intent, ack, nextSeq, crashes, kept, exposed>>
    BY DEF Inv, Named, StartFails, observers
  <1>2. power' \in {"on", "idle"} /\ \E t \in {"IO_ERROR", "MISSING", "CORRUPT"} :
                                        health' = [ZeroHealth EXCEPT !.status = t]
    BY DEF StartFails
  <1>3. health' \in Health /\ health'.status \in {"IO_ERROR", "MISSING", "CORRUPT"}
    BY <1>2, ZeroTypes DEF StatusSet
  <1>4. faults' \in 0..MaxFaults
    BY <1>1, FaultTypes DEF StartFails
  <1>5. Types'
    BY <1>1, <1>2, <1>3, <1>4 DEF Types, files
  <1>6. ~Serving'
    BY <1>3 DEF Serving
  <1>7. QED BY <1>1, <1>5, <1>6, SilentStep

\* With another card id nothing on the card can be read, and nothing has to be.
LEMMA StartForeignStep ==
    ASSUME Inv, Unkept, StartForeign
    PROVE  Inv'
  <1>1. /\ Types /\ ram = ZeroRam /\ power' = "on" /\ kept \subseteq exposed
        /\ UNCHANGED <<card, ram, format, intent, ack, faults, crashes, kept, exposed>>
    BY DEF Inv, Named, Unkept, StartForeign, observers
  <1>2. /\ cur' = NoFile
        /\ sealed' = {[g EXCEPT !.file = Foreign(@)] : g \in sealed}
        /\ quar' = {Foreign(f) : f \in quar \cup ({cur} \ {NoFile})}
        /\ health' = [ZeroHealth EXCEPT !.status = "CORRUPT", !.low = Low(cur', sealed', quar')]
    BY DEF StartForeign
  <1>3. \A f \in File : Foreign(f) \in File /\ Records(Foreign(f)) = {}
    BY DEF Foreign, File, Records
  <1>4. /\ sealed' \subseteq Segment /\ \A g \in sealed' : Records(g.file) = {}
    <2>1. ASSUME NEW g \in sealed
          PROVE  /\ [g EXCEPT !.file = Foreign(@)] \in Segment
                 /\ [g EXCEPT !.file = Foreign(@)].file = Foreign(g.file)
                 /\ g.file \in File
      <3>1. g \in Segment
        BY <1>1 DEF Types
      <3>2. Foreign(g.file) \in File
        BY <1>3, <3>1 DEF Segment
      <3>3. QED BY <3>1, <3>2 DEF Segment
    <2>2. QED BY <1>2, <1>3, <2>1
  <1>5. quar' \subseteq File /\ \A f \in quar' : Records(f) = {}
    BY <1>1, <1>2, <1>3 DEF Types
  <1>6. health' \in Health /\ health'.status = "CORRUPT"
    <2>1. Low(cur', sealed', quar') \in BOOLEAN
      BY LowIsBoolean
    <2>2. QED BY <1>2, <2>1, ZeroTypes DEF Health, StatusSet
  <1>7. nextSeq \in Nat /\ nextSeq' \in 1..MaxSequence + 1 /\ nextSeq' \in Nat /\ nextSeq <= nextSeq'
    BY <1>1, JournalAssumption DEF StartForeign, Types
  <1>8. Types'
    BY <1>1, <1>2, <1>4, <1>5, <1>6, <1>7, SpecialFiles DEF Types
  <1>9. Intact' = {}
    <2>1. Intact' = OnCard(cur', sealed', quar')
      BY CardRecordsAre DEF Intact
    <2>2. QED BY <1>2, <1>4, <1>5, <2>1, NoRecords DEF OnCard
  <1>10. Headed' /\ Ascends(cur.units)' /\ Marked(cur.units)'
    <2>1. NoFile.header = "none" /\ NoFile.units = <<>>
      BY DEF NoFile
    <2>2. QED BY <1>2, <2>1 DEF Headed, Ascends, Marked
  <1>11. Drawn'
    <2>1. \A m \in kept : m \in Nat /\ m < nextSeq
      BY <1>1, NumberTypes DEF Inv, Types, Drawn, Past
    <2>2. \A m \in kept' : m < nextSeq'
      BY <1>1, <1>7, <2>1
    <2>3. QED BY <1>9, <2>2 DEF Drawn, Past
  <1>12. Named'
    BY <1>1, <1>2, <1>4, ZeroTypes DEF Named, Capped
  <1>13. Indexed' /\ DurableAppends'
    BY <1>1, <1>6, <1>9 DEF Indexed, Serving, DurableAppends
  <1>14. QED BY <1>8, <1>10, <1>11, <1>12, <1>13 DEF Inv

LEMMA PowerCutStep ==
    ASSUME Inv, PowerCut
    PROVE  Inv'
  <1>1. /\ Types /\ power' = "off" /\ health' = ZeroHealth /\ ram' = ZeroRam /\ format' = "idle"
        /\ UNCHANGED <<intent, ack, faults>>
    BY DEF Inv, PowerCut
  <1>2. crashes' \in 0..MaxCrashes
    BY <1>1, JournalAssumption DEF PowerCut, Types
  <1>3. ~Serving'
    BY <1>1 DEF Serving, On
  <1>4. ASSUME card' \in {"ok", "blank"}, cur' \in File, quar' \subseteq File,
               sealed' \subseteq Segment, nextSeq' \in 1..MaxSequence + 1,
               kept' \subseteq Sequences, exposed' \subseteq Sequences
        PROVE  Types'
    BY <1>1, <1>2, <1>4, ZeroTypes DEF Types
  <1>5. CASE CutIdle
    <2>1. UNCHANGED <<card, files, cur, sealed, quar, kept, exposed, nextSeq>>
      BY <1>5 DEF CutIdle, files, observers
    <2>2. Types'
      BY <1>1, <1>4, <2>1 DEF Types
    <2>3. QED BY <1>1, <1>3, <2>1, <2>2, SilentStep
  <1>6. CASE CutInAppend
    <2>1. PICK n \in Sequences : Draw(n) /\ cur' \in Unfinished(n)
      BY <1>6 DEF CutInAppend
    <2>2. UNCHANGED <<card, quar, exposed>> /\ Serving
      BY <1>6 DEF CutInAppend, Serving
    <2>s. PICK s, h : Admitted(s, h) /\ sealed' = s /\ kept' = kept \ Deleted(s)
      BY <1>6 DEF CutInAppend
    <2>a. s \subseteq sealed /\ \A g \in sealed \ s : g.last <= ack
      BY <2>2, <2>s, AdmittedView
    <2>k. kept' \subseteq kept /\ (s = sealed \/ kept' = kept \ (1..ack))
      BY <2>s DEF Deleted
    <2>3. n = nextSeq /\ nextSeq' = n + 1 /\ nextSeq' \in 1..MaxSequence + 1
      BY <1>1, <2>1, DrawView
    <2>4. cur.header # "bad"
      BY <2>2 DEF Inv, Headed
    <2>5. cur' \in File
      BY <2>1, <2>3, <2>4, UnfinishedView
    <2>6. Types'
      BY <1>1, <1>4, <2>2, <2>3, <2>5, <2>a, <2>k, <2>s DEF Types
    <2>7. QED BY <1>1, <1>3, <2>1, <2>2, <2>3, <2>4, <2>6, <2>a, <2>k, <2>s, StoppedStep
  <1>7. CASE CutInReclaim
    <2>1. PICK v \in Unlinked : sealed' = sealed \ v
      BY <1>7 DEF CutInReclaim
    <2>2. /\ UNCHANGED <<card, cur, quar, nextSeq, exposed>>
          /\ kept' \subseteq kept /\ (sealed' = sealed \/ kept' = kept \ (1..ack))
      BY <1>7 DEF CutInReclaim, Deleted
    <2>3. sealed' \in SUBSET sealed /\ \A o \in sealed \ sealed' : o.last <= ack
      BY <2>1, UnlinkedView
    <2>4. Types'
      BY <1>1, <1>4, <2>2, <2>3 DEF Types
    <2>5. nextSeq <= nextSeq'
      BY <1>1, <2>2 DEF Types
    <2>6. QED BY <1>1, <1>3, <2>2, <2>3, <2>4, <2>5, DeletedStep
  <1>8. CASE CutInFormat
    <2>1. /\ cur' = NoFile /\ sealed' = {} /\ quar' = {} /\ kept' = {} /\ exposed' = {}
          /\ card' \in {"ok", "blank"} /\ nextSeq' = nextSeq
      BY <1>8 DEF CutInFormat
    <2>2. Types'
      BY <1>1, <1>4, <2>1, SpecialFiles DEF Types
    <2>3. QED BY <1>1, <2>1, <2>2, ErasedStep
  <1>9. QED BY <1>5, <1>6, <1>7, <1>8 DEF PowerCut

-----------------------------------------------------------------------------
LEMMA InitInv == Init => Inv
  <1>1. SUFFICES ASSUME Init PROVE Inv
    OBVIOUS
  <1>2. NoFile.header = "none" /\ NoFile.units = <<>>
    BY DEF NoFile
  <1>3. Intact = {}
    BY <1>1, IntactIs, NoRecords DEF Init, OnCard
  <1>4. Types
    <2>1. cur \in File /\ health \in Health /\ ram \in [open : BOOLEAN, first : Numbers, last : Numbers]
      BY <1>1, ZeroTypes, SpecialFiles DEF Init
    <2>2. ack \in Numbers /\ nextSeq \in 1..MaxSequence + 1
          /\ faults \in 0..MaxFaults /\ crashes \in 0..MaxCrashes
      BY <1>1, NumberTypes, JournalAssumption DEF Init
    <2>3. QED BY <1>1, <2>1, <2>2 DEF Init, Types
  <1>5. Headed /\ Ascends(cur.units) /\ Marked(cur.units)
    BY <1>1, <1>2 DEF Init, Headed, Ascends, Marked
  <1>6. Drawn /\ DurableAppends
    BY <1>1, <1>3 DEF Init, Drawn, Past, DurableAppends
  <1>7. Named /\ Indexed
    BY <1>1, <1>3 DEF Init, Named, Capped, Indexed, Serving, On
  <1>8. QED BY <1>4, <1>5, <1>6, <1>7 DEF Inv

\* Only a format that fails in card_identity() leaves an id that is not on the card,
\* and by then the card is empty; what is stored under it is exposed at once.
LEMMA UnkeptStep ==
    ASSUME Unkept, [Next]_vars
    PROVE  Unkept'
  <1>1. CASE AppendRecord
    <2>1. PICK n \in Sequences :
             \/ AppendRefused(n) \/ AppendNoRoom(n)
             \/ \E fails \in BOOLEAN : AppendStored(n, fails)
             \/ AppendFails(n) \/ AppendNoCard(n) \/ ReclaimFails(n)
      BY <1>1 DEF AppendRecord
    <2>2. CASE AppendRefused(n) \/ AppendNoCard(n)
      BY <2>2 DEF AppendRefused, AppendNoCard, observers, Unkept
    <2>3. CASE AppendNoRoom(n) \/ ReclaimFails(n)
      BY <2>3 DEF AppendNoRoom, ReclaimFails, Unkept
    <2>4. CASE \E fails \in BOOLEAN : AppendStored(n, fails)
      <3>1. /\ unsaved' = unsaved
            /\ \E s : kept' \subseteq (kept \ Deleted(s)) \cup {n}
            /\ exposed' = IF unsaved \/ (cur.units # <<>> /\ Torn \in ToSet(cur.units))
                            THEN exposed \cup {n} ELSE exposed
        BY <2>4 DEF AppendStored
      <3>2. QED BY <3>1 DEF Unkept
    <2>5. CASE AppendFails(n)
      <3>1. unsaved' = unsaved /\ exposed' = exposed /\ \E s : kept' = kept \ Deleted(s)
        BY <2>5 DEF AppendFails
      <3>2. QED BY <3>1 DEF Unkept
    <2>6. QED BY <2>1, <2>2, <2>3, <2>4, <2>5
  <1>2. CASE \/ ReadBatch \/ RefreshInventory \/ RefreshCapacity \/ Acknowledge
             \/ PrepareFormat \/ CancelFormat \/ CommitIntent
    BY <1>2 DEF ReadBatch, RefreshInventory, RefreshCapacity, Acknowledge, PrepareFormat,
       CancelFormat, CommitIntent, observers, Unkept
  <1>3. CASE FormatCard \/ FormatFails
    BY <1>3 DEF FormatCard, FormatFails, observers, Unkept
  <1>4. CASE Start \/ StartForeign \/ StartFails
    BY <1>4 DEF Start, StartForeign, StartFails, observers, Unkept
  <1>5. CASE PowerCut
    <2>1. unsaved' = unsaved /\ (CutIdle \/ CutInAppend \/ CutInReclaim \/ CutInFormat)
      BY <1>5 DEF PowerCut
    <2>2. kept' \subseteq kept /\ (exposed' = exposed \/ kept' = {})
      BY <2>1 DEF CutIdle, CutInAppend, CutInReclaim, CutInFormat, observers
    <2>3. QED BY <2>1, <2>2 DEF Unkept
  <1>6. CASE UNCHANGED vars
    BY <1>6 DEF vars, observers, Unkept
  <1>7. QED BY <1>1, <1>2, <1>3, <1>4, <1>5, <1>6 DEF Next, Formatting

LEMMA InvStep == Inv /\ Unkept /\ [Next]_vars => Inv'
  <1>1. SUFFICES ASSUME Inv, Unkept, [Next]_vars PROVE Inv'
    OBVIOUS
  <1>2. CASE AppendRecord
    <2>1. PICK n \in Sequences :
             \/ AppendRefused(n) \/ AppendNoRoom(n)
             \/ \E fails \in BOOLEAN : AppendStored(n, fails)
             \/ AppendFails(n) \/ AppendNoCard(n) \/ ReclaimFails(n)
      BY <1>2 DEF AppendRecord
    <2>2. QED BY <1>1, <2>1, RefusedStep, NoRoomStep, StoredStep, AppendFailsStep,
                 ReclaimFailsStep
  <1>3. CASE ReadBatch \/ RefreshInventory \/ RefreshCapacity \/ Acknowledge
    BY <1>1, <1>3, ReadStep
  <1>4. CASE Formatting
    BY <1>1, <1>4, ReadStep, FormatStep DEF Formatting
  <1>5. CASE Start \/ StartForeign \/ StartFails \/ PowerCut
    BY <1>1, <1>5, StartStep, StartForeignStep, StartFailsStep, PowerCutStep
  <1>6. CASE UNCHANGED vars
    <2>1. UNCHANGED <<power, card, files, health, ram, format, intent, ack, nextSeq,
                      faults, crashes, kept, exposed>>
      BY <1>6 DEF vars, observers
    <2>2. Types'
      BY <1>1, <2>1 DEF Inv, Types, files
    <2>3. nextSeq <= nextSeq'
      BY <1>1, <2>1 DEF Inv, Types
    <2>4. Serving' => Serving /\ Covers(health', Intact)
      BY <1>1, <2>1 DEF Inv, Indexed, Serving, On
    <2>5. QED BY <1>1, <2>1, <2>2, <2>3, <2>4, QuietStep
  <1>7. QED BY <1>1, <1>2, <1>3, <1>4, <1>5, <1>6 DEF Next

\* The invariant that the two theorems rest on.
LEMMA Invariance == Spec => [](Inv /\ Unkept)
  <1>1. Init => Inv /\ Unkept
    BY InitInv DEF Init, Unkept
  <1>2. Inv /\ Unkept /\ [Next]_vars => Inv' /\ Unkept'
    BY InvStep, UnkeptStep
  <1>3. QED BY <1>1, <1>2, PTL DEF Spec

\* DurableAppends for every number of records, segment size, card size, number of
\* failing card operations and number of power cuts: what append_record() has
\* answered with ESP_OK is found whole by every later scan, whichever requests
\* failed or were cut off, until it was acknowledged or the card formatted.
THEOREM AppendsSurvive == Spec => []DurableAppends
  <1>1. Inv => DurableAppends
    BY DEF Inv
  <1>2. QED BY <1>1, Invariance, PTL

\* IndexCoversCard for all of them: oldest_sequence and newest_sequence, as
\* append_record(), reclaim_acknowledged_segments(), format_storage() and
\* pm_storage_rebuild_index() leave them, never exclude a record that a scan of
\* the card would find, so that nothing readable is declared lost.
THEOREM IndexIsSound == Spec => []IndexCoversCard
  <1>1. Inv => IndexCoversCard
    BY DEF Inv, Indexed, Serving, Covers, IndexCoversCard
  <1>2. QED BY <1>1, Invariance, PTL

=============================================================================
