------------------------ MODULE ReadYourWritesProofs ------------------------
(***************************************************************************)
(* Theorems about ReadYourWrites, for every page and segment size, record  *)
(* length, number of tasks, rows, crashes and set of command lines.        *)
(***************************************************************************)
EXTENDS ReadYourWrites, Integers, WellFoundedInduction, TLAPS

(***************************************************************************)
(* The layout of WAL (module WalLayout): normalize_insert_lsn undoes       *)
(* pg_current_wal_insert_lsn(), for every page size, segment size and pair *)
(* of header sizes.                                                        *)
(***************************************************************************)
\* Quotient and remainder are unique.
LEMMA RemainderUnique ==
  ASSUME NEW b \in Nat \ {0}, NEW q \in Nat, NEW r \in 0 .. (b - 1)
  PROVE  (b * q + r) % b = r /\ (b * q + r) \div b = q
<1> DEFINE a == b * q + r
           p == a \div b
           s == a % b
<1>1. b * q \in Nat /\ a \in Nat
  OBVIOUS
<1>2. p \in Nat /\ s \in 0 .. (b - 1) /\ a = b * p + s
  BY <1>1
<1> HIDE DEF p, s
<1>3. ~(p >= q + 1)
  <2> SUFFICES ASSUME p >= q + 1 PROVE FALSE
    OBVIOUS
  <2>1. b * p >= b * (q + 1)
    BY <1>2
  <2>2. b * (q + 1) = b * q + b
    OBVIOUS
  <2> QED BY <2>1, <2>2, <1>1, <1>2
<1>4. ~(q >= p + 1)
  <2> SUFFICES ASSUME q >= p + 1 PROVE FALSE
    OBVIOUS
  <2>1. b * q >= b * (p + 1)
    BY <1>2
  <2>2. b * (p + 1) = b * p + b
    BY <1>2
  <2> QED BY <2>1, <2>2, <1>1, <1>2
<1>5. p = q
  BY <1>2, <1>3, <1>4
<1> QED BY <1>1, <1>2, <1>5 DEF p, s

\* A segment has k pages; byte j of page v of segment u.
Pages(k) == WalSegmentSize = WalBlockSize * k
Byte(k, u, v, j) == WalBlockSize * (k * u + v) + j

\* Every position is a page of a segment and an offset in the page.
LEMMA Coordinates ==
  ASSUME NEW pos \in Nat
  PROVE  \E k \in Nat \ {0}, u \in Nat :
           /\ Pages(k)
           /\ \E v \in 0 .. (k - 1), j \in 0 .. (WalBlockSize - 1) :
                pos = Byte(k, u, v, j)
<1> DEFINE B == WalBlockSize
           k == WalSegmentSize \div B
           i == pos \div B
           j == pos % B
           u == i \div k
           v == i % k
<1>1. B \in Nat \ {0} /\ WalSegmentSize \in Nat \ {0}
  BY LayoutAssumption
<1>2. WalSegmentSize = B * k /\ k \in Nat
  BY <1>1, LayoutAssumption
<1>3. k # 0
  <2> SUFFICES ASSUME k = 0 PROVE FALSE
    OBVIOUS
  <2>1. B * k = 0
    BY <1>1
  <2> QED BY <2>1, <1>1, <1>2
<1>4. i \in Nat /\ j \in 0 .. (B - 1) /\ pos = B * i + j
  BY <1>1
<1> HIDE DEF k, i, j
<1>5. u \in Nat /\ v \in 0 .. (k - 1) /\ i = k * u + v
  BY <1>2, <1>3, <1>4
<1> HIDE DEF u, v
<1>6. pos = B * (k * u + v) + j
  BY <1>4, <1>5
<1> HIDE DEF B
<1>7. k \in Nat \ {0}
  BY <1>2, <1>3
<1> QED BY <1>2, <1>4, <1>5, <1>6, <1>7 DEF B, Pages, Byte

\* The remainders that the code and PostgreSQL look at, in these coordinates.
LEMMA Remainders ==
  ASSUME NEW k \in Nat \ {0}, NEW u \in Nat, NEW v \in 0 .. (k - 1),
         NEW j \in 0 .. (WalBlockSize - 1), NEW pos,
         Pages(k), pos = Byte(k, u, v, j)
  PROVE  /\ pos \in Nat
         /\ pos % WalBlockSize = j
         /\ pos % WalSegmentSize = WalBlockSize * v + j
         /\ pos % WalSegmentSize < WalBlockSize <=> v = 0
<1> DEFINE B == WalBlockSize
           r == B * v + j
<1>1. B \in Nat \ {0} /\ pos = B * (k * u + v) + j
  BY LayoutAssumption DEF Byte
<1> HIDE DEF B
<1>2. k * u + v \in Nat
  OBVIOUS
<1>3. pos \in Nat /\ pos % B = j
  BY <1>1, <1>2, RemainderUnique DEF B
<1>4. r \in 0 .. (B * k - 1)
  <2>1. B * v + B <= B * k
    <3>1. B * (v + 1) <= B * k
      BY <1>1
    <3>2. B * (v + 1) = B * v + B
      BY <1>1
    <3> QED BY <3>1, <3>2
  <2>2. B * v \in Nat /\ B * k \in Nat /\ j \in 0 .. (B - 1)
    BY <1>1 DEF B
  <2> QED BY <2>1, <2>2, <1>1
<1>5. pos = (B * k) * u + r
  <2>1. B * (k * u + v) = (B * k) * u + B * v
    BY <1>1
  <2> QED BY <2>1, <1>1 DEF B
<1>6. B * k \in Nat \ {0}
  BY <1>1
<1>7. pos % (B * k) = r
  <2> DEFINE S == B * k
  <2> HIDE DEF S
  <2>1. S \in Nat \ {0} /\ r \in 0 .. (S - 1) /\ pos = S * u + r
    BY <1>4, <1>5, <1>6 DEF S
  <2> HIDE DEF r
  <2>2. pos % S = r
    BY <2>1, RemainderUnique
  <2> QED BY <2>2 DEF S
<1>8. r < B <=> v = 0
  <2>1. v # 0 => B * v >= B
    <3>1. v >= 1 => B * v >= B * 1
      BY <1>1
    <3> QED BY <3>1, <1>1
  <2>2. v = 0 => r = j
    BY <1>1
  <2>3. B * v \in Nat /\ j \in 0 .. (B - 1)
    BY <1>1 DEF B
  <2> QED BY <2>1, <2>2, <2>3, <1>1
<1> QED BY <1>3, <1>7, <1>8 DEF B, Pages

\* A record end at a page boundary is reported past the next page's header, whose
\* size normalize_insert_lsn recognises; no other record end looks like one.
THEOREM NormalizeUndoesInsert ==
  ASSUME NEW end \in Nat, IsRecordEnd(end)
  PROVE  NormalizeInsertLsn(InsertLsn(end)) = end
<1>1. PICK k \in Nat \ {0}, u \in Nat :
        /\ Pages(k)
        /\ \E v \in 0 .. (k - 1), j \in 0 .. (WalBlockSize - 1) : end = Byte(k, u, v, j)
  BY Coordinates
<1>2. PICK v \in 0 .. (k - 1), j \in 0 .. (WalBlockSize - 1) : end = Byte(k, u, v, j)
  BY <1>1
<1> DEFINE page == Byte(k, u, v, 0)
           header == IF v = 0 THEN LongPageHeader ELSE ShortPageHeader
<1>3. /\ header \in 1 .. (WalBlockSize - 1) /\ 0 \in 0 .. (WalBlockSize - 1)
      /\ WalBlockSize # 0 /\ WalSegmentSize # 0
  BY LayoutAssumption
<1>4. ASSUME NEW i \in 0 .. (WalBlockSize - 1)
      PROVE  /\ page + i \in Nat
             /\ (page + i) % WalBlockSize = i
             /\ (page + i) % WalSegmentSize = WalBlockSize * v + i
             /\ (page + i) % WalSegmentSize < WalBlockSize <=> v = 0
  <2>1. Byte(k, u, v, i) = page + i
    BY LayoutAssumption DEF Byte
  <2> QED BY <1>1, <2>1, Remainders
<1>5. page \in Nat
  BY LayoutAssumption DEF Byte
<1> HIDE DEF page
<1>6. /\ end = page + j
      /\ end % WalBlockSize = j
      /\ end % WalSegmentSize < WalBlockSize <=> v = 0
  <2>1. end = page + j
    BY <1>2, LayoutAssumption DEF page, Byte
  <2> QED BY <2>1, <1>4
<1>7. HeaderAt(page) = header
  <2>1. page + 0 = page
    BY <1>5
  <2>2. page % WalSegmentSize = WalBlockSize * v + 0
    BY <1>3, <1>4, <2>1
  <2>3. WalBlockSize * v + 0 = 0 <=> v = 0
    BY <1>3, LayoutAssumption
  <2> QED BY <2>2, <2>3 DEF HeaderAt
<1>8. CASE j = 0
  <2>1. end = page /\ InsertLsn(end) = page + header
    BY <1>5, <1>6, <1>7, <1>8 DEF InsertLsn
  <2>2. /\ (page + header) % WalBlockSize = header
        /\ (page + header) % WalSegmentSize < WalBlockSize <=> v = 0
    BY <1>3, <1>4
  <2>3. page + header - header = page
    BY <1>3, <1>5, LayoutAssumption
  <2> QED BY <2>1, <2>2, <2>3, <1>3 DEF NormalizeInsertLsn
<1>9. CASE j # 0
  <2>1. InsertLsn(end) = end
    BY <1>6, <1>9 DEF InsertLsn
  <2>2. end - (end % WalBlockSize) = page
    BY <1>5, <1>6, LayoutAssumption
  <2>3. j > header
    BY <2>2, <1>6, <1>7, <1>9 DEF IsRecordEnd
  <2> QED BY <2>1, <2>3, <1>3, <1>6, LayoutAssumption DEF NormalizeInsertLsn
<1> QED BY <1>8, <1>9

\* A record that fits the room of a page ends where a record can end, after its
\* predecessor: in its page, at the page's end, or past the header of the next.
THEOREM RecordEndIsRecordEnd ==
  ASSUME NEW end \in Nat, IsRecordEnd(end), NEW len \in 1 .. (WalBlockSize - LongPageHeader)
  PROVE  /\ RecordEnd(end, len) \in Nat /\ RecordEnd(end, len) > end
         /\ IsRecordEnd(RecordEnd(end, len))
<1> DEFINE B == WalBlockSize
           q == end \div B
           j == end % B
           page == B * q
           next == B * (q + 1)
           h == HeaderAt(page)
           hn == HeaderAt(next)
           start == InsertLsn(end)
           room == B - (start % B)
           pos == RecordEnd(end, len)
<1>1. B \in Nat \ {0} /\ q \in Nat /\ j \in 0 .. (B - 1) /\ end = B * q + j
  BY LayoutAssumption
<1>2. /\ h \in 1 .. LongPageHeader /\ hn \in 1 .. LongPageHeader
      /\ LongPageHeader \in 1 .. (B - 1) /\ len \in 1 .. (B - LongPageHeader)
  BY LayoutAssumption DEF HeaderAt
<1> HIDE DEF B, q, j, h, hn, start, room, pos
<1>3. page \in Nat /\ next = page + B /\ next \in Nat
  <2>1. B * (q + 1) = B * q + B
    BY <1>1
  <2>2. B * q \in Nat
    BY <1>1
  <2> QED
    BY <1>1, <2>1, <2>2
<1>4. ASSUME NEW i \in 0 .. (B - 1)
      PROVE  (page + i) % B = i /\ (next + i) % B = i
  <2>1. (B * q + i) % B = i
    BY <1>1, RemainderUnique
  <2>2. q + 1 \in Nat
    BY <1>1
  <2> HIDE DEF next
  <2>3. (B * (q + 1) + i) % B = i
    BY <1>1, <2>2, RemainderUnique
  <2> QED
    BY <2>1, <2>3 DEF next
<1> HIDE DEF page, next
<1>5. PICK s \in h .. (B - 1) : start = page + s /\ start >= end
  <2>1. CASE j = 0
    <3>1. end = page /\ end % B = 0
      BY <1>1, <1>3, <2>1 DEF page, j
    <3>2. start = page + h
      BY <3>1 DEF start, InsertLsn, B, h
    <3>3. h \in h .. (B - 1) /\ page + h >= page
      BY <1>1, <1>2, <1>3
    <3> QED
      BY <3>1, <3>2, <3>3
  <2>2. CASE j # 0
    <3>1. end = page + j /\ end - j = page
      BY <1>1, <1>3 DEF page
    <3>2. j > h
      BY <2>2, <3>1 DEF IsRecordEnd, j, B, h
    <3>3. start = end
      BY <2>2 DEF start, InsertLsn, j, B
    <3> QED
      BY <1>1, <1>2, <1>3, <3>1, <3>2, <3>3
  <2> QED
    BY <2>1, <2>2
<1>6. /\ start % B = s /\ room = B - s /\ room \in 1 .. B /\ start + room = next
      /\ start \in Nat
  <2>1. start % B = s
    BY <1>2, <1>4, <1>5
  <2> QED
    BY <1>1, <1>2, <1>3, <1>5, <2>1 DEF room
<1>7. pos = IF len <= room THEN start + len ELSE next + hn + (len - room)
  <2>1. pos = IF len <= room THEN start + len
              ELSE (start + room) + HeaderAt(start + room) + (len - room)
    BY DEF pos, RecordEnd, room, start, B
  <2> QED
    BY <1>6, <2>1 DEF hn
<1>8. pos \in Nat /\ pos > end
  BY <1>1, <1>2, <1>3, <1>5, <1>6, <1>7
<1>9. CASE len < room
  <2>1. s + len \in 0 .. (B - 1) /\ s + len > h /\ pos = page + (s + len)
    BY <1>1, <1>2, <1>3, <1>5, <1>6, <1>7, <1>9
  <2>2. pos % B = s + len /\ pos - (pos % B) = page
    BY <1>3, <1>4, <2>1
  <2> QED
    BY <1>8, <2>1, <2>2 DEF IsRecordEnd, B, h, pos
<1>10. CASE len = room
  <2>1. pos = next + 0 /\ 0 \in 0 .. (B - 1)
    BY <1>1, <1>3, <1>6, <1>7, <1>10
  <2>2. pos % B = 0
    BY <1>4, <2>1
  <2> QED
    BY <1>8, <2>2 DEF IsRecordEnd, B, pos
<1>11. CASE len > room
  <2>1. /\ hn + (len - room) \in 0 .. (B - 1) /\ hn + (len - room) > hn
        /\ pos = next + (hn + (len - room))
    BY <1>1, <1>2, <1>3, <1>6, <1>7, <1>11
  <2>2. pos % B = hn + (len - room) /\ pos - (pos % B) = next
    BY <1>3, <1>4, <2>1
  <2> QED
    BY <1>8, <2>1, <2>2 DEF IsRecordEnd, B, hn, pos
<1> QED
  BY <1>2, <1>6, <1>9, <1>10, <1>11

-----------------------------------------------------------------------------
USE LayoutAssumption, TextAssumption, StartAssumption, LensAssumption,
    OptionsAssumption, RowsAssumption

(***************************************************************************)
(* The strengthening.                                                      *)
(***************************************************************************)
\* WAL ends where records can end, in order, and no server is ahead of another.
WalInv ==
  /\ wal \in Seq(Record)
  /\ {replayed, sflushed, written, flushed, crashes} \subseteq Nat
  /\ 1 <= replayed /\ replayed <= sflushed /\ sflushed <= written
  /\ written <= flushed /\ flushed <= Len(wal)
  /\ \A i \in 1 .. Len(wal) : IsRecordEnd(wal[i].end)
  /\ \A i, j \in 1 .. Len(wal) : i < j => wal[i].end < wal[j].end

WalRows     == RowsIn(Len(wal))
FlushedRows == RowsIn(flushed)
SecuredRows == RowsIn(SecuredCount)

\* row and position: the row's record ends no later than the position
Targets ==
  {p \in Nat \X Nat : \E i \in 1 .. Len(wal) : \E j \in i .. Len(wal) :
     /\ wal[i].row = p[1]
     /\ IF opt.raw THEN wal[j].end <= p[2] ELSE wal[j].end = p[2]}

LsnTexts == {NoLsn} \cup {Written(hi, lo) : hi \in Nat, lo \in Nat}
Labels   == {"idle", "commit", "lsn_fetch", "wait_for_lsn", "verify"}
Attempts == [row : Nat \cup {NoRow}, lsn : LsnTexts, epoch : Nat]

\* What a task has of its attempt at each statement, unless the primary crashed.
TaskOk(t) ==
  /\ cur[t].epoch <= crashes
  /\ pc[t] # "idle" => cur[t].row \in Nat
  /\ pc[t] \in {"commit", "lsn_fetch"} => cur[t].epoch = crashes /\ cur[t].row \in WalRows
  /\ pc[t] = "wait_for_lsn" => opt.mode = "waitfor"
  /\ pc[t] = "wait_for_lsn" /\ cur[t].epoch = crashes
       => <<cur[t].row, ParseLsn(cur[t].lsn)>> \in Targets
  /\ Vouched /\ cur[t].epoch = crashes
       /\ (pc[t] = "verify" \/ (pc[t] = "lsn_fetch" /\ opt.mode = "sync"))
       => cur[t].row \in SecuredRows /\ cur[t].row \in FlushedRows

TaskInv == \A t \in Tasks : TaskOk(t)

ShapeInv ==
  /\ opt \in CommandLines
  /\ pc \in [Tasks -> Labels] /\ cur \in [Tasks -> Attempts]
  /\ nextRow \in Nat

IInv == WalInv /\ ShapeInv /\ TaskInv /\ ConfirmedIsSecured /\ NothingMissing

-----------------------------------------------------------------------------
(***************************************************************************)
(* LSN texts.                                                              *)
(***************************************************************************)

\* A printed position is a text, and reads back as the position.
LEMMA TextReadsBack ==
  ASSUME NEW pos \in Nat
  PROVE  /\ PgLsnOut(pos) \in LsnTexts /\ FormatLsn(pos) \in LsnTexts
         /\ ParseLsn(PgLsnOut(pos)) = pos /\ ParseLsn(FormatLsn(pos)) = pos
<1> DEFINE H == HalfWord
           hi == pos \div H
           lo == pos % H
<1>1. H \in Nat \ {0}
  BY DEF HalfWord
<1> HIDE DEF H
<1>2. hi \in Nat /\ lo \in Nat /\ pos = H * hi + lo
  BY <1>1
<1> HIDE DEF hi, lo
<1>3. H * hi = hi * H
  BY <1>1, <1>2
<1>4. PgLsnOut(pos) = Written(hi, lo) /\ FormatLsn(pos) = Written(hi, lo)
  BY DEF PgLsnOut, FormatLsn, hi, lo, H
<1>5. Written(hi, lo) \in LsnTexts
  BY <1>2 DEF LsnTexts
<1>6. Written(hi, lo).hi = hi /\ Written(hi, lo).lo = lo
  BY DEF Written
<1> QED
  BY <1>2, <1>3, <1>4, <1>5, <1>6 DEF ParseLsn, H

\* The position a task fetches: past the WAL with the option, else its end.
LEMMA FetchedPosition ==
  ASSUME WalInv
  PROVE  /\ FetchedLsn \in LsnTexts
         /\ ParseLsn(FetchedLsn) \in Nat
         /\ IF opt.raw THEN wal[Len(wal)].end <= ParseLsn(FetchedLsn)
                       ELSE wal[Len(wal)].end = ParseLsn(FetchedLsn)
<1> DEFINE end == wal[Len(wal)].end
           raw == InsertLsn(end)
<1>1. end \in Nat /\ IsRecordEnd(end)
  <2>1. Len(wal) \in 1 .. Len(wal)
    BY DEF WalInv
  <2>2. wal[Len(wal)] \in Record
    BY <2>1 DEF WalInv
  <2>3. IsRecordEnd(wal[Len(wal)].end)
    BY <2>1 DEF WalInv
  <2> QED
    BY <2>2, <2>3 DEF Record
<1>2. CurrentInsertLsn = raw
  BY DEF CurrentInsertLsn, EndOf
<1> HIDE DEF end
<1>3. raw \in Nat /\ raw >= end
  BY <1>1 DEF InsertLsn, HeaderAt
<1>4. NormalizeInsertLsn(raw) = end
  BY <1>1, NormalizeUndoesInsert
<1> HIDE DEF raw
<1>5. FetchedLsn = IF opt.raw THEN PgLsnOut(raw)
                   ELSE FormatLsn(NormalizeInsertLsn(ParseLsn(PgLsnOut(raw))))
  BY <1>2 DEF FetchedLsn
<1>6. FetchedLsn = IF opt.raw THEN PgLsnOut(raw) ELSE FormatLsn(end)
  BY <1>3, <1>4, <1>5, TextReadsBack
<1> QED
  BY <1>1, <1>3, <1>6, TextReadsBack DEF end

-----------------------------------------------------------------------------
(***************************************************************************)
(* What the servers may do to the WAL.                                     *)
(***************************************************************************)

\* Records below both ends of the WAL are the same.
SameUpTo(k) == \A i \in 1 .. k : wal'[i] = wal[i]

\* Nothing secured is lost: the counters advance over records that stay.
Advance ==
  /\ flushed <= flushed' /\ written <= written' /\ sflushed <= sflushed'
  /\ replayed <= replayed' /\ SameUpTo(flushed)

\* The ends of an appended record: it is after all others.
LEMMA AppendKeepsWal ==
  ASSUME WalInv, NEW row \in Nat \cup {NoRow}, AppendWal(row)
  PROVE  /\ WalInv' /\ Advance /\ crashes' = crashes
         /\ Len(wal') = Len(wal) + 1 /\ SameUpTo(Len(wal)) /\ wal'[Len(wal')].row = row
<1> DEFINE n == Len(wal)
           last == wal[n].end
<1>1. PICK len \in RecordLens :
        wal' = Append(wal, [end |-> RecordEnd(last, len), row |-> row])
  BY DEF AppendWal, EndOf
<1> DEFINE new == [end |-> RecordEnd(last, len), row |-> row]
<1>2. n \in Nat /\ n >= 1 /\ last \in Nat /\ IsRecordEnd(last)
  <2>1. n \in Nat /\ n >= 1 /\ n \in 1 .. n
    BY DEF WalInv
  <2>2. wal[n] \in Record /\ IsRecordEnd(wal[n].end)
    BY <2>1 DEF WalInv
  <2> QED
    BY <2>1, <2>2 DEF Record
<1>3. /\ RecordEnd(last, len) \in Nat /\ RecordEnd(last, len) > last
      /\ IsRecordEnd(RecordEnd(last, len))
  BY <1>2, RecordEndIsRecordEnd
<1>4. new \in Record /\ new.end > last /\ IsRecordEnd(new.end)
  BY <1>3 DEF Record
<1> HIDE DEF new, last
<1>5. /\ wal' \in Seq(Record) /\ Len(wal') = n + 1 /\ wal'[n + 1] = new
      /\ \A i \in 1 .. n : wal'[i] = wal[i]
  BY <1>1, <1>4 DEF WalInv, new
<1>6. UNCHANGED <<flushed, written, sflushed, replayed, promoted, crashes>>
  BY DEF AppendWal
<1>7. \A i, j \in 1 .. n : i < j => wal[i].end < wal[j].end
  BY DEF WalInv
<1>7a. ASSUME NEW i \in 1 .. n PROVE wal[i].end \in Nat /\ wal[i].end <= last
  <2>1. wal[i].end \in Nat
    <3>1. wal \in Seq(Record) /\ i \in 1 .. Len(wal)
      BY DEF WalInv
    <3>2. wal[i] \in Record
      BY <3>1
    <3> QED
      BY <3>2 DEF Record
  <2>2. CASE i < n
    <3>1. wal[i].end < wal[n].end
      BY <1>2, <1>7, <2>2
    <3> QED
      BY <1>2, <2>1, <3>1 DEF last
  <2>3. CASE i = n
    BY <1>2, <2>3 DEF last
  <2> QED
    BY <1>2, <2>2, <2>3
<1> HIDE DEF n
<1>8. \A i \in 1 .. Len(wal') : IsRecordEnd(wal'[i].end)
  <2> SUFFICES ASSUME NEW i \in 1 .. n + 1 PROVE IsRecordEnd(wal'[i].end)
    BY <1>5
  <2>1. CASE i \in 1 .. n
    BY <1>5, <2>1 DEF WalInv, n
  <2>2. CASE i = n + 1
    BY <1>4, <1>5, <2>2
  <2> QED
    BY <1>2, <2>1, <2>2
<1>9. \A i, j \in 1 .. Len(wal') : i < j => wal'[i].end < wal'[j].end
  <2> SUFFICES ASSUME NEW i \in 1 .. n + 1, NEW j \in 1 .. n + 1, i < j
               PROVE  wal'[i].end < wal'[j].end
    BY <1>5
  <2>1. i \in 1 .. n
    BY <1>2
  <2>2. CASE j \in 1 .. n
    <3>1. wal'[i] = wal[i] /\ wal'[j] = wal[j]
      BY <1>5, <2>1, <2>2
    <3> QED
      BY <1>7, <2>1, <2>2, <3>1
  <2>3. CASE j = n + 1
    <3>1. wal'[i].end \in Nat /\ wal'[i].end <= last
      BY <1>5, <1>7a, <2>1
    <3>2. wal'[j].end \in Nat /\ wal'[j].end > last
      BY <1>4, <1>5, <2>3 DEF Record
    <3> QED
      BY <1>2, <3>1, <3>2
  <2> QED
    BY <1>2, <2>2, <2>3
<1>10. WalInv'
  BY <1>2, <1>5, <1>6, <1>8, <1>9 DEF WalInv, n
<1>11. new.row = row
  BY DEF new
<1>12. SameUpTo(flushed) /\ SameUpTo(Len(wal))
  BY <1>2, <1>5 DEF SameUpTo, WalInv, n
<1> QED
  BY <1>5, <1>6, <1>10, <1>11, <1>12 DEF Advance, n, WalInv

\* The servers' own steps move the counters, in order, over the same WAL.
LEMMA ServersKeepWal ==
  ASSUME WalInv, ReplicationStep \/ Promote
  PROVE  WalInv' /\ Advance /\ UNCHANGED <<wal, crashes>>
<1>1. UNCHANGED <<wal, crashes>>
  BY DEF ReplicationStep, Promote, FlushWal, SendWal, StandbyFlush, StandbyReplay
<1>2. SameUpTo(flushed)
  BY <1>1 DEF SameUpTo
<1>3. /\ {replayed', sflushed', written', flushed'} \subseteq Nat
      /\ 1 <= replayed' /\ replayed' <= sflushed' /\ sflushed' <= written'
      /\ written' <= flushed' /\ flushed' <= Len(wal)
      /\ flushed <= flushed' /\ written <= written' /\ sflushed <= sflushed'
      /\ replayed <= replayed'
  BY DEF WalInv, ReplicationStep, Promote, FlushWal, SendWal, StandbyFlush, StandbyReplay
<1> QED
  BY <1>1, <1>2, <1>3 DEF WalInv, Advance

\* A crash of the primary cuts the WAL behind what was flushed.
LEMMA CrashKeepsWal ==
  ASSUME WalInv, CrashPrimary
  PROVE  WalInv' /\ Advance /\ crashes' = crashes + 1
<1>1. PICK kept \in flushed .. Len(wal) : wal' = SubSeq(wal, 1, kept) /\ flushed' = kept
  BY DEF CrashPrimary
<1>2. kept \in Nat /\ kept >= 1 /\ flushed <= kept /\ kept <= Len(wal)
  BY <1>1 DEF WalInv
<1>3. /\ wal' \in Seq(Record) /\ Len(wal') = kept
      /\ \A i \in 1 .. kept : wal'[i] = wal[i]
  BY <1>1, <1>2 DEF WalInv
<1>4. UNCHANGED <<written, sflushed, replayed, promoted>> /\ crashes' = crashes + 1
  BY DEF CrashPrimary
<1>4a. 1 .. kept \subseteq 1 .. Len(wal)
  BY <1>2 DEF WalInv
<1>5. /\ \A i \in 1 .. Len(wal') : IsRecordEnd(wal'[i].end)
      /\ \A i, j \in 1 .. Len(wal') : i < j => wal'[i].end < wal'[j].end
  <2>1. /\ \A i \in 1 .. Len(wal) : IsRecordEnd(wal[i].end)
        /\ \A i, j \in 1 .. Len(wal) : i < j => wal[i].end < wal[j].end
    BY DEF WalInv
  <2>2. ASSUME NEW i \in 1 .. kept PROVE IsRecordEnd(wal'[i].end)
    BY <1>3, <1>4a, <2>1
  <2>3. ASSUME NEW i \in 1 .. kept, NEW j \in 1 .. kept, i < j
        PROVE  wal'[i].end < wal'[j].end
    <3>1. wal'[i] = wal[i] /\ wal'[j] = wal[j]
      BY <1>3
    <3> QED
      BY <1>4a, <2>1, <2>3, <3>1
  <2> QED
    BY <1>3, <2>2, <2>3
<1>6. /\ {replayed', sflushed', written', flushed', crashes'} \subseteq Nat
      /\ 1 <= replayed' /\ replayed' <= sflushed' /\ sflushed' <= written'
      /\ written' <= flushed' /\ flushed' <= Len(wal')
      /\ flushed <= flushed'
  BY <1>1, <1>2, <1>3, <1>4 DEF WalInv
<1>7. SameUpTo(flushed)
  BY <1>2, <1>3 DEF SameUpTo, WalInv
<1> QED
  BY <1>3, <1>4, <1>5, <1>6, <1>7 DEF WalInv, Advance

-----------------------------------------------------------------------------
(***************************************************************************)
(* What that means for rows and targets.                                   *)
(***************************************************************************)

\* Where a completed row is asked to be depends on the setup alone.
LEMMA SecuredPointType ==
  ASSUME opt \in CommandLines
  PROVE  /\ SecuredPoint \in {"primary_flush", "standby_write", "standby_flush", "standby_replay"}
         /\ opt.mode = "waitfor" => SecuredPoint = opt.waitMode /\ Vouched
         /\ opt.mode = "sync" /\ Vouched
              => SecuredPoint = CommitPoint(SyncCommit) /\ SyncCommit # "off"
         /\ SecuredPoint = "standby_replay" => Vouched
         /\ opt' = opt => SecuredPoint' = SecuredPoint /\ Vouched' = Vouched
<1>1. /\ opt.waitMode \in {"standby_write", "standby_flush", "standby_replay"}
      /\ opt.mode \in {"sync", "waitfor"}
  BY DEF CommandLines
<1>2. ASSUME NEW setting
      PROVE  CommitPoint(setting) \in
               {"primary_flush", "standby_write", "standby_flush", "standby_replay"}
  BY DEF CommitPoint
<1>3. opt.mode = "sync" => SyncCommit = Asked
  BY DEF SyncCommit, DefaultSyncCommit, Asked
<1>4. ASSUME opt' = opt PROVE SecuredPoint' = SecuredPoint /\ Vouched' = Vouched
  BY <1>4 DEF SecuredPoint, Vouched, Asked, CommitPoint
<1> QED
  BY <1>1, <1>2, <1>3, <1>4 DEF SecuredPoint, Vouched

\* A secured count is one of the counters, and no counter is ahead of flushed.
LEMMA SecuredCountType ==
  ASSUME WalInv, opt \in CommandLines
  PROVE  /\ SecuredCount \in Nat /\ SecuredCount <= flushed
         /\ opt.mode = "waitfor" => SecuredCount = StandbyCount(opt.waitMode)
         /\ SecuredCount \in {flushed, written, sflushed, replayed}
<1>1. SecuredCount \in {flushed, written, sflushed, replayed}
  BY SecuredPointType DEF SecuredCount, RecordsAt, StandbyCount
<1>2. \A k \in {flushed, written, sflushed, replayed} : k \in Nat /\ k <= flushed
  BY DEF WalInv
<1>3. opt.mode = "waitfor" => SecuredCount = StandbyCount(opt.waitMode)
  <2>1. opt.waitMode # "primary_flush"
    BY DEF CommandLines
  <2> QED
    BY <2>1, SecuredPointType DEF SecuredCount, RecordsAt
<1> QED
  BY <1>1, <1>2, <1>3

\* The secured count never goes back.
LEMMA SecuredCountAdvances ==
  ASSUME WalInv, WalInv', Advance, opt \in CommandLines, opt' = opt
  PROVE  SecuredCount' \in Nat /\ SecuredCount <= SecuredCount'
<1>1. PICK point \in {"primary_flush", "standby_write", "standby_flush", "standby_replay"} :
        SecuredPoint = point /\ SecuredPoint' = point
  BY SecuredPointType
<1>2. SecuredCount = RecordsAt(point) /\ SecuredCount' = RecordsAt(point)'
  BY <1>1 DEF SecuredCount, RecordsAt, StandbyCount
<1>3. CASE point = "primary_flush"
  BY <1>2, <1>3 DEF RecordsAt, Advance, WalInv
<1>4. CASE point = "standby_write"
  BY <1>2, <1>4 DEF RecordsAt, StandbyCount, Advance, WalInv
<1>5. CASE point = "standby_flush"
  BY <1>2, <1>5 DEF RecordsAt, StandbyCount, Advance, WalInv
<1>6. CASE point = "standby_replay"
  BY <1>2, <1>6 DEF RecordsAt, StandbyCount, Advance, WalInv
<1> QED
  BY <1>1, <1>3, <1>4, <1>5, <1>6

\* Flushed and secured rows stay flushed and secured.
LEMMA AdvanceKeepsRows ==
  ASSUME WalInv, WalInv', Advance, opt \in CommandLines, opt' = opt
  PROVE  FlushedRows \subseteq FlushedRows' /\ SecuredRows \subseteq SecuredRows'
<1>1. ASSUME NEW k \in Nat, NEW m \in Nat, k <= flushed, k <= m,
             NEW r \in {wal[i].row : i \in 1 .. k} \ {NoRow}
      PROVE  r \in {wal'[i].row : i \in 1 .. m} \ {NoRow}
  <2>1. PICK i \in 1 .. k : r = wal[i].row
    BY <1>1
  <2>2. i \in 1 .. flushed /\ i \in 1 .. m
    <3>1. flushed \in Nat
      BY DEF WalInv
    <3> QED
      BY <1>1, <2>1, <3>1
  <2>3. wal'[i] = wal[i]
    BY <2>2 DEF Advance, SameUpTo
  <2> QED
    BY <1>1, <2>1, <2>2, <2>3
<1>2. /\ flushed \in Nat /\ flushed' \in Nat /\ flushed <= flushed /\ flushed <= flushed'
  BY DEF WalInv, Advance
<1>3. /\ SecuredCount \in Nat /\ SecuredCount <= flushed
      /\ SecuredCount' \in Nat /\ SecuredCount <= SecuredCount'
  BY SecuredCountType, SecuredCountAdvances
<1>4. FlushedRows \subseteq FlushedRows'
  BY <1>1, <1>2 DEF FlushedRows, RowsIn
<1>5. SecuredRows \subseteq SecuredRows'
  BY <1>1, <1>3 DEF SecuredRows, RowsIn
<1> QED
  BY <1>4, <1>5

\* While the primary is up, rows stay in its WAL and targets stay covered.
LEMMA GrowthKeepsTargets ==
  ASSUME WalInv, WalInv', Len(wal) <= Len(wal'), SameUpTo(Len(wal)), opt' = opt
  PROVE  WalRows \subseteq WalRows' /\ Targets \subseteq Targets'
<1>1. Len(wal) \in Nat /\ Len(wal') \in Nat
  BY DEF WalInv
<1>2. \A i \in 1 .. Len(wal) : i \in 1 .. Len(wal') /\ wal'[i] = wal[i]
  BY <1>1 DEF SameUpTo
<1>3. WalRows \subseteq WalRows'
  BY <1>2 DEF WalRows, RowsIn
<1>4. ASSUME NEW p \in Targets PROVE p \in Targets'
  <2>1. PICK i \in 1 .. Len(wal) : \E j \in i .. Len(wal) :
          /\ wal[i].row = p[1]
          /\ IF opt.raw THEN wal[j].end <= p[2] ELSE wal[j].end = p[2]
    BY <1>4 DEF Targets
  <2>1a. PICK j \in i .. Len(wal) :
          /\ wal[i].row = p[1]
          /\ IF opt.raw THEN wal[j].end <= p[2] ELSE wal[j].end = p[2]
    BY <2>1
  <2>2. /\ i \in 1 .. Len(wal') /\ j \in i .. Len(wal')
        /\ wal'[i] = wal[i] /\ wal'[j] = wal[j]
    <3>1. i \in 1 .. Len(wal) /\ j \in 1 .. Len(wal) /\ i <= j
      BY <1>1
    <3>2. wal'[i] = wal[i] /\ wal'[j] = wal[j]
      BY <1>2, <3>1
    <3>3. i \in 1 .. Len(wal') /\ j \in i .. Len(wal')
      BY <1>1, <3>1
    <3> QED
      BY <3>2, <3>3
  <2>3. p \in Nat \X Nat
    BY <1>4 DEF Targets
  <2>4. \E n \in 1 .. Len(wal') : \E m \in n .. Len(wal') :
          /\ wal'[n].row = p[1]
          /\ IF opt'.raw THEN wal'[m].end <= p[2] ELSE wal'[m].end = p[2]
    <3>1. /\ wal'[i].row = p[1]
          /\ IF opt'.raw THEN wal'[j].end <= p[2] ELSE wal'[j].end = p[2]
      BY <2>1a, <2>2
    <3>2. i \in 1 .. Len(wal') /\ j \in i .. Len(wal')
      BY <2>2
    <3> QED
      BY ONLY <3>1, <3>2
  <2> QED
    BY <2>3, <2>4, Zenon DEF Targets
<1> QED
  BY <1>3, <1>4

\* A target the standby has reached is past its row's record.
LEMMA ReachedIsSecured ==
  ASSUME WalInv, opt \in CommandLines, opt.mode = "waitfor",
         NEW row \in Nat, NEW pos, <<row, pos>> \in Targets, Reached(pos, opt.waitMode)
  PROVE  row \in SecuredRows /\ row \in FlushedRows
<1>0. PICK i \in 1 .. Len(wal) : \E j \in i .. Len(wal) :
        /\ wal[i].row = row
        /\ IF opt.raw THEN wal[j].end <= pos ELSE wal[j].end = pos
  BY DEF Targets
<1>1. PICK j \in i .. Len(wal) :
        /\ wal[i].row = row
        /\ IF opt.raw THEN wal[j].end <= pos ELSE wal[j].end = pos
  BY <1>0
<1>2. pos \in Nat
  BY DEF Targets
<1> DEFINE k == SecuredCount
<1>3. /\ k \in Nat /\ k <= flushed /\ k \in {flushed, written, sflushed, replayed}
      /\ k = StandbyCount(opt.waitMode)
  BY SecuredCountType
<1>4. k \in 1 .. Len(wal) /\ j \in 1 .. Len(wal) /\ i <= j
  BY <1>1, <1>3 DEF WalInv
<1>5. wal[k].end >= pos
  BY <1>3 DEF Reached, EndOf
<1> HIDE DEF k
<1>6. wal[k].end \in Nat /\ wal[j].end \in Nat
  <2>1. wal[k] \in Record /\ wal[j] \in Record
    BY <1>4 DEF WalInv
  <2> QED
    BY <2>1 DEF Record
<1>7. ~(k < j)
  <2> SUFFICES ASSUME k < j PROVE FALSE
    OBVIOUS
  <2>1. wal[k].end < wal[j].end
    BY <1>4 DEF WalInv
  <2> QED
    BY <1>1, <1>2, <1>5, <1>6, <2>1
<1>8. i \in 1 .. k /\ i \in 1 .. flushed
  BY <1>3, <1>4, <1>7 DEF WalInv
<1>9. row # NoRow
  BY RowsAssumption
<1> QED
  BY <1>1, <1>8, <1>9 DEF SecuredRows, FlushedRows, RowsIn, k

-----------------------------------------------------------------------------
(***************************************************************************)
(* A step keeps the invariant when the primary stays up, all tasks but one *)
(* stay where they are, and that one brings no outcome that breaks it.     *)
(***************************************************************************)

\* The primary stays up: its WAL only grows.
Stays ==
  /\ WalInv' /\ Advance /\ Len(wal) <= Len(wal') /\ SameUpTo(Len(wal))
  /\ crashes' = crashes /\ opt' = opt

\* The outcomes a step adds are ones the invariant allows.
GoodOutcomes ==
  /\ Vouched => \A c \in confirmed' \ confirmed :
       c.clean => c.row \in SecuredRows /\ c.row \in FlushedRows
  /\ SecuredPoint = "standby_replay" => \A m \in missing' \ missing : ~m.clean

LEMMA ServersRest ==
  ASSUME WalInv, UNCHANGED <<serverVars, opt>>
  PROVE  Stays
<1>1. UNCHANGED <<wal, flushed, written, sflushed, replayed, crashes, opt>>
  BY DEF serverVars
<1>2. WalInv'
  BY <1>1 DEF WalInv
<1>3. Advance /\ SameUpTo(Len(wal)) /\ Len(wal) <= Len(wal')
  BY <1>1 DEF Advance, SameUpTo, WalInv
<1> QED
  BY <1>1, <1>2, <1>3 DEF Stays

\* A task that does not move keeps what it has.
LEMMA RestingTask ==
  ASSUME WalInv, ShapeInv, Stays, NEW t \in Tasks, TaskOk(t), pc'[t] = pc[t], cur'[t] = cur[t]
  PROVE  TaskOk(t)'
<1>1. WalRows \subseteq WalRows' /\ Targets \subseteq Targets'
  BY GrowthKeepsTargets DEF Stays
<1>2. FlushedRows \subseteq FlushedRows' /\ SecuredRows \subseteq SecuredRows'
  BY AdvanceKeepsRows DEF Stays, ShapeInv
<1>3. Vouched' = Vouched
  BY SecuredPointType DEF Stays, ShapeInv
<1> QED
  BY <1>1, <1>2, <1>3 DEF TaskOk, Stays

\* A clean outcome stays secured while nothing secured is lost.
LEMMA OutcomesStay ==
  ASSUME WalInv, WalInv', Advance, ShapeInv, opt' = opt,
         ConfirmedIsSecured, NothingMissing, GoodOutcomes
  PROVE  ConfirmedIsSecured' /\ NothingMissing'
<1>1. FlushedRows \subseteq FlushedRows' /\ SecuredRows \subseteq SecuredRows'
  BY AdvanceKeepsRows DEF ShapeInv
<1>0. Vouched' = Vouched /\ SecuredPoint' = SecuredPoint
  BY SecuredPointType DEF ShapeInv
<1>2. Vouched => \A c \in confirmed :
        c.clean => c.row \in SecuredRows /\ c.row \in FlushedRows
  BY DEF ConfirmedIsSecured, SecuredRows, FlushedRows
<1>3. Vouched' => \A c \in confirmed' :
        c.clean => c.row \in SecuredRows' /\ c.row \in FlushedRows'
  BY <1>0, <1>1, <1>2 DEF GoodOutcomes
<1>4. ConfirmedIsSecured'
  BY <1>3 DEF ConfirmedIsSecured, SecuredRows, FlushedRows
<1>5. NothingMissing'
  BY <1>0 DEF NothingMissing, GoodOutcomes
<1> QED
  BY <1>4, <1>5

LEMMA StepOfTask ==
  ASSUME IInv, Stays, ShapeInv', GoodOutcomes, NEW t \in Tasks, TaskOk(t)',
         \A u \in Tasks \ {t} : pc'[u] = pc[u] /\ cur'[u] = cur[u]
  PROVE  IInv'
<1>1. \A u \in Tasks : TaskOk(u)'
  <2> SUFFICES ASSUME NEW u \in Tasks PROVE TaskOk(u)'
    OBVIOUS
  <2>1. CASE u = t
    BY <2>1
  <2>2. CASE u # t
    BY <2>2, RestingTask DEF IInv, TaskInv
  <2> QED
    BY <2>1, <2>2
<1>2. ConfirmedIsSecured' /\ NothingMissing'
  BY OutcomesStay DEF IInv, Stays
<1> QED
  BY <1>1, <1>2 DEF IInv, TaskInv, Stays

\* Steps that move no task.
LEMMA StepOfServers ==
  ASSUME IInv, Stays, UNCHANGED clientVars
  PROVE  IInv'
<1>1. UNCHANGED <<opt, pc, cur, nextRow, confirmed, missing>>
  BY DEF clientVars
<1>2. TaskInv'
  BY <1>1, RestingTask DEF IInv, TaskInv
<1>3. ShapeInv' /\ GoodOutcomes
  BY <1>1 DEF IInv, ShapeInv, GoodOutcomes
<1>4. ConfirmedIsSecured' /\ NothingMissing'
  BY <1>3, OutcomesStay DEF IInv, Stays
<1> QED
  BY <1>2, <1>3, <1>4 DEF IInv, Stays

\* An attempt that ends, whatever became of it.
LEMMA EndOfAttempt ==
  ASSUME IInv, NEW t \in Tasks, Ends(t), UNCHANGED <<serverVars, opt, nextRow>>, GoodOutcomes
  PROVE  IInv'
<1>1. Stays
  BY ServersRest DEF IInv
<1>2. NoAttempt \in Attempts /\ NoAttempt.epoch = 0
  BY DEF NoAttempt, Attempts, LsnTexts
<1>3. pc'[t] = "idle" /\ cur'[t] = NoAttempt
  BY DEF Ends, IInv, ShapeInv
<1>4. ShapeInv'
  BY <1>2 DEF Ends, IInv, ShapeInv, Labels
<1>5. TaskOk(t)'
  <2>1. crashes' \in Nat
    BY <1>1 DEF Stays, WalInv
  <2> QED
    BY <1>2, <1>3, <2>1 DEF TaskOk
<1>6. \A u \in Tasks \ {t} : pc'[u] = pc[u] /\ cur'[u] = cur[u]
  BY DEF Ends, IInv, ShapeInv
<1> QED
  BY <1>1, <1>4, <1>5, <1>6, StepOfTask

\* An attempt that is completed: its row is where it was asked to be.
LEMMA Completion ==
  ASSUME IInv, NEW t \in Tasks, Completes(t), UNCHANGED <<serverVars, opt, nextRow, missing>>,
         Vouched /\ cur[t].epoch = crashes
           => cur[t].row \in SecuredRows /\ cur[t].row \in FlushedRows
  PROVE  IInv'
<1>1. confirmed' = confirmed \cup {Outcome(t)} /\ Ends(t)
  BY DEF Completes
<1>2. Outcome(t).row = cur[t].row /\ Outcome(t).clean = (cur[t].epoch = crashes)
  BY DEF Outcome
<1>3. \A c \in confirmed' \ confirmed : c = Outcome(t)
  BY <1>1
<1>4. Vouched => \A c \in confirmed' \ confirmed :
        c.clean => c.row \in SecuredRows /\ c.row \in FlushedRows
  BY <1>2, <1>3, Zenon
<1>5. GoodOutcomes
  BY <1>4 DEF GoodOutcomes
<1> QED
  BY <1>1, <1>5, EndOfAttempt

\* An attempt whose last wait is over, before its verify or its completion.
LEMMA Success ==
  ASSUME IInv, NEW t \in Tasks, Succeeds(t), pc[t] # "idle",
         UNCHANGED <<serverVars, opt, nextRow, missing>>,
         Vouched /\ cur[t].epoch = crashes
           => cur[t].row \in SecuredRows /\ cur[t].row \in FlushedRows
  PROVE  IInv'
<1>1. Stays
  BY ServersRest DEF IInv
<1>2. TaskOk(t) /\ crashes' = crashes /\ opt' = opt
  BY <1>1 DEF IInv, TaskInv, Stays
<1>3. CASE Goto(t, "verify") /\ UNCHANGED <<cur, confirmed>>
  <2>1. pc' = [pc EXCEPT ![t] = "verify"]
    BY <1>3 DEF Goto
  <2>2. pc'[t] = "verify" /\ cur'[t] = cur[t]
    BY <1>3, <2>1 DEF IInv, ShapeInv
  <2>3. ShapeInv'
    BY <1>3, <2>1 DEF IInv, ShapeInv, Labels
  <2>4. \A u \in Tasks \ {t} : pc'[u] = pc[u] /\ cur'[u] = cur[u]
    BY <1>3, <2>1 DEF IInv, ShapeInv
  <2>5. FlushedRows \subseteq FlushedRows' /\ SecuredRows \subseteq SecuredRows'
    BY <1>1, AdvanceKeepsRows DEF IInv, Stays, ShapeInv
  <2>6. Vouched' = Vouched
    BY <1>2, SecuredPointType DEF IInv, ShapeInv
  <2>7. TaskOk(t)'
    BY <1>2, <2>2, <2>5, <2>6 DEF TaskOk
  <2>8. GoodOutcomes
    BY <1>3 DEF GoodOutcomes
  <2> QED
    BY <1>1, <2>3, <2>4, <2>7, <2>8, StepOfTask
<1>4. CASE Completes(t)
  BY <1>4, Completion
<1> QED
  BY <1>3, <1>4 DEF Succeeds

-----------------------------------------------------------------------------
(***************************************************************************)
(* The actions.                                                            *)
(***************************************************************************)

LEMMA InsertRowKeeps ==
  ASSUME IInv, NEW t \in Tasks, InsertRow(t)
  PROVE  IInv'
<1>1. AppendWal(nextRow) /\ nextRow \in Nat
  BY DEF InsertRow, IInv, ShapeInv
<1>2. /\ WalInv' /\ Advance /\ crashes' = crashes
      /\ Len(wal') = Len(wal) + 1 /\ SameUpTo(Len(wal)) /\ wal'[Len(wal')].row = nextRow
  BY <1>1, AppendKeepsWal DEF IInv
<1>3. Stays
  <2>1. opt' = opt /\ Len(wal) \in Nat
    BY DEF InsertRow, IInv, WalInv
  <2>2. Len(wal) <= Len(wal')
    BY <1>2, <2>1
  <2> QED
    BY <1>2, <2>1, <2>2 DEF Stays
<1>4. nextRow \in WalRows'
  <2>1. Len(wal') \in 1 .. Len(wal')
    BY <1>2 DEF IInv, WalInv
  <2>2. nextRow # NoRow
    BY <1>1
  <2> QED
    BY <1>2, <2>1, <2>2 DEF WalRows, RowsIn
<1> DEFINE attempt == [row |-> nextRow, lsn |-> NoLsn, epoch |-> crashes]
<1>5. attempt \in Attempts
  BY <1>1 DEF Attempts, LsnTexts, IInv, WalInv
<1>6. cur' = [cur EXCEPT ![t] = attempt] /\ pc' = [pc EXCEPT ![t] = "commit"]
  BY DEF InsertRow, Goto
<1>7. pc'[t] = "commit" /\ cur'[t] = attempt
  BY <1>6 DEF IInv, ShapeInv
<1>8. ShapeInv'
  BY <1>1, <1>5, <1>6 DEF InsertRow, IInv, ShapeInv, Labels
<1>9. TaskOk(t)'
  <2>1. crashes \in Nat
    BY DEF IInv, WalInv
  <2> QED
    BY <1>1, <1>2, <1>4, <1>7, <2>1 DEF TaskOk
<1>10. \A u \in Tasks \ {t} : pc'[u] = pc[u] /\ cur'[u] = cur[u]
  BY <1>6 DEF IInv, ShapeInv
<1>11. GoodOutcomes
  BY DEF GoodOutcomes, InsertRow
<1> QED
  BY <1>3, <1>8, <1>9, <1>10, <1>11, StepOfTask

\* A synchronous commit that returned has its row where the setting says.
LEMMA CommitReturnsKeeps ==
  ASSUME IInv, NEW t \in Tasks, CommitReturns(t)
  PROVE  IInv'
<1>0. UNCHANGED <<serverVars, opt, nextRow, missing>> /\ pc[t] = "commit"
  BY DEF CommitReturns
<1>1. Stays
  BY <1>0, ServersRest DEF IInv
<1>2. TaskOk(t) /\ crashes' = crashes /\ opt' = opt /\ opt \in CommandLines
  BY <1>1 DEF IInv, TaskInv, Stays, ShapeInv
<1>3. ASSUME opt.mode = "sync", Vouched
      PROVE  cur[t].row \in SecuredRows /\ cur[t].row \in FlushedRows
  <2>1. cur[t].row \in SecuredRows
    BY <1>2, <1>3, SecuredPointType DEF CommitReturns, CommitMayReturn, SecuredRows, SecuredCount
  <2>2. SecuredRows \subseteq FlushedRows
    <3>1. SecuredCount \in Nat /\ flushed \in Nat /\ SecuredCount <= flushed
      BY <1>2, SecuredCountType DEF IInv, WalInv
    <3>2. 1 .. SecuredCount \subseteq 1 .. flushed
      BY <3>1
    <3> QED
      BY <3>2 DEF SecuredRows, FlushedRows, RowsIn
  <2> QED
    BY <2>1, <2>2
<1>4. CASE NeedsLsn /\ Goto(t, "lsn_fetch") /\ UNCHANGED <<cur, confirmed>>
  <2>1. pc' = [pc EXCEPT ![t] = "lsn_fetch"]
    BY <1>4 DEF Goto
  <2>2. pc'[t] = "lsn_fetch" /\ cur'[t] = cur[t]
    BY <1>4, <2>1 DEF IInv, ShapeInv
  <2>3. ShapeInv'
    BY <1>0, <1>4, <2>1 DEF IInv, ShapeInv, Labels
  <2>4. \A u \in Tasks \ {t} : pc'[u] = pc[u] /\ cur'[u] = cur[u]
    BY <1>4, <2>1 DEF IInv, ShapeInv
  <2>5. WalRows \subseteq WalRows'
    BY <1>1, GrowthKeepsTargets DEF IInv, Stays
  <2>6. FlushedRows \subseteq FlushedRows' /\ SecuredRows \subseteq SecuredRows'
    BY <1>1, <1>2, AdvanceKeepsRows DEF IInv, Stays
  <2>7. Vouched' = Vouched
    BY <1>2, SecuredPointType
  <2>8. TaskOk(t)'
    BY <1>0, <1>2, <1>3, <2>2, <2>5, <2>6, <2>7 DEF TaskOk
  <2>9. GoodOutcomes
    BY <1>0, <1>4 DEF GoodOutcomes
  <2> QED
    BY <1>1, <2>3, <2>4, <2>8, <2>9, StepOfTask
<1>5. CASE ~NeedsLsn /\ Succeeds(t)
  <2>1. opt.mode = "sync"
    BY <1>2, <1>5 DEF NeedsLsn, CommandLines
  <2> QED
    BY <1>0, <1>3, <1>5, <2>1, Success
<1> QED
  BY <1>4, <1>5 DEF CommitReturns

\* The fetched LSN covers the row, which is in the WAL.
LEMMA FetchLsnKeeps ==
  ASSUME IInv, NEW t \in Tasks, LsnReturns(t)
  PROVE  IInv'
<1>00. UNCHANGED <<serverVars, opt, nextRow, missing>> /\ pc[t] = "lsn_fetch"
  BY DEF LsnReturns
<1>01. CASE opt.mode = "sync" /\ Succeeds(t)
  BY <1>00, <1>01, Success DEF IInv, TaskInv, TaskOk
<1> SUFFICES ASSUME opt.mode = "waitfor", cur' = [cur EXCEPT ![t].lsn = FetchedLsn],
                    Goto(t, "wait_for_lsn"), UNCHANGED confirmed
             PROVE  IInv'
  BY <1>01 DEF LsnReturns
<1>0. UNCHANGED <<serverVars, opt, nextRow, confirmed, missing>> /\ pc[t] = "lsn_fetch"
  BY <1>00
<1>1. Stays
  BY <1>0, ServersRest DEF IInv
<1> DEFINE row == cur[t].row
           pos == ParseLsn(FetchedLsn)
<1>2. FetchedLsn \in LsnTexts /\ pos \in Nat
      /\ IF opt.raw THEN wal[Len(wal)].end <= pos ELSE wal[Len(wal)].end = pos
  BY FetchedPosition DEF IInv
<1>3. cur[t] \in Attempts /\ row \in Nat /\ row \in WalRows /\ cur[t].epoch = crashes
      /\ opt.mode = "waitfor"
  BY <1>0 DEF IInv, ShapeInv, TaskInv, TaskOk
<1> HIDE DEF pos
<1>4. <<row, pos>> \in Targets
  <2>1. PICK i \in 1 .. Len(wal) : wal[i].row = row
    BY <1>3 DEF WalRows, RowsIn
  <2>2. Len(wal) \in i .. Len(wal)
    BY DEF IInv, WalInv
  <2>3. \E j \in i .. Len(wal) :
          /\ wal[i].row = row
          /\ IF opt.raw THEN wal[j].end <= pos ELSE wal[j].end = pos
    BY <1>2, <2>1, <2>2
  <2> QED
    BY <1>2, <1>3, <2>3 DEF Targets
<1> DEFINE attempt == [row |-> row, lsn |-> FetchedLsn, epoch |-> crashes]
<1>5. attempt \in Attempts
  BY <1>2, <1>3 DEF Attempts, IInv, WalInv
<1>6. cur' = [cur EXCEPT ![t] = attempt] /\ pc' = [pc EXCEPT ![t] = "wait_for_lsn"]
  <2>1. [cur[t] EXCEPT !.lsn = FetchedLsn] = attempt
    BY <1>3 DEF Attempts
  <2>2. cur' = [cur EXCEPT ![t] = [cur[t] EXCEPT !.lsn = FetchedLsn]]
    BY DEF IInv, ShapeInv
  <2> QED
    BY <2>1, <2>2 DEF Goto
<1>7. pc'[t] = "wait_for_lsn" /\ cur'[t] = attempt
  BY <1>6 DEF IInv, ShapeInv
<1>8. ShapeInv'
  BY <1>0, <1>5, <1>6 DEF IInv, ShapeInv, Labels
<1>9. TaskOk(t)'
  <2>1. Targets \subseteq Targets'
    BY <1>1, GrowthKeepsTargets DEF IInv, Stays
  <2>2. crashes' = crashes /\ opt' = opt /\ crashes \in Nat
    BY <1>1 DEF Stays, IInv, WalInv
  <2>3. <<cur'[t].row, ParseLsn(cur'[t].lsn)>> \in Targets'
    BY <1>4, <1>7, <2>1 DEF pos
  <2> QED
    BY <1>3, <1>7, <2>2, <2>3 DEF TaskOk
<1>10. \A u \in Tasks \ {t} : pc'[u] = pc[u] /\ cur'[u] = cur[u]
  BY <1>6 DEF IInv, ShapeInv
<1>11. GoodOutcomes
  BY <1>0 DEF GoodOutcomes
<1> QED
  BY <1>1, <1>8, <1>9, <1>10, <1>11, StepOfTask

\* A successful wait has the row where the wait mode says.
LEMMA WaitSucceedsKeeps ==
  ASSUME IInv, NEW t \in Tasks, WaitSucceeds(t)
  PROVE  IInv'
<1>0. /\ UNCHANGED <<serverVars, opt, nextRow, missing>> /\ pc[t] = "wait_for_lsn"
      /\ Reached(ParseLsn(cur[t].lsn), opt.waitMode)
  BY DEF WaitSucceeds
<1>1. Stays
  BY <1>0, ServersRest DEF IInv
<1>2. TaskOk(t) /\ crashes' = crashes /\ opt' = opt
  BY <1>1 DEF IInv, TaskInv, Stays
<1>3. ASSUME cur[t].epoch = crashes
      PROVE  cur[t].row \in SecuredRows /\ cur[t].row \in FlushedRows
  <2>1. /\ cur[t].row \in Nat /\ opt.mode = "waitfor"
        /\ <<cur[t].row, ParseLsn(cur[t].lsn)>> \in Targets
    BY <1>0, <1>2, <1>3 DEF TaskOk
  <2> QED
    BY <1>0, <2>1, ReachedIsSecured DEF IInv, ShapeInv
<1> QED
  BY <1>0, <1>3, Success DEF WaitSucceeds

\* A verified row is on the standby, after a wait for standby_replay.
LEMMA VerifyReturnsKeeps ==
  ASSUME IInv, NEW t \in Tasks, VerifyReturns(t)
  PROVE  IInv'
<1>0. /\ UNCHANGED <<serverVars, opt, nextRow>> /\ pc[t] = "verify" /\ Ends(t)
      /\ confirmed' = confirmed \cup {Outcome(t)}
      /\ \A m \in missing' \ missing : m = Outcome(t) /\ cur[t].row \notin RowsIn(replayed)
  BY DEF VerifyReturns, Completes
<1>1. Outcome(t).row = cur[t].row /\ Outcome(t).clean = (cur[t].epoch = crashes)
  BY DEF Outcome
<1>2. Vouched /\ cur[t].epoch = crashes
        => cur[t].row \in SecuredRows /\ cur[t].row \in FlushedRows
  BY <1>0 DEF IInv, TaskInv, TaskOk
<1>3. \A c \in confirmed' \ confirmed : c = Outcome(t)
  BY <1>0
<1>4. Vouched => \A c \in confirmed' \ confirmed :
        c.clean => c.row \in SecuredRows /\ c.row \in FlushedRows
  BY <1>1, <1>2, <1>3, Zenon
<1>5. ASSUME SecuredPoint = "standby_replay", NEW m \in missing' \ missing, m.clean
      PROVE  FALSE
  <2>1. m = Outcome(t) /\ cur[t].row \notin RowsIn(replayed)
    BY <1>0, <1>5
  <2>2. cur[t].epoch = crashes
    BY <1>1, <1>5, <2>1, Zenon
  <2>3. SecuredCount = replayed /\ Vouched
    BY <1>5, SecuredPointType DEF SecuredCount, RecordsAt, StandbyCount, IInv, ShapeInv
  <2> QED
    BY <1>2, <2>1, <2>2, <2>3 DEF SecuredRows
<1>6. GoodOutcomes
  BY <1>4, <1>5 DEF GoodOutcomes
<1> QED
  BY <1>0, <1>6, EndOfAttempt

\* An attempt that is dropped.
LEMMA DropKeeps ==
  ASSUME IInv, NEW t \in Tasks, WaitEndsUnconfirmed(t) \/ AttemptFails(t)
  PROVE  IInv'
<1>1. Ends(t) /\ UNCHANGED <<serverVars, opt, nextRow, confirmed, missing>>
  BY DEF WaitEndsUnconfirmed, AttemptFails
<1>2. GoodOutcomes
  BY <1>1 DEF GoodOutcomes
<1> QED
  BY <1>1, <1>2, EndOfAttempt

LEMMA OtherWalKeeps ==
  ASSUME IInv, OtherWal
  PROVE  IInv'
<1>1. AppendWal(NoRow) /\ UNCHANGED clientVars
  BY DEF OtherWal
<1>2. /\ WalInv' /\ Advance /\ crashes' = crashes
      /\ Len(wal') = Len(wal) + 1 /\ SameUpTo(Len(wal))
  BY <1>1, AppendKeepsWal DEF IInv
<1>2a. opt' = opt
  BY <1>1 DEF clientVars
<1>2b. Len(wal) <= Len(wal')
  BY <1>2 DEF IInv, WalInv
<1>3. Stays
  BY <1>2, <1>2a, <1>2b DEF Stays
<1> QED
  BY <1>1, <1>3, StepOfServers

LEMMA ServerStepKeeps ==
  ASSUME IInv, ServerStep
  PROVE  IInv'
<1>1. (ReplicationStep \/ Promote) /\ UNCHANGED clientVars
  BY DEF ServerStep
<1>2. WalInv' /\ Advance /\ UNCHANGED <<wal, crashes>>
  BY <1>1, ServersKeepWal DEF IInv
<1>3. Stays
  BY <1>1, <1>2 DEF Stays, SameUpTo, clientVars, IInv, WalInv
<1> QED
  BY <1>1, <1>3, StepOfServers

\* After a crash no attempt counts as clean that began before it; what was
\* confirmed was flushed, and stays.
LEMMA CrashKeeps ==
  ASSUME IInv, Crash
  PROVE  IInv'
<1>0. CrashPrimary /\ UNCHANGED <<opt, nextRow, confirmed, missing>>
  BY DEF Crash
<1>1. WalInv' /\ Advance /\ crashes' = crashes + 1 /\ crashes \in Nat
  BY <1>0, CrashKeepsWal DEF IInv, WalInv
<1> DEFINE broken == {t \in Tasks : pc[t] \in {"commit", "lsn_fetch"}}
<1>2. /\ pc' = [t \in Tasks |-> IF t \in broken THEN "idle" ELSE pc[t]]
      /\ cur' = [t \in Tasks |-> IF t \in broken THEN NoAttempt ELSE cur[t]]
  BY DEF Crash
<1>3. NoAttempt \in Attempts /\ NoAttempt.epoch = 0
  BY DEF NoAttempt, Attempts, LsnTexts
<1>4. ShapeInv'
  BY <1>0, <1>2, <1>3 DEF IInv, ShapeInv, Labels
<1>5. TaskInv'
  <2> SUFFICES ASSUME NEW t \in Tasks PROVE TaskOk(t)'
    BY DEF TaskInv
  <2>1. CASE t \in broken
    <3>1. pc'[t] = "idle" /\ cur'[t] = NoAttempt
      BY <1>2, <2>1
    <3> QED
      BY <1>1, <1>3, <3>1 DEF TaskOk
  <2>2. CASE t \notin broken
    <3>1. pc'[t] = pc[t] /\ cur'[t] = cur[t] /\ pc[t] \notin {"commit", "lsn_fetch"}
      BY <1>2, <2>2
    <3>2. TaskOk(t) /\ cur[t] \in Attempts
      BY DEF IInv, TaskInv, ShapeInv
    <3>3. cur[t].epoch \in Nat /\ cur[t].epoch <= crashes
      BY <3>2 DEF TaskOk, Attempts
    <3>4. cur'[t].epoch # crashes' /\ cur'[t].epoch <= crashes'
      BY <1>1, <3>1, <3>3
    <3> QED
      BY <1>0, <3>1, <3>2, <3>4 DEF TaskOk
  <2> QED
    BY <2>1, <2>2
<1>6. GoodOutcomes
  BY <1>0 DEF GoodOutcomes
<1>7. ConfirmedIsSecured' /\ NothingMissing'
  BY <1>0, <1>1, <1>6, OutcomesStay DEF IInv
<1> QED
  BY <1>1, <1>4, <1>5, <1>7 DEF IInv

-----------------------------------------------------------------------------
(***************************************************************************)
(* The invariant.                                                          *)
(***************************************************************************)

LEMMA InitInv == Init => IInv
<1> SUFFICES ASSUME Init PROVE IInv
  OBVIOUS
<1>1. wal = <<[end |-> WalStart, row |-> NoRow]>>
  BY DEF Init, ServersInit
<1>2. wal \in Seq(Record) /\ Len(wal) = 1 /\ wal[1].end = WalStart
  <2>1. [end |-> WalStart, row |-> NoRow] \in Record
    BY DEF Record
  <2> QED
    BY <1>1, <2>1
<1>3. WalInv
  BY <1>2 DEF Init, ServersInit, WalInv
<1>4. ShapeInv
  BY DEF Init, ShapeInv, NoAttempt, Attempts, LsnTexts, Labels
<1>5. TaskInv
  BY DEF Init, ServersInit, TaskInv, TaskOk, NoAttempt
<1>6. ConfirmedIsSecured /\ NothingMissing
  BY DEF Init, ConfirmedIsSecured, NothingMissing
<1> QED
  BY <1>3, <1>4, <1>5, <1>6 DEF IInv

LEMMA NextKeepsInv == IInv /\ [Next]_vars => IInv'
<1> SUFFICES ASSUME IInv, [Next]_vars PROVE IInv'
  OBVIOUS
<1>1. ASSUME NEW t \in Tasks, InsertRow(t) PROVE IInv'
  BY <1>1, InsertRowKeeps
<1>2. ASSUME NEW t \in Tasks, CommitReturns(t) PROVE IInv'
  BY <1>2, CommitReturnsKeeps
<1>3. ASSUME NEW t \in Tasks, LsnReturns(t) PROVE IInv'
  BY <1>3, FetchLsnKeeps
<1>4. ASSUME NEW t \in Tasks, WaitAnswers(t) PROVE IInv'
  BY <1>4, WaitSucceedsKeeps, DropKeeps DEF WaitAnswers
<1>5. ASSUME NEW t \in Tasks, VerifyReturns(t) PROVE IInv'
  BY <1>5, VerifyReturnsKeeps
<1>6. ASSUME NEW t \in Tasks, AttemptFails(t) PROVE IInv'
  BY <1>6, DropKeeps
<1>7. CASE OtherWal
  BY <1>7, OtherWalKeeps
<1>8. CASE Crash
  BY <1>8, CrashKeeps
<1>9. CASE ServerStep
  BY <1>9, ServerStepKeeps
<1>10. CASE UNCHANGED vars
  <2>1. UNCHANGED <<serverVars, opt>> /\ UNCHANGED clientVars
    BY <1>10 DEF vars, clientVars
  <2> QED
    BY <2>1, ServersRest, StepOfServers DEF IInv
<1> QED
  BY <1>1, <1>2, <1>3, <1>4, <1>5, <1>6, <1>7, <1>8, <1>9, <1>10 DEF Next, Quiet

\* The order of the servers, what each task has of its attempt, and the two
\* properties below hold together in every reachable state.
THEOREM InvariantHolds == Spec => []IInv
<1> QED
  BY InitInv, NextKeepsInv, PTL DEF Spec

\* A transaction counted as completed is where its --wait-mode (T2) or its
\* synchronous_commit (T1, unless off) says, and on the primary's disk, for
\* every command line, with and without a synchronous standby; and it stays.
THEOREM ConfirmedAlwaysSecured == Spec => []ConfirmedIsSecured
<1>1. IInv => ConfirmedIsSecured
  BY DEF IInv
<1> QED
  BY <1>1, InvariantHolds, PTL

\* --verify finds every row whose wait for standby_replay succeeded.
THEOREM NeverMissing == Spec => []NothingMissing
<1>1. IInv => NothingMissing
  BY DEF IInv
<1> QED
  BY <1>1, InvariantHolds, PTL

\* The LSN a task waits for is never too short, and corrected it is the end
\* of a record.
THEOREM TargetAlwaysCoversCommit == Spec => []TargetCoversCommit
<1>1. IInv => TargetCoversCommit
  <2> SUFFICES ASSUME IInv, NEW t \in Tasks, pc[t] = "wait_for_lsn", cur[t].epoch = crashes
               PROVE  \E i \in DOMAIN wal : \E j \in i .. Len(wal) :
                        /\ wal[i].row = cur[t].row
                        /\ LET lsn == ParseLsn(cur[t].lsn)
                           IN  IF opt.raw THEN wal[j].end <= lsn ELSE wal[j].end = lsn
    BY DEF TargetCoversCommit
  <2>1. <<cur[t].row, ParseLsn(cur[t].lsn)>> \in Targets
    BY DEF IInv, TaskInv, TaskOk
  <2>2. DOMAIN wal = 1 .. Len(wal)
    BY DEF IInv, WalInv
  <2> HIDE DEF IInv
  <2> QED
    BY <2>1, <2>2 DEF Targets
<1> QED
  BY <1>1, InvariantHolds, PTL

-----------------------------------------------------------------------------
(***************************************************************************)
(* Types.                                                                  *)
(***************************************************************************)
\* A set of numbers has a smallest one.
LEMMA SmallestExists ==
  ASSUME NEW S \in SUBSET Nat, S # {}
  PROVE  \E x \in S : \A y \in S : x <= y
<1> DEFINE Less == {ss \in Nat \X Nat : ss[1] < ss[2]}
<1>1. IsWellFoundedOn(Less, Nat)
  BY NatLessThanWellFounded DEF OpToRel
<1>2. \A m, n \in Nat : m < n => <<m, n>> \in Less
  OBVIOUS
<1> HIDE DEF Less
<1>3. PICK x \in S : \A y \in S : ~(<<y, x>> \in Less)
  BY <1>1, WFMin
<1>4. ASSUME NEW y \in S PROVE x <= y
  <2>1. x \in Nat /\ y \in Nat /\ ~(<<y, x>> \in Less)
    BY <1>3
  <2>2. ~(y < x)
    BY <1>2, <2>1
  <2> QED
    BY <2>1, <2>2
<1> QED
  BY <1>4

\* Every number has a number of digits.
LEMMA DigitsType == ASSUME NEW n PROVE Digits(n) \in Nat
<1> DEFINE Wide == {k \in 1 .. HalfDigits + 1 : k = HalfDigits + 1 \/ n < HexBase ^ k}
<1>1. Wide \in SUBSET Nat /\ HalfDigits + 1 \in Wide
  BY TextAssumption
<1>2. Digits(n) = CHOOSE k \in Wide : \A j \in Wide : k <= j
  BY DEF Digits
<1> HIDE DEF Wide
<1>3. \E k \in Wide : \A j \in Wide : k <= j
  BY <1>1, SmallestExists
<1> QED
  BY <1>1, <1>2, <1>3

\* A number that fits a half is written with no more digits than a half has.
LEMMA DigitsFit ==
  ASSUME NEW n, n < HalfWord
  PROVE  Digits(n) \in 1 .. HalfDigits
<1> DEFINE Wide == {k \in 1 .. HalfDigits + 1 : k = HalfDigits + 1 \/ n < HexBase ^ k}
<1>1. Wide \in SUBSET Nat /\ HalfDigits \in Wide
  <2>1. HalfDigits \in 1 .. HalfDigits + 1
    BY TextAssumption
  <2> QED
    BY <2>1, TextAssumption DEF HalfWord
<1>2. Digits(n) = CHOOSE k \in Wide : \A j \in Wide : k <= j
  BY DEF Digits
<1>3. \A k \in Wide : k >= 1 /\ k \in Nat
  BY TextAssumption
<1> HIDE DEF Wide
<1>4. \E k \in Wide : \A j \in Wide : k <= j
  BY <1>1, SmallestExists
<1>5. Digits(n) \in Wide /\ Digits(n) <= HalfDigits
  BY <1>1, <1>2, <1>4
<1> QED
  BY <1>3, <1>5, TextAssumption

\* is_valid_lsn, parse_lsn, format_lsn: the printed form of every 64-bit position
\* is accepted, so that no server answer ends an attempt there, and reads back.
THEOREM PositionsRoundTrip ==
  ASSUME NEW pos \in Nat, pos < HalfWord * HalfWord
  PROVE  /\ IsValidLsn(FormatLsn(pos)) /\ IsValidLsn(PgLsnOut(pos))
         /\ ParseLsn(FormatLsn(pos)) = pos /\ ParseLsn(PgLsnOut(pos)) = pos
<1> DEFINE H  == HalfWord
           hi == pos \div H
<1>1. H \in Nat \ {0}
  BY TextAssumption DEF HalfWord
<1>2. hi < H
  <2> HIDE DEF H
  <2>1. hi \in Nat /\ H * hi <= pos
    BY <1>1
  <2>2. ASSUME hi >= H PROVE FALSE
    <3> HIDE DEF hi
    <3>1. H * hi >= H * H
      BY <1>1, <2>1, <2>2
    <3> QED
      BY <1>1, <2>1, <3>1 DEF H
  <2> QED
    BY <1>1, <2>1, <2>2
<1>3. Digits(hi) \in 1 .. HalfDigits
  BY <1>2, DigitsFit
<1>4. HalfDigits \in 1 .. HalfDigits
  BY TextAssumption
<1>5. IsValidLsn(FormatLsn(pos)) /\ IsValidLsn(PgLsnOut(pos))
  BY <1>3, <1>4 DEF IsValidLsn, FormatLsn, PgLsnOut, Written
<1> QED
  BY <1>5, TextReadsBack

\* What the tasks keep of an LSN is a text.
LEMMA LsnTextsType == LsnTexts \subseteq Texts
<1>1. ASSUME NEW hi \in Nat, NEW lo \in Nat PROVE Written(hi, lo) \in Texts
  <2>1. Digits(hi) \in Nat /\ HalfDigits \in Nat
    BY DigitsType, TextAssumption
  <2> QED
    BY <2>1 DEF Written, Texts
<1>2. NoLsn \in Texts
  BY DEF NoLsn, Texts
<1> QED
  BY <1>1, <1>2 DEF LsnTexts

\* The parts of TypeOK that are not in IInv.
OutcomesInv ==
  /\ opt \in Options /\ promoted \in BOOLEAN
  /\ confirmed \in SUBSET Outcomes /\ missing \in SUBSET Outcomes

\* What a busy task leaves in the history is an outcome.
LEMMA OutcomeType ==
  ASSUME IInv, NEW t \in Tasks, pc[t] # "idle"
  PROVE  Outcome(t) \in Outcomes
<1>1. cur[t].row \in Nat
  BY DEF IInv, TaskInv, TaskOk
<1> QED
  BY <1>1 DEF Outcome, Outcomes

LEMMA NextKeepsOutcomes == IInv /\ OutcomesInv /\ [Next]_vars => OutcomesInv'
<1> SUFFICES ASSUME IInv, OutcomesInv, [Next]_vars PROVE OutcomesInv'
  OBVIOUS
<1>1. CASE UNCHANGED <<opt, confirmed, missing>> /\ promoted' \in BOOLEAN
  BY <1>1 DEF OutcomesInv
<1>0. ASSUME UNCHANGED promoted PROVE promoted' \in BOOLEAN
  BY <1>0 DEF OutcomesInv
<1>2. ASSUME NEW t \in Tasks, InsertRow(t) \/ AttemptFails(t) \/ WaitEndsUnconfirmed(t)
      PROVE  OutcomesInv'
  BY <1>1, <1>0, <1>2 DEF InsertRow, AttemptFails, WaitEndsUnconfirmed, AppendWal, serverVars
<1>3. ASSUME NEW t \in Tasks, CommitReturns(t) \/ LsnReturns(t) \/ WaitSucceeds(t)
      PROVE  OutcomesInv'
  <2>1. UNCHANGED <<opt, missing, promoted>> /\ pc[t] # "idle"
    BY <1>3 DEF CommitReturns, LsnReturns, WaitSucceeds, serverVars
  <2>2. confirmed' = confirmed \/ confirmed' = confirmed \cup {Outcome(t)}
    BY <1>3 DEF CommitReturns, LsnReturns, WaitSucceeds, Succeeds, Completes
  <2> QED
    BY <2>1, <2>2, OutcomeType DEF OutcomesInv
<1>4. ASSUME NEW t \in Tasks, VerifyReturns(t) PROVE OutcomesInv'
  <2>1. UNCHANGED <<opt, promoted>> /\ pc[t] # "idle" /\ confirmed' = confirmed \cup {Outcome(t)}
    BY <1>4 DEF VerifyReturns, Completes, serverVars
  <2>2. missing' = missing \/ missing' = missing \cup {Outcome(t)}
    BY <1>4 DEF VerifyReturns
  <2> QED
    BY <2>1, <2>2, OutcomeType DEF OutcomesInv
<1>5. CASE OtherWal \/ Crash \/ UNCHANGED vars
  BY <1>1, <1>0, <1>5 DEF OtherWal, Crash, AppendWal, CrashPrimary, vars, serverVars, clientVars
<1>6. CASE ServerStep
  <2>1. UNCHANGED <<opt, confirmed, missing>>
    BY <1>6 DEF ServerStep, clientVars
  <2>2. promoted' = promoted \/ promoted' = TRUE
    BY <1>6 DEF ServerStep, ReplicationStep, FlushWal, SendWal, StandbyFlush, StandbyReplay, Promote
  <2> QED
    BY <1>1, <2>1, <2>2 DEF OutcomesInv
<1> QED
  BY <1>2, <1>3, <1>4, <1>5, <1>6 DEF Next, WaitAnswers, Quiet

\* Every reachable state is well typed: the servers' counters, and for each
\* task a row and an LSN text it got from PostgreSQL or format_lsn.
THEOREM ReadYourWritesTypes == Spec => []TypeOK
<1>1. Init => OutcomesInv
  BY DEF Init, ServersInit, OutcomesInv
<1>2. IInv /\ OutcomesInv => TypeOK
  <2> SUFFICES ASSUME IInv, OutcomesInv PROVE TypeOK
    OBVIOUS
  <2>1. ServersTypeOK
    <3>1. wal \in Seq(Record) /\ {flushed, written, sflushed, replayed, crashes} \subseteq Nat
      BY DEF IInv, WalInv
    <3>2. Len(wal) >= 1
      BY <3>1 DEF IInv, WalInv
    <3>3. promoted \in BOOLEAN
      BY DEF OutcomesInv
    <3> QED
      BY <3>1, <3>2, <3>3 DEF ServersTypeOK
  <2>2. Attempts \subseteq [row : Nat \cup {NoRow}, lsn : Texts, epoch : Nat]
    BY LsnTextsType DEF Attempts
  <2>3. cur \in [Tasks -> [row : Nat \cup {NoRow}, lsn : Texts, epoch : Nat]]
    BY <2>2 DEF IInv, ShapeInv
  <2> QED
    BY <2>1, <2>3 DEF TypeOK, OutcomesInv, IInv, ShapeInv, Labels
<1> QED
  BY <1>1, <1>2, InitInv, NextKeepsInv, NextKeepsOutcomes, PTL DEF Spec

-----------------------------------------------------------------------------
(***************************************************************************)
(* The refinement: initial states map to initial states of CommitContract, *)
(* and every step of the tasks and servers is a step of the contract or    *)
(* leaves what it speaks of unchanged.                                     *)
(***************************************************************************)

\* The rows told complete to the application, as the contract sees them.
CleanRows == {c.row : c \in {d \in confirmed : Vouched /\ d.clean}}

\* Every row of the WAL has been drawn from the sequence, which goes on.
RowInv ==
  /\ nextRow \in Nat /\ nextRow >= 1
  /\ \A i \in 1 .. Len(wal) : wal[i].row \in Nat => wal[i].row < nextRow

\* What the contract speaks of.
contractView == <<WalRows, SecuredRows, CleanRows>>

-----------------------------------------------------------------------------
(***************************************************************************)
(* The steps of the contract, in terms of rows.                            *)
(***************************************************************************)

LEMMA IsCommit ==
  ASSUME NEW r \in (1 .. MaxRows) \ WalRows, WalRows' = WalRows \cup {r},
         SecuredRows' = SecuredRows, CleanRows' = CleanRows
  PROVE  Contract!Next
<1>1. Contract!Commit
  BY DEF Contract!Commit, WalRows, SecuredRows, CleanRows
<1> QED
  BY <1>1 DEF Contract!Next

LEMMA IsSecure ==
  ASSUME WalRows' = WalRows, SecuredRows \subseteq SecuredRows', SecuredRows' \subseteq WalRows,
         CleanRows' = CleanRows
  PROVE  Contract!Next
<1>1. /\ SecuredRows' \ SecuredRows \in SUBSET (WalRows \ SecuredRows)
      /\ SecuredRows' = SecuredRows \cup (SecuredRows' \ SecuredRows)
  OBVIOUS
<1>2. \E new \in SUBSET (WalRows \ SecuredRows) : SecuredRows' = SecuredRows \cup new
  BY <1>1
<1>3. Contract!Secure
  BY <1>2 DEF Contract!Secure, WalRows, SecuredRows, CleanRows
<1> QED
  BY <1>3 DEF Contract!Next

LEMMA IsLose ==
  ASSUME WalRows' \subseteq WalRows, SecuredRows \subseteq SecuredRows',
         SecuredRows' \subseteq WalRows', CleanRows' = CleanRows
  PROVE  Contract!Next
<1>1. /\ WalRows' \in SUBSET WalRows /\ SecuredRows \subseteq WalRows'
      /\ SecuredRows' \ SecuredRows \in SUBSET (WalRows' \ SecuredRows)
      /\ SecuredRows' = SecuredRows \cup (SecuredRows' \ SecuredRows)
  OBVIOUS
<1>2. \E kept \in SUBSET WalRows :
        /\ SecuredRows \subseteq kept
        /\ WalRows' = kept
        /\ \E more \in SUBSET (kept \ SecuredRows) : SecuredRows' = SecuredRows \cup more
  BY <1>1
<1>3. Contract!Lose
  BY <1>2 DEF Contract!Lose, WalRows, SecuredRows, CleanRows
<1> QED
  BY <1>3 DEF Contract!Next

LEMMA IsConfirm ==
  ASSUME NEW r \in SecuredRows, CleanRows' = CleanRows \cup {r},
         WalRows' = WalRows, SecuredRows' = SecuredRows
  PROVE  Contract!Next
<1>1. Contract!Confirm
  BY DEF Contract!Confirm, WalRows, SecuredRows, CleanRows
<1> QED
  BY <1>1 DEF Contract!Next

LEMMA IsStutter ==
  ASSUME UNCHANGED contractView
  PROVE  UNCHANGED Contract!vars
BY DEF contractView, Contract!vars, WalRows, SecuredRows, CleanRows

-----------------------------------------------------------------------------
(***************************************************************************)
(* Rows under the steps of the servers.                                    *)
(***************************************************************************)

LEMMA SecuredAreCommitted ==
  ASSUME WalInv, opt \in CommandLines
  PROVE  SecuredRows \subseteq WalRows
<1>1. SecuredCount \in Nat /\ SecuredCount <= flushed
  BY SecuredCountType
<1>2. 1 .. SecuredCount \subseteq 1 .. Len(wal)
  BY <1>1 DEF WalInv
<1> QED
  BY <1>2 DEF SecuredRows, WalRows, RowsIn

\* Servers at rest.
LEMMA RestKeepsRows ==
  ASSUME UNCHANGED <<serverVars, opt>>
  PROVE  WalRows' = WalRows /\ SecuredRows' = SecuredRows /\ (RowInv /\ nextRow' = nextRow => RowInv')
<1>1. UNCHANGED <<wal, flushed, written, sflushed, replayed, opt>>
  BY DEF serverVars
<1>2. SecuredCount' = SecuredCount
  BY <1>1 DEF SecuredCount, SecuredPoint, Vouched, Asked, CommitPoint, RecordsAt, StandbyCount
<1> QED
  BY <1>1, <1>2 DEF WalRows, SecuredRows, RowsIn, RowInv

\* An appended record adds its row, if it has one, and secures nothing.
LEMMA AppendAddsRow ==
  ASSUME WalInv, opt \in CommandLines, opt' = opt, NEW row \in Nat \cup {NoRow}, AppendWal(row)
  PROVE  /\ WalRows' = WalRows \cup ({row} \ {NoRow}) /\ SecuredRows' = SecuredRows
         /\ RowInv /\ nextRow \in Nat /\ nextRow' \in Nat /\ nextRow <= nextRow'
            /\ (row \in Nat => row < nextRow') => RowInv'
<1> DEFINE n == Len(wal)
<1>1. /\ WalInv' /\ Len(wal') = n + 1 /\ wal'[n + 1].row = row
      /\ \A i \in 1 .. n : wal'[i] = wal[i]
  BY AppendKeepsWal DEF SameUpTo
<1>2. UNCHANGED <<flushed, written, sflushed, replayed>>
  BY DEF AppendWal
<1>3. SecuredCount' = SecuredCount /\ SecuredCount \in Nat /\ SecuredCount <= flushed
  BY <1>2, SecuredCountType
     DEF SecuredCount, SecuredPoint, Vouched, Asked, CommitPoint, RecordsAt, StandbyCount
<1>4. n \in Nat /\ flushed \in Nat /\ flushed <= n
  BY DEF WalInv
<1> HIDE DEF n
<1>5. 1 .. (n + 1) = (1 .. n) \cup {n + 1}
  BY <1>4
<1>6. WalRows' = WalRows \cup ({row} \ {NoRow})
  <2>1. WalRows' = {wal'[i].row : i \in 1 .. (n + 1)} \ {NoRow}
    BY <1>1 DEF WalRows, RowsIn
  <2>2. {wal'[i].row : i \in 1 .. (n + 1)} = {wal[i].row : i \in 1 .. n} \cup {row}
    BY <1>1, <1>5
  <2> QED
    BY <2>1, <2>2 DEF WalRows, RowsIn, n
<1>7. SecuredRows' = SecuredRows
  <2>1. 1 .. SecuredCount \subseteq 1 .. n
    BY <1>3, <1>4
  <2>2. \A i \in 1 .. SecuredCount : wal'[i] = wal[i]
    BY <1>1, <2>1
  <2>3. SecuredRows' = {wal'[i].row : i \in 1 .. SecuredCount} \ {NoRow}
    BY <1>3 DEF SecuredRows, RowsIn
  <2> QED
    BY <2>2, <2>3 DEF SecuredRows, RowsIn
<1>8. ASSUME RowInv, nextRow \in Nat, nextRow' \in Nat, nextRow <= nextRow',
             row \in Nat => row < nextRow'
      PROVE  RowInv'
  <2>1. ASSUME NEW i \in 1 .. (n + 1), wal'[i].row \in Nat
        PROVE  wal'[i].row < nextRow'
    <3>1. CASE i = n + 1
      BY <1>1, <1>8, <2>1, <3>1
    <3>2. CASE i \in 1 .. n
      <4>1. wal'[i] = wal[i] /\ wal[i].row < nextRow
        BY <1>1, <1>8, <2>1, <3>2 DEF RowInv, n
      <4> QED
        BY <1>8, <2>1, <4>1
    <3> QED
      BY <1>5, <3>1, <3>2
  <2> QED
    BY <1>1, <1>8, <2>1 DEF RowInv
<1> QED
  BY <1>6, <1>7, <1>8

-----------------------------------------------------------------------------
(***************************************************************************)
(* Every step of ReadYourWrites is a step of the contract or none.         *)
(***************************************************************************)

\* A completed attempt is confirmed, if no crash is in between.
LEMMA CompletionConfirms ==
  ASSUME IInv, IInv', NEW t \in Tasks, Completes(t), UNCHANGED <<serverVars, opt>>
  PROVE  Contract!Next \/ UNCHANGED Contract!vars
<1>1. WalRows' = WalRows /\ SecuredRows' = SecuredRows
  BY RestKeepsRows
<1>2. confirmed' = confirmed \cup {Outcome(t)}
  BY DEF Completes
<1>2a. Vouched' = Vouched
  BY DEF Vouched, Asked
<1>3. CASE Vouched /\ Outcome(t).clean
  <2>1. CleanRows' = CleanRows \cup {Outcome(t).row}
    BY <1>2, <1>2a, <1>3 DEF CleanRows
  <2>2. Outcome(t).row \in SecuredRows'
    BY <1>2, <1>2a, <1>3 DEF IInv, ConfirmedIsSecured, SecuredRows
  <2>3. Outcome(t).row \in SecuredRows
    BY <1>1, <2>2
  <2> HIDE DEF Outcome
  <2> QED
    BY <1>1, <2>1, <2>3, IsConfirm
<1>4. CASE ~(Vouched /\ Outcome(t).clean)
  <2>1. CleanRows' = CleanRows
    BY <1>2, <1>2a, <1>4 DEF CleanRows
  <2> QED
    BY <1>1, <2>1, IsStutter DEF contractView
<1> QED
  BY <1>3, <1>4

\* Steps that neither move a server nor confirm a row.
LEMMA SilentStep ==
  ASSUME UNCHANGED <<serverVars, opt, confirmed>>
  PROVE  UNCHANGED Contract!vars
<1>1. WalRows' = WalRows /\ SecuredRows' = SecuredRows
  BY RestKeepsRows
<1>2. CleanRows' = CleanRows
  BY DEF CleanRows, Vouched, Asked
<1> QED
  BY <1>1, <1>2, IsStutter DEF contractView

LEMMA StepRefines ==
  ASSUME IInv, IInv', RowInv, [Next]_vars
  PROVE  RowInv' /\ (Contract!Next \/ UNCHANGED Contract!vars)
<1>0. WalInv /\ WalInv' /\ opt \in CommandLines
  BY DEF IInv, ShapeInv
<1>1. ASSUME NEW t \in Tasks, InsertRow(t) PROVE RowInv' /\ Contract!Next
  <2>1. /\ AppendWal(nextRow) /\ opt' = opt /\ confirmed' = confirmed
        /\ nextRow' = nextRow + 1 /\ nextRow <= MaxRows /\ nextRow \in Nat /\ nextRow >= 1
    BY <1>1 DEF InsertRow, RowInv
  <2>2. /\ WalRows' = WalRows \cup ({nextRow} \ {NoRow}) /\ SecuredRows' = SecuredRows
        /\ RowInv'
    <3>1. nextRow' \in Nat /\ nextRow <= nextRow' /\ nextRow < nextRow'
      BY <2>1
    <3> QED
      BY <1>0, <2>1, <3>1, AppendAddsRow
  <2>3. nextRow # NoRow /\ nextRow \in 1 .. MaxRows
    BY <2>1
  <2>4. nextRow \notin WalRows
    BY <2>1 DEF RowInv, WalRows, RowsIn
  <2>5. CleanRows' = CleanRows
    BY <2>1 DEF CleanRows, Vouched, Asked
  <2>6. WalRows' = WalRows \cup {nextRow}
    BY <2>2, <2>3
  <2> QED
    BY <2>2, <2>3, <2>4, <2>5, <2>6, IsCommit
<1>2. ASSUME NEW t \in Tasks, CommitReturns(t)
      PROVE  RowInv' /\ (Contract!Next \/ UNCHANGED Contract!vars)
  <2>1. UNCHANGED <<serverVars, opt>> /\ nextRow' = nextRow
    BY <1>2 DEF CommitReturns
  <2>2. RowInv'
    BY <2>1, RestKeepsRows
  <2>3. CASE Completes(t)
    BY <2>1, <2>2, <2>3, CompletionConfirms
  <2>4. CASE confirmed' = confirmed
    BY <2>1, <2>2, <2>4, SilentStep
  <2> QED
    BY <1>2, <2>3, <2>4 DEF CommitReturns, Succeeds
<1>3. ASSUME NEW t \in Tasks, WaitEndsUnconfirmed(t) \/ AttemptFails(t)
      PROVE  RowInv' /\ UNCHANGED Contract!vars
  <2>1. UNCHANGED <<serverVars, opt, confirmed>> /\ nextRow' = nextRow
    BY <1>3 DEF WaitEndsUnconfirmed, AttemptFails
  <2> QED
    BY <2>1, RestKeepsRows, SilentStep
<1>4. ASSUME NEW t \in Tasks, WaitSucceeds(t) \/ LsnReturns(t)
      PROVE  RowInv' /\ (Contract!Next \/ UNCHANGED Contract!vars)
  <2>1. UNCHANGED <<serverVars, opt>> /\ nextRow' = nextRow
    BY <1>4 DEF WaitSucceeds, LsnReturns
  <2>2. RowInv'
    BY <2>1, RestKeepsRows
  <2>3. CASE Completes(t)
    BY <2>1, <2>2, <2>3, CompletionConfirms
  <2>4. CASE confirmed' = confirmed
    BY <2>1, <2>2, <2>4, SilentStep
  <2> QED
    BY <1>4, <2>3, <2>4 DEF WaitSucceeds, LsnReturns, Succeeds
<1>5. ASSUME NEW t \in Tasks, VerifyReturns(t)
      PROVE  RowInv' /\ (Contract!Next \/ UNCHANGED Contract!vars)
  <2>1. UNCHANGED <<serverVars, opt>> /\ nextRow' = nextRow /\ Completes(t)
    BY <1>5 DEF VerifyReturns
  <2> QED
    BY <2>1, RestKeepsRows, CompletionConfirms
<1>6. CASE OtherWal
  <2>1. /\ AppendWal(NoRow) /\ opt' = opt /\ confirmed' = confirmed /\ nextRow' = nextRow
        /\ nextRow \in Nat
    BY <1>6 DEF OtherWal, clientVars, RowInv
  <2>2. /\ WalRows' = WalRows \cup ({NoRow} \ {NoRow}) /\ SecuredRows' = SecuredRows
        /\ RowInv'
    <3>1. nextRow' \in Nat /\ nextRow <= nextRow' /\ NoRow \notin Nat
      BY <2>1
    <3> QED
      BY <1>0, <2>1, <3>1, AppendAddsRow
  <2>3. CleanRows' = CleanRows
    BY <2>1 DEF CleanRows, Vouched, Asked
  <2> QED
    BY <2>2, <2>3, IsStutter DEF contractView
<1>7. CASE ServerStep
  <2>1. (ReplicationStep \/ Promote) /\ UNCHANGED <<opt, nextRow, confirmed>>
    BY <1>7 DEF ServerStep, clientVars
  <2>2. Advance /\ wal' = wal
    BY <1>0, <2>1, ServersKeepWal
  <2>3. SecuredRows \subseteq SecuredRows'
    BY <1>0, <2>1, <2>2, AdvanceKeepsRows
  <2>4. SecuredRows' \subseteq WalRows'
    <3>1. (WalInv /\ opt \in CommandLines => SecuredRows \subseteq WalRows)'
      BY SecuredAreCommitted, PTL
    <3> QED
      BY <1>0, <2>1, <3>1
  <2>5. WalRows' = WalRows /\ CleanRows' = CleanRows /\ RowInv'
    BY <2>1, <2>2 DEF WalRows, RowsIn, CleanRows, Vouched, Asked, RowInv
  <2> QED
    BY <2>3, <2>4, <2>5, IsSecure
<1>8. CASE Crash
  <2>1. CrashPrimary /\ UNCHANGED <<opt, nextRow, confirmed>>
    BY <1>8 DEF Crash
  <2>2. Advance
    BY <1>0, <2>1, CrashKeepsWal
  <2>3. SecuredRows \subseteq SecuredRows'
    BY <1>0, <2>1, <2>2, AdvanceKeepsRows
  <2>4. SecuredRows' \subseteq WalRows'
    <3>1. (WalInv /\ opt \in CommandLines => SecuredRows \subseteq WalRows)'
      BY SecuredAreCommitted, PTL
    <3> QED
      BY <1>0, <2>1, <3>1
  <2>5. PICK kept \in flushed .. Len(wal) : wal' = SubSeq(wal, 1, kept)
    BY <2>1 DEF CrashPrimary
  <2>6. kept \in Nat /\ kept >= 1 /\ kept <= Len(wal) /\ Len(wal) \in Nat
    BY <1>0, <2>5 DEF WalInv
  <2>7. Len(wal') = kept /\ \A i \in 1 .. kept : i \in 1 .. Len(wal) /\ wal'[i] = wal[i]
    BY <1>0, <2>5, <2>6 DEF WalInv
  <2>8. WalRows' \subseteq WalRows /\ CleanRows' = CleanRows
    BY <2>1, <2>7 DEF WalRows, RowsIn, CleanRows, Vouched, Asked
  <2>9. RowInv'
    BY <2>1, <2>7 DEF RowInv
  <2> QED
    BY <2>3, <2>4, <2>8, <2>9, IsLose
<1>9. CASE UNCHANGED vars
  <2>1. UNCHANGED <<serverVars, opt, confirmed>> /\ nextRow' = nextRow
    BY <1>9 DEF vars, clientVars
  <2> QED
    BY <2>1, RestKeepsRows, SilentStep
<1> QED
  BY <1>1, <1>2, <1>3, <1>4, <1>5, <1>6, <1>7, <1>8, <1>9 DEF Next, WaitAnswers, Quiet

LEMMA InitRefines == Init => RowInv /\ Contract!Init
<1> SUFFICES ASSUME Init PROVE RowInv /\ Contract!Init
  OBVIOUS
<1>1. wal = <<[end |-> WalStart, row |-> NoRow]>> /\ Len(wal) = 1 /\ wal[1].row = NoRow
  BY DEF Init, ServersInit
<1>2. flushed = 1 /\ written = 1 /\ sflushed = 1 /\ replayed = 1 /\ opt \in CommandLines
  BY DEF Init, ServersInit
<1>3. SecuredCount = 1
  BY <1>2, SecuredPointType DEF SecuredCount, RecordsAt, StandbyCount
<1>4. RowsIn(1) = {}
  BY <1>1 DEF RowsIn
<1>5. RowInv
  BY <1>1 DEF Init, RowInv
<1>6. confirmed = {}
  BY DEF Init
<1> QED
  BY <1>1, <1>3, <1>4, <1>5, <1>6 DEF Contract!Init

\* A run of the tasks against the two servers is a behaviour of the commit
\* contract: rows are confirmed only once secured, and nothing secured is lost.
THEOREM ImplementsContract == Spec => RefinesContract
<1>1. Init => RowInv /\ Contract!Init
  BY InitRefines
<1>2. IInv /\ IInv' /\ RowInv /\ [Next]_vars => RowInv' /\ [Contract!Next]_(Contract!vars)
  BY StepRefines
<1> QED
  BY <1>1, <1>2, InvariantHolds, PTL DEF Spec, RefinesContract, Contract!Spec
=============================================================================
