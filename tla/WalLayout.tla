----------------------------- MODULE WalLayout ------------------------------
(***************************************************************************)
(* WAL positions: normalize_insert_lsn (src/workload.rs), next to the part *)
(* of PostgreSQL's WAL layout its comment describes: a record never ends   *)
(* inside a page header, and pg_current_wal_insert_lsn() skips the header  *)
(* of the next page.                                                       *)
(*                                                                         *)
(* Sizes are constants so that instances can scale them down; the code's   *)
(* are 24, 40, and the server's wal_block_size and wal_segment_size.       *)
(***************************************************************************)
EXTENDS Naturals

CONSTANTS
  ShortPageHeader,  \* SHORT_PAGE_HEADER
  LongPageHeader,   \* LONG_PAGE_HEADER: first page of a segment
  WalBlockSize,     \* wal_block_size
  WalSegmentSize    \* wal_segment_size

ASSUME LayoutAssumption ==
  /\ {ShortPageHeader, LongPageHeader, WalBlockSize, WalSegmentSize} \subseteq Nat
  /\ 0 < ShortPageHeader
  /\ ShortPageHeader < LongPageHeader
  /\ LongPageHeader < WalBlockSize
  /\ WalSegmentSize > 0
  /\ WalSegmentSize % WalBlockSize = 0

-----------------------------------------------------------------------------
(* The layout of WAL in PostgreSQL.                                        *)

\* header of the page that starts at position page
HeaderAt(page) ==
  IF page % WalSegmentSize = 0 THEN LongPageHeader ELSE ShortPageHeader

\* pg_current_wal_insert_lsn() when the last record ends at end
InsertLsn(end) ==
  IF end % WalBlockSize = 0 THEN end + HeaderAt(end) ELSE end

\* end of a record of len bytes appended after a record that ends at end; len
\* is below the room of a page, so it crosses at most one page header
RecordEnd(end, len) ==
  LET start == InsertLsn(end)
      room  == WalBlockSize - (start % WalBlockSize)
      next  == start + room
  IN  IF len <= room THEN start + len ELSE next + HeaderAt(next) + (len - room)

\* positions where a record can end
IsRecordEnd(pos) ==
  LET page == pos - (pos % WalBlockSize)
  IN  pos % WalBlockSize = 0 \/ pos % WalBlockSize > HeaderAt(page)

-----------------------------------------------------------------------------
(* normalize_insert_lsn                                                    *)

\* Mutated form of NormalizeInsertLsn: a single header size for all pages.
NormalizeShortOnly(pos) ==
  IF pos % WalBlockSize = ShortPageHeader THEN pos - ShortPageHeader ELSE pos

NormalizeInsertLsn(pos) ==
  LET firstPageOfSegment == pos % WalSegmentSize < WalBlockSize
      header == IF firstPageOfSegment THEN LongPageHeader ELSE ShortPageHeader
  IN  IF WalBlockSize = 0 \/ WalSegmentSize = 0 THEN pos
      ELSE IF pos % WalBlockSize = header THEN pos - header ELSE pos
=============================================================================
