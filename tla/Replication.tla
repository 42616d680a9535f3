---------------------------- MODULE Replication ----------------------------
(***************************************************************************)
(* The pair of PostgreSQL servers waitforlsn talks to, as DESIGN.md D2 and *)
(* the WAIT FOR table of PARAMETERS.md describe them: a primary that       *)
(* appends, flushes and then sends WAL, and a standby that writes, flushes *)
(* and replays it.  PostgreSQL is not part of the repository: this module  *)
(* is the environment of ReadYourWrites.                                   *)
(*                                                                         *)
(* Positions on the servers are numbers of records: a server that wrote,   *)
(* flushed or replayed half a record has not reached any end of a record   *)
(* it had not reached before.                                              *)
(***************************************************************************)
EXTENDS WalLayout, Sequences

CONSTANTS
  WalStart,     \* end of the WAL of the startup phase (schema, startup check)
  RecordLens,   \* record lengths that occur
  MaxRecords,   \* bound: records in the WAL
  MaxCrashes,   \* bound: crashes of the primary
  CanPromote,   \* whether the standby may be promoted
  NoRow         \* the row of WAL that inserts no row

ASSUME StartAssumption == WalStart \in Nat /\ IsRecordEnd(WalStart)
ASSUME LensAssumption == RecordLens \subseteq 1 .. (WalBlockSize - LongPageHeader)
ASSUME ReplicationBounds == MaxRecords \in Nat /\ MaxCrashes \in Nat /\ CanPromote \in BOOLEAN

VARIABLES
  wal,       \* the primary's WAL: where each record ends and the row it commits
  flushed,   \* records the primary has flushed
  written,   \* records the standby has received and written
  sflushed,  \* records the standby has flushed
  replayed,  \* records the standby has replayed
  promoted,  \* the standby was promoted
  crashes    \* crashes of the primary so far

serverVars == <<wal, flushed, written, sflushed, replayed, promoted, crashes>>

ServersInit ==
  /\ wal = <<[end |-> WalStart, row |-> NoRow]>>
  /\ flushed = 1 /\ written = 1 /\ sflushed = 1 /\ replayed = 1
  /\ promoted = FALSE
  /\ crashes = 0

-----------------------------------------------------------------------------
\* rows committed by the first k records
RowsIn(k) == {wal[i].row : i \in 1 .. k} \ {NoRow}

EndOf(k) == wal[k].end

\* pg_current_wal_insert_lsn() and pg_current_wal_flush_lsn()
CurrentInsertLsn == InsertLsn(EndOf(Len(wal)))
CurrentFlushLsn  == EndOf(flushed)

\* records the standby has processed as WAIT FOR's MODE asks
StandbyCount(mode) ==
  CASE mode = "standby_write"  -> written
    [] mode = "standby_flush"  -> sflushed
    [] mode = "standby_replay" -> replayed

\* WAIT FOR LSN target may return success
Reached(target, mode) == EndOf(StandbyCount(mode)) >= target

\* append the commit record of row (or other WAL)
AppendWal(row) ==
  /\ Len(wal) < MaxRecords
  /\ \E len \in RecordLens :
       wal' = Append(wal, [end |-> RecordEnd(EndOf(Len(wal)), len), row |-> row])
  /\ UNCHANGED <<flushed, written, sflushed, replayed, promoted, crashes>>

-----------------------------------------------------------------------------
\* WAL writer, or the flush of a synchronous commit
FlushWal ==
  /\ flushed < Len(wal)
  /\ flushed' = flushed + 1
  /\ UNCHANGED <<wal, written, sflushed, replayed, promoted, crashes>>

\* XLogSendPhysical sends flushed WAL only; the walreceiver writes it
SendWal ==
  /\ ~promoted
  /\ written < flushed
  /\ written' = written + 1
  /\ UNCHANGED <<wal, flushed, sflushed, replayed, promoted, crashes>>

StandbyFlush ==
  /\ sflushed < written
  /\ sflushed' = sflushed + 1
  /\ UNCHANGED <<wal, flushed, written, replayed, promoted, crashes>>

StandbyReplay ==
  /\ replayed < sflushed
  /\ replayed' = replayed + 1
  /\ UNCHANGED <<wal, flushed, written, sflushed, promoted, crashes>>

\* the standby ends recovery after replaying the WAL it has
Promote ==
  /\ CanPromote /\ ~promoted
  /\ promoted' = TRUE
  /\ sflushed' = written
  /\ replayed' = written
  /\ UNCHANGED <<wal, flushed, written, crashes>>

\* the primary crashes and recovers: WAL it had not flushed may be gone
CrashPrimary ==
  /\ crashes < MaxCrashes
  /\ crashes' = crashes + 1
  /\ \E kept \in flushed .. Len(wal) :
       /\ wal' = SubSeq(wal, 1, kept)
       /\ flushed' = kept
  /\ UNCHANGED <<written, sflushed, replayed, promoted>>

ReplicationStep == FlushWal \/ SendWal \/ StandbyFlush \/ StandbyReplay

-----------------------------------------------------------------------------
Record == [end : Nat, row : Nat \cup {NoRow}]

ServersTypeOK ==
  /\ wal \in Seq(Record) /\ Len(wal) >= 1
  /\ {flushed, written, sflushed, replayed, crashes} \subseteq Nat
  /\ promoted \in BOOLEAN
=============================================================================
