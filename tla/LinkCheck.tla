------------------------------ MODULE LinkCheck ------------------------------
(***************************************************************************)
(* src/pg_upgrade_link_check.py: are the old cluster's relation files hard *)
(* links in the new data directory?  The trees are walked directory by     *)
(* directory and file by file, first the old one and then the new one,     *)
(* while a running cluster may change them.                                *)
(*                                                                         *)
(* An inode stands for (st_dev, st_ino).  A relative path stands for its   *)
(* directories and its file name; of a name the program uses the text, the *)
(* number left when segment and fork are cut off, and whether it ends in   *)
(* .conf.                                                                  *)
(***************************************************************************)
EXTENDS Naturals, FiniteSets, SequencesExt

CONSTANTS
  Paths,       \* relative paths of files that may exist
  File,        \* File[p]: dirs, text, number and conf of the path p
  Inodes,      \* inodes of regular files
  Absent, Symlink, NoNumber, NoPath, NoReason,
  Situations,  \* what the program is started on
  MaxChanges   \* bound: changes of the trees during the check

FIRST_NORMAL_OID == 16384
ServerManagedDirs ==
  {"pg_wal", "pg_xlog", "pg_xact", "pg_clog", "pg_multixact", "pg_subtrans",
   "pg_commit_ts", "pg_notify", "pg_serial", "pg_snapshots", "pg_stat", "pg_stat_tmp",
   "pg_logical", "pg_replslot", "pg_twophase", "pg_dynshmem", "log", "pg_log",
   "pg_upgrade_output.d"}
ClusterFiles ==
  {"PG_VERSION", "postgresql.conf", "postgresql.auto.conf", "pg_hba.conf",
   "pg_ident.conf", "postmaster.pid", "postmaster.opts", "current_logfiles",
   "pg_internal.init", "backup_label", "backup_label.old", "tablespace_map",
   "recovery.signal", "standby.signal", "delete_old_cluster.sh",
   "analyze_new_cluster.sh", "update_extensions.sql"}
PerDbFiles   == {"PG_VERSION", "pg_filenode.map", "pg_internal.init"}

Data  == "data directory"
Space == "tablespace"
Trees == {Data, Space}
Sides == {"old", "new"}
Dirs  == {<<>>} \cup UNION {Prefixes(File[p].dirs) : p \in Paths}
Entries == Inodes \cup {Absent, Symlink}

\* tablespaces, csv: the options; isdir: both arguments are directories;
\* majors, versions: what tablespace_pairs finds, a major version (0: none) and
\* the number of version directories of it; refused: directories there that the
\* user may not read or not search; disk: the files; volatile: those that may
\* change meanwhile
SituationType ==
  [tablespaces : BOOLEAN, csv : BOOLEAN, isdir : BOOLEAN,
   majors : [Sides -> Nat], versions : [Sides -> Nat],
   refused : SUBSET (Trees \X Sides \X Dirs),
   disk : [Trees -> [Sides -> [Paths -> Entries]]], volatile : SUBSET Paths]

\* a name that leaves a number is none of the names the program knows
ASSUME PathAssumption ==
  \A p \in Paths :
    /\ File[p].dirs \in Seq(STRING) /\ File[p].number \in Nat \cup {NoNumber}
    /\ File[p].number # NoNumber => File[p].text \notin PerDbFiles \cup {"pgsql_tmp"}
ASSUME EntryAssumption ==
  Absent \notin Inodes /\ Symlink \notin Inodes /\ NoPath \notin Paths
ASSUME SituationAssumption == Situations \subseteq SituationType
ASSUME ChangeAssumption == MaxChanges \in Nat

VARIABLES
  start,    \* the situation the program was started in; never changes
  disk,     \* the trees now
  touched,  \* history: the entries changed since
  phase,    \* what the program does next
  trees,    \* trees still to be compared, the first one being scanned
  side,     \* which side of it
  dirs,     \* directories os.walk has not visited yet
  names,    \* files of the current directory still to be stat'ed
  found,    \* files: what lstat returned, for both sides of the tree
  errors,   \* errors: where listing or lstat failed
  rows,     \* all_rows
  exit      \* exit status, or NoExit

checkVars == <<start, disk, touched, phase, trees, side, dirs, names, found, errors, rows, exit>>
walkVars == <<trees, side, dirs, names, found, errors>>

NoExit  == 3
NoFiles == [s \in Sides |-> [p \in Paths |-> Absent]]

CheckInit ==
  /\ start \in Situations
  /\ disk = start.disk
  /\ touched = {}
  /\ phase = "isdir"
  /\ trees = <<>> /\ side = "old" /\ dirs = {} /\ names = {}
  /\ found = NoFiles
  /\ errors = {} /\ rows = {}
  /\ exit = NoExit

-----------------------------------------------------------------------------
(* expected_reason                                                         *)

Top(p)   == IF File[p].dirs = <<>> THEN File[p].text ELSE File[p].dirs[1]
Parts(p) == {File[p].dirs[i] : i \in DOMAIN File[p].dirs} \cup {File[p].text}

\* Mutated form of IsCatalog: off by one.
IsCatalogOrFirst(p) == File[p].number # NoNumber /\ File[p].number <= FIRST_NORMAL_OID

\* a relation file of the system catalogs, by its relfilenode
IsCatalog(p) == File[p].number # NoNumber /\ File[p].number < FIRST_NORMAL_OID

ExpectedReason(p, tree) ==
  IF "pgsql_tmp" \in Parts(p) THEN "temporary"
  ELSE IF File[p].text \in PerDbFiles THEN "per-database"
  ELSE IF tree = Data /\ Top(p) \in ServerManagedDirs THEN "server-managed"
  ELSE IF tree = Data /\ Top(p) = "global" THEN "shared"
  ELSE IF tree = Data /\ File[p].dirs = <<>>
    THEN IF File[p].text \in ClusterFiles \/ File[p].conf THEN "configuration" ELSE NoReason
  ELSE IF tree = Data /\ Top(p) # "base" THEN NoReason
  ELSE IF IsCatalog(p) THEN "catalog" ELSE NoReason

-----------------------------------------------------------------------------
(* main, tablespace_pairs                                                  *)

Exits(status) == phase' = "exit" /\ exit' = status

NotDirectories ==
  /\ phase = "isdir" /\ ~start.isdir
  /\ Exits(2)
  /\ UNCHANGED <<start, disk, touched, walkVars, rows>>

Directories ==
  /\ phase = "isdir" /\ start.isdir
  /\ phase' = "pairs"
  /\ UNCHANGED <<start, disk, touched, walkVars, rows, exit>>

\* the version directories of a tablespace are compared if they can be told
\* apart, and are skipped with a warning otherwise
Paired ==
  /\ start.tablespaces
  /\ 0 \notin {start.majors["old"], start.majors["new"]}
  /\ start.majors["old"] # start.majors["new"]
  /\ start.versions = [s \in Sides |-> 1]

\* scan begins to walk the first tree's given side
Scans(queue, s) ==
  /\ phase' = "list"
  /\ trees' = queue /\ side' = s
  /\ dirs' = {<<>>}
  /\ names' = {}

TreesChosen ==
  /\ phase = "pairs"
  /\ Scans(IF Paired THEN <<Data, Space>> ELSE <<Data>>, "old")
  /\ UNCHANGED <<start, disk, touched, found, errors, rows, exit>>

-----------------------------------------------------------------------------
(* scan                                                                    *)

Here(d)  == <<trees[1], side, d>>
Error(d, p) == [tree |-> trees[1], side |-> side, dirs |-> d, path |-> p]
Present(p)  == disk[trees[1]][side][p] # Absent
Files(d)    == {p \in Paths : File[p].dirs = d /\ Present(p)}

\* the directories right below d
Subdirs(d) ==
  { e \in Dirs : /\ Len(e) = Len(d) + 1 /\ d \in Prefixes(e)
                 /\ Here(e) \in start.refused
                      \/ \E p \in Paths : Present(p) /\ e \in Prefixes(File[p].dirs) }

\* a directory above d is refused: it could be listed but not searched
Unreachable(d) == \E e \in Prefixes(d) \ {d} : Here(e) \in start.refused

\* someone has removed d and what was below it
Removed(d) ==
  /\ \A p \in Paths : d \in Prefixes(File[p].dirs) => ~Present(p)
  /\ \E p \in Paths : d \in Prefixes(File[p].dirs) /\ <<trees[1], side, p>> \in touched

\* one round of os.walk, top down; of a refused directory at least the names can
\* be read, or DirRefused is the step
DirListed(d) ==
  /\ phase = "list" /\ d \in dirs
  /\ ~Unreachable(d)
  /\ dirs' = (dirs \ {d}) \cup Subdirs(d)
  /\ names' = Files(d)
  /\ phase' = "stat"
  /\ UNCHANGED <<start, disk, touched, trees, side, found, errors, rows, exit>>

\* Mutated form of DirRefused: os.walk without onerror.
DirRefusedSilently(d) ==
  /\ phase = "list" /\ d \in dirs
  /\ Here(d) \in start.refused \/ Unreachable(d) \/ Removed(d)
  /\ dirs' = dirs \ {d}
  /\ UNCHANGED <<start, disk, touched, phase, trees, side, names, found, errors, rows, exit>>

\* on_error: os.walk goes on without the directory and all that is below it
DirRefused(d) ==
  /\ phase = "list" /\ d \in dirs
  /\ Here(d) \in start.refused \/ Unreachable(d) \/ Removed(d)
  /\ dirs' = dirs \ {d}
  /\ errors' = errors \cup {Error(d, NoPath)}
  /\ UNCHANGED <<start, disk, touched, phase, trees, side, names, found, rows, exit>>

\* Mutated form of InodeKept: whatever lstat returned.
EntryKept(entry) == entry

\* regular files are kept, symbolic links are not followed
InodeKept(entry) == IF entry \in Inodes THEN entry ELSE Absent

\* lstat; the file may be gone by now
FileStated(p) ==
  /\ phase = "stat" /\ p \in names
  /\ names' = names \ {p}
  /\ LET entry  == disk[trees[1]][side][p]
         failed == entry = Absent \/ Here(File[p].dirs) \in start.refused
     IN  IF failed THEN errors' = errors \cup {Error(File[p].dirs, p)} /\ UNCHANGED found
                   ELSE found' = [found EXCEPT ![side][p] = InodeKept(entry)] /\ UNCHANGED errors
  /\ UNCHANGED <<start, disk, touched, phase, trees, side, dirs, rows, exit>>

\* between lstat and readlink a symbolic link goes away; nobody catches that
LinkGone(p) ==
  /\ phase = "stat" /\ p \in names \cap start.volatile
  /\ disk[trees[1]][side][p] = Symlink /\ Here(File[p].dirs) \notin start.refused
  /\ Cardinality(touched) < MaxChanges
  /\ disk' = [disk EXCEPT ![trees[1]][side][p] = Absent]
  /\ touched' = touched \cup {<<trees[1], side, p>>}
  /\ phase' = "uncaught" /\ exit' = 1
  /\ UNCHANGED <<start, walkVars, rows>>

DirDone ==
  /\ phase = "stat" /\ names = {}
  /\ phase' = "list"
  /\ UNCHANGED <<start, disk, touched, walkVars, rows, exit>>

SideDone ==
  /\ phase = "list" /\ dirs = {}
  /\ IF side = "old" THEN Scans(trees, "new")
                     ELSE phase' = "compare" /\ UNCHANGED <<trees, side, dirs, names>>
  /\ UNCHANGED <<start, disk, touched, found, errors, rows, exit>>

-----------------------------------------------------------------------------
(* compare_trees, report                                                   *)

Category(p, old, new) ==
  CASE new[p] = old[p] -> "LINKED"
    [] new[p] \notin {old[p], Absent} -> "COPY"
    [] new[p] = Absent /\ (\E q \in Paths : new[q] = old[p]) -> "LINKED_ELSEWHERE"
    [] OTHER -> "MISSING"

Row(p) ==
  [tree |-> trees[1], path |-> p, category |-> Category(p, found["old"], found["new"]),
   reason |-> ExpectedReason(p, trees[1])]

Compared ==
  /\ phase = "compare"
  /\ rows' = rows \cup {Row(p) : p \in {q \in Paths : found["old"][q] # Absent}}
  /\ found' = NoFiles
  /\ IF Len(trees) > 1
       THEN Scans(Tail(trees), "old")
       ELSE phase' = "csv" /\ trees' = <<>> /\ UNCHANGED <<side, dirs, names>>
  /\ UNCHANGED <<start, disk, touched, errors, exit>>

\* what report counts
Unexpected == {r \in rows : r.category \in {"COPY", "MISSING"} /\ r.reason = NoReason}

ResultPrinted ==
  /\ phase = "csv"
  /\ Exits(IF Unexpected = {} THEN 0 ELSE 1)
  /\ UNCHANGED <<start, disk, touched, walkVars, rows>>

\* an OSError nobody catches: pg_tblspc may not be listed, the CSV file not be
\* written; Python exits with 1
UncaughtError ==
  /\ \/ phase = "pairs" /\ start.tablespaces
     \/ phase = "csv" /\ start.csv
  /\ phase' = "uncaught" /\ exit' = 1
  /\ UNCHANGED <<start, disk, touched, walkVars, rows>>

\* a cluster runs, or someone cleans up: a file is made, replaced or removed
Changes ==
  /\ phase \in {"list", "stat"}
  /\ Cardinality(touched) < MaxChanges
  /\ \E t \in {trees[i] : i \in DOMAIN trees}, s \in Sides, p \in start.volatile,
        entry \in Entries :
       /\ disk[t][s][p] # entry
       /\ disk' = [disk EXCEPT ![t][s][p] = entry]
       /\ touched' = touched \cup {<<t, s, p>>}
  /\ UNCHANGED <<start, phase, walkVars, rows, exit>>

CheckOver == phase \in {"exit", "uncaught"} /\ UNCHANGED checkVars

CheckNext ==
  \/ NotDirectories \/ Directories \/ TreesChosen
  \/ \E d \in Dirs : DirListed(d) \/ DirRefused(d)
  \/ \E p \in Paths : FileStated(p) \/ LinkGone(p)
  \/ DirDone \/ SideDone \/ Compared \/ ResultPrinted \/ UncaughtError
  \/ Changes \/ CheckOver

CheckSpec == CheckInit /\ [][CheckNext]_checkVars

-----------------------------------------------------------------------------
\* Every variable has the shape the program gives it.
CheckTypeOK ==
  /\ start \in SituationType
  /\ disk \in [Trees -> [Sides -> [Paths -> Entries]]]
  /\ touched \subseteq Trees \X Sides \X Paths
  /\ phase \in {"isdir", "pairs", "list", "stat", "compare", "csv", "exit", "uncaught"}
  /\ trees \in {<<>>, <<Data>>, <<Space>>, <<Data, Space>>} /\ side \in Sides
  /\ dirs \subseteq Dirs /\ names \subseteq Paths
  /\ found \in [Sides -> [Paths -> Inodes \cup {Absent}]]
  /\ errors \subseteq [tree : Trees, side : Sides, dirs : Dirs, path : Paths \cup {NoPath}]
  /\ rows \subseteq
       [tree : Trees, path : Paths,
        category : {"LINKED", "LINKED_ELSEWHERE", "COPY", "MISSING"},
        reason : {NoReason, "temporary", "per-database", "server-managed", "shared",
                  "configuration", "catalog"}]
  /\ exit \in {0, 1, 2, NoExit} /\ (exit = NoExit <=> phase \notin {"exit", "uncaught"})

\* what the program promises to compare
Examined == {Data} \cup (IF Paired THEN {Space} ELSE {})
OldFiles(t) == {p \in Paths : disk[t]["old"][p] \in Inodes}

\* what pg_upgrade --link links: files base/<database>/<relfilenode>, below a
\* tablespace's version directory <database>/<relfilenode>
IsUserRelation(p, t) ==
  /\ File[p].number # NoNumber /\ File[p].number >= FIRST_NORMAL_OID
  /\ IF t = Data THEN Len(File[p].dirs) = 2 /\ File[p].dirs[1] = "base" ELSE Len(File[p].dirs) = 1
  /\ File[p].dirs[Len(File[p].dirs)] # "pgsql_tmp"

\* Exit status 0 is a clean bill: if all could be read and nobody interfered, the
\* new tree holds every user relation file of the old one as a link.
UserRelationsLinked ==
  exit = 0 /\ errors = {} /\ touched = {} =>
    \A t \in Examined : \A p \in OldFiles(t) :
      IsUserRelation(p, t) => \E q \in Paths : disk[t]["new"][q] = disk[t]["old"][p]

\* A file that nobody touches is in exactly one row of its tree, and in the right
\* one, whatever happens to other files while the trees are walked; unless an
\* error is reported for it or for a directory on its path.
UntouchedJudgedRight ==
  phase \in {"csv", "exit"} /\ exit # 2 =>
    \A t \in Examined : \A p \in OldFiles(t) :
      LET old  == disk[t]["old"][p]
          new  == disk[t]["new"][p]
          mine == {r \in rows : r.tree = t /\ r.path = p}
          readable == \A e \in errors : e.tree = t =>
                        e.path # p /\ (e.path = NoPath => e.dirs \notin Prefixes(File[p].dirs))
      IN  readable /\ touched \cap ({t} \X Sides \X {p}) = {} =>
            /\ Cardinality(mine) = 1
            /\ \A r \in mine : r.category \in
                 IF new = old THEN {"LINKED"}
                 ELSE IF new \in Inodes THEN {"COPY"} ELSE {"LINKED_ELSEWHERE", "MISSING"}

\* The header of the script: "Exit status: ... 2 = usage/IO error".
ErrorsAreReported == phase = "exit" /\ errors # {} => exit = 2
=============================================================================
