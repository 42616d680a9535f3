--------------------------- MODULE LinkCheckProofs ---------------------------
(***************************************************************************)
(* Theorems about LinkCheck, for all trees, path names, options, refused   *)
(* directories and changes of the trees while they are walked.             *)
(***************************************************************************)
EXTENDS LinkCheck, FiniteSetTheorems, SequenceTheorems, TLAPS

USE PathAssumption, EntryAssumption, SituationAssumption, ChangeAssumption

\* The two kinds of trees have different labels.
LEMMA LabelsDiffer == Data # Space
  BY Zenon DEF Data, Space

\* What lies between the root of a tree and a file's directory: the root, the
\* directory, and next to each of them but the last one that is right below it.
LEMMA PathToFile ==
  ASSUME NEW p \in Paths
  PROVE  /\ <<>> \in Prefixes(File[p].dirs) /\ File[p].dirs \in Prefixes(File[p].dirs)
         /\ Prefixes(File[p].dirs) \subseteq Dirs
         /\ \A d \in Prefixes(File[p].dirs) : d = File[p].dirs \/
              \E e \in Prefixes(File[p].dirs) : Len(e) = Len(d) + 1 /\ d \in Prefixes(e)
<1> PICK path : path = File[p].dirs
  OBVIOUS
<1>1. path \in Seq(STRING) /\ Len(path) \in Nat
  OBVIOUS
<1>2. SubSeq(path, 1, 0) = <<>> /\ SubSeq(path, 1, Len(path)) = path
  BY <1>1
<1>3. <<>> \in Prefixes(path) /\ path \in Prefixes(path)
  BY <1>1, <1>2 DEF Prefixes
<1>4. ASSUME NEW l \in 0..Len(path), l # Len(path)
      PROVE  \E e \in Prefixes(path) :
               Len(e) = Len(SubSeq(path, 1, l)) + 1 /\ SubSeq(path, 1, l) \in Prefixes(e)
  <2> DEFINE e == SubSeq(path, 1, l + 1)
  <2>1. e \in Seq(STRING) /\ Len(e) = l + 1 /\ \A i \in 1..(l + 1) : e[i] = path[i]
    BY <1>1, <1>4
  <2>2. Len(SubSeq(path, 1, l)) = l /\ \A i \in 1..l : SubSeq(path, 1, l)[i] = path[i]
    BY <1>1
  <2> HIDE DEF e
  <2>3. SubSeq(e, 1, l) = SubSeq(path, 1, l)
    BY <1>1, <1>4, <2>1, <2>2
  <2>4. SubSeq(path, 1, l) \in Prefixes(e)
    BY <1>1, <2>1, <2>3 DEF Prefixes
  <2>5. e \in Prefixes(path)
    BY <1>1, <1>4 DEF Prefixes, e
  <2> QED
    BY <2>1, <2>2, <2>4, <2>5
<1>5. \A d \in Prefixes(path) : d = path \/
        \E e \in Prefixes(path) : Len(e) = Len(d) + 1 /\ d \in Prefixes(e)
  <2> SUFFICES ASSUME NEW d \in Prefixes(path), d # path
               PROVE  \E e \in Prefixes(path) : Len(e) = Len(d) + 1 /\ d \in Prefixes(e)
    OBVIOUS
  <2>1. PICK l \in 0..Len(path) : d = SubSeq(path, 1, l)
    BY Zenon DEF Prefixes
  <2> QED
    BY Zenon, <1>2, <1>4, <2>1
<1> QED
  BY <1>3, <1>5 DEF Dirs

-----------------------------------------------------------------------------
(***************************************************************************)
(* The order of the walk: which trees are still to be compared at each     *)
(* step, and that a directory's files are stat'ed before the next one is   *)
(* listed.                                                                 *)
(***************************************************************************)
Walking  == {"list", "stat", "compare"}
Queue    == IF Paired THEN <<Data, Space>> ELSE <<Data>>

OrderInv ==
  /\ phase \in Walking => trees = Queue \/ (Paired /\ trees = <<Space>>)
  /\ phase \notin Walking \cup {"uncaught"} => trees = <<>>
  /\ phase \notin {"stat", "uncaught"} => names = {}

\* What a scan, a comparison and a reason give.
LEMMA ResultTypes ==
  /\ \A entry \in Entries : InodeKept(entry) \in Inodes \cup {Absent}
  /\ \A p, tree : ExpectedReason(p, tree) \in
       {NoReason, "temporary", "per-database", "server-managed", "shared",
        "configuration", "catalog"}
  /\ \A p, old, new : Category(p, old, new) \in {"LINKED", "LINKED_ELSEWHERE", "COPY", "MISSING"}
<1>1. \A entry \in Entries : InodeKept(entry) \in Inodes \cup {Absent}
  BY DEF InodeKept
<1>2. \A p, tree : ExpectedReason(p, tree) \in
       {NoReason, "temporary", "per-database", "server-managed", "shared",
        "configuration", "catalog"}
  BY DEF ExpectedReason
<1>3. \A p, old, new : Category(p, old, new) \in {"LINKED", "LINKED_ELSEWHERE", "COPY", "MISSING"}
  BY DEF Category
<1> QED
  BY <1>1, <1>2, <1>3

\* Trees and directories that a scan may begin with.
LEMMA ScanTypes ==
  ASSUME CheckTypeOK, NEW queue \in {<<Data>>, <<Space>>, <<Data, Space>>}, NEW s \in Sides,
         Scans(queue, s)
  PROVE  /\ phase' = "list" /\ trees' = queue /\ side' = s /\ side' \in Sides
         /\ trees' \in {<<>>, <<Data>>, <<Space>>, <<Data, Space>>}
         /\ dirs' \subseteq Dirs /\ names' \subseteq Paths /\ names' = {}
<1>1. <<>> \in Dirs
  BY DEF Dirs
<1> QED
  BY <1>1 DEF Scans

\* The tree being scanned is one of the two.
LEMMA FirstTree ==
  ASSUME OrderInv, phase \in Walking
  PROVE  /\ trees[1] \in Trees
         /\ trees \in {<<Data>>, <<Space>>, <<Data, Space>>}
         /\ trees = <<Data, Space>> <=> Len(trees) > 1
         /\ Len(trees) > 1 => Tail(trees) = <<Space>>
         /\ {trees[i] : i \in DOMAIN trees} \subseteq Trees
<1>1. trees \in {<<Data>>, <<Space>>, <<Data, Space>>}
  BY DEF OrderInv, Queue
<1>2. ASSUME NEW a \in {Data, Space}, trees = <<a>>
      PROVE  /\ trees[1] = a /\ Len(trees) = 1 /\ DOMAIN trees = {1}
  BY <1>2
<1>3. ASSUME trees = <<Data, Space>>
      PROVE  /\ trees[1] = Data /\ trees[2] = Space /\ Len(trees) = 2
             /\ DOMAIN trees = {1, 2} /\ Tail(trees) = <<Space>>
  BY <1>3
<1>4. CASE trees = <<Data>> \/ trees = <<Space>>
  <2>1. PICK a \in {Data, Space} : trees = <<a>>
    BY <1>4
  <2>2. trees[1] = a /\ Len(trees) = 1 /\ DOMAIN trees = {1}
    BY <1>2, <2>1
  <2>3. trees # <<Data, Space>>
    BY <1>3, <2>2
  <2> QED
    BY <1>1, <2>2, <2>3 DEF Trees
<1>5. CASE trees = <<Data, Space>>
  BY <1>1, <1>3, <1>5 DEF Trees
<1> QED
  BY <1>1, <1>4, <1>5

\* Every variable keeps its shape, and the walk its order.
LEMMA TypeStep ==
  ASSUME CheckTypeOK, OrderInv, [CheckNext]_checkVars
  PROVE  CheckTypeOK' /\ OrderInv'
<1> USE DEF CheckTypeOK, OrderInv, Walking
<1>1. CASE NotDirectories
  BY <1>1 DEF NotDirectories, Exits, walkVars, NoExit, Queue, Paired
<1>2. CASE Directories
  BY <1>2 DEF Directories, walkVars, NoExit, Queue, Paired
<1>3. CASE TreesChosen
  <2> DEFINE q == Queue
  <2>1. q \in {<<Data>>, <<Space>>, <<Data, Space>>} /\ "old" \in Sides
    BY DEF Queue, Sides
  <2>2. Scans(q, "old")
    BY <1>3 DEF TreesChosen, Queue
  <2> HIDE DEF q
  <2>3. /\ phase' = "list" /\ trees' = q /\ side' \in Sides
        /\ trees' \in {<<>>, <<Data>>, <<Space>>, <<Data, Space>>}
        /\ dirs' \subseteq Dirs /\ names' \subseteq Paths /\ names' = {}
    BY <2>1, <2>2, ScanTypes
  <2>4. Queue' = q /\ phase = "pairs"
    BY <1>3 DEF TreesChosen, Queue, Paired, q
  <2> QED
    BY <1>3, <2>3, <2>4 DEF TreesChosen, NoExit
<1>4. ASSUME NEW d \in Dirs, DirListed(d) PROVE CheckTypeOK' /\ OrderInv'
  <2>1. phase = "list" /\ phase' = "stat"
    BY <1>4 DEF DirListed
  <2>2. names' \subseteq Paths /\ dirs' \subseteq Dirs
    BY <1>4 DEF DirListed, Files, Subdirs
  <2> QED
    BY <1>4, <2>1, <2>2 DEF DirListed, NoExit, Queue, Paired
<1>5. ASSUME NEW d \in Dirs, DirRefused(d) PROVE CheckTypeOK' /\ OrderInv'
  <2>1. trees[1] \in Trees /\ phase = "list" /\ phase' = "list"
    BY <1>5, FirstTree DEF DirRefused
  <2>2. dirs' \subseteq Dirs
    BY <1>5 DEF DirRefused
  <2>3. errors' \subseteq [tree : Trees, side : Sides, dirs : Dirs, path : Paths \cup {NoPath}]
    BY <1>5, <2>1 DEF DirRefused, Error
  <2> QED
    BY <1>5, <2>1, <2>2, <2>3 DEF DirRefused, NoExit, Queue, Paired
<1>6. ASSUME NEW p \in Paths, FileStated(p) PROVE CheckTypeOK' /\ OrderInv'
  <2> DEFINE entry == disk[trees[1]][side][p]
  <2>1. trees[1] \in Trees /\ phase = "stat" /\ phase' = "stat" /\ entry \in Entries
    BY <1>6, FirstTree DEF FileStated
  <2>2. names' \subseteq Paths
    BY <1>6 DEF FileStated
  <2>3. File[p].dirs \in Dirs
    BY PathToFile
  <2>4. errors' \subseteq [tree : Trees, side : Sides, dirs : Dirs, path : Paths \cup {NoPath}]
    BY <1>6, <2>1, <2>3 DEF FileStated, Error
  <2>5. InodeKept(entry) \in Inodes \cup {Absent}
    BY <2>1, ResultTypes
  <2>6. found' \in [Sides -> [Paths -> Inodes \cup {Absent}]]
    <3>1. found' = found \/ found' = [found EXCEPT ![side][p] = InodeKept(entry)]
      BY <1>6 DEF FileStated
    <3> DEFINE k == InodeKept(entry)
    <3>2. found' = found \/ found' = [found EXCEPT ![side][p] = k]
      BY <3>1
    <3>3. k \in Inodes \cup {Absent} /\ side \in Sides
          /\ found \in [Sides -> [Paths -> Inodes \cup {Absent}]]
      BY <2>5
    <3> HIDE DEF entry, k, CheckTypeOK
    <3>4. CASE found' = [found EXCEPT ![side][p] = k]
      BY <3>3, <3>4
    <3> QED
      BY <3>2, <3>3, <3>4
  <2> QED
    BY <1>6, <2>1, <2>2, <2>4, <2>6 DEF FileStated, NoExit, Queue, Paired
<1>7. ASSUME NEW p \in Paths, LinkGone(p) PROVE CheckTypeOK' /\ OrderInv'
  <2>1. trees[1] \in Trees /\ phase = "stat" /\ phase' = "uncaught" /\ exit' = 1
    BY <1>7, FirstTree DEF LinkGone
  <2>2. /\ disk' \in [Trees -> [Sides -> [Paths -> Entries]]]
        /\ touched' \subseteq Trees \X Sides \X Paths
    BY <1>7, <2>1 DEF LinkGone, Entries
  <2> QED
    BY <1>7, <2>1, <2>2 DEF LinkGone, walkVars, NoExit
<1>8. CASE DirDone
  BY <1>8 DEF DirDone, walkVars, NoExit, Queue, Paired
<1>9. CASE SideDone
  <2>1. trees \in {<<Data>>, <<Space>>, <<Data, Space>>} /\ phase = "list" /\ "new" \in Sides
    BY <1>9, FirstTree DEF SideDone, Sides
  <2>2. CASE side = "old"
    <3>1. Scans(trees, "new")
      BY <1>9, <2>2 DEF SideDone
    <3>2. /\ phase' = "list" /\ trees' = trees /\ side' \in Sides
          /\ dirs' \subseteq Dirs /\ names' \subseteq Paths /\ names' = {}
      BY <2>1, <3>1, ScanTypes
    <3> QED
      BY <1>9, <2>1, <3>2 DEF SideDone, NoExit, Queue, Paired
  <2>3. CASE side # "old"
    BY <1>9, <2>1, <2>3 DEF SideDone, NoExit, Queue, Paired
  <2> QED
    BY <2>2, <2>3
<1>10. CASE Compared
  <2>1. /\ trees \in {<<Data>>, <<Space>>, <<Data, Space>>} /\ phase = "compare"
        /\ trees[1] \in Trees /\ "old" \in Sides
    BY <1>10, FirstTree DEF Compared, Sides
  <2>2. \A p \in Paths : Row(p) \in
       [tree : Trees, path : Paths,
        category : {"LINKED", "LINKED_ELSEWHERE", "COPY", "MISSING"},
        reason : {NoReason, "temporary", "per-database", "server-managed", "shared",
                  "configuration", "catalog"}]
    BY <2>1, ResultTypes DEF Row
  <2>3. rows' = rows \cup {Row(p) : p \in {q \in Paths : found["old"][q] # Absent}}
    BY <1>10 DEF Compared
  <2>4. rows' \subseteq
       [tree : Trees, path : Paths,
        category : {"LINKED", "LINKED_ELSEWHERE", "COPY", "MISSING"},
        reason : {NoReason, "temporary", "per-database", "server-managed", "shared",
                  "configuration", "catalog"}]
    BY <2>2, <2>3
  <2>5. found' \in [Sides -> [Paths -> Inodes \cup {Absent}]]
    BY <1>10 DEF Compared, NoFiles
  <2>6. CASE Len(trees) > 1
    <3>1. Tail(trees) = <<Space>> /\ trees = <<Data, Space>>
      BY <2>1, <2>6, FirstTree
    <3>2. Scans(<<Space>>, "old")
      BY <1>10, <2>6, <3>1 DEF Compared
    <3>3. /\ phase' = "list" /\ trees' = <<Space>> /\ side' \in Sides
          /\ dirs' \subseteq Dirs /\ names' \subseteq Paths /\ names' = {}
      BY <2>1, <3>2, ScanTypes
    <3>4. Paired /\ Paired' = Paired
      BY <1>10, <2>1, <3>1 DEF Compared, Queue, Paired
    <3> QED
      BY <1>10, <2>1, <2>4, <2>5, <3>3, <3>4 DEF Compared, NoExit
  <2>7. CASE ~(Len(trees) > 1)
    BY <1>10, <2>1, <2>4, <2>5, <2>7 DEF Compared, NoExit
  <2> QED
    BY <2>6, <2>7
<1>11. CASE ResultPrinted
  BY <1>11 DEF ResultPrinted, Exits, walkVars, NoExit
<1>12. CASE UncaughtError
  BY <1>12 DEF UncaughtError, walkVars, NoExit
<1>13. CASE Changes
  <2>1. PICK t \in {trees[i] : i \in DOMAIN trees}, s \in Sides, p \in start.volatile,
              entry \in Entries :
          /\ disk' = [disk EXCEPT ![t][s][p] = entry]
          /\ touched' = touched \cup {<<t, s, p>>}
    BY <1>13 DEF Changes
  <2>3. t \in Trees
    BY <1>13, <2>1, FirstTree DEF Changes
  <2>4. p \in Paths
    BY <2>1 DEF SituationType
  <2>5. /\ disk' \in [Trees -> [Sides -> [Paths -> Entries]]]
        /\ touched' \subseteq Trees \X Sides \X Paths
    BY <2>1, <2>3, <2>4
  <2> QED
    BY <1>13, <2>5 DEF Changes, walkVars, NoExit, Queue, Paired
<1>14. CASE CheckOver \/ UNCHANGED checkVars
  BY <1>14 DEF CheckOver, checkVars, NoExit, Queue, Paired
<1> QED
  BY <1>1, <1>2, <1>3, <1>4, <1>5, <1>6, <1>7, <1>8, <1>9, <1>10, <1>11, <1>12, <1>13, <1>14
  DEF CheckNext

\* The variables before the first step.
LEMMA TypeInit == ASSUME CheckInit PROVE CheckTypeOK /\ OrderInv
<1>1. start \in SituationType /\ disk = start.disk
  BY DEF CheckInit
<1>2. disk \in [Trees -> [Sides -> [Paths -> Entries]]]
  BY <1>1 DEF SituationType
<1>3. found \in [Sides -> [Paths -> Inodes \cup {Absent}]] /\ side \in Sides
  BY DEF CheckInit, NoFiles, Sides
<1> QED
  BY <1>1, <1>2, <1>3 DEF CheckInit, CheckTypeOK, OrderInv, Walking, NoExit

\* The shape and the order hold throughout.
LEMMA Ordered == CheckSpec => [](CheckTypeOK /\ OrderInv)
<1>1. CheckInit => CheckTypeOK /\ OrderInv
  BY TypeInit
<1>2. (CheckTypeOK /\ OrderInv) /\ [CheckNext]_checkVars => (CheckTypeOK /\ OrderInv)'
  BY TypeStep
<1> QED
  BY <1>1, <1>2, PTL DEF CheckSpec

\* pg_upgrade_link_check: every variable keeps its shape, whatever the trees.
THEOREM LinkTypesCorrect == CheckSpec => []CheckTypeOK
<1>1. CheckTypeOK /\ OrderInv => CheckTypeOK
  OBVIOUS
<1> QED
  BY <1>1, Ordered, PTL

-----------------------------------------------------------------------------
(***************************************************************************)
(* The strengthening, file by file.  ScanInv: of an entry that nobody      *)
(* touched, found holds nothing or what lstat had to return, and a         *)
(* readable one has been stat'ed, or itself or a directory on its path is  *)
(* still to come.  RowInv: a compared tree has one row of every such file, *)
(* the right one; what a row says of links holds on the disk if nothing    *)
(* was touched.                                                            *)
(***************************************************************************)
Todo == {trees[i] : i \in DOMAIN trees}
Past == phase \in Walking \cup {"csv"} \/ (phase = "exit" /\ exit # 2)
Done == {t \in Examined : Past /\ t \notin Todo}

Steady(t, s, p) == <<t, s, p>> \notin touched
Readable(t, p)  == \A e \in errors : e.tree = t =>
                     e.path # p /\ (e.path = NoPath => e.dirs \notin Prefixes(File[p].dirs))

Stated(s, p)  == found[s][p] = InodeKept(disk[trees[1]][s][p])
ToCome(s, p)  ==
  side = s /\ phase # "compare" /\ (p \in names \/ \E e \in Prefixes(File[p].dirs) : e \in dirs)

ScanInv ==
  /\ phase \in {"isdir", "pairs"} => found = NoFiles
  /\ phase = "compare" => side = "new"
  /\ phase \in Walking => \A s \in Sides, p \in Paths : Steady(trees[1], s, p) =>
       /\ found[s][p] = Absent \/ Stated(s, p)
       /\ /\ s = "old" \/ side = "new"
          /\ Readable(trees[1], p) /\ disk[trees[1]][s][p] # Absent
          => Stated(s, p) \/ ToCome(s, p)

Verdicts(t, p) ==
  IF disk[t]["new"][p] = disk[t]["old"][p] THEN {"LINKED"}
  ELSE IF disk[t]["new"][p] \in Inodes THEN {"COPY"} ELSE {"LINKED_ELSEWHERE", "MISSING"}
RowOf(t, p, c) == [tree |-> t, path |-> p, category |-> c, reason |-> ExpectedReason(p, t)]
RowsOf(t, p) == {r \in rows : r.tree = t /\ r.path = p}
IsLinkSomewhere(t, p) == \E q \in Paths : disk[t]["new"][q] = disk[t]["old"][p]

Right(r) ==
  /\ r.tree \in Examined \ Todo
  /\ r.reason = ExpectedReason(r.path, r.tree)
  /\ Steady(r.tree, "old", r.path) => r.path \in OldFiles(r.tree)
  /\ touched = {} /\ r.category \in {"LINKED", "LINKED_ELSEWHERE"}
       => IsLinkSomewhere(r.tree, r.path)

Judged(t, p) ==
  Readable(t, p) /\ (\A s \in Sides : Steady(t, s, p)) =>
    \E c \in Verdicts(t, p) : RowsOf(t, p) = {RowOf(t, p, c)}

RowInv ==
  /\ phase \in {"isdir", "pairs"} => rows = {}
  /\ \A r \in rows : Right(r)
  /\ \A t \in Done : \A p \in OldFiles(t) : Judged(t, p)

ExitInv ==
  /\ phase = "exit" /\ exit # 2 => exit = IF Unexpected = {} THEN 0 ELSE 1
  /\ phase = "uncaught" => exit = 1

LinkInv == CheckTypeOK /\ OrderInv /\ ScanInv /\ RowInv /\ ExitInv

\* A new scan has found nothing, and the root is to come.
LEMMA ScanBegins ==
  ASSUME CheckTypeOK, NEW queue \in {<<Data>>, <<Space>>, <<Data, Space>>},
         Scans(queue, "old"), disk' = disk, found' = NoFiles
  PROVE  ScanInv'
<1>1. /\ phase' = "list" /\ trees' = queue /\ side' = "old"
      /\ dirs' = {<<>>}
  BY DEF Scans
<1>2. \A s \in Sides, p \in Paths : found'[s][p] = Absent
  BY DEF NoFiles
<1>3. \A p \in Paths : \E e \in Prefixes(File[p].dirs) : e \in dirs'
  BY <1>1, PathToFile
<1> QED
  BY <1>1, <1>2, <1>3 DEF ScanInv, ToCome, Sides

\* A directory that was listed leaves its files and its directories to come.
LEMMA ListedScan ==
  ASSUME CheckTypeOK, OrderInv, ScanInv, NEW d \in Dirs, DirListed(d)
  PROVE  ScanInv'
<1>1. /\ phase = "list" /\ phase' = "stat" /\ names = {}
      /\ dirs' = (dirs \ {d}) \cup Subdirs(d) /\ names' = Files(d)
      /\ UNCHANGED <<disk, touched, trees, side, found, errors>>
  BY DEF DirListed, OrderInv
<1>2. ASSUME NEW s \in Sides, NEW p \in Paths, Steady(trees[1], s, p),
             s = "old" \/ side = "new", Readable(trees[1], p)',
             disk[trees[1]][s][p] # Absent, ~Stated(s, p)
      PROVE  ToCome(s, p)'
  <2>1. Readable(trees[1], p)
    BY <1>1, <1>2 DEF Readable
  <2>2. side = s /\ Present(p)
    BY <1>1, <1>2, <2>1 DEF ScanInv, Walking, ToCome, Present
  <2>3. PICK e \in Prefixes(File[p].dirs) : e \in dirs
    BY <1>1, <1>2, <2>1 DEF ScanInv, Walking, ToCome
  <2>4. CASE e # d
    BY <1>1, <2>2, <2>3, <2>4 DEF ToCome
  <2>5. CASE e = d /\ d = File[p].dirs
    <3>1. p \in names'
      BY <1>1, <2>2, <2>5 DEF Files
    <3> QED
      BY <1>1, <2>2, <3>1 DEF ToCome
  <2>6. CASE e = d /\ d # File[p].dirs
    <3>1. PICK f \in Prefixes(File[p].dirs) : Len(f) = Len(d) + 1 /\ d \in Prefixes(f)
      BY <2>3, <2>6, PathToFile
    <3>2. f \in Dirs
      BY PathToFile
    <3>3. f \in Subdirs(d)
      BY <2>2, <3>1, <3>2 DEF Subdirs
    <3> QED
      BY <1>1, <2>2, <3>3 DEF ToCome
  <2> QED
    BY <2>4, <2>5, <2>6
<1> QED
  BY <1>1, <1>2 DEF ScanInv, Walking, Steady, Stated

\* Nothing below a directory that was refused is readable.
LEMMA RefusedScan ==
  ASSUME CheckTypeOK, OrderInv, ScanInv, NEW d \in Dirs, DirRefused(d)
  PROVE  ScanInv'
<1>1. /\ phase = "list" /\ phase' = "list" /\ dirs' = dirs \ {d}
      /\ errors' = errors \cup {Error(d, NoPath)}
      /\ UNCHANGED <<disk, touched, trees, side, found, names>>
  BY DEF DirRefused
<1>2. ASSUME NEW s \in Sides, NEW p \in Paths, Steady(trees[1], s, p),
             s = "old" \/ side = "new", Readable(trees[1], p)',
             disk[trees[1]][s][p] # Absent, ~Stated(s, p)
      PROVE  ToCome(s, p)'
  <2>1. Readable(trees[1], p)
    BY <1>1, <1>2 DEF Readable
  <2>2. ToCome(s, p)
    BY <1>1, <1>2, <2>1 DEF ScanInv, Walking
  <2>3. Error(d, NoPath) \in errors' /\ trees'[1] = trees[1]
    BY <1>1
  <2>4. d \notin Prefixes(File[p].dirs)
    BY <1>2, <2>3 DEF Readable, Error
  <2> QED
    BY <1>1, <2>2, <2>4 DEF ToCome
<1> QED
  BY <1>1, <1>2 DEF ScanInv, Walking, Steady, Stated

\* A file that was stat'ed is found as it is, or is not readable.
LEMMA StatedScan ==
  ASSUME CheckTypeOK, OrderInv, ScanInv, NEW f \in Paths, FileStated(f)
  PROVE  ScanInv'
<1> DEFINE entry == disk[trees[1]][side][f]
<1>1. /\ phase = "stat" /\ phase' = "stat" /\ names' = names \ {f}
      /\ UNCHANGED <<disk, touched, trees, side, dirs>>
      /\ \/ errors' = errors \cup {Error(File[f].dirs, f)} /\ found' = found
         \/ found' = [found EXCEPT ![side][f] = InodeKept(entry)] /\ errors' = errors
  BY DEF FileStated
<1>2. \A s \in Sides, p \in Paths : Steady(trees[1], s, p) =>
       /\ found[s][p] = Absent \/ Stated(s, p)
       /\ /\ s = "old" \/ side = "new"
          /\ Readable(trees[1], p) /\ disk[trees[1]][s][p] # Absent
          => Stated(s, p) \/ ToCome(s, p)
  BY <1>1 DEF ScanInv, Walking
<1>3. CASE errors' = errors \cup {Error(File[f].dirs, f)} /\ found' = found
  <2>1. \A s \in Sides, p \in Paths : Stated(s, p)' <=> Stated(s, p)
    BY <1>1, <1>3 DEF Stated
  <2>2. ASSUME NEW s \in Sides, NEW p \in Paths, Readable(trees[1], p)', ToCome(s, p)
        PROVE  Readable(trees[1], p) /\ ToCome(s, p)'
    <3>1. Error(File[f].dirs, f) \in errors' /\ trees'[1] = trees[1]
      BY <1>1, <1>3
    <3>2. p # f
      BY <2>2, <3>1 DEF Readable, Error
    <3> QED
      BY <1>1, <1>3, <2>2, <3>2 DEF Readable, ToCome
  <2>3. \A p \in Paths : Readable(trees[1], p)' => Readable(trees[1], p)
    BY <1>1, <1>3 DEF Readable
  <2> QED
    BY <1>1, <1>2, <1>3, <2>1, <2>2, <2>3 DEF ScanInv, Walking, Steady
<1>4. CASE found' = [found EXCEPT ![side][f] = InodeKept(entry)] /\ errors' = errors
  <2>1. Stated(side, f)'
    <3>1. found'[side][f] = InodeKept(entry)
      BY <1>4 DEF CheckTypeOK
    <3> QED
      BY <1>1, <3>1 DEF Stated
  <2>2. ASSUME NEW s \in Sides, NEW p \in Paths, s # side \/ p # f
        PROVE  /\ found'[s][p] = found[s][p] /\ (Stated(s, p)' <=> Stated(s, p))
               /\ ToCome(s, p) => ToCome(s, p)'
    <3>1. found'[s][p] = found[s][p]
      BY <1>4, <2>2 DEF CheckTypeOK
    <3> QED
      BY <1>1, <2>2, <3>1 DEF Stated, ToCome
  <2>3. \A p \in Paths : Readable(trees[1], p)' <=> Readable(trees[1], p)
    BY <1>1, <1>4 DEF Readable
  <2> QED
    BY <1>1, <1>2, <2>1, <2>2, <2>3 DEF ScanInv, Walking, Steady
<1> QED
  BY <1>1, <1>3, <1>4

\* When a side is done all its files are stat'ed, and those of the next to come.
LEMMA SideScan ==
  ASSUME CheckTypeOK, OrderInv, ScanInv, SideDone
  PROVE  ScanInv'
<1>1. /\ phase = "list" /\ dirs = {} /\ names = {}
      /\ UNCHANGED <<disk, touched, found, errors>>
  BY DEF SideDone, OrderInv
<1>2. \A s \in Sides, p \in Paths : ~ToCome(s, p)
  BY <1>1 DEF ToCome
<1>3. CASE side = "old"
  <2>1. /\ phase' = "list" /\ trees' = trees /\ side' = "new"
        /\ dirs' = {<<>>}
    BY <1>3 DEF SideDone, Scans
  <2>2. \A p \in Paths : ToCome("new", p)'
    BY <2>1, PathToFile DEF ToCome
  <2>3. \A s \in Sides, p \in Paths :
          /\ Stated(s, p)' <=> Stated(s, p)
          /\ Readable(trees[1], p)' <=> Readable(trees[1], p)
          /\ Steady(trees[1], s, p)' <=> Steady(trees[1], s, p)
    BY <1>1, <2>1 DEF Stated, Readable, Steady
  <2> QED
    BY <1>1, <1>2, <2>1, <2>2, <2>3 DEF ScanInv, Walking, Sides
<1>4. CASE side # "old"
  <2>1. phase' = "compare" /\ UNCHANGED <<trees, side>> /\ side = "new"
    BY <1>4 DEF SideDone, CheckTypeOK, Sides
  <2>2. \A s \in Sides, p \in Paths :
          /\ Stated(s, p)' <=> Stated(s, p)
          /\ Readable(trees[1], p)' <=> Readable(trees[1], p)
          /\ Steady(trees[1], s, p)' <=> Steady(trees[1], s, p)
    BY <1>1, <2>1 DEF Stated, Readable, Steady
  <2> QED
    BY <1>1, <1>2, <2>1, <2>2 DEF ScanInv, Walking
<1> QED
  BY <1>3, <1>4

\* An entry that is changed is touched: what was found of the others stays right.
LEMMA ChangeKeeps ==
  ASSUME CheckTypeOK, OrderInv, Changes
  PROVE  /\ touched \subseteq touched' /\ touched' # {}
         /\ UNCHANGED <<start, phase, walkVars, rows, exit>>
         /\ \A u \in Trees \ Todo : disk'[u] = disk[u]
         /\ \A u \in Trees, s \in Sides, p \in Paths :
              Steady(u, s, p)' => Steady(u, s, p) /\ disk'[u][s][p] = disk[u][s][p]
<1>1. PICK t \in Todo, s \in Sides, p \in start.volatile, entry \in Entries :
        /\ disk' = [disk EXCEPT ![t][s][p] = entry]
        /\ touched' = touched \cup {<<t, s, p>>}
  BY DEF Changes, Todo
<1>2. t \in Trees /\ p \in Paths
  BY <1>1, FirstTree DEF Changes, Todo, Walking, CheckTypeOK, SituationType
<1>3. \A u \in Trees \ Todo : disk'[u] = disk[u]
  BY <1>1, <1>2 DEF CheckTypeOK
<1>4. \A u \in Trees, r \in Sides, q \in Paths :
        Steady(u, r, q)' => Steady(u, r, q) /\ disk'[u][r][q] = disk[u][r][q]
  <2> SUFFICES ASSUME NEW u \in Trees, NEW r \in Sides, NEW q \in Paths, Steady(u, r, q)'
               PROVE  Steady(u, r, q) /\ disk'[u][r][q] = disk[u][r][q]
    OBVIOUS
  <2>1. Steady(u, r, q) /\ <<u, r, q>> # <<t, s, p>>
    BY <1>1 DEF Steady
  <2>2. u # t \/ r # s \/ q # p
    BY <2>1
  <2>3. disk \in [Trees -> [Sides -> [Paths -> Entries]]]
    BY DEF CheckTypeOK
  <2>4. disk'[u][r][q] = disk[u][r][q]
    BY <1>1, <1>2, <2>2, <2>3
  <2> QED
    BY <2>1, <2>4
<1> QED
  BY <1>1, <1>3, <1>4 DEF Changes

\* So with a symbolic link that goes away while it is looked at.
LEMMA LinkGoneKeeps ==
  ASSUME CheckTypeOK, OrderInv, NEW p \in Paths, LinkGone(p)
  PROVE  /\ touched \subseteq touched' /\ UNCHANGED <<start, walkVars, rows>>
         /\ \A u \in Trees \ Todo : disk'[u] = disk[u]
<1>1. trees[1] \in Todo /\ trees[1] \in Trees
  BY FirstTree DEF LinkGone, Todo, Walking
<1> QED
  BY <1>1 DEF LinkGone, CheckTypeOK

\* Whatever the next step is, what was found stays right.
LEMMA ScanStep ==
  ASSUME CheckTypeOK, OrderInv, ScanInv, [CheckNext]_checkVars
  PROVE  ScanInv'
<1>1. CASE NotDirectories \/ Directories \/ ResultPrinted \/ UncaughtError
  BY <1>1 DEF NotDirectories, Directories, ResultPrinted, UncaughtError, Exits, walkVars, ScanInv,
              Walking
<1>2. CASE \E p \in Paths : LinkGone(p)
  BY <1>2 DEF LinkGone, ScanInv, Walking
<1>3. CASE TreesChosen
  <2> DEFINE q == Queue
  <2>1. q \in {<<Data>>, <<Space>>, <<Data, Space>>} /\ Scans(q, "old")
    BY <1>3 DEF Queue, TreesChosen
  <2>2. disk' = disk /\ found' = NoFiles
    BY <1>3 DEF TreesChosen, ScanInv
  <2> HIDE DEF q
  <2> QED
    BY <2>1, <2>2, ScanBegins
<1>4. CASE DirDone
  <2>1. /\ phase \in Walking /\ phase = "stat" /\ phase' = "list"
        /\ UNCHANGED <<disk, touched, walkVars>>
    BY <1>4 DEF DirDone, Walking
  <2>2. \A s \in Sides, p \in Paths :
          /\ Stated(s, p)' <=> Stated(s, p)
          /\ ToCome(s, p)' <=> ToCome(s, p)
          /\ Readable(trees[1], p)' <=> Readable(trees[1], p)
          /\ Steady(trees[1], s, p)' <=> Steady(trees[1], s, p)
    BY <2>1 DEF Stated, ToCome, Readable, Steady, walkVars
  <2> QED
    BY <2>1, <2>2 DEF ScanInv, walkVars
<1>5. CASE Compared
  <2>1. /\ trees \in {<<Data>>, <<Space>>, <<Data, Space>>} /\ disk' = disk /\ found' = NoFiles
        /\ Len(trees) > 1 => Tail(trees) = <<Space>>
    BY <1>5, FirstTree DEF Compared, Walking
  <2>2. CASE Len(trees) > 1
    <3>1. Scans(<<Space>>, "old")
      BY <1>5, <2>1, <2>2 DEF Compared
    <3> QED
      BY <2>1, <3>1, ScanBegins
  <2>3. CASE ~(Len(trees) > 1)
    BY <1>5, <2>3 DEF Compared, ScanInv, Walking
  <2> QED
    BY <2>2, <2>3
<1>6. CASE Changes
  <2>1. trees[1] \in Trees /\ phase \in Walking
    BY <1>6, FirstTree DEF Changes, Walking
  <2>2. /\ UNCHANGED <<phase, walkVars>>
        /\ \A s \in Sides, p \in Paths : Steady(trees[1], s, p)' =>
             Steady(trees[1], s, p) /\ disk'[trees[1]][s][p] = disk[trees[1]][s][p]
    BY <1>6, <2>1, ChangeKeeps DEF walkVars
  <2>3. \A s \in Sides, p \in Paths :
          /\ Steady(trees[1], s, p)' => (Stated(s, p)' <=> Stated(s, p))
          /\ ToCome(s, p)' <=> ToCome(s, p)
          /\ Readable(trees[1], p)' <=> Readable(trees[1], p)
    BY <2>2 DEF Stated, ToCome, Readable, walkVars
  <2> QED
    BY <2>1, <2>2, <2>3 DEF ScanInv, walkVars, Walking
<1>7. CASE CheckOver \/ UNCHANGED checkVars
  <2>1. UNCHANGED <<phase, disk, touched, walkVars>>
    BY <1>7 DEF CheckOver, checkVars, walkVars
  <2> QED
    BY <2>1 DEF ScanInv, Stated, ToCome, Readable, Steady, walkVars
<1> QED
  BY <1>1, <1>2, <1>3, <1>4, <1>5, <1>6, <1>7, ListedScan, RefusedScan, StatedScan, SideScan
     DEF CheckNext

-----------------------------------------------------------------------------
(* The rows.                                                               *)

\* A step that adds no row and leaves the compared trees alone keeps what is
\* said of them: errors and touched entries only ask for less.
LEMMA RowFrame ==
  ASSUME CheckTypeOK, RowInv, UNCHANGED <<start, rows, trees>>,
         errors \subseteq errors', touched \subseteq touched',
         \A t \in Trees \ Todo : disk'[t] = disk[t],
         Past' => Past, phase' \in {"isdir", "pairs"} => rows = {}
  PROVE  RowInv'
<1>1. /\ Examined' = Examined /\ Examined \subseteq Trees /\ Todo' = Todo /\ Done' \subseteq Done
      /\ \A t, p : RowsOf(t, p)' = RowsOf(t, p)
  BY DEF Examined, Paired, Todo, Done, RowsOf, Trees
<1>2. \A t, s, p : Steady(t, s, p)' => Steady(t, s, p)
  BY DEF Steady
<1>3. \A t, p : Readable(t, p)' => Readable(t, p)
  BY DEF Readable
<1>4. \A t \in Examined \ Todo : \A p :
        /\ OldFiles(t)' = OldFiles(t) /\ Verdicts(t, p)' = Verdicts(t, p)
        /\ IsLinkSomewhere(t, p)' <=> IsLinkSomewhere(t, p)
  BY <1>1 DEF OldFiles, Verdicts, IsLinkSomewhere
<1>5. ASSUME NEW r \in rows PROVE Right(r)'
  <2>1. Right(r)
    BY DEF RowInv
  <2>2. touched' = {} => touched = {}
    OBVIOUS
  <2> QED
    BY <1>1, <1>2, <1>4, <2>1, <2>2 DEF Right
<1>6. ASSUME NEW t \in Done', NEW p \in OldFiles(t)' PROVE Judged(t, p)'
  <2>1. t \in Done /\ t \in Examined \ Todo
    BY <1>1 DEF Done
  <2>2. Judged(t, p)
    BY <1>4, <2>1 DEF RowInv
  <2> QED
    BY <1>1, <1>2, <1>3, <1>4, <2>1, <2>2 DEF Judged, RowOf
<1> QED
  BY <1>5, <1>6 DEF RowInv

\* What a comparison knows of the tree it compares.
LEMMA CompareSees ==
  ASSUME CheckTypeOK, OrderInv, ScanInv, phase = "compare", NEW s \in Sides, NEW p \in Paths,
         Steady(trees[1], s, p)
  PROVE  /\ found[s][p] # Absent =>
              disk[trees[1]][s][p] \in Inodes /\ found[s][p] = disk[trees[1]][s][p]
         /\ Readable(trees[1], p) /\ disk[trees[1]][s][p] \in Inodes
              => found[s][p] = disk[trees[1]][s][p]
         /\ disk[trees[1]][s][p] \notin Inodes => found[s][p] = Absent
<1>1. side = "new" /\ ~ToCome(s, p) /\ (s = "old" \/ side = "new")
  BY DEF ScanInv, ToCome
<1>2. /\ found[s][p] = Absent \/ Stated(s, p)
      /\ Readable(trees[1], p) /\ disk[trees[1]][s][p] # Absent => Stated(s, p)
  BY <1>1 DEF ScanInv, Walking
<1> QED
  BY <1>2 DEF Stated, InodeKept

\* The rows of a comparison are right, and there is one for every file.
LEMMA NewRows ==
  ASSUME CheckTypeOK, OrderInv, ScanInv, phase = "compare", NEW p \in Paths, found["old"][p] # Absent
  PROVE  /\ Row(p).tree = trees[1] /\ Row(p).path = p
         /\ Row(p) = RowOf(trees[1], p, Row(p).category)
         /\ Row(p).category \in {"LINKED", "LINKED_ELSEWHERE", "COPY", "MISSING"}
         /\ Steady(trees[1], "old", p) => p \in OldFiles(trees[1])
         /\ touched = {} /\ Row(p).category \in {"LINKED", "LINKED_ELSEWHERE"}
              => IsLinkSomewhere(trees[1], p)
         /\ Readable(trees[1], p) /\ (\A s \in Sides : Steady(trees[1], s, p))
              => Row(p).category \in Verdicts(trees[1], p)
<1> DEFINE t == trees[1]
           c == Category(p, found["old"], found["new"])
<1>0. "old" \in Sides /\ "new" \in Sides /\ t \in Trees
  BY FirstTree DEF Sides, Walking
<1>1. Row(p) = RowOf(t, p, c) /\ c \in {"LINKED", "LINKED_ELSEWHERE", "COPY", "MISSING"}
  BY ResultTypes DEF Row, RowOf
<1>2. Steady(t, "old", p) => p \in OldFiles(t) /\ found["old"][p] = disk[t]["old"][p]
  BY <1>0, CompareSees DEF OldFiles
<1>3. /\ c = "LINKED" <=> found["new"][p] = found["old"][p]
      /\ c = "LINKED_ELSEWHERE" => \E q \in Paths : found["new"][q] = found["old"][p]
      /\ c = "COPY" <=> found["new"][p] \notin {found["old"][p], Absent}
      /\ found["new"][p] = Absent => c \in {"LINKED_ELSEWHERE", "MISSING"}
  BY DEF Category
<1> HIDE DEF t, c
<1>4. ASSUME touched = {}, c \in {"LINKED", "LINKED_ELSEWHERE"}
      PROVE  IsLinkSomewhere(t, p)
  <2>1. \A s \in Sides, q \in Paths : Steady(t, s, q)
    BY <1>4 DEF Steady
  <2>2. PICK q \in Paths : found["new"][q] = found["old"][p]
    BY <1>3, <1>4
  <2>3. found["new"][q] = disk[t]["new"][q]
    BY <1>0, <2>1, <2>2, CompareSees DEF t
  <2>4. found["old"][p] = disk[t]["old"][p]
    BY <1>0, <1>2, <2>1
  <2> QED
    BY <2>2, <2>3, <2>4 DEF IsLinkSomewhere
<1>5. ASSUME Readable(t, p), \A s \in Sides : Steady(t, s, p)
      PROVE  c \in Verdicts(t, p)
  <2>1. disk[t]["old"][p] \in Inodes /\ found["old"][p] = disk[t]["old"][p]
    BY <1>0, <1>2, <1>5 DEF OldFiles
  <2>2. /\ disk[t]["new"][p] \in Inodes => found["new"][p] = disk[t]["new"][p]
        /\ disk[t]["new"][p] \notin Inodes => found["new"][p] = Absent
    BY <1>0, <1>5, CompareSees DEF t
  <2>3. CASE disk[t]["new"][p] = disk[t]["old"][p]
    BY <1>3, <2>1, <2>2, <2>3 DEF Verdicts
  <2>4. CASE disk[t]["new"][p] # disk[t]["old"][p] /\ disk[t]["new"][p] \in Inodes
    BY <1>3, <2>1, <2>2, <2>4 DEF Verdicts
  <2>5. CASE disk[t]["new"][p] # disk[t]["old"][p] /\ disk[t]["new"][p] \notin Inodes
    BY <1>3, <2>2, <2>5 DEF Verdicts
  <2> QED
    BY <2>3, <2>4, <2>5
<1>6. Row(p).tree = t /\ Row(p).path = p /\ Row(p).category = c
  BY <1>1 DEF RowOf
<1> QED
  BY <1>1, <1>2, <1>4, <1>5, <1>6 DEF t

\* A comparison takes its tree off the list.
LEMMA NextTree ==
  ASSUME CheckTypeOK, OrderInv, Compared
  PROVE  /\ Todo' = Todo \ {trees[1]} /\ trees[1] \in Todo /\ trees[1] \in Examined
         /\ Todo \subseteq Examined
<1>0. trees \in {<<Data>>, <<Space>>, <<Data, Space>>} /\ phase = "compare" /\ phase \in Walking
  BY FirstTree DEF Compared, Walking
<1>1. CASE trees = <<Data, Space>>
  <2>1. Todo = {Data, Space} /\ trees[1] = Data /\ Len(trees) > 1 /\ Tail(trees) = <<Space>>
    <3>1. /\ trees[1] = Data /\ trees[2] = Space /\ Len(trees) = 2
          /\ DOMAIN trees = {1, 2} /\ Tail(trees) = <<Space>>
      BY <1>1
    <3> QED
      BY <3>1 DEF Todo
  <2>2. trees' = <<Space>>
    BY <2>1 DEF Compared, Scans
  <2>3. DOMAIN trees' = {1} /\ trees'[1] = Space
    BY <2>2
  <2>4. Todo' = {Space}
    BY <2>3 DEF Todo
  <2>5. trees # <<Data>>
    <3> SUFFICES ASSUME trees = <<Data>> PROVE FALSE
      OBVIOUS
    <3>1. trees[2] = Space /\ DOMAIN trees = {1, 2}
      BY <1>1
    <3>2. DOMAIN <<Data>> = {1}
      OBVIOUS
    <3> QED
      BY <3>1, <3>2
  <2>6. Paired
    BY <1>0, <1>1, <2>1, <2>5 DEF OrderInv, Queue
  <2> QED
    BY <2>1, <2>4, <2>6, LabelsDiffer DEF Examined
<1>2. ASSUME NEW a \in {Data, Space}, trees = <<a>>
      PROVE  /\ Todo' = Todo \ {trees[1]} /\ trees[1] \in Todo /\ trees[1] \in Examined
             /\ Todo \subseteq Examined
  <2>1. trees[1] = a /\ Len(trees) = 1 /\ DOMAIN trees = {1}
    BY <1>2
  <2>2. Todo = {a}
    BY <2>1 DEF Todo
  <2>3. trees' = <<>>
    BY <2>1 DEF Compared
  <2>4. Todo' = {}
    BY <2>3 DEF Todo
  <2>5. a = Data \/ Paired
    <3>1. SUFFICES ASSUME ~Paired PROVE a = Data
      OBVIOUS
    <3>2. trees = <<Data>>
      BY <1>0, <3>1 DEF OrderInv, Queue
    <3>3. trees[1] = Data
      BY <3>2
    <3> QED
      BY <2>1, <3>3
  <2> QED
    BY <2>1, <2>2, <2>4, <2>5 DEF Examined
<1> QED
  BY <1>0, <1>1, <1>2

\* A comparison adds the rows of its tree and no other.
LEMMA ComparedRows ==
  ASSUME CheckTypeOK, OrderInv, ScanInv, RowInv, Compared
  PROVE  RowInv'
<1> PICK t0 : t0 = trees[1]
  OBVIOUS
<1> DEFINE News == {Row(p) : p \in {q \in Paths : found["old"][q] # Absent}}
<1>1. /\ rows' = rows \cup News /\ phase = "compare" /\ phase' \in {"list", "csv"}
      /\ UNCHANGED <<start, disk, touched, errors>>
  BY DEF Compared, Scans
<1>2. /\ Todo' = Todo \ {t0} /\ t0 \in Todo /\ t0 \in Examined
      /\ Todo \subseteq Examined /\ Examined' = Examined /\ Past
  BY <1>1, NextTree DEF Examined, Paired, Past, Walking
<1>3. \A t, s, p :
        /\ Steady(t, s, p)' <=> Steady(t, s, p)
        /\ Readable(t, p)' <=> Readable(t, p)
        /\ OldFiles(t)' = OldFiles(t) /\ Verdicts(t, p)' = Verdicts(t, p)
        /\ IsLinkSomewhere(t, p)' <=> IsLinkSomewhere(t, p)
  BY <1>1 DEF Steady, Readable, OldFiles, Verdicts, IsLinkSomewhere
<1>4. ASSUME NEW r \in rows PROVE Right(r)'
  <2>1. Right(r)
    BY DEF RowInv
  <2> QED
    BY <1>1, <1>2, <1>3, <2>1 DEF Right
<1>5. ASSUME NEW p \in Paths, found["old"][p] # Absent, NEW r, r = Row(p)
      PROVE  Right(r)'
  <2>1. /\ r.tree = t0 /\ r.path = p
        /\ r = RowOf(t0, p, r.category)
        /\ Steady(t0, "old", p) => p \in OldFiles(t0)
        /\ touched = {} /\ r.category \in {"LINKED", "LINKED_ELSEWHERE"}
             => IsLinkSomewhere(t0, p)
    BY <1>1, <1>5, NewRows
  <2>2. r.reason = ExpectedReason(p, t0)
    BY <2>1 DEF RowOf
  <2> QED
    BY <1>1, <1>2, <1>3, <2>1, <2>2 DEF Right
<1>6. ASSUME NEW t \in Done', NEW p \in OldFiles(t)' PROVE Judged(t, p)'
  <2>1. p \in OldFiles(t) /\ p \in Paths
    BY <1>3 DEF OldFiles
  <2>2. CASE t = t0
    <3>1. SUFFICES ASSUME Readable(t0, p), \A s \in Sides : Steady(t0, s, p)
                   PROVE  \E c \in Verdicts(t0, p) : RowsOf(t0, p)' = {RowOf(t0, p, c)}
      <4>1. SUFFICES ASSUME Readable(t, p)', \A s \in Sides : Steady(t, s, p)'
                     PROVE  \E c \in Verdicts(t, p)' : RowsOf(t, p)' = {RowOf(t, p, c)}
        BY DEF Judged, RowOf
      <4> QED
        BY <1>3, <2>2, <4>1
    <3>2. found["old"][p] # Absent
      BY <1>1, <2>1, <2>2, <3>1, CompareSees DEF OldFiles, Sides
    <3>3. \A r \in rows : r.tree # t0
      BY <1>2 DEF RowInv, Right
    <3>4. \A q \in Paths : Row(q).tree = t0 /\ Row(q).path = q
      BY DEF Row
    <3>5. RowsOf(t0, p)' = {Row(p)}
      BY <1>1, <2>1, <3>2, <3>3, <3>4 DEF RowsOf
    <3>6. Row(p) = RowOf(t0, p, Row(p).category) /\ Row(p).category \in Verdicts(t0, p)
      BY <1>1, <2>1, <3>1, <3>2, NewRows
    <3> QED
      BY <3>5, <3>6
  <2>3. CASE t # t0
    <3>1. t \in Done
      BY <1>2, <2>3 DEF Done
    <3>2. Judged(t, p)
      BY <2>1, <3>1 DEF RowInv
    <3>3. \A q \in Paths : Row(q).tree = t0
      BY DEF Row
    <3>4. RowsOf(t, p)' = RowsOf(t, p)
      BY <1>1, <2>3, <3>3 DEF RowsOf
    <3>5. SUFFICES ASSUME Readable(t, p)', \A s \in Sides : Steady(t, s, p)'
                   PROVE  \E c \in Verdicts(t, p)' : RowsOf(t, p)' = {RowOf(t, p, c)}
      BY DEF Judged, RowOf
    <3>6. Readable(t, p) /\ \A s \in Sides : Steady(t, s, p)
      BY <1>3, <3>5
    <3>7. \E c \in Verdicts(t, p) : RowsOf(t, p) = {RowOf(t, p, c)}
      BY <3>2, <3>6 DEF Judged
    <3> QED
      BY <1>3, <3>4, <3>7
  <2> QED
    BY <2>2, <2>3
<1>7. \A r \in rows' : Right(r)'
  BY <1>1, <1>4, <1>5
<1> QED
  BY <1>1, <1>6, <1>7 DEF RowInv

\* Whatever the next step is, what the rows say stays right.
LEMMA RowStep ==
  ASSUME CheckTypeOK, OrderInv, ScanInv, RowInv, [CheckNext]_checkVars
  PROVE  RowInv'
<1>1. CASE NotDirectories \/ Directories \/ ResultPrinted \/ UncaughtError \/ DirDone
           \/ CheckOver \/ UNCHANGED checkVars
  <2>1. UNCHANGED <<start, rows, trees, errors, touched, disk>>
    BY <1>1 DEF NotDirectories, Directories, ResultPrinted, UncaughtError, DirDone, CheckOver,
                checkVars, walkVars
  <2>2. Past' => Past
    BY <1>1 DEF NotDirectories, Directories, ResultPrinted, UncaughtError, DirDone, CheckOver,
                checkVars, Exits, Past, Walking
  <2>3. phase' \in {"isdir", "pairs"} => rows = {}
    BY <1>1 DEF NotDirectories, Directories, ResultPrinted, UncaughtError, DirDone, CheckOver,
                checkVars, Exits, RowInv
  <2> QED
    BY <2>1, <2>2, <2>3, RowFrame
<1>2. ASSUME NEW d \in Dirs, DirListed(d) PROVE RowInv'
  <2>1. /\ UNCHANGED <<start, rows, trees, touched, disk>> /\ errors \subseteq errors'
        /\ phase' = "stat" /\ Past
    BY <1>2 DEF DirListed, Past, Walking
  <2> QED
    BY <2>1, RowFrame
<1>3. ASSUME NEW d \in Dirs, DirRefused(d) PROVE RowInv'
  <2>1. /\ UNCHANGED <<start, rows, trees, touched, disk>> /\ errors \subseteq errors'
        /\ phase' = "list" /\ Past
    BY <1>3 DEF DirRefused, Past, Walking
  <2> QED
    BY <2>1, RowFrame
<1>4. ASSUME NEW p \in Paths, FileStated(p) PROVE RowInv'
  <2>1. /\ UNCHANGED <<start, rows, trees, touched, disk>> /\ errors \subseteq errors'
        /\ phase' = "stat" /\ Past
    BY <1>4 DEF FileStated, Past, Walking
  <2> QED
    BY <2>1, RowFrame
<1>5. ASSUME NEW p \in Paths, LinkGone(p) PROVE RowInv'
  <2>1. /\ UNCHANGED <<start, walkVars, rows>> /\ touched \subseteq touched'
        /\ \A t \in Trees \ Todo : disk'[t] = disk[t]
    BY <1>5, LinkGoneKeeps
  <2>2. UNCHANGED <<trees, errors>> /\ phase' = "uncaught" /\ ~Past'
    BY <1>5, <2>1 DEF LinkGone, walkVars, Past, Walking
  <2> QED
    BY <2>1, <2>2, RowFrame
<1>6. CASE SideDone
  <2>1. /\ UNCHANGED <<start, rows, trees, touched, disk, errors>>
        /\ phase' \in {"list", "compare"} /\ Past
    BY <1>6 DEF SideDone, Scans, Past, Walking
  <2> QED
    BY <2>1, RowFrame
<1>7. CASE Changes
  <2>1. /\ UNCHANGED <<start, phase, walkVars, rows, exit>> /\ touched \subseteq touched'
        /\ \A t \in Trees \ Todo : disk'[t] = disk[t]
    BY <1>7, ChangeKeeps
  <2>2. UNCHANGED <<trees, errors>> /\ (Past' => Past)
    BY <2>1 DEF walkVars, Past
  <2>3. phase' \in {"isdir", "pairs"} => rows = {}
    BY <2>1 DEF RowInv
  <2> QED
    BY <2>1, <2>2, <2>3, RowFrame
<1>8. CASE TreesChosen
  <2>1. trees' = Queue /\ rows' = rows /\ start' = start /\ phase = "pairs" /\ phase' = "list"
    BY <1>8 DEF TreesChosen, Scans, Queue
  <2>2. rows = {}
    BY <2>1 DEF RowInv
  <2>3. Examined' \subseteq Todo'
    <3>1. CASE Paired
      <4>1. trees' = <<Data, Space>>
        BY <2>1, <3>1 DEF Queue
      <4>2. DOMAIN trees' = {1, 2} /\ trees'[1] = Data /\ trees'[2] = Space
        BY <4>1
      <4> QED
        BY <2>1, <4>2 DEF Examined, Paired, Todo
    <3>2. CASE ~Paired
      <4>1. trees' = <<Data>>
        BY <2>1, <3>2 DEF Queue
      <4>2. DOMAIN trees' = {1} /\ trees'[1] = Data
        BY <4>1
      <4>3. Examined' = {Data}
        BY <2>1, <3>2 DEF Examined, Paired
      <4> QED
        BY <4>2, <4>3 DEF Todo
    <3> QED
      BY <3>1, <3>2
  <2>4. Done' = {}
    BY <2>3 DEF Done
  <2> QED
    BY <2>1, <2>2, <2>4 DEF RowInv
<1> QED
  BY <1>1, <1>2, <1>3, <1>4, <1>5, <1>6, <1>7, <1>8, ComparedRows DEF CheckNext

\* The exit status is that of the rows, or of what went wrong.
LEMMA ExitStep ==
  ASSUME ExitInv, [CheckNext]_checkVars
  PROVE  ExitInv'
<1>1. CASE NotDirectories
  BY <1>1 DEF NotDirectories, Exits, ExitInv
<1>2. CASE ResultPrinted
  <2>1. Unexpected' = Unexpected /\ phase' = "exit" /\ exit' = IF Unexpected = {} THEN 0 ELSE 1
    BY <1>2 DEF ResultPrinted, Exits, Unexpected
  <2> QED
    BY <2>1 DEF ExitInv
<1>3. CASE UncaughtError \/ \E p \in Paths : LinkGone(p)
  BY <1>3 DEF UncaughtError, LinkGone, ExitInv
<1>4. CASE CheckOver \/ UNCHANGED checkVars
  <2>1. UNCHANGED <<phase, exit, rows>>
    BY <1>4 DEF CheckOver, checkVars
  <2>2. Unexpected' = Unexpected
    BY <2>1 DEF Unexpected
  <2> QED
    BY <2>1, <2>2 DEF ExitInv
<1>5. CASE \/ Directories \/ TreesChosen \/ (\E d \in Dirs : DirListed(d) \/ DirRefused(d))
           \/ (\E p \in Paths : FileStated(p)) \/ DirDone \/ SideDone \/ Compared \/ Changes
  <2>1. phase' \notin {"exit", "uncaught"}
    BY <1>5 DEF Directories, TreesChosen, DirListed, DirRefused, FileStated, DirDone, SideDone, Compared,
                Changes, Scans
  <2> QED
    BY <2>1 DEF ExitInv
<1> QED
  BY <1>1, <1>2, <1>3, <1>4, <1>5 DEF CheckNext

\* The strengthening holds in every state of a check.
LEMMA LinkInvariant == CheckSpec => []LinkInv
<1>1. CheckInit => LinkInv
  <2> SUFFICES ASSUME CheckInit PROVE LinkInv
    OBVIOUS
  <2>1. phase = "isdir" /\ rows = {} /\ found = NoFiles /\ trees = <<>>
    BY DEF CheckInit
  <2>2. Done = {}
    BY <2>1 DEF Done, Past, Walking
  <2> QED
    BY <2>1, <2>2, TypeInit DEF LinkInv, ScanInv, RowInv, ExitInv, Walking
<1>2. LinkInv /\ [CheckNext]_checkVars => LinkInv'
  BY TypeStep, ScanStep, RowStep, ExitStep DEF LinkInv
<1> QED
  BY <1>1, <1>2, PTL DEF CheckSpec

-----------------------------------------------------------------------------
(***************************************************************************)
(* The theorems.                                                           *)
(***************************************************************************)

\* After the comparisons every examined tree is done.
LEMMA AllDone ==
  ASSUME CheckTypeOK, OrderInv, phase = "csv" \/ (phase = "exit" /\ exit # 2)
  PROVE  Done = Examined /\ \A t \in Examined : t \in Trees
<1>1. trees = <<>>
  BY DEF OrderInv, Walking
<1>2. Todo = {}
  BY <1>1 DEF Todo
<1> QED
  BY <1>2 DEF Done, Past, Examined, Trees

\* A user relation's file is one that pg_upgrade does not rebuild.
LEMMA UserRelationReason ==
  ASSUME NEW p \in Paths, NEW t \in Trees, IsUserRelation(p, t)
  PROVE  ExpectedReason(p, t) = NoReason
<1>1. /\ File[p].dirs \in Seq(STRING) /\ File[p].number \in Nat /\ File[p].number >= FIRST_NORMAL_OID
      /\ File[p].text \notin PerDbFiles \cup {"pgsql_tmp"}
      /\ File[p].dirs[Len(File[p].dirs)] # "pgsql_tmp"
  BY DEF IsUserRelation
<1>2. ~IsCatalog(p)
  BY <1>1 DEF IsCatalog, FIRST_NORMAL_OID
<1>3. CASE t = Data
  <2>1. Len(File[p].dirs) = 2 /\ File[p].dirs[1] = "base"
    BY <1>3 DEF IsUserRelation
  <2>2. DOMAIN File[p].dirs = {1, 2}
    BY <1>1, <2>1
  <2>3. "pgsql_tmp" \notin Parts(p)
    BY <1>1, <2>1, <2>2 DEF Parts
  <2>4. File[p].dirs # <<>>
    BY <2>1
  <2>5. Top(p) = "base"
    BY <2>1, <2>4 DEF Top
  <2>6. "base" \notin ServerManagedDirs /\ "base" # "global"
    BY DEF ServerManagedDirs
  <2> QED
    BY <1>1, <1>2, <2>3, <2>4, <2>5, <2>6 DEF ExpectedReason
<1>4. CASE t # Data
  <2>1. Len(File[p].dirs) = 1
    BY <1>4 DEF IsUserRelation
  <2>2. DOMAIN File[p].dirs = {1}
    BY <1>1, <2>1
  <2>3. "pgsql_tmp" \notin Parts(p)
    BY <1>1, <2>1, <2>2 DEF Parts
  <2> QED
    BY <1>1, <1>2, <1>4, <2>3 DEF ExpectedReason
<1> QED
  BY <1>3, <1>4

\* Nothing was touched and all could be read: every file of an examined tree has
\* its row, and the row is right.
LEMMA QuietRow ==
  ASSUME LinkInv, phase = "csv" \/ (phase = "exit" /\ exit # 2), errors = {}, touched = {},
         NEW t \in Examined, NEW p \in OldFiles(t)
  PROVE  \E r \in rows : /\ r.tree = t /\ r.path = p /\ Right(r)
                         /\ r.category \in Verdicts(t, p)
<1>1. Judged(t, p)
  BY AllDone DEF LinkInv, RowInv
<1>2. Readable(t, p) /\ \A s \in Sides : Steady(t, s, p)
  BY DEF Readable, Steady
<1>3. PICK c \in Verdicts(t, p) : RowsOf(t, p) = {RowOf(t, p, c)}
  BY <1>1, <1>2 DEF Judged
<1>4. RowOf(t, p, c) \in rows
  BY <1>3 DEF RowsOf
<1> QED
  BY <1>4 DEF RowOf, LinkInv, RowInv

\* Exit status 0, when all could be read and nobody interfered: every user relation
\* of the old tree is a link in the new one (report, main), for all trees and options.
THEOREM CleanBillIsClean == CheckSpec => []UserRelationsLinked
<1>1. LinkInv => UserRelationsLinked
  <2> SUFFICES ASSUME LinkInv, exit = 0, errors = {}, touched = {},
                      NEW t \in Examined, NEW p \in OldFiles(t), IsUserRelation(p, t)
               PROVE  IsLinkSomewhere(t, p)
    BY DEF UserRelationsLinked, IsLinkSomewhere
  <2>1. phase = "exit"
    BY DEF LinkInv, CheckTypeOK, ExitInv, NoExit
  <2>2. Unexpected = {}
    BY <2>1 DEF LinkInv, ExitInv
  <2>3. PICK r \in rows : r.tree = t /\ r.path = p /\ Right(r)
    BY <2>1, QuietRow
  <2>4. p \in Paths /\ t \in Trees
    BY DEF OldFiles, Examined, Trees
  <2>5. r.reason = NoReason
    BY <2>3, <2>4, UserRelationReason DEF Right
  <2>6. r.category \notin {"COPY", "MISSING"}
    BY <2>2, <2>5 DEF Unexpected
  <2>7. r.category \in {"LINKED", "LINKED_ELSEWHERE"}
    BY <2>6 DEF LinkInv, CheckTypeOK
  <2> QED
    BY <2>3, <2>7 DEF Right
<1> QED
  BY <1>1, LinkInvariant, PTL

\* One row of the right category.
RowIsRight(t, p) ==
  Cardinality(RowsOf(t, p)) = 1 /\ \A r \in RowsOf(t, p) : r.category \in Verdicts(t, p)

\* Files that nobody touches are judged right, one row each, whatever happens to
\* the others while the trees are walked.
THEOREM UntouchedAlwaysRight == CheckSpec => []UntouchedJudgedRight
<1>1. UntouchedJudgedRight <=>
        (phase \in {"csv", "exit"} /\ exit # 2 =>
           \A t \in Examined : \A p \in OldFiles(t) :
             Readable(t, p) /\ touched \cap ({t} \X Sides \X {p}) = {} => RowIsRight(t, p))
  BY Zenon DEF UntouchedJudgedRight, Readable, RowsOf, Verdicts, RowIsRight
<1>2. LinkInv => UntouchedJudgedRight
  <2> SUFFICES ASSUME LinkInv, phase \in {"csv", "exit"}, exit # 2,
                      NEW t \in Examined, NEW p \in OldFiles(t),
                      Readable(t, p), touched \cap ({t} \X Sides \X {p}) = {}
               PROVE  RowIsRight(t, p)
    BY <1>1
  <2>1. \A s \in Sides : Steady(t, s, p)
    <3> SUFFICES ASSUME NEW s \in Sides PROVE <<t, s, p>> \notin touched
      BY DEF Steady
    <3>1. <<t, s, p>> \in {t} \X Sides \X {p}
      OBVIOUS
    <3> QED
      BY <3>1
  <2>2. Judged(t, p)
    BY AllDone DEF LinkInv, RowInv
  <2>3. PICK c \in Verdicts(t, p) : RowsOf(t, p) = {RowOf(t, p, c)}
    BY <2>1, <2>2 DEF Judged
  <2>4. Cardinality({RowOf(t, p, c)}) = 1
    BY FS_Singleton
  <2> QED
    BY <2>3, <2>4 DEF RowOf, RowIsRight
<1> QED
  BY <1>2, LinkInvariant, PTL
=============================================================================
