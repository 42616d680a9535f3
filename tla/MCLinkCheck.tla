---------------------------- MODULE MCLinkCheck ----------------------------
(* Instances of LinkCheck for TLC.                                           *)
EXTENDS LinkCheck

CONSTANTS i1, i2, i3

Table   == "base/5/16384"
Index   == "base/5/16390.1"
Shared  == "global/16402"
InSpace == "5/16401"

Named(path, text, number) ==
  [dirs |-> path, text |-> text, number |-> number, conf |-> text = "postgresql.conf"]

\* one of every kind of path the rules tell apart
AllFiles ==
  Table                      :> Named(<<"base", "5">>, "16384", 16384) @@
  Index                      :> Named(<<"base", "5">>, "16390.1", 16390) @@
  "base/5/1259_fsm"          :> Named(<<"base", "5">>, "1259_fsm", 1259) @@
  "base/5/t3_16500"          :> Named(<<"base", "5">>, "t3_16500", NoNumber) @@
  "base/5/pg_filenode.map"   :> Named(<<"base", "5">>, "pg_filenode.map", NoNumber) @@
  "base/pgsql_tmp/pgsql_tmp12.0" :>
    Named(<<"base", "pgsql_tmp">>, "pgsql_tmp12.0", NoNumber) @@
  Shared                     :> Named(<<"global">>, "16402", 16402) @@
  "pg_xact/0000"             :> Named(<<"pg_xact">>, "0000", 0) @@
  "postgresql.conf"          :> Named(<<>>, "postgresql.conf", NoNumber) @@
  "server.key"               :> Named(<<>>, "server.key", NoNumber) @@
  InSpace                    :> Named(<<"5">>, "16401", 16401) @@
  "5/2619"                   :> Named(<<"5">>, "2619", 2619)

AllPaths == DOMAIN AllFiles

AllInodes == {i1, i2, i3}
Empty == [s \in Sides |-> [p \in AllPaths |-> Absent]]

\* two files of the old tree, each linked, linked crosswise, copied, a symbolic
\* link or absent in the new one
Pairs(ps) ==
  { [s \in Sides |-> [r \in AllPaths |->
       IF r = p THEN IF s = "old" THEN i1 ELSE np
       ELSE IF r = q THEN IF s = "old" THEN oq ELSE nq
       ELSE Absent]] :
    p \in ps, q \in ps, oq \in {i2, Absent}, np \in {i1, i3, Symlink, Absent},
    nq \in {i1, i2, Absent} }

Situation(tree, content) ==
  [tablespaces |-> tree = Space, csv |-> FALSE, isdir |-> TRUE,
   majors |-> [s \in Sides |-> IF s = "old" THEN 16 ELSE 18],
   versions |-> [s \in Sides |-> 1], refused |-> {},
   disk |-> [t \in Trees |-> IF t = tree THEN content ELSE Empty],
   volatile |-> {}]

\* every kind of file next to a table, in both kinds of trees
AtRest ==
  { Situation(t, c) : t \in Trees, c \in UNION {Pairs({Table, p}) : p \in AllPaths} }

\* a tablespace that cannot be paired, unreadable directories, a CSV file
Odd ==
  LET base == { Situation(Space, c) : c \in Pairs({InSpace}) }
  IN  UNION { { s,
                [s EXCEPT !.majors["new"] = 0], [s EXCEPT !.majors["new"] = 16],
                [s EXCEPT !.versions["new"] = 2], [s EXCEPT !.isdir = FALSE],
                [s EXCEPT !.csv = TRUE] } : s \in base }

\* a directory of the path to two files, or next to it, is refused on one side
Locked ==
  { [Situation(Data, c) EXCEPT !.refused = {<<Data, s, d>>}] :
    c \in Pairs({Table, Shared}), s \in Sides, d \in Prefixes(AllFiles[Table].dirs) }

\* two relations of a database change while they are looked at: an index that is
\* linked, and a table that is a symbolic link in the new tree at first
Running ==
  { [Situation(Data, c) EXCEPT !.volatile = {Table, Index}] :
    c \in { d \in Pairs({Table, Index}) :
              /\ d["old"][Table] = i1 /\ d["new"][Table] = Symlink
              /\ d["old"][Index] = i2 /\ d["new"][Index] = i2 } }

AllSituations == AtRest \cup Odd \cup Locked \cup Running
=============================================================================
