-------------------------------- MODULE Trees --------------------------------
(***************************************************************************)
(* Small trees for model checking.  A shape lists, for each directory, its *)
(* records as <<name, d_type, what the name leads to>>; Conf derives from  *)
(* it what getdents64, openat and stat answer.                             *)
(***************************************************************************)
EXTENDS Tree, SequencesExt

MCDir  == {"R", "A", "B", "C", "D", "P"}
MCName == {"a", "b", "c", "f", "l"}

\* One device, an inode for each directory.
OneDevice == [d \in MCDir |->
                [ino |-> CASE d = "R" -> 1 [] d = "A" -> 2 [] d = "B" -> 3
                           [] d = "C" -> 4 [] d = "D" -> 5 [] d = "P" -> 6,
                 dev |-> 1]]

Leads(shape, d, n) == LET hit == {r \in Range(shape[d]) : r[1] = n}
                      IN  IF hit = {} THEN "missing" ELSE (CHOOSE r \in hit : TRUE)[3]

\* The inode of a record: the target's for a directory, the file's own otherwise.
RecordOf(r, id) == [name |-> r[1], typ |-> r[2],
                    ino |-> IF r[2] = "dir" THEN id[r[3]].ino ELSE 100]

Conf(shape, id) ==
    [followLinks |-> FALSE, maxDepth |-> 0, skipSet |-> {}, root |-> "R", rootStat |-> TRUE,
     list |-> [d \in MCDir |-> [i \in DOMAIN shape[d] |-> RecordOf(shape[d][i], id)]],
     to |-> [d \in MCDir |-> [n \in MCName |-> Leads(shape, d, n)]],
     id |-> id, faulty |-> {}]

Shape(r, a, b, c, d, p) ==
    [x \in MCDir |-> CASE x = "R" -> r [] x = "A" -> a [] x = "B" -> b
                       [] x = "C" -> c [] x = "D" -> d [] x = "P" -> p]

-----------------------------------------------------------------------------
(* Trees without followed links                                            *)

\* Files between directories, nested and empty directories, a link nobody
\* follows and a directory the file system reports as DT_UNKNOWN.
Branching == Shape(<< <<"f", "reg", "reg">>, <<"a", "dir", "A">>, <<"b", "dir", "B">> >>,
                   << <<"c", "dir", "C">>, <<"l", "lnk", "R">>, <<"b", "dir", "D">> >>,
                   << <<"a", "unknown", "P">>, <<"c", "dir", "P">> >>,
                   << >>, << <<"f", "reg", "reg">> >>, << >>)

PlainTrees ==
    LET base == Conf(Branching, OneDevice)
    IN  {[base EXCEPT !.maxDepth = m, !.skipSet = s, !.faulty = x] :
            m \in 0 .. 2, s \in {{}, {"a"}}, x \in {{}, {"A"}, {"C"}}}
        \cup {[base EXCEPT !.root = "missing", !.rootStat = FALSE], [base EXCEPT !.root = "C"]}

(* Trees with followed links                                               *)

Following(c) == [c EXCEPT !.followLinks = TRUE]

\* Two directories linked to each other, and a link to the first beside it.
CrossLinks == Shape(<< <<"a", "dir", "A">>, <<"b", "dir", "B">>, <<"l", "lnk", "A">> >>,
                    << <<"l", "lnk", "B">>, <<"f", "reg", "reg">> >>,
                    << <<"l", "lnk", "A">>, <<"c", "dir", "C">> >>, << >>, << >>, << >>)

\* Links up, to itself, to a file, to a socket, to nothing, and to a sibling,
\* with dropped entries before kept ones.
MixedLinks == Shape(<< <<"l", "lnk", "R">>, <<"f", "lnk", "reg">>, <<"a", "dir", "A">>,
                       <<"b", "lnk", "A">> >>,
                    << <<"l", "lnk", "missing">>, <<"f", "lnk", "other">>,
                       <<"c", "lnk", "nosys">>, <<"b", "dir", "B">> >>,
                    << <<"l", "lnk", "A">>, <<"f", "reg", "reg">> >>, << >>, << >>, << >>)

\* A link to the parent of the directory the walk starts in.
LinkAboveRoot == Shape(<< <<"l", "lnk", "P">> >>, << <<"f", "reg", "reg">> >>, << >>, << >>, << >>,
                       << <<"a", "dir", "R">>, <<"b", "dir", "A">> >>)

LinkTrees ==
    LET cross == Following(Conf(CrossLinks, OneDevice))
        mixed == Following(Conf(MixedLinks, OneDevice))
        above == Following(Conf(LinkAboveRoot, OneDevice))
        rootAppears == [mixed EXCEPT !.rootStat = FALSE]
    IN  {cross, [cross EXCEPT !.faulty = {"B"}], [cross EXCEPT !.maxDepth = 2],
         mixed, [mixed EXCEPT !.maxDepth = 1], [mixed EXCEPT !.skipSet = {"a"}],
         above, rootAppears, [cross EXCEPT !.root = "missing", !.rootStat = FALSE]}

\* M = "A" is a mount point: getdents64 gives the inode 7 of the directory it
\* covers, and B below it has on device 2 the inode that C has on device 1.
MountPoint ==
    LET id    == [OneDevice EXCEPT !["A"] = [ino |-> 1, dev |-> 2],
                                   !["B"] = [ino |-> 4, dev |-> 2]]
        tree  == Following(Conf(Shape(<< <<"a", "dir", "A">>, <<"c", "dir", "C">> >>,
                                      << <<"b", "dir", "B">> >>,
                                      << <<"l", "lnk", "C">> >>, << >>, << >>, << >>), id))
    IN  {[tree EXCEPT !.list["R"][1].ino = 7]}

\* os.Stat of the root failed, and a moment later the root could be opened.
RootAppears == {c \in LinkTrees : c.root = "R" /\ ~ c.rootStat}
=============================================================================
