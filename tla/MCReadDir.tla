------------------------------ MODULE MCReadDir ------------------------------
\* Two directories for two workers, one that takes several getdents64 calls and a
\* short one, with "." and ".." anywhere, and a path that leads to a file.
EXTENDS ReadDir, TLC

MCDir == {"A", "B"}
MCName == {"a", "b", "f", "l"}

Record(name, typ) == [name |-> name, typ |-> typ, ino |-> 100]

MCRaw == [d \in MCDir |->
    IF d = "A" THEN << Record("f", "reg"), Record(".", "dir"), Record("b", "dir"),
                       Record("..", "dir"), Record("l", "lnk") >>
               ELSE << Record("..", "dir"), Record(".", "dir"), Record("a", "unknown") >>]

ItemFor(name, target) == [path |-> << name >>, dir |-> target, depth |-> 1, ancestor |-> << >>]

MCItems == {ItemFor("a", "A"), ItemFor("b", "B"), ItemFor("f", "reg")}

\* Listed is what a loop over the records keeps.
ASSUME \A d \in MCDir : Listed(MCRaw[d]) = SelectSeq(MCRaw[d], LAMBDA r : r.name \notin Dots)

Symmetry == Permutations(Worker)
=============================================================================
