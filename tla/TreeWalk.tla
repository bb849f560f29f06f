------------------------------ MODULE TreeWalk ------------------------------
(***************************************************************************)
(* What a walk promises its consumer, with no workers, pool, channel or    *)
(* arena: the batches of a tree arrive one by one, a directory's own batch *)
(* before those of its children, each exactly once, each with the contents *)
(* a walk by one thread with perfect knowledge of the path it is on would  *)
(* give it; and the walk finishes only when no announced directory is      *)
(* missing.                                                                *)
(***************************************************************************)
EXTENDS Tree, FiniteSets, Bags, SequencesExt

VARIABLES conf,        \* the configuration, fixed by the initial state
          delivered,   \* the bag of batches the consumer has
          finished     \* whether the consumer was told the walk is over

vars == <<conf, delivered, finished>>

\* The object the kernel reaches by following path p from the root.
DirAt(c, p) ==
    LET at[k \in 0 .. Len(p)] ==
          IF k = 0 THEN c.root
          ELSE IF at[k - 1] \in Dir THEN c.to[at[k - 1]][p[k]] ELSE "missing"
    IN  at[Len(p)]

Readable(c, d) == d \in Dir /\ d \notin c.faulty

\* The identities of every directory on path p, its own included.
Ancestry(c, p) == {c.id[DirAt(c, SubSeq(p, 1, k))] : k \in 0 .. Len(p)}

\* What becomes of record r of the directory at p: a d_type, or an error.
Outcome(c, p, r) ==
    LET target == c.to[DirAt(c, p)][r.name]
    IN  IF ~ (c.followLinks /\ r.typ = "lnk") THEN r.typ
        ELSE CASE target = "missing" -> "dangling"
               [] target = "nosys"   -> "nosys"
               [] target = "reg"     -> "reg"
               [] target = "other"   -> "unknown"
               [] OTHER -> IF c.id[target] \in Ancestry(c, p) THEN "cycle" ELSE "dir"

BatchAt(c, p) ==
    IF ~ Readable(c, DirAt(c, p))
    THEN [dir |-> p, entries |-> {}, errs |-> {[at |-> p, err |-> "unreadable"]}]
    ELSE LET records == {r \in Range(c.list[DirAt(c, p)]) : r.name \notin c.skipSet}
             Out(r)  == Outcome(c, p, r)
         IN  [dir |-> p,
              entries |-> {[r EXCEPT !.typ = IF Out(r) = "nosys" THEN "lnk" ELSE Out(r)] :
                              r \in {x \in records : Out(x) \notin {"dangling", "cycle"}}},
              errs |-> {[at |-> Append(p, r.name), err |-> Out(r)] :
                              r \in {x \in records : Out(x) \in {"dangling", "cycle", "nosys"}}}]

\* Every directory announced so far, the root included.
Announced ==
    {<< >>} \cup UNION {ChildrenOf(b) : b \in {x \in BagToSet(delivered) :
                                         ~ AtMaxDepth(conf, Len(x.dir) + 1)}}

Visited == {b.dir : b \in BagToSet(delivered)}

Init == /\ conf \in Configs
        /\ delivered = EmptyBag
        /\ finished = FALSE

Deliver == /\ ~ finished
           /\ \E p \in Announced \ Visited :
                 delivered' = delivered (+) SetToBag({BatchAt(conf, p)})
           /\ UNCHANGED <<conf, finished>>

Finish == /\ ~ finished
          /\ Visited = Announced
          /\ finished' = TRUE
          /\ UNCHANGED <<conf, delivered>>

Next == Deliver \/ Finish

SafeSpec == Init /\ [][Next]_vars
=============================================================================
