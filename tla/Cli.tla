--------------------------------- MODULE Cli ---------------------------------
(***************************************************************************)
(* The command line, main/main.go: its flags, the loop over one walk's     *)
(* batches, and the repetitions of --bench, each a walk by a new Walkman.  *)
(* What a walk sends is TreeWalk's promise, in any of the orders it allows.*)
(***************************************************************************)
EXTENDS Tree, FiniteSets, Bags

CONSTANTS Flags,     \* the command lines
          Uint32,    \* 2^32
          Elapsed,   \* the durations a run may take
          Forever    \* 1<<63 - 1

ASSUME CliAssumption ==
    /\ Flags \subseteq [maxDepth : Nat, followLinks : BOOLEAN, skip : SUBSET Name, bench : Nat]
    /\ Uint32 \in Nat \ {0}
    /\ Forever \in Nat /\ Elapsed \subseteq 0 .. Forever

VARIABLES flags,       \* what the user asked for
          conf,        \* the configuration NewWalkmanWithConfig was given
          delivered,   \* the batches of this run
          finished,    \* the range loop is over
          tally,       \* runOnce's counters
          runs,        \* how many runs have ended
          last,        \* the counters that are printed
          stats,       \* total, min and max of the durations
          exited       \* the program has printed and returned

vars == <<flags, conf, delivered, finished, tally, runs, last, stats, exited>>

Stream == INSTANCE TreeWalk

Zero == [files |-> 0, dirs |-> 0, links |-> 0, errs |-> 0]

Plus(s, t) == [k \in DOMAIN Zero |-> (s[k] + t[k]) % Uint32]

FileMode(e) == CASE e.typ = "dir" -> "ModeDir"
                 [] e.typ = "lnk" -> "ModeSymlink"
                 [] e.typ = "reg" -> "0"
                 [] OTHER -> "ModeIrregular"

\* What the body of the range loop adds for one batch.  One whose Entries is nil
\* has only errors to add.
Count(b) ==
    LET Of(modes) == Cardinality({e \in b.entries : FileMode(e) \in modes})
    IN  [files |-> Of({"0", "ModeIrregular"}), dirs |-> Of({"ModeDir"}),
         links |-> Of({"ModeSymlink"}), errs |-> Cardinality(b.errs)]

\* The flags as NewWalkmanWithConfig gets them: a uint cut to a uint32.
Configured(tree, f) == [tree EXCEPT !.followLinks = f.followLinks, !.skipSet = f.skip,
                                    !.maxDepth = f.maxDepth % Uint32]

-----------------------------------------------------------------------------
Init == /\ flags \in Flags
        /\ conf \in {Configured(tree, flags) : tree \in Configs}
        /\ delivered = EmptyBag
        /\ finished = FALSE
        /\ tally = Zero
        /\ runs = 0
        /\ last = Zero
        /\ stats = [total |-> 0, min |-> Forever, max |-> 0]
        /\ exited = FALSE

Receive ==
    /\ Stream!Deliver
    /\ LET b == CHOOSE x \in BagToSet(delivered') : x.dir \notin Stream!Visited
       IN  tally' = Plus(tally, Count(b))
    /\ UNCHANGED <<flags, runs, last, stats, exited>>

RangeEnds == Stream!Finish /\ UNCHANGED <<flags, tally, runs, last, stats, exited>>

Smaller(x, y) == IF x < y THEN x ELSE y
Larger(x, y) == IF x > y THEN x ELSE y

\* Faulty variant: the shortest run starts at zero, like the longest.
Bug_AddTime(elapsed) ==
    stats' = [total |-> stats.total + elapsed,
              min |-> IF runs = 0 THEN 0 ELSE Smaller(stats.min, elapsed),
              max |-> Larger(stats.max, elapsed)]

AddTime(elapsed) ==
    stats' = [total |-> stats.total + elapsed, min |-> Smaller(stats.min, elapsed),
              max |-> Larger(stats.max, elapsed)]

\* Faulty variant: a loop from 0 up to and including the number of runs.
Bug_Again(elapsed) ==
    /\ finished
    /\ runs + 1 <= flags.bench
    /\ AddTime(elapsed)
    /\ runs' = runs + 1
    /\ last' = tally
    /\ delivered' = EmptyBag
    /\ finished' = FALSE
    /\ UNCHANGED <<flags, conf, exited>>

\* runOnce returns (Wait is nil) and --bench has more runs to make.
Again(elapsed) ==
    /\ finished
    /\ runs + 1 < flags.bench
    /\ AddTime(elapsed)
    /\ runs' = runs + 1
    /\ last' = tally
    /\ delivered' = EmptyBag
    /\ finished' = FALSE
    /\ UNCHANGED <<flags, conf, exited>>

\* Faulty variant: the counters are declared outside runOnce.
Bug_NextRun(elapsed) == Again(elapsed) /\ UNCHANGED tally

NextRun(elapsed) == Again(elapsed) /\ tally' = Zero

\* Faulty variant: the last run is timed for ever.
Bug_LastRun(elapsed) == finished /\ UNCHANGED vars

\* The only run, or the last one of --bench.
LastRun(elapsed) ==
    /\ finished
    /\ ~ exited
    /\ runs + 1 >= flags.bench
    /\ AddTime(elapsed)
    /\ runs' = runs + 1
    /\ last' = tally
    /\ exited' = TRUE
    /\ UNCHANGED <<flags, conf, delivered, finished, tally>>

Exited == exited /\ UNCHANGED vars

Next == \/ Receive \/ RangeEnds
        \/ \E elapsed \in Elapsed : NextRun(elapsed) \/ LastRun(elapsed)
        \/ Exited

\* A walk that is drained ends: Terminates, of Walkman.
Spec == Init /\ [][Next]_vars /\ WF_vars(Next)

-----------------------------------------------------------------------------
(* Properties                                                              *)

Counters == [DOMAIN Zero -> 0 .. Uint32 - 1]

\* Every variable has its type, and the loop over --bench makes no run too many.
TypeOK ==
    /\ flags \in Flags
    /\ conf.maxDepth \in 0 .. Uint32 - 1
    /\ IsABag(delivered)
    /\ tally \in Counters /\ last \in Counters
    /\ runs \in 0 .. Larger(1, flags.bench)
    /\ stats \in [total : Nat, min : Elapsed \cup {Forever}, max : Elapsed \cup {0}]
    /\ finished \in BOOLEAN /\ exited \in BOOLEAN

\* The paths of the directories a walk enters, level by level, until there are no
\* more: a path meets each directory by a link at most once, and otherwise once
\* more as a child of the directory above it.
Entered ==
    LET level[k \in 0 .. 2 * Cardinality(Dir)] ==
          IF k = 0 THEN {<< >>}
          ELSE UNION {ChildrenOf(Stream!BatchAt(conf, p)) : p \in {q \in level[k - 1] :
                          ~ AtMaxDepth(conf, Len(q) + 1)}}
    IN  UNION {level[k] : k \in DOMAIN level}

\* What is printed is what one pass over the tree by one thread would count, modulo
\* 2^32, whatever the order of the batches and however often --bench repeats the
\* walk (TestWalk_ConsumerCounting_Accurate, TestWalk_RepeatedRuns_NoFlakiness):
\* the entries of the whole tree by their d_type, and its errors.
TalliesExact ==
    exited =>
        LET walk    == {Stream!BatchAt(conf, p) : p \in Entered}
            entries == UNION {{<<b.dir, e>> : e \in b.entries} : b \in walk}
            errs    == UNION {{<<b.dir, x>> : x \in b.errs} : b \in walk}
            dirs    == {x \in entries : x[2].typ = "dir"}
            links   == {x \in entries : x[2].typ = "lnk"}
            Printed(things) == Cardinality(things) % Uint32
        IN  last = [files |-> Printed(entries \ (dirs \cup links)), dirs |-> Printed(dirs),
                    links |-> Printed(links), errs |-> Printed(errs)]

\* Of the times --bench prints, the average over its runs lies between the shortest
\* and the longest, and they are those of runs that took place.
StatsOrdered ==
    exited /\ flags.bench > 0 =>
        LET avg == stats.total \div flags.bench
        IN  /\ stats.min <= avg /\ avg <= stats.max
            /\ runs = flags.bench /\ {stats.min, stats.max} \subseteq Elapsed

\* The program prints and exits, with as many runs as it was asked for.
Exits == <>(exited /\ runs = Larger(1, flags.bench))
=============================================================================
