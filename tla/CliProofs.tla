------------------------------ MODULE CliProofs ------------------------------
(***************************************************************************)
(* Theorems about Cli, for every tree, every command line, every width of  *)
(* its integers and all the times its runs may take: no run is made that   *)
(* --bench did not ask for, and the times it prints are in order.          *)
(***************************************************************************)
EXTENDS Cli, SequenceTheorems, FiniteSetTheorems, TLAPS

Limit == flags.maxDepth % Uint32

Bench == Larger(1, flags.bench)

\* A batch, as the loop over the batches reads it.
Countable(b) == IsFiniteSet(b.entries) /\ IsFiniteSet(b.errs)

Walked == /\ IsABag(delivered)
          /\ \A b \in BagToSet(delivered) : Countable(b)
          /\ finished \in BOOLEAN

Counted == tally \in Counters /\ last \in Counters

\* The times of the runs so far.
Timed ==
    /\ stats \in [total : Nat, min : Nat, max : Nat]
    /\ runs * stats.min <= stats.total /\ stats.total <= runs * stats.max
    /\ IF runs = 0 THEN stats.min = Forever /\ stats.max = 0
       ELSE stats.min \in Elapsed /\ stats.max \in Elapsed

\* As many runs as the command line asks for, and at least one.
Paced == /\ runs \in Nat /\ exited \in BOOLEAN
         /\ IF exited THEN runs = Bench ELSE runs < Bench

Inv == /\ flags \in Flags
       /\ \E tree \in Configs : conf = Configured(tree, flags)
       /\ Walked /\ Counted /\ Timed /\ Paced

-----------------------------------------------------------------------------
(* The walk                                                                *)

LEMMA ConfFields ==
    ASSUME Inv
    PROVE  /\ conf.maxDepth = Limit /\ Limit \in 0 .. Uint32 - 1
           /\ \A d \in Dir : conf.list[d] \in Seq(Dirent)
<1>1. PICK tree \in Configs : conf = Configured(tree, flags)
  BY DEF Inv
<1>2. tree \in WalkConf
  BY TreeAssumption
<1>3. conf.maxDepth = Limit /\ conf.list = tree.list
  BY <1>1, <1>2 DEF Configured, WalkConf, Limit
<1>4. flags.maxDepth \in Nat /\ Uint32 \in Nat \ {0}
  BY CliAssumption DEF Inv
<1>5. Limit \in 0 .. Uint32 - 1
  BY <1>4 DEF Limit
<1>6. \A d \in Dir : tree.list[d] \in Seq(Dirent)
  BY <1>2 DEF WalkConf
<1> QED
  BY <1>3, <1>5, <1>6

\* What is made of each element of a finite set is finitely much.
LEMMA FiniteImage ==
    ASSUME NEW S, IsFiniteSet(S), NEW f, f = [x \in S |-> f[x]],
           NEW T, T = {f[x] : x \in S}
    PROVE  IsFiniteSet(T)
<1>1. f \in [S -> T]
  OBVIOUS
<1>2. f \in Surjection(S, T)
  BY <1>1 DEF Surjection
<1> QED
  BY <1>2, FS_Surjection

LEMMA FiniteRange ==
    ASSUME NEW V, NEW s \in Seq(V)
    PROVE  IsFiniteSet(Stream!Range(s))
<1>1. DOMAIN s = 1 .. Len(s) /\ Len(s) \in Nat /\ \A i \in 1 .. Len(s) : s[i] \in V
  BY LenProperties, ElementOfSeq
<1>2. IsFiniteSet(1 .. Len(s))
  BY <1>1, FS_Interval
<1>3. Stream!Range(s) = {s[i] : i \in 1 .. Len(s)}
  BY <1>1 DEF Stream!Range
<1>4. s = [i \in 1 .. Len(s) |-> s[i]]
  BY <1>1
<1> QED
  BY <1>2, <1>3, <1>4, FiniteImage

LEMMA BatchFields ==
    ASSUME Inv, NEW p
    PROVE  Countable(Stream!BatchAt(conf, p)) /\ Stream!BatchAt(conf, p).dir = p
<1> DEFINE d       == Stream!DirAt(conf, p)
           records == {r \in Stream!Range(conf.list[d]) : r.name \notin conf.skipSet}
           Out(r)  == Stream!Outcome(conf, p, r)
           kept    == {x \in records : Out(x) \notin {"dangling", "cycle"}}
           wrong   == {x \in records : Out(x) \in {"dangling", "cycle", "nosys"}}
           Entry(r) == [r EXCEPT !.typ = IF Out(r) = "nosys" THEN "lnk" ELSE Out(r)]
           Error(r) == [at |-> Append(p, r.name), err |-> Out(r)]
           b       == Stream!BatchAt(conf, p)
<1>1. ASSUME ~ Stream!Readable(conf, d) PROVE Countable(b) /\ b.dir = p
  <2> DEFINE R == {[at |-> p, err |-> "unreadable"]}
  <2>1. b = [dir |-> p, entries |-> {}, errs |-> R]
    BY <1>1 DEF Stream!BatchAt
  <2>2. IsFiniteSet({}) /\ IsFiniteSet(R)
    BY FS_EmptySet, FS_Singleton
  <2> HIDE DEF b, R
  <2>3. b.dir = p /\ b.entries = {} /\ b.errs = R
    BY <2>1
  <2> QED
    BY <2>2, <2>3 DEF Countable
<1>2. ASSUME Stream!Readable(conf, d) PROVE Countable(b) /\ b.dir = p
  <2>1. b = [dir |-> p, entries |-> {Entry(r) : r \in kept}, errs |-> {Error(r) : r \in wrong}]
    BY <1>2 DEF Stream!BatchAt
  <2>2. conf.list[d] \in Seq(Dirent)
    BY <1>2, ConfFields DEF Stream!Readable
  <2>3. IsFiniteSet(Stream!Range(conf.list[d]))
    BY <2>2, FiniteRange
  <2>4. kept \subseteq Stream!Range(conf.list[d]) /\ wrong \subseteq Stream!Range(conf.list[d])
    OBVIOUS
  <2>5. IsFiniteSet(kept) /\ IsFiniteSet(wrong)
    BY <2>3, <2>4, FS_Subset
  <2>6. IsFiniteSet({Entry(r) : r \in kept})
    <3> DEFINE f == [r \in kept |-> Entry(r)]
    <3>1. {f[r] : r \in kept} = {Entry(r) : r \in kept} /\ f = [r \in kept |-> f[r]]
      OBVIOUS
    <3> DEFINE T == {Entry(r) : r \in kept}
    <3> HIDE DEF f, kept, Entry
    <3>2. T = {f[r] : r \in kept}
      BY <3>1
    <3> HIDE DEF T
    <3>3. IsFiniteSet(T)
      BY <2>5, <3>1, <3>2, FiniteImage
    <3> QED
      BY <3>3 DEF T
  <2>7. IsFiniteSet({Error(r) : r \in wrong})
    <3> DEFINE f == [r \in wrong |-> Error(r)]
    <3>1. {f[r] : r \in wrong} = {Error(r) : r \in wrong} /\ f = [r \in wrong |-> f[r]]
      OBVIOUS
    <3> DEFINE T == {Error(r) : r \in wrong}
    <3> HIDE DEF f, wrong, Error
    <3>2. T = {f[r] : r \in wrong}
      BY <3>1
    <3> HIDE DEF T
    <3>3. IsFiniteSet(T)
      BY <2>5, <3>1, <3>2, FiniteImage
    <3> QED
      BY <3>3 DEF T
  <2> DEFINE E == {Entry(r) : r \in kept}
             R == {Error(r) : r \in wrong}
  <2> HIDE DEF b, E, R
  <2>8. b.dir = p /\ b.entries = E /\ b.errs = R
    BY <2>1 DEF E, R
  <2> QED
    BY <2>6, <2>7, <2>8 DEF Countable, E, R
<1>3. Countable(b) /\ b.dir = p
  <2> HIDE DEF b
  <2> QED
    BY <1>1, <1>2
<1> QED
  BY <1>3

LEMMA OneMore ==
    ASSUME NEW B, IsABag(B), NEW b
    PROVE  LET C == Stream!(+)(B, Stream!SetToBag({b}))
           IN  IsABag(C) /\ BagToSet(C) = BagToSet(B) \cup {b}
BY DEF IsABag, BagToSet, Stream!(+), Stream!SetToBag

LEMMA NothingYet == IsABag(EmptyBag) /\ BagToSet(EmptyBag) = {}
BY DEF EmptyBag, SetToBag, IsABag, BagToSet

-----------------------------------------------------------------------------
(* The counters                                                            *)

LEMMA ZeroIsCounters == Zero \in Counters
<1>1. Uint32 \in Nat \ {0}
  BY CliAssumption
<1>2. 0 \in 0 .. Uint32 - 1
  BY <1>1
<1>3. Zero = [k \in DOMAIN Zero |-> 0]
  BY DEF Zero
<1> QED
  BY <1>2, <1>3 DEF Counters

LEMMA CountIsNatural ==
    ASSUME NEW b, Countable(b), NEW k \in DOMAIN Zero
    PROVE  Count(b)[k] \in Nat
<1> DEFINE Of(modes) == Cardinality({e \in b.entries : FileMode(e) \in modes})
<1>1. ASSUME NEW modes PROVE Of(modes) \in Nat
  <2> DEFINE S == {e \in b.entries : FileMode(e) \in modes}
  <2>1. S \subseteq b.entries /\ IsFiniteSet(b.entries)
    BY DEF Countable
  <2> HIDE DEF S
  <2>2. Cardinality(S) \in Nat
    BY <2>1, FS_Subset, FS_CardinalityType
  <2> QED
    BY <2>2 DEF S
<1>2. Cardinality(b.errs) \in Nat
  BY FS_CardinalityType DEF Countable
<1>3. Count(b) = [files |-> Of({"0", "ModeIrregular"}), dirs |-> Of({"ModeDir"}),
                  links |-> Of({"ModeSymlink"}), errs |-> Cardinality(b.errs)]
  BY DEF Count
<1>4. k \in {"files", "dirs", "links", "errs"}
  BY DEF Zero
<1> HIDE DEF Of
<1> QED
  BY <1>1, <1>2, <1>3, <1>4

LEMMA PlusIsCounters ==
    ASSUME NEW s \in Counters, NEW b, Countable(b)
    PROVE  Plus(s, Count(b)) \in Counters
<1>1. Uint32 \in Nat \ {0}
  BY CliAssumption
<1>2. ASSUME NEW k \in DOMAIN Zero PROVE (s[k] + Count(b)[k]) % Uint32 \in 0 .. Uint32 - 1
  <2>1. s[k] \in Nat
    BY <1>1 DEF Counters
  <2>2. Count(b)[k] \in Nat
    BY CountIsNatural
  <2> QED
    BY <1>1, <2>1, <2>2
<1> QED
  BY <1>2 DEF Plus, Counters

-----------------------------------------------------------------------------
(* The times                                                               *)

\* n times no more than each of them, and one more.
LEMMA OneMoreTime ==
    ASSUME NEW n \in Nat, NEW a \in Nat, NEW t \in Nat, NEW e \in Nat, NEW b \in Nat,
           n * a <= t, b <= a, b <= e
    PROVE  (n + 1) * b <= t + e
<1>1. n * b <= n * a
  OBVIOUS
<1>2. (n + 1) * b = n * b + b /\ n * b \in Nat /\ n * a \in Nat
  OBVIOUS
<1> QED
  BY <1>1, <1>2

LEMMA OneMoreTimeAbove ==
    ASSUME NEW n \in Nat, NEW a \in Nat, NEW t \in Nat, NEW e \in Nat, NEW b \in Nat,
           t <= n * a, a <= b, e <= b
    PROVE  t + e <= (n + 1) * b
<1>1. n * a <= n * b
  OBVIOUS
<1>2. (n + 1) * b = n * b + b /\ n * b \in Nat /\ n * a \in Nat
  OBVIOUS
<1> QED
  BY <1>1, <1>2

LEMMA TimeAdded ==
    ASSUME Inv, NEW elapsed \in Elapsed, AddTime(elapsed), runs' = runs + 1
    PROVE  Timed'
<1> DEFINE low  == Smaller(stats.min, elapsed)
           high == Larger(stats.max, elapsed)
<1>1. stats' = [total |-> stats.total + elapsed, min |-> low, max |-> high]
  BY DEF AddTime
<1>2. /\ stats.total \in Nat /\ stats.min \in Nat /\ stats.max \in Nat /\ runs \in Nat
      /\ runs * stats.min <= stats.total /\ stats.total <= runs * stats.max
  BY DEF Inv, Timed, Paced
<1>3. elapsed \in Nat /\ elapsed <= Forever /\ Forever \in Nat
  BY CliAssumption
<1>4. /\ low \in Nat /\ low <= stats.min /\ low <= elapsed
      /\ high \in Nat /\ stats.max <= high /\ elapsed <= high
  BY <1>2, <1>3 DEF Smaller, Larger
<1>5. low \in Elapsed /\ high \in Elapsed
  <2>1. CASE runs = 0
    <3>1. stats.min = Forever /\ stats.max = 0
      BY <2>1 DEF Inv, Timed
    <3> QED
      BY <1>3, <3>1 DEF Smaller, Larger
  <2>2. CASE runs # 0
    BY <2>2 DEF Inv, Timed, Smaller, Larger
  <2> QED
    BY <2>1, <2>2
<1> HIDE DEF low, high
<1>6. (runs + 1) * low <= stats.total + elapsed
  BY <1>2, <1>3, <1>4, OneMoreTime
<1>7. stats.total + elapsed <= (runs + 1) * high
  BY <1>2, <1>3, <1>4, OneMoreTimeAbove
<1>8. runs' # 0 /\ stats.total + elapsed \in Nat
  BY <1>2, <1>3
<1>9. /\ stats' \in [total : Nat, min : Nat, max : Nat]
      /\ stats'.total = stats.total + elapsed /\ stats'.min = low /\ stats'.max = high
  BY <1>1, <1>4, <1>8
<1> QED
  BY <1>5, <1>6, <1>7, <1>8, <1>9 DEF Timed

-----------------------------------------------------------------------------
(* The steps                                                               *)

LEMMA BenchIsPositive == ASSUME Inv PROVE flags.bench \in Nat /\ Bench \in Nat \ {0}
BY CliAssumption DEF Inv, Bench, Larger

LEMMA InitInv == Init => Inv
<1> SUFFICES ASSUME Init PROVE Inv
  OBVIOUS
<1>1. flags \in Flags /\ \E tree \in Configs : conf = Configured(tree, flags)
  BY DEF Init
<1>2. Walked
  BY NothingYet DEF Init, Walked
<1>3. Counted
  BY ZeroIsCounters DEF Init, Counted
<1>4. Timed
  BY CliAssumption DEF Init, Timed
<1>5. Paced
  <2>1. flags.bench \in Nat
    BY <1>1, CliAssumption
  <2>2. Bench \in Nat /\ 0 < Bench
    BY <2>1 DEF Bench, Larger
  <2>3. runs = 0 /\ exited = FALSE
    BY DEF Init
  <2> QED
    BY <2>2, <2>3 DEF Paced
<1> QED
  BY <1>1, <1>2, <1>3, <1>4, <1>5 DEF Inv

LEMMA ReceiveInv == ASSUME Inv, Receive PROVE Inv'
<1>1. /\ ~ finished /\ UNCHANGED <<flags, conf, finished, runs, last, stats, exited>>
  BY DEF Receive, Stream!Deliver
<1>2. PICK p \in Stream!Announced \ Stream!Visited :
         delivered' = Stream!(+)(delivered, Stream!SetToBag({Stream!BatchAt(conf, p)}))
  BY DEF Receive, Stream!Deliver
<1> DEFINE b == Stream!BatchAt(conf, p)
<1>4. Countable(b) /\ b.dir = p
  BY BatchFields
<1>5. IsABag(delivered') /\ BagToSet(delivered') = BagToSet(delivered) \cup {b}
  BY <1>2, OneMore DEF Inv, Walked
<1> HIDE DEF b
<1>6. \A x \in BagToSet(delivered') : Countable(x)
  BY <1>4, <1>5 DEF Inv, Walked
<1>7. Walked'
  BY <1>1, <1>5, <1>6 DEF Inv, Walked, Countable
<1>8. Counted'
  <2> DEFINE x == CHOOSE x \in BagToSet(delivered') : x.dir \notin Stream!Visited
  <2>1. x \in BagToSet(delivered')
    BY <1>2, <1>4, <1>5
  <2>2. tally' = Plus(tally, Count(x))
    BY DEF Receive
  <2> HIDE DEF x
  <2>3. Countable(x)
    BY <1>6, <2>1
  <2> QED
    BY <1>1, <2>2, <2>3, PlusIsCounters DEF Inv, Counted
<1>9. Timed' /\ Paced'
  BY <1>1 DEF Inv, Timed, Paced, Bench
<1> QED
  BY <1>1, <1>7, <1>8, <1>9 DEF Inv

LEMMA RangeEndsInv == ASSUME Inv, RangeEnds PROVE Inv'
<1>1. /\ finished' = TRUE
      /\ UNCHANGED <<flags, conf, delivered, tally, runs, last, stats, exited>>
  BY DEF RangeEnds, Stream!Finish
<1>2. Walked'
  BY <1>1 DEF Inv, Walked, Countable
<1>3. Counted' /\ Timed' /\ Paced'
  BY <1>1 DEF Inv, Counted, Timed, Paced, Bench
<1> QED
  BY <1>1, <1>2, <1>3 DEF Inv

LEMMA NextRunInv == ASSUME Inv, NEW elapsed \in Elapsed, NextRun(elapsed) PROVE Inv'
<1>1. /\ runs + 1 < flags.bench /\ AddTime(elapsed) /\ runs' = runs + 1 /\ last' = tally
      /\ delivered' = EmptyBag /\ finished' = FALSE /\ tally' = Zero
      /\ UNCHANGED <<flags, conf, exited>>
  BY DEF NextRun, Again
<1>2. Walked'
  BY <1>1, NothingYet DEF Walked
<1>3. Counted'
  BY <1>1, ZeroIsCounters DEF Inv, Counted
<1>4. Timed'
  BY <1>1, TimeAdded
<1>5. Paced'
  BY <1>1, BenchIsPositive DEF Inv, Paced, Bench, Larger
<1> QED
  BY <1>1, <1>2, <1>3, <1>4, <1>5 DEF Inv

LEMMA LastRunInv == ASSUME Inv, NEW elapsed \in Elapsed, LastRun(elapsed) PROVE Inv'
<1>1. /\ ~ exited /\ runs + 1 >= flags.bench /\ AddTime(elapsed) /\ runs' = runs + 1
      /\ last' = tally /\ exited' = TRUE
      /\ UNCHANGED <<flags, conf, delivered, finished, tally>>
  BY DEF LastRun
<1>2. Walked'
  BY <1>1 DEF Inv, Walked, Countable
<1>3. Counted'
  BY <1>1 DEF Inv, Counted
<1>4. Timed'
  BY <1>1, TimeAdded
<1>5. Paced'
  BY <1>1, BenchIsPositive DEF Inv, Paced, Bench, Larger
<1> QED
  BY <1>1, <1>2, <1>3, <1>4, <1>5 DEF Inv

LEMMA NextInv == ASSUME Inv, [Next]_vars PROVE Inv'
<1>1. ASSUME UNCHANGED vars PROVE Inv'
  BY <1>1 DEF vars, Inv, Walked, Counted, Timed, Paced, Bench, Countable
<1> QED
  BY <1>1, ReceiveInv, RangeEndsInv, NextRunInv, LastRunInv DEF Next, Exited

-----------------------------------------------------------------------------
(* The theorems                                                            *)

LEMMA Invariance == Spec => []Inv
<1>1. Inv /\ [Next]_vars => Inv'
  BY NextInv
<1> QED
  BY InitInv, <1>1, PTL DEF Spec

\* No run is made that --bench did not ask for: one without it, and N with it,
\* whatever the walks send.  (That the counters and the limit fit their width is
\* part of the type and says no more than that main.go computes modulo 2^32.)
THEOREM CliTypeCorrect == Spec => []TypeOK
<1>1. ASSUME Inv PROVE TypeOK
  <2>1. flags \in Flags /\ conf.maxDepth \in 0 .. Uint32 - 1 /\ IsABag(delivered)
        /\ tally \in Counters /\ last \in Counters /\ finished \in BOOLEAN /\ exited \in BOOLEAN
    BY <1>1, ConfFields DEF Inv, Walked, Counted, Paced
  <2>2. runs \in 0 .. Larger(1, flags.bench)
    BY <1>1, BenchIsPositive DEF Inv, Paced, Bench
  <2>3. stats.min \in Elapsed \cup {Forever} /\ stats.max \in Elapsed \cup {0}
    BY <1>1 DEF Inv, Timed
  <2>4. stats \in [total : Nat, min : Elapsed \cup {Forever}, max : Elapsed \cup {0}]
    BY <1>1, <2>3 DEF Inv, Timed
  <2> QED
    BY <2>1, <2>2, <2>4 DEF TypeOK
<1> QED
  BY <1>1, Invariance, PTL

\* What --bench prints is in order: the average of all runs it was asked for lies
\* between the shortest and the longest, which are times of runs that took place.
THEOREM StatsAreOrdered == Spec => []StatsOrdered
<1>1. ASSUME Inv, exited, flags.bench > 0
      PROVE  /\ stats.min <= stats.total \div flags.bench
             /\ stats.total \div flags.bench <= stats.max
             /\ runs = flags.bench /\ {stats.min, stats.max} \subseteq Elapsed
  <2>1. runs = flags.bench /\ runs \in Nat \ {0}
    BY <1>1, BenchIsPositive DEF Inv, Paced, Bench, Larger
  <2>2. /\ stats.total \in Nat /\ stats.min \in Nat /\ stats.max \in Nat
        /\ runs * stats.min <= stats.total /\ stats.total <= runs * stats.max
        /\ stats.min \in Elapsed /\ stats.max \in Elapsed
    BY <1>1, <2>1 DEF Inv, Timed
  <2> DEFINE avg == stats.total \div runs
  <2>3. avg \in Nat /\ runs * avg <= stats.total /\ stats.total < runs * (avg + 1)
    BY <2>1, <2>2
  <2> HIDE DEF avg
  <2>4. \A n \in Nat \ {0} : \A x, y \in Nat : n * x < n * y => x < y
    OBVIOUS
  <2>5. stats.min <= avg
    <3>1. runs * stats.min < runs * (avg + 1)
      BY <2>1, <2>2, <2>3
    <3>2. stats.min < avg + 1
      BY <2>1, <2>2, <2>3, <2>4, <3>1
    <3> QED
      BY <2>2, <2>3, <3>2
  <2>6. avg <= stats.max
    <3>1. runs * avg < runs * (stats.max + 1)
      BY <2>1, <2>2, <2>3
    <3>2. avg < stats.max + 1
      BY <2>1, <2>2, <2>3, <2>4, <3>1
    <3> QED
      BY <2>2, <2>3, <3>2
  <2> QED
    BY <2>1, <2>2, <2>5, <2>6 DEF avg
<1>2. Inv => StatsOrdered
  BY <1>1 DEF StatsOrdered
<1> QED
  BY <1>2, Invariance, PTL
=============================================================================
