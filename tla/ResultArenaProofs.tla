-------------------------- MODULE ResultArenaProofs --------------------------
(***************************************************************************)
(* Theorems about ResultArena, for every node size, capacity of DirErrs    *)
(* and set of listings: what a batch points at is never written again, and *)
(* the slices of every batch keep reading what its directory held.         *)
(***************************************************************************)
EXTENDS ResultArena, SequenceTheorems, TLAPS

\* The window lies within its array.
Within(h, s) == s.arr \in DOMAIN h /\ s.from + s.len <= Len(h[s.arr])

\* Every array of h is in g, no shorter or longer than it was.
SameArrays(h, g) == \A a \in DOMAIN h : a \in DOMAIN g /\ Len(g[a]) = Len(h[a])

\* The three arrays the worker writes to are three different ones.
Buffers ==
    /\ heap \in Seq(Seq(Value))
    /\ tail \in DOMAIN heap /\ Len(heap[tail]) = NodeSize /\ off \in 0 .. NodeSize
    /\ scratch \in Slice /\ scratch.from = 0 /\ Within(heap, scratch)
    /\ dirErrs \in Slice /\ dirErrs.from = 0 /\ Within(heap, dirErrs)
    /\ Len(heap[dirErrs.arr]) > 0
    /\ scratch.arr # tail /\ scratch.arr # dirErrs.arr /\ tail # dirErrs.arr

Progress ==
    /\ pc \in {"idle", "listed", "stored"}
    /\ dir \in 0 .. MaxDirs
    /\ mark \in 0 .. dirErrs.len
    /\ entries \in Slice
    /\ batches \in Seq([entries : Slice, errs : Slice])
    /\ pc = "idle" => Len(batches) = dir
    /\ pc # "idle" => Len(batches) + 1 = dir

\* The worker writes to its scratch at will, and to the other two behind what
\* they hold; so s keeps what it has if it is empty or lies elsewhere.
Frozen(s) ==
    \/ s.len = 0
    \/ /\ Within(heap, s)
       /\ s.arr # scratch.arr
       /\ s.arr = tail => s.from + s.len <= off
       /\ s.arr = dirErrs.arr => s.from + s.len <= dirErrs.len

Sent == \A k \in DOMAIN batches : Frozen(batches[k].entries) /\ Frozen(batches[k].errs)

\* What the directory at hand has left in the scratch, the arena and dirErrs.
Contents ==
    /\ pc = "listed" => /\ scratch.len \in Sizes
                        /\ Read(heap, scratch) = Listing(dir, scratch.len)
    /\ pc = "stored" => /\ Frozen(entries)
                        /\ entries.len \in Sizes
                        /\ Read(heap, entries) = Listing(dir, entries.len)
    /\ pc # "idle" => /\ dirErrs.len - mark <= MaxErrs
                      /\ \A i \in 1 .. dirErrs.len - mark :
                            heap[dirErrs.arr][mark + i] = DirErr(dir, i)

Inv == Buffers /\ Progress /\ Sent /\ Contents

\* No window that was frozen is written to or thawed.
Kept == \A s \in Slice : Frozen(s) => Frozen(s)' /\ Read(heap', s) = Read(heap, s)

-----------------------------------------------------------------------------
(* Slices and their arrays                                                 *)

LEMMA FunctionIsSeq ==
    ASSUME NEW V, NEW n \in Nat, NEW f \in [1 .. n -> V]
    PROVE  f \in Seq(V) /\ Len(f) = n
<1>1. f \in Seq(V)
  BY SeqDef
<1>2. DOMAIN f = 1 .. n
  OBVIOUS
<1> QED
  BY <1>1, <1>2, LenProperties

LEMMA MakeType ==
    ASSUME NEW V, NEW v \in V, NEW n \in Nat
    PROVE  Make(n, v) \in Seq(V) /\ Len(Make(n, v)) = n /\ \A i \in 1 .. n : Make(n, v)[i] = v
<1>1. Make(n, v) \in [1 .. n -> V]
  BY DEF Make
<1> QED
  BY <1>1, FunctionIsSeq DEF Make

\* An array of the heap, and its elements.
LEMMA ArrayType ==
    ASSUME NEW V, NEW h \in Seq(Seq(V)), NEW a \in DOMAIN h
    PROVE  /\ a \in Nat \ {0} /\ a <= Len(h)
           /\ h[a] \in Seq(V) /\ Len(h[a]) \in Nat /\ DOMAIN h[a] = 1 .. Len(h[a])
           /\ \A i \in 1 .. Len(h[a]) : h[a][i] \in V
<1>1. DOMAIN h = 1 .. Len(h) /\ Len(h) \in Nat
  BY LenProperties
<1>2. h[a] \in Seq(V)
  BY ElementOfSeq, <1>1
<1> QED
  BY <1>1, <1>2, LenProperties, ElementOfSeq

LEMMA ReadType ==
    ASSUME NEW V, NEW h \in Seq(Seq(V)), NEW s \in Slice, s.len = 0 \/ Within(h, s)
    PROVE  /\ Read(h, s) \in Seq(V) /\ Len(Read(h, s)) = s.len
           /\ \A i \in 1 .. s.len : Read(h, s)[i] = h[s.arr][s.from + i]
<1>1. s.len \in Nat /\ s.from \in Nat
  BY DEF Slice
<1>2. ASSUME NEW i \in 1 .. s.len PROVE h[s.arr][s.from + i] \in V
  <2>1. Within(h, s)
    BY <1>1, <1>2
  <2>2. Len(h[s.arr]) \in Nat /\ \A j \in 1 .. Len(h[s.arr]) : h[s.arr][j] \in V
    BY <2>1, ArrayType DEF Within
  <2> QED
    BY <1>1, <1>2, <2>1, <2>2 DEF Within
<1>3. Read(h, s) \in [1 .. s.len -> V]
  BY <1>2 DEF Read
<1>4. Read(h, s) \in Seq(V) /\ Len(Read(h, s)) = s.len
  BY <1>1, <1>3, FunctionIsSeq
<1> QED
  BY <1>4 DEF Read

\* copy writes its items into the window and nothing anywhere else.
LEMMA CopyWrites ==
    ASSUME NEW V, NEW h \in Seq(Seq(V)), NEW s \in Slice, NEW items \in Seq(V),
           s.arr \in DOMAIN h, s.from + Len(items) <= Len(h[s.arr])
    PROVE  LET g == Copy(h, s, items)
           IN  /\ g \in Seq(Seq(V)) /\ Len(g) = Len(h) /\ DOMAIN g = DOMAIN h
               /\ SameArrays(h, g)
               /\ \A i \in 1 .. Len(items) : g[s.arr][s.from + i] = items[i]
               /\ \A a \in DOMAIN h : \A i \in 1 .. Len(h[a]) :
                     a # s.arr \/ i <= s.from \/ i > s.from + Len(items) => g[a][i] = h[a][i]
<1> DEFINE g == Copy(h, s, items)
           n == Len(items)
           old == h[s.arr]
           new == [i \in DOMAIN old |-> IF i \in s.from + 1 .. s.from + n
                                        THEN items[i - s.from] ELSE old[i]]
<1>1. s.from \in Nat /\ s.arr \in Nat
  BY DEF Slice
<1>2. n \in Nat /\ \A i \in 1 .. n : items[i] \in V
  BY LenProperties, ElementOfSeq
<1>3. old \in Seq(V) /\ Len(old) \in Nat /\ DOMAIN old = 1 .. Len(old)
      /\ \A i \in 1 .. Len(old) : old[i] \in V
  BY ArrayType
<1>4. g = [h EXCEPT ![s.arr] = new]
  BY DEF Copy
<1>5. DOMAIN h = 1 .. Len(h) /\ Len(h) \in Nat
  BY LenProperties
<1> HIDE DEF g, n, old
<1>6. new \in Seq(V) /\ Len(new) = Len(old)
  <2>1. ASSUME NEW i \in 1 .. Len(old) PROVE new[i] \in V
    <3>1. CASE i \in s.from + 1 .. s.from + n
      <4>1. i - s.from \in 1 .. n
        <5>1. \A from, to \in Nat : \A j \in from + 1 .. from + to : j - from \in 1 .. to
          OBVIOUS
        <5> QED
          BY <1>1, <1>2, <3>1, <5>1
      <4> QED
        BY <1>2, <1>3, <3>1, <4>1
    <3>2. CASE i \notin s.from + 1 .. s.from + n
      BY <1>3, <3>2
    <3> QED
      BY <3>1, <3>2
  <2>2. new \in [1 .. Len(old) -> V]
    BY <1>3, <2>1
  <2> QED
    BY <1>3, <2>2, FunctionIsSeq
<1>7. g \in Seq(Seq(V)) /\ Len(g) = Len(h) /\ DOMAIN g = DOMAIN h
  BY <1>4, <1>5, <1>6, ExceptSeq
<1>8. g[s.arr] = new /\ \A a \in DOMAIN h : a # s.arr => g[a] = h[a]
  BY <1>4
<1>9. SameArrays(h, g)
  BY <1>6, <1>7, <1>8 DEF SameArrays, old
<1>10. ASSUME NEW i \in 1 .. n PROVE g[s.arr][s.from + i] = items[i]
  <2>1. s.from + i \in DOMAIN old /\ s.from + i \in s.from + 1 .. s.from + n
        /\ (s.from + i) - s.from = i
    BY <1>1, <1>2, <1>3 DEF n, old
  <2> QED
    BY <1>8, <2>1
<1>11. ASSUME NEW a \in DOMAIN h, NEW i \in 1 .. Len(h[a]),
              a # s.arr \/ i <= s.from \/ i > s.from + n
       PROVE  g[a][i] = h[a][i]
  <2>1. CASE a # s.arr
    BY <1>8, <2>1
  <2>2. CASE a = s.arr
    <3>1. i \in DOMAIN old /\ i \notin s.from + 1 .. s.from + n
      BY <1>1, <1>2, <1>3, <1>11, <2>2 DEF old
    <3> QED
      BY <1>8, <2>2, <3>1 DEF old
  <2> QED
    BY <2>1, <2>2
<1> QED
  BY <1>7, <1>9, <1>10, <1>11 DEF g, n

\* A new array leaves the old ones as they are.
LEMMA ArrayAdded ==
    ASSUME NEW V, NEW h \in Seq(Seq(V)), NEW items \in Seq(V)
    PROVE  LET g == Append(h, items)
           IN  /\ g \in Seq(Seq(V)) /\ DOMAIN h \subseteq DOMAIN g
               /\ Len(g) = Len(h) + 1 /\ Len(h) \in Nat
               /\ Len(h) + 1 \in DOMAIN g /\ Len(h) + 1 \notin DOMAIN h
               /\ g[Len(h) + 1] = items
               /\ SameArrays(h, g)
               /\ \A a \in DOMAIN h : g[a] = h[a]
<1>1. DOMAIN h = 1 .. Len(h) /\ Len(h) \in Nat
  BY LenProperties
<1>2. /\ Append(h, items) \in Seq(Seq(V)) /\ Len(Append(h, items)) = Len(h) + 1
      /\ \A a \in 1 .. Len(h) : Append(h, items)[a] = h[a]
      /\ Append(h, items)[Len(h) + 1] = items
  BY AppendProperties
<1>3. DOMAIN Append(h, items) = 1 .. Len(h) + 1
  BY <1>1, <1>2, LenProperties
<1> QED
  BY <1>1, <1>2, <1>3 DEF SameArrays

-----------------------------------------------------------------------------
(* Types                                                                   *)

LEMMA Sane ==
    /\ NodeSize \in Nat \ {0} /\ ErrCap \in Nat \ {0} /\ Sizes \subseteq Nat
    /\ MaxErrs \in Nat /\ MaxDirs \in Nat
BY ResultArenaAssumption

LEMMA ZeroType == Zero \in Value
BY DEF Zero, Value

LEMMA ListingType ==
    ASSUME NEW d \in Nat, NEW n \in Nat
    PROVE  Listing(d, n) \in Seq(Value) /\ Len(Listing(d, n)) = n
<1>1. \A i \in 1 .. n : Entry(d, i) \in Value
  BY DEF Entry, Value
<1>2. Listing(d, n) \in [1 .. n -> Value]
  BY <1>1 DEF Listing
<1> QED
  BY <1>2, FunctionIsSeq

LEMMA DirErrType ==
    ASSUME NEW d \in Nat, NEW i \in Nat
    PROVE  /\ DirErr(d, i) \in Value /\ << DirErr(d, i) >> \in Seq(Value)
           /\ Len(<< DirErr(d, i) >>) = 1 /\ << DirErr(d, i) >>[1] = DirErr(d, i)
<1>1. DirErr(d, i) \in Value
  BY DEF DirErr, Value
<1> QED
  BY <1>1

\* The windows of a batch.
LEMMA BatchType ==
    ASSUME Progress, NEW k \in DOMAIN batches
    PROVE  batches[k].entries \in Slice /\ batches[k].errs \in Slice
<1>1. k \in 1 .. Len(batches)
  BY LenProperties DEF Progress
<1>2. batches[k] \in [entries : Slice, errs : Slice]
  BY <1>1, ElementOfSeq DEF Progress
<1> QED
  BY <1>2

LEMMA InvImpliesTypeOK == Inv => TypeOK
<1> SUFFICES ASSUME Inv PROVE TypeOK
  OBVIOUS
<1>1. ASSUME NEW s \in {scratch, dirErrs}
      PROVE  s \in Slice /\ s.arr \in DOMAIN heap /\ s.from = 0 /\ s.len <= Capacity(heap, s)
  <2>1. s \in Slice /\ s.from = 0 /\ Within(heap, s)
    BY DEF Inv, Buffers
  <2>2. s.arr # 0 /\ s.len \in Nat /\ Len(heap[s.arr]) \in Nat /\ s.len <= Len(heap[s.arr])
    BY SMTT(60), <2>1, ArrayType DEF Inv, Buffers, Within, Slice
  <2> QED
    BY <2>1, <2>2 DEF Within, Capacity
<1> QED
  BY <1>1 DEF Inv, Buffers, Progress, TypeOK

LEMMA InvImpliesHeldIsFrozen == Inv => HeldIsFrozen
<1> SUFFICES ASSUME Inv, NEW k \in DOMAIN batches,
                    NEW s \in {batches[k].entries, batches[k].errs}, NEW c \in Cells(s)
             PROVE  c \notin Writable
  BY DEF HeldIsFrozen, Held
<1>1. s \in Slice /\ Frozen(s)
  BY BatchType DEF Inv, Sent
<1>2. s.len # 0
  BY <1>1 DEF Cells, Slice
<1>3. c[1] = s.arr /\ c[2] \in s.from + 1 .. s.from + s.len
  BY DEF Cells
<1>4. c \notin Room(heap, scratch, 0)
  BY <1>1, <1>2, <1>3 DEF Frozen, Room
<1>5. c \notin Room(heap, Window(tail, 0, off), off)
  BY SMTT(60), <1>1, <1>2, <1>3, Sane DEF Frozen, Room, Window, Slice, Inv, Buffers
<1>6. c \notin Room(heap, dirErrs, dirErrs.len)
  BY SMTT(60), <1>1, <1>2, <1>3 DEF Frozen, Room, Slice, Inv, Buffers
<1> QED
  BY <1>4, <1>5, <1>6 DEF Writable

-----------------------------------------------------------------------------
(* Frames                                                                  *)

\* A copy into the scratch, or behind what the tail or dirErrs holds.
LEMMA CopyKeeps ==
    ASSUME Buffers, NEW w \in Slice, NEW items \in Seq(Value),
           w.arr \in DOMAIN heap, w.from + Len(items) <= Len(heap[w.arr]),
           \/ w.arr = scratch.arr
           \/ w.arr = tail /\ w.from >= off
           \/ w.arr = dirErrs.arr /\ w.from >= dirErrs.len,
           heap' = Copy(heap, w, items),
           scratch'.arr = scratch.arr,
           tail' = tail, off' \in Nat, off' >= off,
           dirErrs'.arr = dirErrs.arr, dirErrs'.len \in Nat, dirErrs'.len >= dirErrs.len
    PROVE  Kept
<1> SUFFICES ASSUME NEW s \in Slice, Frozen(s)
             PROVE  Frozen(s)' /\ Read(heap', s) = Read(heap, s)
  BY DEF Kept
<1>1. s.from \in Nat /\ s.len \in Nat
  BY DEF Slice
<1>2. off \in Nat /\ dirErrs.len \in Nat
  BY Sane DEF Buffers, Slice
<1>3. CASE s.len = 0
  BY <1>3 DEF Frozen, Read
<1>4. CASE s.len # 0
  <2>1. /\ Within(heap, s)
        /\ s.arr # scratch.arr
        /\ s.arr = tail => s.from + s.len <= off
        /\ s.arr = dirErrs.arr => s.from + s.len <= dirErrs.len
    BY <1>4 DEF Frozen
  <2>2. /\ SameArrays(heap, heap')
        /\ \A a \in DOMAIN heap : \A i \in 1 .. Len(heap[a]) :
              a # w.arr \/ i <= w.from \/ i > w.from + Len(items) => heap'[a][i] = heap[a][i]
    <3>1. heap \in Seq(Seq(Value))
      BY DEF Buffers
    <3> QED
      BY <3>1, CopyWrites
  <2>3. Len(heap[s.arr]) \in Nat
    BY <2>1, ArrayType DEF Buffers, Within
  <2>4. Within(heap', s)
    BY <2>1, <2>2 DEF Within, SameArrays
  <2>5. Frozen(s)'
    BY <1>1, <1>2, <2>1, <2>4 DEF Frozen
  <2>6. ASSUME NEW i \in 1 .. s.len PROVE heap'[s.arr][s.from + i] = heap[s.arr][s.from + i]
    <3>1. s.arr \in DOMAIN heap /\ s.from + i \in 1 .. Len(heap[s.arr])
      BY <1>1, <2>1, <2>3 DEF Within
    <3>2. s.arr # w.arr \/ s.from + i <= w.from
      BY <1>1, <1>2, <2>1 DEF Slice
    <3> QED
      BY <2>2, <3>1, <3>2
  <2> QED
    BY <2>5, <2>6 DEF Read
<1> QED
  BY <1>3, <1>4

\* A new array, to which any of the three may move.
LEMMA AddKeeps ==
    ASSUME Buffers, NEW items \in Seq(Value), heap' = Append(heap, items),
           scratch'.arr \in {scratch.arr, Len(heap) + 1},
           (tail' = tail /\ off' = off) \/ tail' = Len(heap) + 1,
           dirErrs' = dirErrs \/ dirErrs'.arr = Len(heap) + 1
    PROVE  Kept
<1> SUFFICES ASSUME NEW s \in Slice, Frozen(s)
             PROVE  Frozen(s)' /\ Read(heap', s) = Read(heap, s)
  BY DEF Kept
<1>1. CASE s.len = 0
  BY <1>1 DEF Frozen, Read, Slice
<1>2. CASE s.len # 0
  <2>1. /\ Within(heap, s)
        /\ s.arr # scratch.arr
        /\ s.arr = tail => s.from + s.len <= off
        /\ s.arr = dirErrs.arr => s.from + s.len <= dirErrs.len
    BY <1>2 DEF Frozen
  <2>2. /\ DOMAIN heap \subseteq DOMAIN heap'
        /\ Len(heap) + 1 \notin DOMAIN heap
        /\ \A a \in DOMAIN heap : heap'[a] = heap[a]
    BY ArrayAdded DEF Buffers
  <2>3. s.arr # Len(heap) + 1 /\ heap'[s.arr] = heap[s.arr] /\ Within(heap', s)
    BY <2>1, <2>2 DEF Within
  <2> QED
    BY <2>1, <2>3 DEF Frozen, Read
<1> QED
  BY <1>1, <1>2

\* Nothing is written.
LEMMA SameKeeps ==
    ASSUME UNCHANGED <<heap, scratch, tail, off, dirErrs>>
    PROVE  Kept
BY DEF Kept, Frozen, Within, Read

\* The batches that were sent stay frozen, and read what they did.
LEMMA KeptBatches ==
    ASSUME Inv, Kept, batches' = batches
    PROVE  Sent' /\ Stored' = Stored
<1>1. ASSUME NEW k \in DOMAIN batches, NEW s \in {batches[k].entries, batches[k].errs}
      PROVE  Frozen(s)' /\ Read(heap', s) = Read(heap, s)
  <2>1. s \in Slice /\ Frozen(s)
    BY BatchType DEF Inv, Sent
  <2> QED
    BY <2>1 DEF Kept
<1>2. Sent'
  BY <1>1 DEF Sent, Frozen
<1>3. Stored' = Stored
  BY <1>1 DEF Stored
<1> QED
  BY <1>2, <1>3

-----------------------------------------------------------------------------
(* Every action keeps the invariant and what was sent                      *)

LEMMA InitInv == Init => Inv
<1> SUFFICES ASSUME Init PROVE Inv
  OBVIOUS
<1> DEFINE node == Make(NodeSize, Zero)
           errs == Make(ErrCap, Zero)
<1>1. node \in Seq(Value) /\ Len(node) = NodeSize /\ errs \in Seq(Value) /\ Len(errs) = ErrCap
  BY MakeType, ZeroType, Sane
<1> HIDE DEF node, errs
<1>2. heap = << node, node, errs >>
  BY DEF Init, node, errs
<1>3. heap \in Seq(Seq(Value)) /\ DOMAIN heap = 1 .. 3
      /\ heap[1] = node /\ heap[2] = node /\ heap[3] = errs
  BY <1>1, <1>2
<1>4. Window(2, 0, 0) \in Slice /\ Window(3, 0, 0) \in Slice /\ Nil \in Slice
  BY DEF Window, Slice, Nil
<1>5. Buffers
  BY <1>1, <1>3, <1>4, Sane DEF Init, Buffers, Within, Window
<1>6. Progress /\ Sent /\ Contents
  BY <1>4, Sane DEF Init, Progress, Sent, Contents, Window
<1> QED
  BY <1>5, <1>6 DEF Inv

\* The listing is copied to the scratch, or to an array that replaces it.
LEMMA ReadEntriesInv ==
    ASSUME Inv, NEW n \in Sizes, ReadEntries(n)
    PROVE  Inv' /\ Kept
<1> DEFINE items == Listing(dir', n)
<1>1. n \in Nat /\ dir \in Nat /\ dir' \in 0 .. MaxDirs /\ dir' = Len(batches) + 1
  BY Sane DEF Inv, Progress, ReadEntries
<1>2. items \in Seq(Value) /\ Len(items) = n /\ \A i \in 1 .. n : items[i] = Listing(dir', n)[i]
  BY <1>1, ListingType
<1>3. scratch \in Slice /\ scratch.from = 0 /\ scratch.arr \in DOMAIN heap
      /\ Len(heap[scratch.arr]) \in Nat /\ scratch.arr # 0
  BY ArrayType DEF Inv, Buffers, Within
<1>4. Progress'
  BY <1>1 DEF Inv, Progress, ReadEntries, Buffers, Slice
<1>5. ASSUME n <= Capacity(heap, scratch),
             heap' = Copy(heap, scratch, items),
             scratch' = [scratch EXCEPT !.len = n]
      PROVE  Inv' /\ Kept
  <2>1. n <= Len(heap[scratch.arr])
    BY <1>1, <1>3, <1>5 DEF Capacity
  <2> HIDE DEF items
  <2>2. /\ heap' \in Seq(Seq(Value)) /\ DOMAIN heap' = DOMAIN heap
        /\ SameArrays(heap, heap')
        /\ \A i \in 1 .. n : heap'[scratch.arr][0 + i] = items[i]
    BY SMTT(60), <1>2, <1>3, <1>5, <2>1, CopyWrites DEF Inv, Buffers
  <2>3. scratch' \in Slice /\ scratch'.arr = scratch.arr /\ scratch'.from = 0 /\ scratch'.len = n
    BY <1>1, <1>3, <1>5 DEF Slice
  <2>4. Kept
    <3>1. scratch.from + Len(items) <= Len(heap[scratch.arr]) /\ off \in Nat
          /\ dirErrs.len \in Nat
      BY <1>2, <1>3, <2>1, Sane DEF Inv, Buffers, Slice
    <3>2. UNCHANGED <<tail, off>> /\ (dirErrs' = dirErrs) /\ Buffers /\ scratch \in Slice
      BY <1>3 DEF Inv, ReadEntries
    <3> QED
      BY <1>2, <1>3, <1>5, <2>3, <3>1, <3>2, CopyKeeps
  <2>5. Buffers'
    BY <1>1, <1>3, <2>1, <2>2, <2>3 DEF Inv, Buffers, ReadEntries, Within, SameArrays
  <2>6. Sent'
    BY <2>4, KeptBatches DEF ReadEntries
  <2>7. Read(heap', scratch') = items
    <3>1. items = [i \in 1 .. n |-> Entry(dir', i)]
      BY DEF items, Listing
    <3>2. \A i \in 1 .. n : items[i] = heap'[scratch'.arr][scratch'.from + i]
      BY <1>1, <2>2, <2>3
    <3> QED
      BY <2>3, <3>1, <3>2 DEF Read
  <2>8. Contents'
    BY <2>3, <2>7, Sane DEF Inv, Buffers, Slice, Contents, ReadEntries, items
  <2> QED
    BY <1>4, <2>4, <2>5, <2>6, <2>8 DEF Inv
<1>6. ASSUME heap' = Append(heap, items),
             scratch' = Window(Len(heap) + 1, 0, n)
      PROVE  Inv' /\ Kept
  <2> HIDE DEF items
  <2>1. /\ heap' \in Seq(Seq(Value)) /\ DOMAIN heap \subseteq DOMAIN heap'
        /\ Len(heap) + 1 \in DOMAIN heap' /\ Len(heap) + 1 \notin DOMAIN heap
        /\ heap'[Len(heap) + 1] = items /\ SameArrays(heap, heap') /\ Len(heap) + 1 \in Nat
        /\ \A a \in DOMAIN heap : heap'[a] = heap[a]
    BY <1>2, <1>6, ArrayAdded DEF Inv, Buffers
  <2>2. scratch' \in Slice /\ scratch'.arr = Len(heap) + 1 /\ scratch'.from = 0 /\ scratch'.len = n
    BY <1>1, <1>6, <2>1 DEF Slice, Window
  <2>3. Kept
    BY <1>2, <1>6, <2>2, AddKeeps DEF Inv, ReadEntries
  <2>4. Buffers'
    BY SMTT(60), <1>1, <1>2, <2>1, <2>2 DEF Inv, Buffers, ReadEntries, Within, SameArrays
  <2>5. Sent'
    BY <2>3, KeptBatches DEF ReadEntries
  <2>6. Read(heap', scratch') = items
    <3>1. items = [i \in 1 .. n |-> Entry(dir', i)]
      BY DEF items, Listing
    <3>2. \A i \in 1 .. n : items[i] = heap'[scratch'.arr][scratch'.from + i]
      BY <1>1, <2>1, <2>2
    <3> QED
      BY <2>2, <3>1, <3>2 DEF Read
  <2>7. Contents'
    BY <2>2, <2>6, Sane DEF Inv, Buffers, Slice, Contents, ReadEntries, items
  <2> QED
    BY <1>4, <2>3, <2>4, <2>5, <2>7 DEF Inv
<1> QED
  BY <1>5, <1>6 DEF ReadEntries

\* A DirErr is copied behind the others, or they all move to a larger array.
LEMMA StoreDirErrInv ==
    ASSUME Inv, StoreDirErr
    PROVE  Inv' /\ Kept
<1> DEFINE n == dirErrs.len
           e == DirErr(dir, n - mark + 1)
           one == << e >>
           old == Read(heap, dirErrs)
<1>1. /\ n \in Nat /\ mark \in 0 .. n /\ dir \in Nat
      /\ dirErrs \in Slice /\ dirErrs.from = 0 /\ dirErrs.arr \in DOMAIN heap /\ dirErrs.arr # 0
      /\ Len(heap[dirErrs.arr]) \in Nat /\ Len(heap[dirErrs.arr]) > 0 /\ n <= Len(heap[dirErrs.arr])
      /\ off \in Nat
  BY ArrayType, Sane DEF Inv, Buffers, Progress, Within, Slice
<1>2. e \in Value /\ one \in Seq(Value) /\ Len(one) = 1 /\ one[1] = e
  BY <1>1, DirErrType
<1>3. n - mark < MaxErrs /\ pc = "listed" /\ (GrowDirErrs(e) \/ AppendDirErr(e))
  BY DEF StoreDirErr
<1>4. \A i \in 1 .. n - mark : heap[dirErrs.arr][mark + i] = DirErr(dir, i)
  BY <1>3 DEF Inv, Contents
<1>5. UNCHANGED <<tail, off, scratch, pc, dir, mark, entries, batches>>
  BY DEF StoreDirErr
<1>6. scratch \in Slice /\ Within(heap, scratch) /\ scratch.len \in Sizes
      /\ Read(heap, scratch) = Listing(dir, scratch.len)
  BY <1>3 DEF Inv, Buffers, Contents
<1> HIDE DEF e, one
<1>7. ASSUME /\ heap' \in Seq(Seq(Value)) /\ SameArrays(heap, heap')
             /\ \A i \in 1 .. scratch.len : heap'[scratch.arr][scratch.from + i]
                                             = heap[scratch.arr][scratch.from + i]
             /\ dirErrs' \in Slice /\ dirErrs'.from = 0 /\ Within(heap', dirErrs')
             /\ dirErrs'.len = n + 1 /\ Len(heap'[dirErrs'.arr]) > 0
             /\ dirErrs'.arr # scratch.arr /\ dirErrs'.arr # tail
             /\ \A i \in 1 .. n : heap'[dirErrs'.arr][i] = heap[dirErrs.arr][i]
             /\ heap'[dirErrs'.arr][n + 1] = e
             /\ Kept
      PROVE  Inv' /\ Kept
  <2>1. Buffers'
    BY <1>5, <1>7 DEF Inv, Buffers, SameArrays, Within
  <2>2. Progress'
    BY <1>1, <1>5, <1>7 DEF Inv, Progress
  <2>3. Sent'
    BY <1>5, <1>7, KeptBatches
  <2>4. Read(heap', scratch') = Listing(dir', scratch'.len)
    BY <1>5, <1>6, <1>7 DEF Read
  <2>5. ASSUME NEW i \in 1 .. dirErrs'.len - mark
        PROVE  heap'[dirErrs'.arr][mark + i] = DirErr(dir, i)
    <3>1. i \in Nat /\ i >= 1 /\ mark + i <= n + 1
      BY <1>1, <1>7
    <3>2. CASE mark + i = n + 1
      <4>1. i = n - mark + 1
        BY <1>1, <3>1, <3>2
      <4> QED
        BY <1>7, <3>2, <4>1 DEF e
    <3>3. CASE mark + i # n + 1
      <4>1. mark + i \in 1 .. n /\ i \in 1 .. n - mark
        BY <1>1, <3>1, <3>3
      <4> QED
        BY <1>4, <1>7, <4>1
    <3> QED
      BY <3>2, <3>3
  <2>6. dirErrs'.len - mark <= MaxErrs
    BY <1>1, <1>3, <1>7, Sane
  <2>7. Contents'
    BY <1>3, <1>5, <1>6, <2>4, <2>5, <2>6 DEF Contents
  <2> QED
    BY <1>7, <2>1, <2>2, <2>3, <2>7 DEF Inv
<1>8. CASE AppendDirErr(e)
  <2> DEFINE w == [dirErrs EXCEPT !.from = @ + dirErrs.len]
  <2>1. n + 1 <= Len(heap[dirErrs.arr])
    BY <1>1, <1>8 DEF AppendDirErr, Capacity
  <2>2. w \in Slice /\ w.arr = dirErrs.arr /\ w.from = n
    BY <1>1 DEF Slice
  <2>3. heap' = Copy(heap, w, one) /\ dirErrs' = [dirErrs EXCEPT !.len = @ + 1]
    BY <1>8 DEF AppendDirErr, one
  <2> HIDE DEF w
  <2>4. /\ heap' \in Seq(Seq(Value)) /\ SameArrays(heap, heap')
        /\ heap'[w.arr][w.from + 1] = e
        /\ \A a \in DOMAIN heap : \A i \in 1 .. Len(heap[a]) :
              a # w.arr \/ i <= w.from \/ i > w.from + 1 => heap'[a][i] = heap[a][i]
    <3>1. w.arr \in DOMAIN heap /\ w.from + Len(one) <= Len(heap[w.arr])
      BY <1>1, <1>2, <2>1, <2>2
    <3>2. /\ heap' \in Seq(Seq(Value)) /\ SameArrays(heap, heap')
          /\ \A i \in 1 .. Len(one) : heap'[w.arr][w.from + i] = one[i]
          /\ \A a \in DOMAIN heap : \A i \in 1 .. Len(heap[a]) :
                a # w.arr \/ i <= w.from \/ i > w.from + Len(one) => heap'[a][i] = heap[a][i]
      <4>1. heap \in Seq(Seq(Value)) /\ w \in Slice /\ one \in Seq(Value)
        BY <1>2, <2>2 DEF Inv, Buffers
      <4>2. heap' = Copy(heap, w, one)
        BY <2>3
      <4> DEFINE g == Copy(heap, w, one)
      <4>3. /\ g \in Seq(Seq(Value)) /\ SameArrays(heap, g)
            /\ \A i \in 1 .. Len(one) : g[w.arr][w.from + i] = one[i]
            /\ \A a \in DOMAIN heap : \A i \in 1 .. Len(heap[a]) :
                  a # w.arr \/ i <= w.from \/ i > w.from + Len(one) => g[a][i] = heap[a][i]
        BY <3>1, <4>1, CopyWrites
      <4> QED
        BY <4>2, <4>3
    <3> QED
      BY <1>2, <3>2
  <2>5. dirErrs' \in Slice /\ dirErrs'.arr = dirErrs.arr /\ dirErrs'.from = 0 /\ dirErrs'.len = n + 1
    BY <1>1, <2>3 DEF Slice
  <2>6. Kept
    <3>1. w.from + Len(one) <= Len(heap[w.arr]) /\ w.arr \in DOMAIN heap
      BY <1>1, <1>2, <2>1, <2>2
    <3>2. /\ w.arr = dirErrs.arr /\ w.from >= dirErrs.len /\ scratch'.arr = scratch.arr
          /\ tail' = tail /\ off' \in Nat /\ off' >= off
          /\ dirErrs'.arr = dirErrs.arr /\ dirErrs'.len \in Nat /\ dirErrs'.len >= dirErrs.len
      BY <1>1, <1>5, <2>2, <2>5
    <3> QED
      BY <1>2, <2>2, <2>3, <3>1, <3>2, CopyKeeps DEF Inv
  <2>7. ASSUME NEW i \in 1 .. scratch.len
        PROVE  heap'[scratch.arr][scratch.from + i] = heap[scratch.arr][scratch.from + i]
    <3>1. scratch.arr \in DOMAIN heap /\ scratch.arr # w.arr
          /\ scratch.from + i \in 1 .. Len(heap[scratch.arr])
      BY <1>6, <2>2, ArrayType DEF Inv, Buffers, Within, Slice
    <3> QED
      BY <2>4, <3>1
  <2>8. \A i \in 1 .. n : heap'[dirErrs'.arr][i] = heap[dirErrs.arr][i]
    <3>1. \A i \in 1 .. n : i \in 1 .. Len(heap[w.arr]) /\ i <= w.from
      BY <1>1, <2>2
    <3> QED
      BY <1>1, <2>2, <2>4, <2>5, <3>1
  <2>9. heap'[dirErrs'.arr][n + 1] = e
    BY <1>1, <1>2, <2>2, <2>4, <2>5
  <2>10. Within(heap', dirErrs') /\ Len(heap'[dirErrs'.arr]) > 0
    BY <1>1, <2>1, <2>4, <2>5 DEF SameArrays, Within
  <2>11. dirErrs'.arr # scratch.arr /\ dirErrs'.arr # tail
    BY <2>5 DEF Inv, Buffers
  <2> QED
    BY <1>7, <2>4, <2>5, <2>6, <2>7, <2>8, <2>9, <2>10, <2>11
<1>9. CASE GrowDirErrs(e)
  <2> DEFINE rest == Make(n - 1, Zero)
             front == old \o one
             items == front \o rest
  <2>1. n >= 1 /\ n - 1 \in Nat
        /\ heap' = Append(heap, items) /\ dirErrs' = Window(Len(heap) + 1, 0, n + 1)
    BY <1>1, <1>9 DEF GrowDirErrs, Capacity, one
  <2>2. old \in Seq(Value) /\ Len(old) = n
        /\ \A i \in 1 .. n : old[i] = heap[dirErrs.arr][i]
    <3>1. Within(heap, dirErrs)
      BY DEF Inv, Buffers
    <3>2. /\ Read(heap, dirErrs) \in Seq(Value) /\ Len(Read(heap, dirErrs)) = dirErrs.len
          /\ \A i \in 1 .. n : Read(heap, dirErrs)[i] = heap[dirErrs.arr][dirErrs.from + i]
      BY <1>1, <3>1, ReadType DEF Inv, Buffers
    <3> QED
      BY <1>1, <3>2
  <2>3. rest \in Seq(Value) /\ Len(rest) = n - 1
    BY <1>1, <2>1, MakeType, ZeroType
  <2> HIDE DEF rest, old
  <2>4. /\ front \in Seq(Value) /\ Len(front) = n + 1
        /\ \A i \in 1 .. n : front[i] = heap[dirErrs.arr][i]
        /\ front[n + 1] = e
    <3>1. /\ front \in Seq(Value) /\ Len(front) = Len(old) + Len(one)
          /\ \A i \in 1 .. Len(old) + Len(one) :
                front[i] = IF i <= Len(old) THEN old[i] ELSE one[i - Len(old)]
      BY <1>2, <2>2, ConcatProperties
    <3> QED
      BY <1>1, <1>2, <2>2, <3>1
  <2> HIDE DEF front
  <2>5. /\ items \in Seq(Value) /\ Len(items) = n + n
        /\ \A i \in 1 .. n : items[i] = heap[dirErrs.arr][i]
        /\ items[n + 1] = e
    <3>1. /\ items \in Seq(Value) /\ Len(items) = Len(front) + Len(rest)
          /\ \A i \in 1 .. Len(front) + Len(rest) :
                items[i] = IF i <= Len(front) THEN front[i] ELSE rest[i - Len(front)]
      BY <2>3, <2>4, ConcatProperties
    <3> QED
      BY SMTT(60), <1>1, <2>1, <2>3, <2>4, <3>1
  <2> HIDE DEF items
  <2>6. /\ heap' \in Seq(Seq(Value)) /\ Len(heap) + 1 \in DOMAIN heap'
        /\ Len(heap) + 1 \notin DOMAIN heap /\ Len(heap) + 1 \in Nat
        /\ heap'[Len(heap) + 1] = items /\ SameArrays(heap, heap')
        /\ \A a \in DOMAIN heap : heap'[a] = heap[a]
    BY <2>1, <2>5, ArrayAdded DEF Inv, Buffers
  <2>7. dirErrs' \in Slice /\ dirErrs'.arr = Len(heap) + 1 /\ dirErrs'.from = 0
        /\ dirErrs'.len = n + 1
    BY <1>1, <2>1, <2>6 DEF Window, Slice
  <2>8. Kept
    BY <1>5, <2>1, <2>5, <2>7, AddKeeps DEF Inv
  <2>9. \A i \in 1 .. scratch.len : heap'[scratch.arr][scratch.from + i]
                                     = heap[scratch.arr][scratch.from + i]
    BY <1>6, <2>6 DEF Within
  <2>10. \A i \in 1 .. n : heap'[dirErrs'.arr][i] = heap[dirErrs.arr][i]
    BY <2>5, <2>6, <2>7
  <2>11. heap'[dirErrs'.arr][n + 1] = e
    BY <2>5, <2>6, <2>7
  <2>12. Within(heap', dirErrs') /\ Len(heap'[dirErrs'.arr]) > 0
    <3>1. n + 1 <= n + n /\ n + n > 0
      BY <1>1, <2>1
    <3> QED
      BY <1>1, <2>5, <2>6, <2>7, <3>1 DEF Within
  <2>13. dirErrs'.arr # scratch.arr /\ dirErrs'.arr # tail
    BY <2>6, <2>7 DEF Inv, Buffers, Within
  <2> QED
    BY <1>7, <2>6, <2>7, <2>8, <2>9, <2>10, <2>11, <2>12, <2>13
<1> QED
  BY <1>3, <1>8, <1>9

\* The listing is copied behind what the arena holds, or to an array of its own.
LEMMA StoreEntriesInv ==
    ASSUME Inv, StoreEntries
    PROVE  Inv' /\ Kept
<1> DEFINE m == scratch.len
           items == Read(heap, scratch)
<1>1. /\ heap \in Seq(Seq(Value)) /\ scratch \in Slice /\ scratch.from = 0 /\ Within(heap, scratch)
      /\ m \in Nat /\ m \in Sizes /\ dir \in Nat
      /\ NodeSize \in Nat \ {0} /\ off \in 0 .. NodeSize
      /\ tail \in DOMAIN heap /\ Len(heap[tail]) = NodeSize /\ tail \in Nat
  BY Sane, ArrayType DEF Inv, Buffers, Progress, Contents, StoreEntries, Slice
<1>2. items \in Seq(Value) /\ Len(items) = m
  BY <1>1, ReadType
<1>3. pc = "listed" /\ pc' = "stored" /\ UNCHANGED <<scratch, dirErrs, dir, mark, batches>>
  BY DEF StoreEntries
<1>4. items = Listing(dir, m)
  BY <1>3 DEF Inv, Contents
<1>5. dirErrs \in Slice /\ dirErrs.from = 0 /\ Within(heap, dirErrs) /\ dirErrs.len \in Nat
      /\ mark \in 0 .. dirErrs.len /\ dirErrs.arr # tail
  BY DEF Inv, Buffers, Progress, Slice
<1> HIDE DEF items
<1>6. ASSUME /\ heap' \in Seq(Seq(Value)) /\ SameArrays(heap, heap')
             /\ tail' \in DOMAIN heap' /\ Len(heap'[tail']) = NodeSize /\ off' \in 0 .. NodeSize
             /\ tail' # scratch.arr /\ tail' # dirErrs.arr
             /\ \A i \in 1 .. dirErrs.len : heap'[dirErrs.arr][i] = heap[dirErrs.arr][i]
             /\ entries' \in Slice /\ entries'.len = m /\ Frozen(entries)'
             /\ \A i \in 1 .. m : heap'[entries'.arr][entries'.from + i] = items[i]
             /\ Kept
      PROVE  Inv' /\ Kept
  <2>1. Buffers'
    BY <1>3, <1>6 DEF Inv, Buffers, SameArrays, Within
  <2>2. Progress'
    BY <1>3, <1>6 DEF Inv, Progress
  <2>3. Sent'
    BY <1>3, <1>6, KeptBatches
  <2>4. Read(heap', entries') = Listing(dir, m)
    <3>1. Listing(dir, m) = [i \in 1 .. m |-> Entry(dir, i)]
      BY DEF Listing
    <3>2. \A i \in 1 .. m : Listing(dir, m)[i] = heap'[entries'.arr][entries'.from + i]
      BY <1>4, <1>6
    <3> QED
      BY <1>6, <3>1, <3>2 DEF Read
  <2>5. ASSUME NEW i \in 1 .. dirErrs.len - mark
        PROVE  heap'[dirErrs.arr][mark + i] = DirErr(dir, i)
    <3>1. mark + i \in 1 .. dirErrs.len
      BY <1>5
    <3>2. heap[dirErrs.arr][mark + i] = DirErr(dir, i)
      BY <1>3 DEF Inv, Contents
    <3> QED
      BY <1>6, <3>1, <3>2
  <2>6. Contents'
    BY <1>1, <1>3, <1>6, <2>4, <2>5 DEF Inv, Contents
  <2> QED
    BY <1>6, <2>1, <2>2, <2>3, <2>6 DEF Inv
<1>7. CASE StoreNone
  <2>1. Kept
    BY <1>3, <1>7, SameKeeps DEF StoreNone
  <2>2. entries' \in Slice /\ entries'.len = 0 /\ m = 0
    BY <1>7 DEF StoreNone, Nil, Window, Slice
  <2>3. Frozen(entries)'
    BY <2>2 DEF Frozen
  <2>4. SameArrays(heap, heap')
    BY <1>7 DEF StoreNone, SameArrays
  <2> QED
    BY <1>1, <1>6, <1>7, <2>1, <2>2, <2>3, <2>4 DEF StoreNone, Inv, Buffers
<1>8. ASSUME NEW new \in Seq(Value), heap' = Append(heap, new), Len(new) >= m,
             \A i \in 1 .. m : new[i] = items[i],
             entries' = Window(Len(heap) + 1, 0, m),
             \/ tail' = tail /\ off' = off
             \/ tail' = Len(heap) + 1 /\ off' = m /\ Len(new) = NodeSize
      PROVE  Inv' /\ Kept
  <2>1. /\ heap' \in Seq(Seq(Value)) /\ SameArrays(heap, heap')
        /\ Len(heap) + 1 \in DOMAIN heap' /\ Len(heap) + 1 \notin DOMAIN heap
        /\ Len(heap) + 1 \in Nat /\ heap'[Len(heap) + 1] = new
        /\ \A a \in DOMAIN heap : heap'[a] = heap[a]
    BY <1>1, <1>8, ArrayAdded
  <2>2. Kept
    BY <1>3, <1>8, AddKeeps DEF Inv
  <2>3. entries' \in Slice /\ entries'.arr = Len(heap) + 1 /\ entries'.from = 0 /\ entries'.len = m
    BY <1>1, <1>8, <2>1 DEF Window, Slice
  <2>4. Len(heap) + 1 # scratch.arr /\ Len(heap) + 1 # dirErrs.arr /\ Len(heap) + 1 # tail
    BY <1>1, <1>5, <2>1 DEF Within
  <2>5. Frozen(entries)'
    BY <1>1, <1>3, <1>8, <2>1, <2>3, <2>4 DEF Frozen, Within
  <2>6. \A i \in 1 .. dirErrs.len : heap'[dirErrs.arr][i] = heap[dirErrs.arr][i]
    BY <1>5, <2>1 DEF Within
  <2>7. tail' \in DOMAIN heap' /\ Len(heap'[tail']) = NodeSize /\ off' \in 0 .. NodeSize
        /\ tail' # scratch.arr /\ tail' # dirErrs.arr
    <3>1. CASE tail' = tail /\ off' = off
      BY <1>1, <2>1, <3>1 DEF Inv, Buffers, SameArrays
    <3>2. CASE tail' = Len(heap) + 1 /\ off' = m /\ Len(new) = NodeSize
      BY <1>1, <1>8, <2>1, <2>4, <3>2
    <3> QED
      BY <1>8, <3>1, <3>2
  <2>8. \A i \in 1 .. m : heap'[entries'.arr][entries'.from + i] = items[i]
    BY <1>1, <1>8, <2>1, <2>3
  <2> QED
    BY <1>6, <2>1, <2>2, <2>3, <2>5, <2>6, <2>7, <2>8
<1>9. CASE StoreOwn
  BY <1>1, <1>2, <1>8, <1>9 DEF StoreOwn, items
<1>10. CASE StoreInNewNode
  <2> DEFINE rest == Make(NodeSize - m, Zero)
             new == items \o rest
  <2>1. /\ m \in 1 .. NodeSize /\ NodeSize - m \in Nat
        /\ heap' = Append(heap, new) /\ tail' = Len(heap) + 1 /\ off' = m
        /\ entries' = Window(Len(heap) + 1, 0, m)
    BY <1>1, <1>10 DEF StoreInNewNode, items
  <2>2. rest \in Seq(Value) /\ Len(rest) = NodeSize - m
    BY <2>1, MakeType, ZeroType
  <2> HIDE DEF rest
  <2>3. /\ new \in Seq(Value) /\ Len(new) = Len(items) + Len(rest)
        /\ \A i \in 1 .. Len(items) + Len(rest) :
              new[i] = IF i <= Len(items) THEN items[i] ELSE rest[i - Len(items)]
    BY <1>2, <2>2, ConcatProperties
  <2>4. Len(new) = NodeSize /\ \A i \in 1 .. m : new[i] = items[i]
    BY <1>1, <1>2, <2>1, <2>2, <2>3
  <2> HIDE DEF new
  <2> QED
    BY <1>1, <1>8, <2>1, <2>3, <2>4
<1>11. CASE StoreInTail
  <2>1. /\ m \in 1 .. NodeSize /\ off + m <= NodeSize
        /\ entries' = Window(tail, off, m) /\ heap' = Copy(heap, entries', items)
        /\ off' = off + m /\ tail' = tail
    BY <1>1, <1>11 DEF StoreInTail, items
  <2> DEFINE w == Window(tail, off, m)
  <2>2. w \in Slice /\ w.arr = tail /\ w.from = off /\ w.len = m
    BY <1>1 DEF Window, Slice
  <2>3. entries' = w /\ heap' = Copy(heap, w, items)
    BY <2>1
  <2> HIDE DEF w
  <2>4. w.arr \in DOMAIN heap /\ w.from + Len(items) <= Len(heap[w.arr])
    BY <1>1, <1>2, <2>1, <2>2
  <2>5. /\ heap' \in Seq(Seq(Value)) /\ DOMAIN heap' = DOMAIN heap /\ SameArrays(heap, heap')
        /\ \A i \in 1 .. Len(items) : heap'[w.arr][w.from + i] = items[i]
        /\ \A a \in DOMAIN heap : \A i \in 1 .. Len(heap[a]) :
              a # w.arr \/ i <= w.from \/ i > w.from + Len(items) => heap'[a][i] = heap[a][i]
    <3>1. heap \in Seq(Seq(Value)) /\ w \in Slice /\ items \in Seq(Value)
      BY <1>1, <1>2, <2>2
    <3>2. heap' = Copy(heap, w, items)
      BY <2>3
    <3> DEFINE g == Copy(heap, w, items)
    <3>3. /\ g \in Seq(Seq(Value)) /\ DOMAIN g = DOMAIN heap /\ SameArrays(heap, g)
          /\ \A i \in 1 .. Len(items) : g[w.arr][w.from + i] = items[i]
          /\ \A a \in DOMAIN heap : \A i \in 1 .. Len(heap[a]) :
                a # w.arr \/ i <= w.from \/ i > w.from + Len(items) => g[a][i] = heap[a][i]
      BY <2>4, <3>1, CopyWrites
    <3> QED
      BY <3>2, <3>3
  <2>6. Kept
    <3>1. off' \in Nat /\ off' >= off /\ w.from >= off
      BY <1>1, <2>1, <2>2
    <3> QED
      BY <1>2, <1>3, <1>5, <2>1, <2>2, <2>3, <2>4, <3>1, CopyKeeps DEF Inv
  <2>7. Frozen(entries)'
    <3>1. Within(heap', w)
      BY <1>1, <2>1, <2>2, <2>5 DEF Within, SameArrays
    <3> QED
      BY <1>3, <1>5, <2>1, <2>2, <2>3, <3>1 DEF Frozen, Inv, Buffers
  <2>8. ASSUME NEW i \in 1 .. dirErrs.len PROVE heap'[dirErrs.arr][i] = heap[dirErrs.arr][i]
    <3>1. dirErrs.arr \in DOMAIN heap /\ i \in 1 .. Len(heap[dirErrs.arr])
      BY <1>1, <1>5, ArrayType DEF Within
    <3> QED
      BY <1>5, <2>2, <2>5, <3>1
  <2>9. \A i \in 1 .. m : heap'[entries'.arr][entries'.from + i] = items[i]
    BY <1>2, <2>3, <2>5
  <2>10. tail' \in DOMAIN heap' /\ Len(heap'[tail']) = NodeSize /\ off' \in 0 .. NodeSize
         /\ tail' # scratch.arr /\ tail' # dirErrs.arr
    BY <1>1, <2>1, <2>5 DEF SameArrays, Inv, Buffers
  <2> QED
    BY <1>6, <2>2, <2>3, <2>5, <2>6, <2>7, <2>8, <2>9, <2>10
<1> QED
  BY <1>7, <1>9, <1>10, <1>11 DEF StoreEntries

\* The batch is sent.
LEMMA SendInv ==
    ASSUME Inv, Send
    PROVE  /\ Inv' /\ Kept
           /\ DOMAIN batches' = DOMAIN batches \cup {dir} /\ dir \in 1 .. MaxDirs \ DOMAIN batches
           /\ Stored' = [k \in DOMAIN batches' |->
                            IF k = dir THEN << Listing(dir, entries.len),
                                               Failures(dir, dirErrs.len - mark) >>
                                       ELSE Stored[k]]
           /\ entries.len \in Sizes /\ dirErrs.len - mark \in 0 .. MaxErrs
<1> DEFINE errs == Window(dirErrs.arr, mark, dirErrs.len - mark)
           b == [entries |-> entries, errs |-> errs]
<1>1. /\ pc = "stored" /\ batches' = Append(batches, b) /\ pc' = "idle"
      /\ UNCHANGED <<heap, tail, off, scratch, dirErrs, dir, mark, entries>>
  BY DEF Send
<1>2. /\ dirErrs \in Slice /\ dirErrs.from = 0 /\ Within(heap, dirErrs) /\ dirErrs.arr # scratch.arr
      /\ dirErrs.arr # tail /\ dirErrs.arr \in Nat /\ dirErrs.len \in Nat
      /\ mark \in 0 .. dirErrs.len /\ entries \in Slice
      /\ batches \in Seq([entries : Slice, errs : Slice])
      /\ dir \in 0 .. MaxDirs /\ dir = Len(batches) + 1
  BY <1>1 DEF Inv, Buffers, Progress, Slice
<1>3. errs \in Slice /\ errs.arr = dirErrs.arr /\ errs.from = mark /\ errs.len = dirErrs.len - mark
  BY <1>2 DEF Window, Slice
<1> HIDE DEF errs
<1>4. Kept
  BY <1>1, SameKeeps
<1>5. b \in [entries : Slice, errs : Slice]
  BY <1>2, <1>3
<1>6. /\ batches' \in Seq([entries : Slice, errs : Slice]) /\ Len(batches') = Len(batches) + 1
      /\ Len(batches) \in Nat /\ DOMAIN batches = 1 .. Len(batches)
      /\ DOMAIN batches' = 1 .. Len(batches')
      /\ \A k \in 1 .. Len(batches) : batches'[k] = batches[k]
      /\ batches'[dir].entries = entries /\ batches'[dir].errs = errs
  BY <1>1, <1>2, <1>5, AppendProperties, LenProperties
<1>7. Frozen(errs)
  BY <1>2, <1>3 DEF Frozen, Within
<1>8. Frozen(entries)
  BY <1>1 DEF Inv, Contents
<1>9. ASSUME NEW k \in DOMAIN batches, NEW s \in {batches[k].entries, batches[k].errs}
      PROVE  Frozen(s)' /\ Read(heap', s) = Read(heap, s)
  <2>1. s \in Slice /\ Frozen(s)
    BY BatchType DEF Inv, Sent
  <2> QED
    BY <1>4, <2>1 DEF Kept
<1>10. Sent'
  <2> SUFFICES ASSUME NEW k \in DOMAIN batches'
               PROVE  (Frozen(batches[k].entries) /\ Frozen(batches[k].errs))'
    BY DEF Sent
  <2>1. CASE k = dir
    BY <1>1, <1>6, <1>7, <1>8, <2>1 DEF Frozen, Within
  <2>2. CASE k # dir
    <3>1. k \in DOMAIN batches /\ batches'[k] = batches[k]
      BY <1>2, <1>6, <2>2
    <3> QED
      BY <1>9, <3>1 DEF Frozen
  <2> QED
    BY <2>1, <2>2
<1>11. Inv'
  BY <1>1, <1>2, <1>6, <1>10 DEF Inv, Buffers, Progress, Contents, Within
<1>12. Read(heap, entries) = Listing(dir, entries.len) /\ entries.len \in Sizes
       /\ dirErrs.len - mark <= MaxErrs
       /\ \A i \in 1 .. dirErrs.len - mark : heap[dirErrs.arr][mark + i] = DirErr(dir, i)
  BY <1>1 DEF Inv, Contents
<1>13. Read(heap, errs) = Failures(dir, dirErrs.len - mark)
  BY <1>3, <1>12 DEF Read, Failures
<1>14. DOMAIN batches' = DOMAIN batches \cup {dir} /\ dir \in 1 .. MaxDirs \ DOMAIN batches
  BY <1>2, <1>6, Sane
<1>15. ASSUME NEW k \in DOMAIN batches'
       PROVE  << Read(heap', batches'[k].entries), Read(heap', batches'[k].errs) >>
              = IF k = dir THEN << Listing(dir, entries.len), Failures(dir, dirErrs.len - mark) >>
                           ELSE Stored[k]
  <2>1. CASE k = dir
    BY <1>1, <1>6, <1>12, <1>13, <2>1
  <2>2. CASE k # dir
    <3>1. k \in DOMAIN batches /\ batches'[k] = batches[k]
      BY <1>2, <1>6, <2>2
    <3> QED
      BY <1>1, <2>2, <3>1 DEF Stored
  <2> QED
    BY <2>1, <2>2
<1>16. Stored' = [k \in DOMAIN batches' |->
                     IF k = dir THEN << Listing(dir, entries.len), Failures(dir, dirErrs.len - mark) >>
                                ELSE Stored[k]]
  BY <1>15 DEF Stored
<1>17. dirErrs.len - mark \in 0 .. MaxErrs
  BY <1>2, <1>12, Sane
<1> QED
  BY <1>4, <1>11, <1>12, <1>14, <1>16, <1>17

LEMMA UnchangedInv ==
    ASSUME Inv, UNCHANGED vars
    PROVE  Inv' /\ Kept
<1>1. Kept
  BY SameKeeps DEF vars
<1>2. Inv'
  BY DEF Inv, Buffers, Progress, Sent, Contents, Frozen, Within, vars
<1> QED
  BY <1>1, <1>2

LEMMA NextInv == ASSUME Inv, [Next]_vars PROVE Inv' /\ Kept
<1>1. ASSUME NEW n \in Sizes, ReadEntries(n) PROVE Inv' /\ Kept
  BY <1>1, ReadEntriesInv
<1>2. CASE StoreDirErr
  BY <1>2, StoreDirErrInv
<1>3. CASE StoreEntries
  BY <1>3, StoreEntriesInv
<1>4. CASE Send
  BY <1>4, SendInv
<1>5. CASE Quiet
  BY <1>5, UnchangedInv DEF Quiet
<1>6. CASE UNCHANGED vars
  BY <1>6, UnchangedInv
<1> QED
  BY <1>1, <1>2, <1>3, <1>4, <1>5, <1>6 DEF Next

LEMMA InvIsInvariant == Spec => []Inv
<1>1. Init => Inv
  BY InitInv
<1>2. Inv /\ [Next]_vars => Inv'
  BY NextInv
<1> QED
  BY <1>1, <1>2, PTL DEF Spec

-----------------------------------------------------------------------------
\* For every node size, capacity and set of listings the variables keep their
\* types, and the worker's windows lie within their arrays (resultArena and
\* entryScratch, result_arena.go and walkman.go).
THEOREM ArenaTypeCorrect == Spec => []TypeOK
<1>1. Inv => TypeOK
  BY InvImpliesTypeOK
<1> QED
  BY <1>1, InvIsInvariant, PTL

\* Nothing a batch points at is ever written again: not by the next directory's
\* listing, nor by the arena's next run, nor by the next DirErr (storeEntries,
\* storeDirErr and sliceDirErr).
THEOREM BatchesAreFrozen == Spec => []HeldIsFrozen
<1>1. Inv => HeldIsFrozen
  BY InvImpliesHeldIsFrozen
<1> QED
  BY <1>1, InvIsInvariant, PTL

-----------------------------------------------------------------------------
(* Refinement of Arena                                                     *)

LEMMA InitStored == Init => Promise!Init
<1> SUFFICES ASSUME Init PROVE Stored = [id \in {} |-> << >>]
  BY DEF Promise!Init
<1>1. DOMAIN batches = {}
  BY DEF Init
<1> QED
  BY <1>1 DEF Stored

\* A batch that is sent is a Store of the abstract arena.
LEMMA SendStores ==
    ASSUME Inv, Send
    PROVE  Promise!Next
<1> DEFINE items == << Listing(dir, entries.len), Failures(dir, dirErrs.len - mark) >>
<1>1. /\ DOMAIN batches' = DOMAIN batches \cup {dir} /\ dir \in 1 .. MaxDirs \ DOMAIN batches
      /\ Stored' = [k \in DOMAIN batches' |-> IF k = dir THEN items ELSE Stored[k]]
      /\ entries.len \in Sizes /\ dirErrs.len - mark \in 0 .. MaxErrs
  BY SendInv
<1>2. items \in OfferedBatches(dir)
  BY <1>1 DEF OfferedBatches
<1>3. DOMAIN Stored = DOMAIN batches
  BY DEF Stored
<1> HIDE DEF items
<1>4. dir \notin DOMAIN Stored
      /\ Stored' = [d \in DOMAIN Stored \cup {dir} |-> IF d = dir THEN items ELSE Stored[d]]
  BY <1>1, <1>3
<1>5. Promise!Store(dir)
  BY <1>2, <1>4 DEF Promise!Store
<1> QED
  BY <1>1, <1>5 DEF Promise!Next

LEMMA NextStored == ASSUME Inv, [Next]_vars PROVE Promise!Next \/ UNCHANGED Stored
<1>1. CASE Send
  BY <1>1, SendStores
<1>2. CASE batches' = batches
  BY <1>2, NextInv, KeptBatches
<1> QED
  BY <1>1, <1>2 DEF Next, ReadEntries, StoreDirErr, StoreEntries, Quiet, vars

\* For every node size, capacity and set of listings the worker's arena
\* implements Arena: each batch reads as its own directory's entries and errors
\* when it is sent, and goes on doing so while the worker handles the next ones
\* (README.md: the slices of a batch stay valid, and unchanged).
THEOREM BatchesAreKept == Spec => ImplementsArena
<1>1. Init => Promise!Init
  BY InitStored
<1>2. Inv /\ [Next]_vars => [Promise!Next]_Stored
  BY NextStored
<1> QED
  BY <1>1, <1>2, InvIsInvariant, PTL DEF Spec, ImplementsArena, Promise!Spec
=============================================================================
