-------------------------- MODULE StringStoreProofs --------------------------
(***************************************************************************)
(* Theorems about StringStore, for every node size and every set of texts: *)
(* strings keep reading what was stored or joined, and each path that goes *)
(* to the kernel stays terminated by the byte behind it.                   *)
(***************************************************************************)
EXTENDS StringStore, SequenceTheorems, TLAPS

\* The window lies within its array.
Within(h, s) == s.arr \in DOMAIN h /\ s.from + s.len <= Len(h[s.arr])

\* Every array of h is in g, no shorter or longer than it was.
SameArrays(h, g) == \A a \in DOMAIN h : a \in DOMAIN g /\ Len(g[a]) = Len(h[a])

Byte == Nat \ {NUL}

String == [str : Slice, z : BOOLEAN]

\* The bytes that were claimed for a string, its NUL included.
Extent(x) == Window(x.str.arr, x.str.from, IF x.z THEN x.str.len + 1 ELSE x.str.len)

\* Nothing has been written behind what the tail holds.
Buffers ==
    /\ heap \in Seq(Seq(Nat))
    /\ tail \in DOMAIN heap /\ Len(heap[tail]) = NodeSize /\ off \in 0 .. NodeSize
    /\ \A i \in off + 1 .. NodeSize : heap[tail][i] = NUL

\* No later claim reaches s: it lies below off, or not in the tail.
Frozen(s) == /\ Within(heap, s)
             /\ s.arr = tail => s.from + s.len <= off

Intact(x) ==
    LET s == x.str
    IN  /\ Frozen(Extent(x))
        /\ \A i \in 1 .. s.len : heap[s.arr][s.from + i] # NUL
        /\ x.z => heap[s.arr][s.from + s.len + 1] = NUL

Strings == /\ strings \in Seq(String)
           /\ Len(strings) <= MaxStores
           /\ \A k \in DOMAIN strings : Intact(strings[k])

Inv == Buffers /\ Strings

\* Strings read what they did, and nobody may write to them either.
Kept == \A s \in Slice : Frozen(s) =>
            /\ Frozen(s)'
            /\ \A i \in 1 .. s.len : heap'[s.arr][s.from + i] = heap[s.arr][s.from + i]

-----------------------------------------------------------------------------
(* Slices and their arrays                                                 *)

LEMMA FunctionIsSeq ==
    ASSUME NEW V, NEW n \in Nat, NEW f \in [1 .. n -> V]
    PROVE  f \in Seq(V) /\ Len(f) = n
<1>1. f \in Seq(V)
  BY SeqDef
<1>2. DOMAIN f = 1 .. n
  OBVIOUS
<1> QED
  BY <1>1, <1>2, LenProperties

LEMMA MakeType ==
    ASSUME NEW V, NEW v \in V, NEW n \in Nat
    PROVE  Make(n, v) \in Seq(V) /\ Len(Make(n, v)) = n /\ \A i \in 1 .. n : Make(n, v)[i] = v
<1>1. Make(n, v) \in [1 .. n -> V]
  BY DEF Make
<1> QED
  BY <1>1, FunctionIsSeq DEF Make

\* An array of the heap, and its elements.
LEMMA ArrayType ==
    ASSUME NEW V, NEW h \in Seq(Seq(V)), NEW a \in DOMAIN h
    PROVE  /\ a \in Nat \ {0} /\ a <= Len(h)
           /\ h[a] \in Seq(V) /\ Len(h[a]) \in Nat /\ DOMAIN h[a] = 1 .. Len(h[a])
           /\ \A i \in 1 .. Len(h[a]) : h[a][i] \in V
<1>1. DOMAIN h = 1 .. Len(h) /\ Len(h) \in Nat
  BY LenProperties
<1>2. h[a] \in Seq(V)
  BY ElementOfSeq, <1>1
<1> QED
  BY <1>1, <1>2, LenProperties, ElementOfSeq

\* copy writes its items into the window and nothing anywhere else.
LEMMA CopyWrites ==
    ASSUME NEW V, NEW h \in Seq(Seq(V)), NEW s \in Slice, NEW items \in Seq(V),
           s.arr \in DOMAIN h, s.from + Len(items) <= Len(h[s.arr])
    PROVE  LET g == Copy(h, s, items)
           IN  /\ g \in Seq(Seq(V)) /\ Len(g) = Len(h) /\ DOMAIN g = DOMAIN h
               /\ SameArrays(h, g)
               /\ \A i \in 1 .. Len(items) : g[s.arr][s.from + i] = items[i]
               /\ \A a \in DOMAIN h : \A i \in 1 .. Len(h[a]) :
                     a # s.arr \/ i <= s.from \/ i > s.from + Len(items) => g[a][i] = h[a][i]
<1> DEFINE g == Copy(h, s, items)
           n == Len(items)
           old == h[s.arr]
           new == [i \in DOMAIN old |-> IF i \in s.from + 1 .. s.from + n
                                        THEN items[i - s.from] ELSE old[i]]
<1>1. s.from \in Nat /\ s.arr \in Nat
  BY DEF Slice
<1>2. n \in Nat /\ \A i \in 1 .. n : items[i] \in V
  BY LenProperties, ElementOfSeq
<1>3. old \in Seq(V) /\ Len(old) \in Nat /\ DOMAIN old = 1 .. Len(old)
      /\ \A i \in 1 .. Len(old) : old[i] \in V
  BY ArrayType
<1>4. g = [h EXCEPT ![s.arr] = new]
  BY DEF Copy
<1>5. DOMAIN h = 1 .. Len(h) /\ Len(h) \in Nat
  BY LenProperties
<1> HIDE DEF g, n, old
<1>6. new \in Seq(V) /\ Len(new) = Len(old)
  <2>1. ASSUME NEW i \in 1 .. Len(old) PROVE new[i] \in V
    <3>1. CASE i \in s.from + 1 .. s.from + n
      <4>1. i - s.from \in 1 .. n
        <5>1. \A from, to \in Nat : \A j \in from + 1 .. from + to : j - from \in 1 .. to
          OBVIOUS
        <5> QED
          BY <1>1, <1>2, <3>1, <5>1
      <4> QED
        BY <1>2, <1>3, <3>1, <4>1
    <3>2. CASE i \notin s.from + 1 .. s.from + n
      BY <1>3, <3>2
    <3> QED
      BY <3>1, <3>2
  <2>2. new \in [1 .. Len(old) -> V]
    BY <1>3, <2>1
  <2> QED
    BY <1>3, <2>2, FunctionIsSeq
<1>7. g \in Seq(Seq(V)) /\ Len(g) = Len(h) /\ DOMAIN g = DOMAIN h
  BY <1>4, <1>5, <1>6, ExceptSeq
<1>8. g[s.arr] = new /\ \A a \in DOMAIN h : a # s.arr => g[a] = h[a]
  BY <1>4
<1>9. SameArrays(h, g)
  BY <1>6, <1>7, <1>8 DEF SameArrays, old
<1>10. ASSUME NEW i \in 1 .. n PROVE g[s.arr][s.from + i] = items[i]
  <2>1. s.from + i \in DOMAIN old /\ s.from + i \in s.from + 1 .. s.from + n
        /\ (s.from + i) - s.from = i
    BY <1>1, <1>2, <1>3 DEF n, old
  <2> QED
    BY <1>8, <2>1
<1>11. ASSUME NEW a \in DOMAIN h, NEW i \in 1 .. Len(h[a]),
              a # s.arr \/ i <= s.from \/ i > s.from + n
       PROVE  g[a][i] = h[a][i]
  <2>1. CASE a # s.arr
    BY <1>8, <2>1
  <2>2. CASE a = s.arr
    <3>1. i \in DOMAIN old /\ i \notin s.from + 1 .. s.from + n
      BY <1>1, <1>2, <1>3, <1>11, <2>2 DEF old
    <3> QED
      BY <1>8, <2>2, <3>1 DEF old
  <2> QED
    BY <2>1, <2>2
<1> QED
  BY <1>7, <1>9, <1>10, <1>11 DEF g, n

\* A new array leaves the old ones as they are.
LEMMA ArrayAdded ==
    ASSUME NEW V, NEW h \in Seq(Seq(V)), NEW items \in Seq(V)
    PROVE  LET g == Append(h, items)
           IN  /\ g \in Seq(Seq(V)) /\ DOMAIN h \subseteq DOMAIN g
               /\ Len(g) = Len(h) + 1 /\ Len(h) \in Nat
               /\ Len(h) + 1 \in DOMAIN g /\ Len(h) + 1 \notin DOMAIN h
               /\ g[Len(h) + 1] = items
               /\ SameArrays(h, g)
               /\ \A a \in DOMAIN h : g[a] = h[a]
<1>1. DOMAIN h = 1 .. Len(h) /\ Len(h) \in Nat
  BY LenProperties
<1>2. /\ Append(h, items) \in Seq(Seq(V)) /\ Len(Append(h, items)) = Len(h) + 1
      /\ \A a \in 1 .. Len(h) : Append(h, items)[a] = h[a]
      /\ Append(h, items)[Len(h) + 1] = items
  BY AppendProperties
<1>3. DOMAIN Append(h, items) = 1 .. Len(h) + 1
  BY <1>1, <1>2, LenProperties
<1> QED
  BY <1>1, <1>2, <1>3 DEF SameArrays

-----------------------------------------------------------------------------
(* Types                                                                   *)

LEMMA Sane ==
    /\ NodeSize \in Nat \ {0} /\ MaxStores \in Nat
    /\ Texts \subseteq Seq(Byte) /\ Parents \subseteq Seq(Byte) \ {<< >>}
BY StringStoreAssumption DEF Byte

\* A text without NUL, as a sequence of bytes.
LEMMA TextType ==
    ASSUME NEW text \in Seq(Byte)
    PROVE  /\ text \in Seq(Nat) /\ Len(text) \in Nat /\ DOMAIN text = 1 .. Len(text)
           /\ \A i \in 1 .. Len(text) : text[i] \in Nat /\ text[i] # NUL
<1>1. Len(text) \in Nat /\ DOMAIN text = 1 .. Len(text)
  BY LenProperties
<1>2. \A i \in 1 .. Len(text) : text[i] \in Byte
  BY ElementOfSeq
<1>3. text \in Seq(Nat)
  BY SeqMonotonic DEF Byte
<1> QED
  BY <1>1, <1>2, <1>3 DEF Byte

LEMMA StringType ==
    ASSUME Strings, NEW k \in DOMAIN strings
    PROVE  /\ strings[k] \in String /\ strings[k].str \in Slice
           /\ Extent(strings[k]) \in Slice /\ Intact(strings[k])
<1>1. strings[k] \in String
  BY LenProperties, ElementOfSeq DEF Strings
<1>2. strings[k].str \in Slice
  BY <1>1 DEF String
<1> QED
  BY <1>1, <1>2 DEF Extent, Window, Slice, Strings

LEMMA InvImpliesTypeOK == Inv => TypeOK
<1> SUFFICES ASSUME Inv PROVE TypeOK
  OBVIOUS
<1>1. ASSUME NEW k \in DOMAIN strings
      PROVE  LET s == strings[k].str IN s.arr \in DOMAIN heap /\ s.len <= Capacity(heap, s)
  <2> DEFINE s == strings[k].str
  <2>1. s \in Slice /\ Within(heap, Extent(strings[k]))
    BY StringType DEF Inv, Intact, Frozen
  <2>2. s.arr \in DOMAIN heap /\ s.from + s.len <= Len(heap[s.arr])
    <3>1. s.arr \in DOMAIN heap
      BY <2>1 DEF Within, Extent, Window
    <3>2. Len(heap[s.arr]) \in Nat
      BY <3>1, ArrayType DEF Inv, Buffers
    <3> QED
      BY <2>1, <3>1, <3>2 DEF Within, Extent, Window, Slice
  <2>3. s.arr # 0 /\ Len(heap[s.arr]) \in Nat
    BY <2>2, ArrayType DEF Inv, Buffers
  <2> QED
    BY <2>1, <2>2, <2>3 DEF Capacity, Slice
<1> QED
  BY <1>1 DEF Inv, Buffers, Strings, String, TypeOK

LEMMA InvImpliesTerminated == Inv => Terminated
<1> SUFFICES ASSUME Inv, NEW k \in DOMAIN strings, strings[k].z
             PROVE  LET s == strings[k].str
                    IN  /\ s.len < Capacity(heap, s)
                        /\ \A i \in 1 .. s.len + 1 :
                              heap[s.arr][s.from + i] = NUL <=> i = s.len + 1
  BY DEF Terminated
<1> DEFINE s == strings[k].str
<1>1. s \in Slice /\ Intact(strings[k]) /\ s.len \in Nat /\ s.from \in Nat
  BY StringType DEF Inv, Slice
<1>2. s.arr \in DOMAIN heap /\ s.from + (s.len + 1) <= Len(heap[s.arr])
  BY <1>1 DEF Intact, Frozen, Within, Extent, Window
<1>3. s.arr # 0 /\ Len(heap[s.arr]) \in Nat
  BY <1>2, ArrayType DEF Inv, Buffers
<1>4. s.len < Capacity(heap, s)
  BY <1>1, <1>2, <1>3 DEF Capacity
<1>5. ASSUME NEW i \in 1 .. s.len + 1 PROVE heap[s.arr][s.from + i] = NUL <=> i = s.len + 1
  <2>1. CASE i = s.len + 1
    <3>1. s.from + i = s.from + s.len + 1
      BY <1>1, <2>1
    <3> QED
      BY <1>1, <2>1, <3>1 DEF Intact
  <2>2. CASE i # s.len + 1
    <3>1. i \in 1 .. s.len
      BY <1>1, <2>2
    <3> QED
      BY <1>1, <2>2, <3>1 DEF Intact
  <2> QED
    BY <2>1, <2>2
<1> QED
  BY <1>4, <1>5

-----------------------------------------------------------------------------
(* A claim and what is written to it                                       *)

\* c claims n bytes: nothing was written there, and no string lies there.
Claimed(c, n) ==
    /\ c.heap \in Seq(Seq(Nat)) /\ DOMAIN heap \subseteq DOMAIN c.heap
    /\ \A a \in DOMAIN heap : c.heap[a] = heap[a]
    /\ c.tail \in DOMAIN c.heap /\ Len(c.heap[c.tail]) = NodeSize /\ c.off \in 0 .. NodeSize
    /\ \A i \in c.off + 1 .. NodeSize : c.heap[c.tail][i] = NUL
    /\ c.back \in Slice /\ c.back.len = n /\ Within(c.heap, c.back)
    /\ \A i \in 1 .. n : c.heap[c.back.arr][c.back.from + i] = NUL
    /\ c.back.arr = c.tail => c.back.from + n <= c.off
    /\ \A s \in Slice : Frozen(s) => /\ s.arr # c.back.arr \/ s.from + s.len <= c.back.from
                                     /\ s.arr = c.tail => s.from + s.len <= c.off

\* h is g with text written from the start of w.
Written(g, h, w, text) ==
    /\ h \in Seq(Seq(Nat)) /\ DOMAIN h = DOMAIN g /\ SameArrays(g, h)
    /\ \A i \in 1 .. Len(text) : h[w.arr][w.from + i] = text[i]
    /\ \A a \in DOMAIN g : \A i \in 1 .. Len(g[a]) :
          a # w.arr \/ i <= w.from \/ i > w.from + Len(text) => h[a][i] = g[a][i]

LEMMA CopyWritten ==
    ASSUME NEW g \in Seq(Seq(Nat)), NEW w \in Slice, NEW text \in Seq(Nat),
           w.arr \in DOMAIN g, w.from + Len(text) <= Len(g[w.arr])
    PROVE  Written(g, Copy(g, w, text), w, text)
BY CopyWrites DEF Written

\* Bytes in an array of their own.
LEMMA OwnClaim ==
    ASSUME Buffers, NEW n \in Nat,
           NEW c, c = [heap |-> Append(heap, Make(n, NUL)), tail |-> tail, off |-> off,
                       back |-> Window(Len(heap) + 1, 0, n)]
    PROVE  Claimed(c, n)
<1> DEFINE new == Make(n, NUL)
<1>1. new \in Seq(Nat) /\ Len(new) = n /\ \A i \in 1 .. n : new[i] = NUL
  BY MakeType DEF NUL
<1> HIDE DEF new
<1>2. c.heap = Append(heap, new) /\ c.tail = tail /\ c.off = off
      /\ c.back = Window(Len(heap) + 1, 0, n)
  BY DEF new
<1>3. /\ c.heap \in Seq(Seq(Nat)) /\ DOMAIN heap \subseteq DOMAIN c.heap
      /\ Len(heap) + 1 \in DOMAIN c.heap /\ Len(heap) + 1 \notin DOMAIN heap
      /\ Len(heap) + 1 \in Nat /\ c.heap[Len(heap) + 1] = new
      /\ \A a \in DOMAIN heap : c.heap[a] = heap[a]
  BY <1>1, <1>2, ArrayAdded DEF Buffers
<1>4. c.back \in Slice /\ c.back.arr = Len(heap) + 1 /\ c.back.from = 0 /\ c.back.len = n
  BY <1>2, <1>3 DEF Window, Slice
<1>5. Within(c.heap, c.back) /\ \A i \in 1 .. n : c.heap[c.back.arr][c.back.from + i] = NUL
  BY <1>1, <1>3, <1>4 DEF Within
<1>6. c.back.arr # c.tail
  BY <1>2, <1>3, <1>4 DEF Buffers
<1>7. ASSUME NEW s \in Slice, Frozen(s)
      PROVE  s.arr # c.back.arr /\ (s.arr = c.tail => s.from + s.len <= c.off)
  BY <1>2, <1>3, <1>4, <1>7 DEF Frozen, Within
<1> QED
  BY <1>2, <1>3, <1>4, <1>5, <1>6, <1>7 DEF Claimed, Buffers

\* ensureCap claims as many bytes as it is asked for, whichever way it goes.
LEMMA EnsureCapClaims ==
    ASSUME Buffers, NEW n \in Nat
    PROVE  Claimed(EnsureCap(n), n)
<1> DEFINE c == EnsureCap(n)
<1>1. CASE n > NodeSize
  <2>1. c = [heap |-> Append(heap, Make(n, NUL)), tail |-> tail, off |-> off,
             back |-> Window(Len(heap) + 1, 0, n)]
    BY <1>1 DEF EnsureCap
  <2> QED
    BY <2>1, OwnClaim
<1>2. CASE n <= NodeSize /\ NodeSize - off < n
  <2> DEFINE new == Make(NodeSize, NUL)
  <2>1. new \in Seq(Nat) /\ Len(new) = NodeSize /\ \A i \in 1 .. NodeSize : new[i] = NUL
    BY Sane, MakeType DEF NUL
  <2>2. c.heap = Append(heap, new) /\ c.tail = Len(heap) + 1 /\ c.off = n
        /\ c.back = Window(Len(heap) + 1, 0, n)
    BY <1>2, Sane DEF EnsureCap
  <2> HIDE DEF new, c
  <2>3. /\ c.heap \in Seq(Seq(Nat)) /\ DOMAIN heap \subseteq DOMAIN c.heap
        /\ Len(heap) + 1 \in DOMAIN c.heap /\ Len(heap) + 1 \notin DOMAIN heap
        /\ Len(heap) + 1 \in Nat /\ c.heap[Len(heap) + 1] = new
        /\ \A a \in DOMAIN heap : c.heap[a] = heap[a]
    BY <2>1, <2>2, ArrayAdded DEF Buffers
  <2>4. c.back \in Slice /\ c.back.arr = Len(heap) + 1 /\ c.back.from = 0 /\ c.back.len = n
    BY <2>2, <2>3 DEF Window, Slice
  <2>5. Within(c.heap, c.back) /\ \A i \in 1 .. n : c.heap[c.back.arr][c.back.from + i] = NUL
    BY <1>2, <2>1, <2>3, <2>4, Sane DEF Within
  <2>6. Len(c.heap[c.tail]) = NodeSize /\ \A i \in c.off + 1 .. NodeSize : c.heap[c.tail][i] = NUL
    BY <1>2, <2>1, <2>2, <2>3, Sane
  <2>7. ASSUME NEW s \in Slice, Frozen(s)
        PROVE  s.arr # c.back.arr /\ s.arr # c.tail
    BY <2>2, <2>3, <2>4, <2>7 DEF Frozen, Within
  <2>8. Claimed(c, n)
    BY <1>2, <2>2, <2>3, <2>4, <2>5, <2>6, <2>7, Sane DEF Claimed
  <2> QED
    BY <2>8 DEF c
<1>3. CASE n <= NodeSize /\ ~ (NodeSize - off < n)
  <2>1. c.heap = heap /\ c.tail = tail /\ c.off = off + n /\ c.back = Window(tail, off, n)
    BY <1>3, Sane DEF EnsureCap
  <2> HIDE DEF c
  <2>2. off \in Nat /\ off + n <= NodeSize /\ NodeSize \in Nat /\ tail \in Nat
    BY <1>3, Sane, ArrayType DEF Buffers
  <2>3. c.back \in Slice /\ c.back.arr = tail /\ c.back.from = off /\ c.back.len = n
    BY <2>1, <2>2 DEF Window, Slice
  <2>4. Within(c.heap, c.back) /\ \A i \in 1 .. n : c.heap[c.back.arr][c.back.from + i] = NUL
    <3>1. \A i \in 1 .. n : off + i \in off + 1 .. NodeSize
      BY <2>2
    <3> QED
      BY <2>1, <2>2, <2>3, <3>1 DEF Within, Buffers
  <2>5. \A i \in c.off + 1 .. NodeSize : c.heap[c.tail][i] = NUL
    <3>1. \A i \in off + n + 1 .. NodeSize : i \in off + 1 .. NodeSize
      BY <2>2
    <3> QED
      BY <2>1, <3>1 DEF Buffers
  <2>6. ASSUME NEW s \in Slice, Frozen(s)
        PROVE  /\ s.arr # c.back.arr \/ s.from + s.len <= c.back.from
               /\ s.arr = c.tail => s.from + s.len <= c.off
    BY <2>1, <2>2, <2>3, <2>6 DEF Frozen, Slice
  <2>7. c.off \in 0 .. NodeSize /\ c.tail \in DOMAIN c.heap /\ Len(c.heap[c.tail]) = NodeSize
        /\ c.back.from + n <= c.off /\ c.heap \in Seq(Seq(Nat))
    BY <2>1, <2>2, <2>3 DEF Buffers
  <2>8. Claimed(c, n)
    BY <2>1, <2>3, <2>4, <2>5, <2>6, <2>7 DEF Claimed
  <2> QED
    BY <2>8 DEF c
<1>4. NodeSize \in Nat /\ off \in Nat
  BY Sane DEF Buffers
<1> QED
  BY <1>1, <1>2, <1>3, <1>4

-----------------------------------------------------------------------------
(* A text is stored in what was claimed for it                             *)

\* What the strings that were returned read.
Reads == [k \in DOMAIN strings |-> Read(heap, strings[k].str)]

\* What a step that stores text does, whichever function it is.
Stores(text, z) ==
    /\ Inv' /\ Kept
    /\ DOMAIN strings' = DOMAIN strings \cup {Len(strings) + 1}
    /\ Len(strings) + 1 \in 1 .. MaxStores \ DOMAIN strings
    /\ Reads' = [k \in DOMAIN strings' |-> IF k = Len(strings) + 1 THEN text ELSE Reads[k]]

LEMMA StoreInv ==
    ASSUME Inv, Len(strings) < MaxStores,
           NEW text \in Seq(Byte), NEW z \in BOOLEAN,
           NEW n \in Nat, n = IF z THEN Len(text) + 1 ELSE Len(text),
           NEW c, Claimed(c, n), Written(c.heap, heap', c.back, text),
           tail' = c.tail, off' = c.off, Return(c.back, Len(text), z)
    PROVE  Stores(text, z)
<1> DEFINE str == Window(c.back.arr, c.back.from, Len(text))
           x == [str |-> str, z |-> z]
           w == c.back
<1>1. Len(text) \in Nat /\ \A i \in 1 .. Len(text) : text[i] \in Nat /\ text[i] # NUL
  BY TextType
<1>2. /\ c.heap \in Seq(Seq(Nat)) /\ DOMAIN heap \subseteq DOMAIN c.heap
      /\ \A a \in DOMAIN heap : c.heap[a] = heap[a]
      /\ c.tail \in DOMAIN c.heap /\ Len(c.heap[c.tail]) = NodeSize /\ c.off \in 0 .. NodeSize
      /\ \A i \in c.off + 1 .. NodeSize : c.heap[c.tail][i] = NUL
      /\ c.back \in Slice /\ c.back.len = n /\ Within(c.heap, c.back)
      /\ \A i \in 1 .. n : c.heap[c.back.arr][c.back.from + i] = NUL
      /\ c.back.arr = c.tail => c.back.from + n <= c.off
  BY DEF Claimed
<1>3. /\ heap' \in Seq(Seq(Nat)) /\ DOMAIN heap' = DOMAIN c.heap /\ SameArrays(c.heap, heap')
      /\ \A i \in 1 .. Len(text) : heap'[w.arr][w.from + i] = text[i]
      /\ \A a \in DOMAIN c.heap : \A i \in 1 .. Len(c.heap[a]) :
            a # w.arr \/ i <= w.from \/ i > w.from + Len(text) => heap'[a][i] = c.heap[a][i]
  BY DEF Written
<1>4. w.from \in Nat /\ w.arr \in Nat /\ w.arr \in DOMAIN c.heap /\ Len(c.heap[w.arr]) \in Nat
      /\ w.from + n <= Len(c.heap[w.arr])
  BY <1>2, ArrayType DEF Within, Slice
<1>5. Kept
  <2> SUFFICES ASSUME NEW s \in Slice, Frozen(s)
               PROVE  /\ Frozen(s)'
                      /\ \A i \in 1 .. s.len : heap'[s.arr][s.from + i] = heap[s.arr][s.from + i]
    BY DEF Kept
  <2>1. /\ s.arr # w.arr \/ s.from + s.len <= w.from
        /\ s.arr = c.tail => s.from + s.len <= c.off
    BY DEF Claimed
  <2>2. /\ s.arr \in DOMAIN heap /\ s.from + s.len <= Len(heap[s.arr])
        /\ s.from \in Nat /\ s.len \in Nat
    BY DEF Frozen, Within, Slice
  <2>3. s.arr \in DOMAIN c.heap /\ c.heap[s.arr] = heap[s.arr] /\ Len(heap'[s.arr]) = Len(heap[s.arr])
    BY <1>2, <1>3, <2>2 DEF SameArrays
  <2>4. Frozen(s)'
    BY <1>3, <2>1, <2>2, <2>3 DEF Frozen, Within
  <2>5. Len(heap[s.arr]) \in Nat
    BY <2>2, ArrayType DEF Inv, Buffers
  <2>6. ASSUME NEW i \in 1 .. s.len PROVE heap'[s.arr][s.from + i] = heap[s.arr][s.from + i]
    <3>1. s.from + i \in 1 .. Len(c.heap[s.arr]) /\ (s.arr # w.arr \/ s.from + i <= w.from)
      <4>1. \A f, l, b, j : f \in Nat /\ l \in Nat /\ b \in Nat /\ f + l <= b /\ j \in 1 .. l =>
               f + j \in 1 .. b /\ f + j <= f + l /\ f + j \in Nat /\ f + l \in Nat
        OBVIOUS
      <4>2. s.from + i \in 1 .. Len(heap[s.arr]) /\ s.from + i <= s.from + s.len
            /\ s.from + i \in Nat /\ s.from + s.len \in Nat
        BY <2>2, <2>5, <4>1
      <4>3. w.from \in Nat
        BY <1>4
      <4> QED
        BY <2>1, <2>3, <4>2, <4>3
    <3> QED
      BY <1>3, <2>3, <3>1
  <2> QED
    BY <2>4, <2>6
<1>6. Buffers'
  <2>1. ASSUME NEW i \in off' + 1 .. NodeSize PROVE heap'[tail'][i] = NUL
    <3>1. c.off \in Nat /\ NodeSize \in Nat /\ i \in c.off + 1 .. NodeSize
      BY <1>2, Sane
    <3>2. i \in 1 .. NodeSize /\ i > c.off
      BY <3>1
    <3>3. i \in 1 .. Len(c.heap[c.tail]) /\ c.heap[c.tail][i] = NUL
      BY <1>2, <3>1, <3>2
    <3>4. n >= Len(text) /\ (c.tail = w.arr => w.from + n <= c.off)
      BY <1>1, <1>2
    <3>5. c.tail # w.arr \/ i > w.from + Len(text)
      BY <1>1, <1>4, <3>1, <3>2, <3>4
    <3> QED
      BY <1>2, <1>3, <3>3, <3>5
  <2> QED
    BY <1>2, <1>3, <2>1 DEF Buffers, SameArrays
<1>7. x \in String /\ x.str = str /\ x.z = z
      /\ str.arr = w.arr /\ str.from = w.from /\ str.len = Len(text)
  BY <1>1, <1>4 DEF String, Window, Slice
<1>8. /\ strings' \in Seq(String) /\ Len(strings') = Len(strings) + 1 /\ Len(strings) \in Nat
      /\ DOMAIN strings = 1 .. Len(strings) /\ DOMAIN strings' = 1 .. Len(strings) + 1
      /\ \A k \in 1 .. Len(strings) : strings'[k] = strings[k]
      /\ strings'[Len(strings) + 1] = x
  <2>1. strings' = Append(strings, x)
    BY DEF Return
  <2> HIDE DEF x
  <2> QED
    BY <1>7, <2>1, AppendProperties, LenProperties DEF Inv, Strings
<1> HIDE DEF x, str
<1>9. Intact(x)'
  <2>1. Extent(x).arr = w.arr /\ Extent(x).from = w.from /\ Extent(x).len = n
    BY <1>7 DEF Extent, Window
  <2>2. Within(heap', Extent(x))
    BY <1>3, <1>4, <2>1 DEF Within, SameArrays
  <2>3. x.z => heap'[str.arr][str.from + str.len + 1] = NUL
    <3> SUFFICES ASSUME z PROVE heap'[w.arr][w.from + Len(text) + 1] = NUL
      BY <1>7
    <3>1. Len(text) + 1 = n /\ Len(text) + 1 \in 1 .. n /\ Len(text) \in Nat
      BY <1>1
    <3> HIDE DEF w
    <3>2. w.from + (Len(text) + 1) = w.from + Len(text) + 1
          /\ w.from + Len(text) + 1 \in 1 .. Len(c.heap[w.arr])
          /\ w.from + Len(text) + 1 > w.from + Len(text)
      BY <1>4, <3>1
    <3>3. c.heap[w.arr][w.from + Len(text) + 1] = NUL
      BY <1>2, <3>1, <3>2 DEF w
    <3> QED
      BY <1>3, <1>4, <3>2, <3>3
  <2>4. \A i \in 1 .. str.len : heap'[str.arr][str.from + i] # NUL
    BY <1>1, <1>3, <1>7
  <2> QED
    BY <1>2, <1>7, <2>1, <2>2, <2>3, <2>4 DEF Intact, Frozen
<1>10. ASSUME NEW k \in DOMAIN strings PROVE Intact(strings[k])' /\ strings'[k] = strings[k]
  <2>1. Extent(strings[k]) \in Slice /\ Intact(strings[k]) /\ strings[k].str \in Slice
        /\ strings[k] \in String
    BY StringType DEF Inv
  <2>2. strings'[k] = strings[k]
    BY <1>8
  <2> DEFINE y == strings[k]
             s == y.str
  <2>3. /\ Frozen(Extent(y))'
        /\ \A i \in 1 .. Extent(y).len :
              heap'[Extent(y).arr][Extent(y).from + i] = heap[Extent(y).arr][Extent(y).from + i]
    <3>1. Frozen(Extent(y)) /\ Extent(y)' = Extent(y)
      BY <2>1, <2>2 DEF Intact, Extent
    <3>2. PICK e \in Slice : e = Extent(y) /\ e = Extent(y)' /\ Frozen(e)
      BY <2>1, <3>1
    <3>3. /\ Frozen(e)'
          /\ \A i \in 1 .. e.len : heap'[e.arr][e.from + i] = heap[e.arr][e.from + i]
      BY <1>5, <3>2 DEF Kept
    <3>4. Frozen(Extent(y))'
      BY <3>2, <3>3 DEF Frozen
    <3> QED
      BY <3>2, <3>3, <3>4
  <2>4. Extent(y).arr = s.arr /\ Extent(y).from = s.from /\ s.len \in Nat /\ s.from \in Nat
        /\ Extent(y).len = IF y.z THEN s.len + 1 ELSE s.len
    BY <2>1 DEF Extent, Window, Slice
  <2>5. ASSUME NEW i \in 1 .. s.len PROVE heap'[s.arr][s.from + i] # NUL
    <3>1. i \in 1 .. Extent(y).len
      BY <2>4
    <3> QED
      BY <2>1, <2>3, <2>4, <3>1 DEF Intact
  <2>6. ASSUME y.z PROVE heap'[s.arr][s.from + s.len + 1] = NUL
    <3>1. Extent(y).len = s.len + 1 /\ s.len \in Nat /\ s.from \in Nat
      BY <2>4, <2>6
    <3>2. \A l, f \in Nat : l + 1 \in 1 .. l + 1 /\ f + (l + 1) = f + l + 1
      OBVIOUS
    <3>3. s.len + 1 \in 1 .. Extent(y).len /\ s.from + (s.len + 1) = s.from + s.len + 1
      BY <3>2, <3>1
    <3>4. heap[s.arr][s.from + s.len + 1] = NUL
      BY <2>1, <2>6 DEF Intact
    <3>5. heap'[s.arr][s.from + (s.len + 1)] = heap[s.arr][s.from + (s.len + 1)]
      BY <2>3, <2>4, <3>3
    <3> QED
      BY <3>3, <3>4, <3>5
  <2> QED
    BY <2>2, <2>3, <2>5, <2>6 DEF Intact
<1>11. Inv'
  <2>1. ASSUME NEW k \in DOMAIN strings' PROVE Intact(strings[k])'
    <3>1. CASE k = Len(strings) + 1
      BY <1>8, <1>9, <3>1 DEF Intact, Frozen, Extent, x, str
    <3>2. CASE k # Len(strings) + 1
      BY <1>8, <1>10, <3>2
    <3> QED
      BY <3>1, <3>2
  <2> QED
    BY <1>6, <1>8, <2>1, Sane DEF Inv, Strings
<1>12. Read(heap', str) = text
  BY <1>3, <1>7, TextType DEF Read
<1>13. ASSUME NEW k \in DOMAIN strings
       PROVE  Read(heap', strings'[k].str) = Reads[k]
  <2> DEFINE s == strings[k].str
  <2>1. Extent(strings[k]) \in Slice /\ Frozen(Extent(strings[k])) /\ s \in Slice
    BY StringType DEF Inv, Intact
  <2>2. Extent(strings[k]).arr = s.arr /\ Extent(strings[k]).from = s.from /\ s.len \in Nat
        /\ (Extent(strings[k]).len = s.len \/ Extent(strings[k]).len = s.len + 1)
    BY <2>1 DEF Extent, Window, Slice
  <2>3. \A i \in 1 .. s.len : heap'[s.arr][s.from + i] = heap[s.arr][s.from + i]
    <3>1. \A i \in 1 .. s.len : i \in 1 .. Extent(strings[k]).len
      BY <2>2
    <3> QED
      BY <1>5, <2>1, <2>2, <3>1 DEF Kept
  <2>4. strings'[k].str = s
    BY <1>10
  <2> QED
    BY <2>3, <2>4 DEF Read, Reads
<1>14. Reads' = [k \in DOMAIN strings' |-> IF k = Len(strings) + 1 THEN text ELSE Reads[k]]
  <2>1. ASSUME NEW k \in DOMAIN strings'
        PROVE  Read(heap', strings'[k].str) = IF k = Len(strings) + 1 THEN text ELSE Reads[k]
    <3>1. CASE k = Len(strings) + 1
      BY <1>7, <1>8, <1>12, <3>1
    <3>2. CASE k # Len(strings) + 1
      BY <1>8, <1>13, <3>2
    <3> QED
      BY <3>1, <3>2
  <2> QED
    BY <2>1 DEF Reads
<1>15. /\ DOMAIN strings' = DOMAIN strings \cup {Len(strings) + 1}
       /\ Len(strings) + 1 \in 1 .. MaxStores \ DOMAIN strings
  BY <1>8, Sane
<1> QED
  BY <1>5, <1>11, <1>14, <1>15 DEF Stores

-----------------------------------------------------------------------------
(* Joined paths                                                            *)

\* What is written behind a text continues it.
LEMMA WrittenBehind ==
    ASSUME NEW g \in Seq(Seq(Nat)), NEW h, NEW k, NEW w \in Slice,
           NEW t \in Seq(Nat), NEW u \in Seq(Nat),
           w.arr \in DOMAIN g, w.from + Len(t) <= Len(g[w.arr]),
           Written(g, h, w, t), Written(h, k, From(w, Len(t)), u)
    PROVE  Written(g, k, w, t \o u)
<1> DEFINE v == From(w, Len(t))
           tu == t \o u
<1>1. Len(t) \in Nat /\ Len(u) \in Nat /\ w.from \in Nat
  BY LenProperties DEF Slice
<1>2. v.arr = w.arr /\ v.from = w.from + Len(t)
  BY DEF From, Slice
<1>3. Len(tu) = Len(t) + Len(u)
      /\ \A i \in 1 .. Len(t) + Len(u) : tu[i] = IF i <= Len(t) THEN t[i] ELSE u[i - Len(t)]
  BY ConcatProperties
<1> HIDE DEF tu, v
<1>4. /\ h \in Seq(Seq(Nat)) /\ DOMAIN h = DOMAIN g /\ SameArrays(g, h)
      /\ \A i \in 1 .. Len(t) : h[w.arr][w.from + i] = t[i]
      /\ \A a \in DOMAIN g : \A i \in 1 .. Len(g[a]) :
            a # w.arr \/ i <= w.from \/ i > w.from + Len(t) => h[a][i] = g[a][i]
  BY DEF Written
<1>5. Written(h, k, v, u)
  BY DEF v
<1>6. /\ k \in Seq(Seq(Nat)) /\ DOMAIN k = DOMAIN h /\ SameArrays(h, k)
      /\ \A i \in 1 .. Len(u) : k[w.arr][v.from + i] = u[i]
      /\ \A a \in DOMAIN h : \A i \in 1 .. Len(h[a]) :
            a # w.arr \/ i <= v.from \/ i > v.from + Len(u) => k[a][i] = h[a][i]
  BY <1>2, <1>5 DEF Written
<1>7. SameArrays(g, k)
  BY <1>4, <1>6 DEF SameArrays
<1>8. ASSUME NEW i \in 1 .. Len(tu)
      PROVE  k[w.arr][w.from + i] = tu[i]
  <2>1. Len(g[w.arr]) \in Nat /\ Len(h[w.arr]) = Len(g[w.arr])
    BY <1>4, ArrayType DEF SameArrays
  <2>2. i \in Nat /\ i >= 1 /\ i <= Len(t) + Len(u)
    BY <1>1, <1>3
  <2>3. CASE i <= Len(t)
    <3>1. i \in 1 .. Len(t) /\ w.from + i \in 1 .. Len(h[w.arr]) /\ w.from + i <= v.from
      <4>1. i \in 1 .. Len(t) /\ w.from + i <= w.from + Len(t) /\ w.from + i >= 1
            /\ w.from + i \in Nat /\ w.from + Len(t) \in Nat
        <5>1. \A x, l, f \in Nat : 1 <= x /\ x <= l =>
                 x \in 1 .. l /\ f + x <= f + l /\ f + x >= 1 /\ f + x \in Nat /\ f + l \in Nat
          OBVIOUS
        <5> QED
          BY <1>1, <2>2, <2>3, <5>1
      <4>2. w.from + Len(t) <= Len(h[w.arr]) /\ Len(h[w.arr]) \in Nat
        BY <2>1
      <4> QED
        <5>1. \A f, b, n \in Nat : 1 <= f /\ f <= n /\ n <= b => f \in 1 .. b
          OBVIOUS
        <5>2. w.from + i \in 1 .. Len(h[w.arr])
          BY <4>1, <4>2, <5>1
        <5> QED
          BY <1>2, <4>1, <5>2
    <3>2. tu[i] = t[i]
      BY <1>1, <1>3, <2>3
    <3> QED
      BY <1>4, <1>6, <3>1, <3>2
  <2>4. CASE i > Len(t)
    <3>1. i - Len(t) \in 1 .. Len(u) /\ v.from + (i - Len(t)) = w.from + i
      BY <1>1, <1>2, <2>2, <2>4
    <3>2. tu[i] = u[i - Len(t)]
      BY <1>1, <1>3, <2>2, <2>4
    <3> QED
      BY <1>6, <3>1, <3>2
  <2> QED
    BY <1>1, <2>2, <2>3, <2>4
<1>9. ASSUME NEW a \in DOMAIN g, NEW i \in 1 .. Len(g[a]),
             a # w.arr \/ i <= w.from \/ i > w.from + Len(tu)
      PROVE  k[a][i] = g[a][i]
  <2>1. i \in Nat /\ i \in 1 .. Len(h[a]) /\ a \in DOMAIN h
    BY <1>4, <1>9 DEF SameArrays
  <2>2. a # w.arr \/ i <= v.from \/ i > v.from + Len(u)
    <3>1. CASE a # w.arr
      BY <3>1
    <3>2. CASE i <= w.from
      BY <1>1, <1>2, <2>1, <3>2
    <3>3. CASE i > w.from + Len(tu)
      BY <1>1, <1>2, <1>3, <2>1, <3>3
    <3> QED
      BY <1>9, <3>1, <3>2, <3>3
  <2>3. a # w.arr \/ i <= w.from \/ i > w.from + Len(t)
    <3>1. CASE a # w.arr
      BY <3>1
    <3>2. CASE i <= w.from
      BY <3>2
    <3>3. CASE i > w.from + Len(tu)
      <4>1. \A f, l, m \in Nat : i > f + (l + m) => i > f + l
        BY <2>1
      <4>2. i > w.from + (Len(t) + Len(u))
        BY <1>3, <3>3
      <4> QED
        BY <1>1, <4>1, <4>2
    <3> QED
      BY <1>9, <3>1, <3>2, <3>3
  <2> QED
    BY <1>4, <1>6, <1>9, <2>1, <2>2, <2>3
<1> QED
  BY <1>6, <1>7, <1>8, <1>9 DEF Written, tu

LEMMA PathType ==
    ASSUME NEW parent \in Parents, NEW child \in Texts
    PROVE  /\ Joined(parent, child) \in Seq(Byte)
           /\ Len(Joined(parent, child)) = Len(parent) + Sep(parent) + Len(child)
           /\ parent \in Seq(Byte) /\ child \in Seq(Byte) /\ << Separator >> \in Seq(Byte)
           /\ Len(parent) \in Nat /\ Len(child) \in Nat /\ Len(<< Separator >>) = 1
           /\ Sep(parent) \in {0, 1}
<1>1. parent \in Seq(Byte) /\ child \in Seq(Byte)
  BY Sane
<1>2. Separator \in Byte
  BY DEF Separator, NUL, Byte
<1>3. << Separator >> \in Seq(Byte) /\ Len(<< Separator >>) = 1
  BY <1>2
<1>4. Len(parent) \in Nat /\ Len(child) \in Nat
  BY <1>1, LenProperties
<1> DEFINE one == << Separator >>
<1> HIDE DEF one
<1>5. one \in Seq(Byte) /\ Len(one) = 1
  BY <1>3 DEF one
<1>6. parent \o child \in Seq(Byte) /\ Len(parent \o child) = Len(parent) + Len(child)
  BY <1>1, ConcatProperties
<1>7. parent \o one \in Seq(Byte) /\ Len(parent \o one) = Len(parent) + 1
  <2>1. parent \o one \in Seq(Byte) /\ Len(parent \o one) = Len(parent) + Len(one)
    BY <1>1, <1>5, ConcatProperties
  <2> QED
    BY <1>5, <2>1
<1>8. (parent \o one) \o child \in Seq(Byte)
      /\ Len((parent \o one) \o child) = Len(parent) + 1 + Len(child)
  <2> DEFINE base == parent \o one
  <2>1. base \in Seq(Byte) /\ Len(base) = Len(parent) + 1
    BY <1>7
  <2> HIDE DEF base
  <2>2. base \o child \in Seq(Byte) /\ Len(base \o child) = Len(base) + Len(child)
    BY <1>1, <2>1, ConcatProperties
  <2> QED
    BY <2>1, <2>2 DEF base
<1>9. CASE parent[Len(parent)] = Separator
  BY <1>1, <1>3, <1>4, <1>6, <1>9 DEF Joined, Sep
<1>10. CASE parent[Len(parent)] # Separator
  BY <1>1, <1>3, <1>4, <1>8, <1>10 DEF Joined, Sep, one
<1> QED
  BY <1>9, <1>10

\* Join writes the path, separator included, and nothing else.
LEMMA JoinWritten ==
    ASSUME NEW g \in Seq(Seq(Nat)), NEW w \in Slice,
           NEW parent \in Parents, NEW child \in Texts, w.arr \in DOMAIN g,
           w.from + (Len(parent) + Sep(parent) + Len(child)) <= Len(g[w.arr])
    PROVE  Written(g, Join(g, w, parent, child), w, Joined(parent, child))
<1> DEFINE one == << Separator >>
           h == Copy(g, w, parent)
<1>1. /\ parent \in Seq(Nat) /\ child \in Seq(Nat) /\ one \in Seq(Nat)
      /\ Len(parent) \in Nat /\ Len(child) \in Nat /\ Len(one) = 1 /\ Sep(parent) \in {0, 1}
  <2>1. parent \in Seq(Nat) /\ child \in Seq(Nat)
    BY PathType, SeqMonotonic DEF Byte
  <2> QED
    BY <2>1, PathType DEF Separator
<1> HIDE DEF one
<1>2. w.from \in Nat /\ w.arr \in Nat /\ Len(g[w.arr]) \in Nat
  BY ArrayType DEF Slice
<1>3. ASSUME NEW m \in Nat
      PROVE  From(w, m) \in Slice /\ From(w, m).arr = w.arr /\ From(w, m).from = w.from + m
  <2>1. From(w, m) = [w EXCEPT !.from = w.from + m] /\ w.from + m \in Nat
    BY <1>2 DEF From, Slice
  <2> QED
    BY <2>1 DEF Slice
<1>4. Written(g, h, w, parent)
  <2>1. w.from + Len(parent) <= Len(g[w.arr])
    BY <1>1, <1>2
  <2> QED
    BY <1>1, <2>1, CopyWritten
<1> HIDE DEF h
<1>5. h \in Seq(Seq(Nat)) /\ w.arr \in DOMAIN h /\ Len(h[w.arr]) = Len(g[w.arr])
  BY <1>4 DEF Written, SameArrays
<1>6. CASE parent[Len(parent)] = Separator
  <2>1. Sep(parent) = 0 /\ Joined(parent, child) = parent \o child
    BY <1>6 DEF Sep, Joined
  <2>2. Join(g, w, parent, child) = Copy(h, From(w, Len(parent)), child)
    BY <1>1, <2>1 DEF Join, h
  <2>3. w.from + Len(parent) + Len(child) <= Len(h[w.arr])
        /\ w.from + Len(parent) <= Len(g[w.arr])
    <3>1. \A f, l, m, r \in Nat : f + (l + 0 + m) <= r => f + l + m <= r /\ f + l <= r
      OBVIOUS
    <3>2. w.from + (Len(parent) + 0 + Len(child)) <= Len(g[w.arr]) /\ Len(g[w.arr]) \in Nat
      BY <1>2, <2>1
    <3>3. /\ w.from + Len(parent) + Len(child) <= Len(g[w.arr])
          /\ w.from + Len(parent) <= Len(g[w.arr])
      BY <1>1, <1>2, <3>1, <3>2
    <3> QED
      BY <1>5, <3>3
  <2>4. Written(h, Copy(h, From(w, Len(parent)), child), From(w, Len(parent)), child)
    BY <1>1, <1>3, <1>5, <2>3, CopyWritten
  <2> QED
    BY <1>1, <1>4, <2>1, <2>2, <2>3, <2>4, WrittenBehind
<1>7. CASE parent[Len(parent)] # Separator
  <2> DEFINE front == parent \o one
             k == Copy(h, From(w, Len(parent)), one)
  <2>1. Sep(parent) = 1 /\ Joined(parent, child) = front \o child
    BY <1>7 DEF Sep, Joined, one
  <2>2. Join(g, w, parent, child) = Copy(k, From(w, Len(parent) + 1), child)
    BY <1>1, <2>1 DEF Join, h, one
  <2>3. /\ w.from + Len(parent) <= Len(g[w.arr])
        /\ w.from + Len(parent) + 1 <= Len(h[w.arr])
        /\ w.from + (Len(parent) + 1) + Len(child) <= Len(h[w.arr])
    <3>1. \A f, l, m, r \in Nat : f + (l + 1 + m) <= r =>
             f + l <= r /\ f + l + 1 <= r /\ f + (l + 1) + m <= r
      OBVIOUS
    <3>2. w.from + (Len(parent) + 1 + Len(child)) <= Len(g[w.arr])
      BY <2>1
    <3>3. w.from \in Nat /\ Len(parent) \in Nat /\ Len(child) \in Nat /\ Len(g[w.arr]) \in Nat
      BY <1>1, <1>2
    <3>4. /\ w.from + Len(parent) <= Len(g[w.arr])
          /\ w.from + Len(parent) + 1 <= Len(g[w.arr])
          /\ w.from + (Len(parent) + 1) + Len(child) <= Len(g[w.arr])
      BY <3>1, <3>2, <3>3
    <3> QED
      BY <1>5, <3>4
  <2>4. Written(h, k, From(w, Len(parent)), one)
    <3>1. From(w, Len(parent)) \in Slice /\ From(w, Len(parent)).arr \in DOMAIN h
          /\ From(w, Len(parent)).from + Len(one) <= Len(h[From(w, Len(parent)).arr])
      BY <1>1, <1>3, <1>5, <2>3
    <3> QED
      BY <1>1, <1>5, <3>1, CopyWritten
  <2>5. front \in Seq(Nat) /\ Len(front) = Len(parent) + 1
    <3>1. front \in Seq(Nat) /\ Len(front) = Len(parent) + Len(one)
      <4>1. parent \in Seq(Nat) /\ one \in Seq(Nat)
        BY <1>1
      <4> HIDE DEF one
      <4> QED
        BY <4>1, ConcatProperties
    <3> QED
      BY <1>1, <3>1
  <2> HIDE DEF k
  <2>6. Written(g, k, w, front)
    BY <1>1, <1>4, <2>3, <2>4, WrittenBehind
  <2> HIDE DEF front
  <2>7. k \in Seq(Seq(Nat)) /\ w.arr \in DOMAIN k /\ Len(k[w.arr]) = Len(g[w.arr])
    BY <2>6 DEF Written, SameArrays
  <2>8. Written(k, Copy(k, From(w, Len(front)), child), From(w, Len(front)), child)
    <3>1. From(w, Len(front)) \in Slice /\ From(w, Len(front)).arr \in DOMAIN k
          /\ From(w, Len(front)).from + Len(child) <= Len(k[From(w, Len(front)).arr])
      BY SMTT(60), <1>1, <1>3, <1>5, <2>3, <2>5, <2>7
    <3> QED
      BY <1>1, <2>7, <3>1, CopyWritten
  <2>9. w.from + Len(front) <= Len(g[w.arr])
    <3>1. \A f, l, m, r \in Nat : f + (l + 1) + m <= r => f + (l + 1) <= r
      OBVIOUS
    <3> QED
      BY <1>1, <1>2, <1>5, <2>3, <2>5, <3>1
  <2> QED
    BY <1>1, <2>1, <2>2, <2>5, <2>6, <2>8, <2>9, WrittenBehind
<1> QED
  BY <1>6, <1>7

-----------------------------------------------------------------------------
(* The operations                                                          *)

LEMMA ClaimRoom ==
    ASSUME NEW c, NEW n \in Nat, Claimed(c, n), NEW m \in Nat, m <= n
    PROVE  c.heap \in Seq(Seq(Nat)) /\ c.back \in Slice /\ c.back.arr \in DOMAIN c.heap
           /\ c.back.from + m <= Len(c.heap[c.back.arr])
<1>1. c.heap \in Seq(Seq(Nat)) /\ c.back \in Slice /\ c.back.arr \in DOMAIN c.heap
      /\ c.back.from + n <= Len(c.heap[c.back.arr]) /\ c.back.from \in Nat
  BY DEF Claimed, Within, Slice
<1>2. Len(c.heap[c.back.arr]) \in Nat
  BY <1>1, ArrayType
<1>3. \A from, len \in Nat : from + n <= len => from + m <= len
  OBVIOUS
<1>4. c.back.from + m <= Len(c.heap[c.back.arr])
  BY <1>1, <1>2, <1>3
<1> QED
  BY <1>1, <1>4

LEMMA StoreStringInv ==
    ASSUME Inv, Len(strings) < MaxStores, NEW s \in Texts,
           StoreString(s) \/ StoreStringZ(s) \/ NewStringZ(s)
    PROVE  \E z \in BOOLEAN : Stores(s, z)
<1>1. s \in Seq(Byte) /\ s \in Seq(Nat) /\ Len(s) \in Nat /\ Len(s) + 1 \in Nat
  BY Sane, TextType
<1>2. CASE StoreString(s)
  <2> DEFINE c == EnsureCap(Len(s))
  <2>1. Claimed(c, Len(s))
    BY <1>1, EnsureCapClaims DEF Inv
  <2>2. heap' = Copy(c.heap, c.back, s) /\ tail' = c.tail /\ off' = c.off
        /\ Return(c.back, Len(s), FALSE)
    BY <1>2 DEF StoreString
  <2> HIDE DEF c
  <2>3. Written(c.heap, heap', c.back, s)
    <3>1. c.heap \in Seq(Seq(Nat)) /\ c.back \in Slice /\ c.back.arr \in DOMAIN c.heap
          /\ c.back.from + Len(s) <= Len(c.heap[c.back.arr])
      BY <1>1, <2>1, ClaimRoom
    <3>2. Written(c.heap, Copy(c.heap, c.back, s), c.back, s)
      BY <1>1, <3>1, CopyWritten
    <3> QED
      BY <2>2, <3>2
  <2>4. Stores(s, FALSE)
    BY <1>1, <2>1, <2>2, <2>3, StoreInv
  <2> QED
    BY <2>4
<1>3. CASE StoreStringZ(s)
  <2> DEFINE c == EnsureCap(Len(s) + 1)
  <2>1. Claimed(c, Len(s) + 1)
    BY <1>1, EnsureCapClaims DEF Inv
  <2>2. heap' = Copy(c.heap, c.back, s) /\ tail' = c.tail /\ off' = c.off
        /\ Return(c.back, Len(s), TRUE)
    BY <1>3 DEF StoreStringZ
  <2> HIDE DEF c
  <2>3. Written(c.heap, heap', c.back, s)
    <3>1. c.heap \in Seq(Seq(Nat)) /\ c.back \in Slice /\ c.back.arr \in DOMAIN c.heap
          /\ c.back.from + Len(s) <= Len(c.heap[c.back.arr])
      BY <1>1, <2>1, ClaimRoom
    <3>2. Written(c.heap, Copy(c.heap, c.back, s), c.back, s)
      BY <1>1, <3>1, CopyWritten
    <3> QED
      BY <2>2, <3>2
  <2>4. Stores(s, TRUE)
    BY <1>1, <2>1, <2>2, <2>3, StoreInv
  <2> QED
    BY <2>4
<1>4. CASE NewStringZ(s)
  <2> DEFINE n == Len(s) + 1
             own == << Make(n, NUL) >>
             filled == Copy(own, Window(1, 0, Len(s)), s)
             c == [heap |-> Append(heap, Make(n, NUL)), tail |-> tail, off |-> off,
                   back |-> Window(Len(heap) + 1, 0, n)]
  <2>1. Claimed(c, n) /\ c.tail = tail /\ c.off = off
        /\ c.heap = Append(heap, Make(n, NUL)) /\ c.back = Window(Len(heap) + 1, 0, n)
    BY <1>1, OwnClaim DEF Inv
  <2>2. heap' = Append(heap, filled[1]) /\ tail' = tail /\ off' = off
        /\ Return(Window(Len(heap) + 1, 0, n), Len(s), TRUE)
    BY <1>4 DEF NewStringZ
  <2>3. Make(n, NUL) \in Seq(Nat) /\ Len(Make(n, NUL)) = n
    BY <1>1, MakeType DEF NUL
  <2>4. own \in Seq(Seq(Nat)) /\ DOMAIN own = {1} /\ own[1] = Make(n, NUL)
    BY <2>3
  <2>5. Window(1, 0, Len(s)) \in Slice /\ Window(1, 0, Len(s)).arr = 1
        /\ Window(1, 0, Len(s)).from = 0
    BY <1>1 DEF Window, Slice
  <2>6. 0 + Len(s) <= Len(own[1])
    BY <1>1, <2>3, <2>4
  <2> HIDE DEF own, c, filled
  <2>7. Written(own, filled, Window(1, 0, Len(s)), s)
    BY <1>1, <2>4, <2>5, <2>6, CopyWritten DEF filled
  <2>8. /\ filled \in Seq(Seq(Nat)) /\ DOMAIN filled = {1} /\ Len(filled[1]) = n
        /\ \A i \in 1 .. Len(s) : filled[1][i] = s[i]
        /\ \A i \in 1 .. n : i > Len(s) => filled[1][i] = Make(n, NUL)[i]
    <3>1. \A i \in 1 .. Len(s) : 0 + i = i
      BY <1>1
    <3>2. 0 + Len(s) = Len(s)
      BY <1>1
    <3>3. /\ filled \in Seq(Seq(Nat)) /\ DOMAIN filled = {1} /\ Len(filled[1]) = Len(own[1])
          /\ \A i \in 1 .. Len(s) : filled[1][0 + i] = s[i]
          /\ \A i \in 1 .. Len(own[1]) : i > 0 + Len(s) => filled[1][i] = own[1][i]
      BY <2>4, <2>5, <2>7 DEF Written, SameArrays
    <3> QED
      BY <2>3, <2>4, <3>1, <3>2, <3>3
  <2>9. filled[1] \in Seq(Nat)
    BY <2>8, ArrayType
  <2>10. Written(c.heap, heap', c.back, s)
    <3>1. /\ heap' \in Seq(Seq(Nat)) /\ Len(heap') = Len(heap) + 1
          /\ Len(heap) + 1 \in DOMAIN heap' /\ heap'[Len(heap) + 1] = filled[1]
          /\ \A a \in DOMAIN heap : heap'[a] = heap[a]
      BY <2>2, <2>9, ArrayAdded DEF Inv, Buffers
    <3>2. /\ c.heap \in Seq(Seq(Nat)) /\ Len(c.heap) = Len(heap) + 1 /\ Len(heap) \in Nat
          /\ c.heap[Len(heap) + 1] = Make(n, NUL)
          /\ \A a \in DOMAIN heap : c.heap[a] = heap[a]
      BY <2>1, <2>3, ArrayAdded DEF Inv, Buffers
    <3>3. DOMAIN heap' = 1 .. Len(heap) + 1 /\ DOMAIN c.heap = 1 .. Len(heap) + 1
          /\ DOMAIN heap = 1 .. Len(heap)
      BY <3>1, <3>2, LenProperties DEF Inv, Buffers
    <3>4. c.back.arr = Len(heap) + 1 /\ c.back.from = 0
      BY <2>1 DEF Window
    <3>5. SameArrays(c.heap, heap')
      <4>1. ASSUME NEW a \in DOMAIN c.heap PROVE Len(heap'[a]) = Len(c.heap[a])
        <5>1. a \in DOMAIN heap \/ a = Len(heap) + 1
          BY <3>2, <3>3
        <5> QED
          BY <2>3, <2>8, <3>1, <3>2, <5>1
      <4> QED
        BY <3>3, <4>1 DEF SameArrays
    <3>6. \A i \in 1 .. Len(s) : heap'[c.back.arr][c.back.from + i] = s[i]
      BY <1>1, <2>8, <3>1, <3>4
    <3>7. ASSUME NEW a \in DOMAIN c.heap, NEW i \in 1 .. Len(c.heap[a]),
                 a # c.back.arr \/ i <= c.back.from \/ i > c.back.from + Len(s)
          PROVE  heap'[a][i] = c.heap[a][i]
      <4>1. CASE a \in DOMAIN heap
        BY <3>1, <3>2, <4>1
      <4>2. CASE a = Len(heap) + 1
        <5>1. i \in 1 .. n /\ i > Len(s)
          BY <1>1, <2>3, <3>2, <3>4, <3>7, <4>2
        <5> QED
          BY <2>8, <3>1, <3>2, <4>2, <5>1
      <4> QED
        BY <3>2, <3>3, <4>1, <4>2
    <3> QED
      BY <3>1, <3>3, <3>5, <3>6, <3>7 DEF Written
  <2>11. Stores(s, TRUE)
    BY <1>1, <2>1, <2>2, <2>10, StoreInv
  <2> QED
    BY <2>11
<1> QED
  BY <1>2, <1>3, <1>4

LEMMA StorePathInv ==
    ASSUME Inv, Len(strings) < MaxStores, NEW p \in Parents, NEW s \in Texts,
           StorePath(p, s) \/ StorePathZ(p, s)
    PROVE  \E z \in BOOLEAN : Stores(Joined(p, s), z)
<1> DEFINE total == Len(p) + Sep(p) + Len(s)
           path == Joined(p, s)
<1>1. /\ path \in Seq(Byte) /\ Len(path) = total /\ total \in Nat /\ total + 1 \in Nat
  BY PathType
<1> HIDE DEF path, total
<1>2. ASSUME NEW c, NEW n \in Nat, Claimed(c, n), total <= n,
             heap' = Join(c.heap, c.back, p, s)
      PROVE  Written(c.heap, heap', c.back, path)
  <2>1. c.heap \in Seq(Seq(Nat)) /\ c.back \in Slice /\ c.back.arr \in DOMAIN c.heap
        /\ c.back.from + total <= Len(c.heap[c.back.arr])
    BY <1>1, <1>2, ClaimRoom
  <2>2. Written(c.heap, Join(c.heap, c.back, p, s), c.back, path)
    BY <2>1, JoinWritten DEF path, total
  <2> QED
    BY <1>2, <2>2
<1>3. CASE StorePath(p, s)
  <2> DEFINE c == EnsureCap(total)
  <2>1. Claimed(c, total)
    BY <1>1, EnsureCapClaims DEF Inv
  <2>2. heap' = Join(c.heap, c.back, p, s) /\ tail' = c.tail /\ off' = c.off
        /\ Return(c.back, total, FALSE)
    BY <1>3 DEF StorePath, total
  <2> HIDE DEF c
  <2>3. Written(c.heap, heap', c.back, path)
    BY <1>1, <1>2, <2>1, <2>2
  <2>4. Stores(path, FALSE)
    BY <1>1, <2>1, <2>2, <2>3, StoreInv
  <2> QED
    BY <2>4 DEF path
<1>4. CASE StorePathZ(p, s)
  <2> DEFINE c == EnsureCap(total + 1)
  <2>1. Claimed(c, total + 1)
    BY <1>1, EnsureCapClaims DEF Inv
  <2>2. heap' = Join(c.heap, c.back, p, s) /\ tail' = c.tail /\ off' = c.off
        /\ Return(c.back, total, TRUE)
    BY <1>4 DEF StorePathZ, total
  <2> HIDE DEF c
  <2>3. Written(c.heap, heap', c.back, path)
    BY <1>1, <1>2, <2>1, <2>2
  <2>4. Stores(path, TRUE)
    BY <1>1, <2>1, <2>2, <2>3, StoreInv
  <2> QED
    BY <2>4 DEF path
<1> QED
  BY <1>3, <1>4

-----------------------------------------------------------------------------
LEMMA InitInv == Init => Inv
<1> SUFFICES ASSUME Init PROVE Inv
  OBVIOUS
<1> DEFINE node == Make(NodeSize, NUL)
<1>1. node \in Seq(Nat) /\ Len(node) = NodeSize /\ \A i \in 1 .. NodeSize : node[i] = NUL
  BY MakeType, Sane DEF NUL
<1> HIDE DEF node
<1>2. heap = << node >>
  BY DEF Init, node
<1>3. heap \in Seq(Seq(Nat)) /\ DOMAIN heap = {1} /\ heap[1] = node
  BY <1>1, <1>2
<1>4. Buffers
  BY <1>1, <1>3, Sane DEF Init, Buffers
<1>5. Strings
  BY Sane DEF Init, Strings
<1> QED
  BY <1>4, <1>5 DEF Inv

\* The text a step stores, if it stores one, is the one it was asked for.
LEMMA NextStores ==
    ASSUME Inv, [Next]_vars
    PROVE  \/ UNCHANGED vars
           \/ \E text \in Askable, z \in BOOLEAN : Stores(text, z) /\ Asks(text)
<1>1. CASE Len(strings) = MaxStores /\ UNCHANGED vars
  BY <1>1
<1>2. CASE UNCHANGED vars
  BY <1>2
<1>3. ASSUME Len(strings) < MaxStores, NEW s \in Texts,
             StoreString(s) \/ StoreStringZ(s) \/ NewStringZ(s), Asks(s)
      PROVE  \E text \in Askable, z \in BOOLEAN : Stores(text, z) /\ Asks(text)
  <2>1. \E z \in BOOLEAN : Stores(s, z)
    BY <1>3, StoreStringInv
  <2>2. s \in Askable
    BY DEF Askable
  <2> QED
    BY <1>3, <2>1, <2>2
<1>4. ASSUME Len(strings) < MaxStores, NEW p \in Parents, NEW s \in Texts,
             StorePath(p, s) \/ StorePathZ(p, s), Asks(Joined(p, s))
      PROVE  \E text \in Askable, z \in BOOLEAN : Stores(text, z) /\ Asks(text)
  <2>1. \E z \in BOOLEAN : Stores(Joined(p, s), z)
    BY <1>4, StorePathInv
  <2>2. Joined(p, s) \in Askable
    BY DEF Askable
  <2> QED
    BY <1>4, <2>1, <2>2
<1> QED
  BY <1>1, <1>2, <1>3, <1>4 DEF Next

LEMMA NextInv == ASSUME Inv, [Next]_vars PROVE Inv'
<1>1. CASE UNCHANGED vars
  BY <1>1 DEF vars, Inv, Buffers, Strings, Intact, Frozen, Within, Extent
<1>2. CASE \E text \in Askable, z \in BOOLEAN : Stores(text, z) /\ Asks(text)
  BY <1>2 DEF Stores
<1> QED
  BY <1>1, <1>2, NextStores

LEMMA InvIsInvariant == Spec => []Inv
<1>1. Init => Inv
  BY InitInv
<1>2. Inv /\ [Next]_vars => Inv'
  BY NextInv
<1> QED
  BY <1>1, <1>2, PTL DEF Spec

-----------------------------------------------------------------------------
\* For every node size and set of texts the variables keep their types and no
\* string leaves its array (ensureCap, string_store.go).
THEOREM StringsTypeCorrect == Spec => []TypeOK
<1>1. Inv => TypeOK
  BY InvImpliesTypeOK
<1> QED
  BY <1>1, InvIsInvariant, PTL

\* Every path handed to openat ends at the NUL behind it, within its own array,
\* whatever is stored later (StoreStringZ, StorePathZ, NewStringZ).
THEOREM PathsStayTerminated == Spec => []Terminated
<1>1. Inv => Terminated
  BY InvImpliesTerminated
<1> QED
  BY <1>1, InvIsInvariant, PTL

-----------------------------------------------------------------------------
(* Refinement of Arena                                                     *)

\* The history has a text for every string.
Tracked == /\ strings \in Seq(String) /\ Len(strings) <= MaxStores
           /\ asked \in Seq(Askable) /\ Len(asked) = Len(strings)

LEMMA InitStored == Init => Tracked /\ Promise!Init
<1> SUFFICES ASSUME Init PROVE Tracked /\ Stored = [id \in {} |-> << >>]
  BY DEF Promise!Init
<1>1. DOMAIN strings = {}
  BY DEF Init
<1>2. Stored = [id \in {} |-> << >>]
  BY <1>1 DEF Stored
<1>3. Tracked
  BY Sane DEF Init, Tracked
<1> QED
  BY <1>2, <1>3

\* A text that is stored is offered to the abstract arena as the answer to the
\* call that asked for it.
LEMMA StoresRefines ==
    ASSUME Tracked, NEW text \in Askable, NEW z \in BOOLEAN, Stores(text, z), Asks(text)
    PROVE  Tracked' /\ Promise!Next
<1> DEFINE id == Len(strings) + 1
<1>1. /\ DOMAIN strings' = DOMAIN strings \cup {id} /\ id \in 1 .. MaxStores \ DOMAIN strings
      /\ Reads' = [k \in DOMAIN strings' |-> IF k = id THEN text ELSE Reads[k]]
      /\ strings' \in Seq(String) /\ Len(strings') <= MaxStores
  BY DEF Stores, Inv, Strings
<1>2. /\ Len(strings) \in Nat /\ DOMAIN strings = 1 .. Len(strings)
      /\ Len(strings') \in Nat /\ DOMAIN strings' = 1 .. Len(strings')
  BY <1>1, LenProperties DEF Tracked
<1>3. Len(strings') = id
  BY <1>1, <1>2
<1>4. /\ asked' \in Seq(Askable) /\ Len(asked') = id
      /\ asked'[id] = text /\ \A k \in 1 .. Len(strings) : asked'[k] = asked[k]
  BY AppendProperties DEF Tracked, Asks
<1>5. Tracked'
  BY <1>1, <1>3, <1>4 DEF Tracked
<1>6. DOMAIN Stored = DOMAIN strings /\ id \notin DOMAIN Stored
  BY <1>1 DEF Stored
<1>7. ASSUME NEW k \in DOMAIN strings'
      PROVE  [asked |-> asked'[k], reads |-> Read(heap', strings'[k].str)]
             = IF k = id THEN Answer(text) ELSE Stored[k]
  <2>1. Read(heap', strings'[k].str) = IF k = id THEN text ELSE Reads[k]
    BY <1>1 DEF Reads
  <2>2. CASE k = id
    BY <1>4, <2>1, <2>2 DEF Answer
  <2>3. CASE k # id
    <3>1. k \in DOMAIN strings /\ asked'[k] = asked[k]
      BY <1>1, <1>2, <1>4, <2>3
    <3>2. Read(heap', strings'[k].str) = Read(heap, strings[k].str)
      BY <2>1, <2>3, <3>1 DEF Reads
    <3> QED
      BY <2>3, <3>1, <3>2 DEF Stored
  <2> QED
    BY <2>2, <2>3
<1> HIDE DEF id
<1>8. Stored' = [d \in DOMAIN Stored \cup {id} |-> IF d = id THEN Answer(text) ELSE Stored[d]]
  BY <1>1, <1>6, <1>7 DEF Stored
<1>9. Answer(text) \in OfferedStrings(id)
  BY DEF OfferedStrings
<1>10. Promise!Store(id)
  BY <1>6, <1>8, <1>9 DEF Promise!Store
<1> QED
  BY <1>1, <1>5, <1>10 DEF Promise!Next

LEMMA NextStored ==
    ASSUME Inv, Tracked, [Next]_vars
    PROVE  Tracked' /\ (Promise!Next \/ UNCHANGED Stored)
<1>1. CASE UNCHANGED vars
  BY <1>1 DEF vars, Tracked, Stored, Read
<1>2. CASE \E text \in Askable, z \in BOOLEAN : Stores(text, z) /\ Asks(text)
  BY <1>2, StoresRefines
<1> QED
  BY <1>1, <1>2, NextStores

\* For every node size and set of texts the string store implements Arena: each
\* string reads as the text its call was given to store, or as the path its call
\* was given to join, and keeps doing so.
THEOREM StringsAreKept == Spec => ImplementsArena
<1>1. Init => Tracked /\ Promise!Init
  BY InitStored
<1>2. Inv /\ Tracked /\ [Next]_vars => Tracked' /\ [Promise!Next]_Stored
  BY NextStored
<1> QED
  BY <1>1, <1>2, InvIsInvariant, PTL DEF Spec, ImplementsArena, Promise!Spec
=============================================================================
