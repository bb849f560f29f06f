---------------------------- MODULE StringStore ----------------------------
(***************************************************************************)
(* stores.StringStore, the bump allocator of one worker's names and paths. *)
(* A string is a sequence of bytes; the paths are handed to openat as they *)
(* lie in memory, so the byte behind each matters as much as its own.      *)
(***************************************************************************)
EXTENDS Slices

CONSTANTS NodeSize,    \* defaultStringNodeSize
          Texts,       \* the names and whole strings that are stored
          Parents,     \* the directories that names are joined to
          MaxStores    \* bound: strings stored

NUL == 0
Separator == 47

\* A kernel's name and a clean path hold no NUL, and no path is empty.
ASSUME StringStoreAssumption == /\ NodeSize \in Nat \ {0}
                                /\ Texts \subseteq Seq(Nat \ {NUL})
                                /\ Parents \subseteq Seq(Nat \ {NUL}) \ {<< >>}
                                /\ MaxStores \in Nat

VARIABLES heap,      \* every array allocated so far
          tail,      \* the array of the tail node
          off,       \* how many of its bytes are filled
          strings,   \* what was returned: [str, a window; z, whether NUL-terminated]
          asked      \* history: the text each of the calls was to store

vars == <<heap, tail, off, strings, asked>>

\* NewStringStore
Init == /\ heap = << Make(NodeSize, NUL) >>
        /\ tail = 1
        /\ off = 0
        /\ strings = << >>
        /\ asked = << >>

\* Faulty variant: a request one byte longer than the room left is granted.
Bug_EnsureCap(n) ==
    IF n > NodeSize
    THEN [heap |-> Append(heap, Make(n, NUL)), tail |-> tail, off |-> off,
          back |-> Window(Len(heap) + 1, 0, n)]
    ELSE IF NodeSize + 1 - off < n
    THEN [heap |-> Append(heap, Make(NodeSize, NUL)), tail |-> Len(heap) + 1, off |-> n,
          back |-> Window(Len(heap) + 1, 0, n)]
    ELSE [heap |-> heap, tail |-> tail, off |-> off + n, back |-> Window(tail, off, n)]

\* ensureCap: the store's state and the bytes claimed, in an array of their
\* own, at the start of a fresh node, or in the tail.
EnsureCap(n) ==
    IF n > NodeSize
    THEN [heap |-> Append(heap, Make(n, NUL)), tail |-> tail, off |-> off,
          back |-> Window(Len(heap) + 1, 0, n)]
    ELSE IF NodeSize - off < n
    THEN [heap |-> Append(heap, Make(NodeSize, NUL)), tail |-> Len(heap) + 1, off |-> n,
          back |-> Window(Len(heap) + 1, 0, n)]
    ELSE [heap |-> heap, tail |-> tail, off |-> off + n, back |-> Window(tail, off, n)]

\* The bytes of back from its k-th on.
From(back, k) == [back EXCEPT !.from = @ + k]

Return(back, len, z) ==
    strings' = Append(strings, [str |-> Window(back.arr, back.from, len), z |-> z])

\* StoreBytes and StoreString
StoreString(s) ==
    LET c == EnsureCap(Len(s))
    IN  /\ heap' = Copy(c.heap, c.back, s)
        /\ tail' = c.tail
        /\ off' = c.off
        /\ Return(c.back, Len(s), FALSE)

\* One byte more is claimed and left as the node was made.
StoreStringZ(s) ==
    LET c == EnsureCap(Len(s) + 1)
    IN  /\ heap' = Copy(c.heap, c.back, s)
        /\ tail' = c.tail
        /\ off' = c.off
        /\ Return(c.back, Len(s), TRUE)

Sep(parent) == IF parent[Len(parent)] = Separator THEN 0 ELSE 1

\* The two halves of a path and, if it is needed, the separator between them.
Join(h, back, parent, child) ==
    LET sep     == Sep(parent)
        written == Copy(h, back, parent)
        parted  == IF sep = 0 THEN written
                   ELSE Copy(written, From(back, Len(parent)), << Separator >>)
    IN  Copy(parted, From(back, Len(parent) + sep), child)

StorePath(parent, child) ==
    LET total == Len(parent) + Sep(parent) + Len(child)
        c     == EnsureCap(total)
    IN  /\ heap' = Join(c.heap, c.back, parent, child)
        /\ tail' = c.tail
        /\ off' = c.off
        /\ Return(c.back, total, FALSE)

\* Faulty variants: no byte is claimed for the NUL; none for the separator.
Bug_StorePathZ(parent, child) ==
    LET total == Len(parent) + Sep(parent) + Len(child)
        c     == EnsureCap(total)
    IN  /\ heap' = Join(c.heap, c.back, parent, child)
        /\ tail' = c.tail
        /\ off' = c.off
        /\ Return(c.back, total, TRUE)

Bug_NoSeparator(parent, child) ==
    LET total == Len(parent) + Len(child)
        c     == EnsureCap(total + 1)
    IN  /\ heap' = Copy(Copy(c.heap, c.back, parent), From(c.back, Len(parent)), child)
        /\ tail' = c.tail
        /\ off' = c.off
        /\ Return(c.back, total, TRUE)

StorePathZ(parent, child) ==
    LET total == Len(parent) + Sep(parent) + Len(child)
        c     == EnsureCap(total + 1)
    IN  /\ heap' = Join(c.heap, c.back, parent, child)
        /\ tail' = c.tail
        /\ off' = c.off
        /\ Return(c.back, total, TRUE)

\* The root's path, in an array of its own.
NewStringZ(s) ==
    /\ heap' = Append(heap, Copy(<< Make(Len(s) + 1, NUL) >>, Window(1, 0, Len(s)), s)[1])
    /\ Return(Window(Len(heap) + 1, 0, Len(s) + 1), Len(s), TRUE)
    /\ UNCHANGED <<tail, off>>

\* What StorePath and StorePathZ are asked for: "joins parent and child with an
\* OS path separator (unless parent already ends with one)".
Joined(parent, child) ==
    IF parent[Len(parent)] = Separator THEN parent \o child
    ELSE parent \o << Separator >> \o child

Asks(text) == asked' = Append(asked, text)

Next ==
    \/ /\ Len(strings) < MaxStores
       /\ \/ \E s \in Texts :
                /\ StoreString(s) \/ StoreStringZ(s) \/ NewStringZ(s)
                /\ Asks(s)
          \/ \E p \in Parents, s \in Texts :
                /\ StorePath(p, s) \/ StorePathZ(p, s)
                /\ Asks(Joined(p, s))
    \/ Len(strings) = MaxStores /\ UNCHANGED vars

Spec == Init /\ [][Next]_vars

-----------------------------------------------------------------------------
(* Properties                                                              *)

\* Every variable has its type, and no string leaves its array.
TypeOK ==
    /\ heap \in Seq(Seq(Nat))
    /\ tail \in DOMAIN heap /\ Len(heap[tail]) = NodeSize /\ off \in 0 .. NodeSize
    /\ strings \in Seq([str : Slice, z : BOOLEAN])
    /\ \A k \in DOMAIN strings : LET s == strings[k].str
                                IN  s.arr \in DOMAIN heap /\ s.len <= Capacity(heap, s)

\* What openat finds at a path is that path: a NUL follows it within the same
\* array, whatever was stored after it, and there is none before.
Terminated ==
    \A k \in DOMAIN strings : strings[k].z =>
        LET s == strings[k].str
        IN  /\ s.len < Capacity(heap, s)
            /\ \A i \in 1 .. s.len + 1 : heap[s.arr][s.from + i] = NUL <=> i = s.len + 1

\* What each call was asked for, and what the string it returned reads.
Stored == [k \in DOMAIN strings |-> [asked |-> asked[k], reads |-> Read(heap, strings[k].str)]]

\* The two are to be the same text.
Answer(text) == [asked |-> text, reads |-> text]

Askable == Texts \cup {Joined(p, s) : p \in Parents, s \in Texts}

OfferedStrings(k) == {Answer(text) : text \in Askable}

Promise == INSTANCE Arena WITH stored <- Stored, Id <- 1 .. MaxStores,
                               Offered <- OfferedStrings

\* The string a call returns reads as the text that call was given to store, or
\* as the path it was given to join, and keeps doing so: entries hold names and
\* items hold paths long after their worker has gone on.
ImplementsArena == Promise!Spec
=============================================================================
