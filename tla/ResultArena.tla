---------------------------- MODULE ResultArena ----------------------------
(***************************************************************************)
(* A worker's resultArena and entryScratch, through the directories it     *)
(* handles one after the other, and the consumer that holds the batches    *)
(* whose slices point into them.  What a listing holds, and which of its   *)
(* entries fail, is Walkman's business; here a directory is a number of    *)
(* entries and a number of DirErrs.                                        *)
(***************************************************************************)
EXTENDS Slices

CONSTANTS NodeSize,          \* entryNodeSize
          ErrCap,            \* resArenaMinCapDirErrs
          Sizes,             \* numbers of entries a directory may have
          MaxErrs,           \* bound: DirErrs of one directory
          MaxDirs            \* bound: directories the worker handles

ASSUME ResultArenaAssumption == /\ NodeSize \in Nat \ {0}
                                /\ ErrCap \in Nat \ {0}
                                /\ Sizes \subseteq Nat
                                /\ MaxErrs \in Nat /\ MaxDirs \in Nat

VARIABLES heap,      \* every array allocated so far
          tail,      \* the array of the arena's tail node
          off,       \* how many of its elements are filled
          scratch,   \* worker.entryScratch
          dirErrs,   \* resultArena.dirErrs
          pc,        \* "idle", "listed" or "stored"
          dir,       \* the number of the directory at hand
          mark,      \* its errsOff
          entries,   \* its run in the arena
          batches    \* the slices of the batches sent so far

vars == <<heap, tail, off, scratch, dirErrs, pc, dir, mark, entries, batches>>

Entry(d, i) == [dir |-> d, entry |-> i]
DirErr(d, i) == [dir |-> d, err |-> i]

\* The zero value of an element, and a value of the consumer's own.
Zero == [dir |-> 0]
Mine == [dir |-> 0, mine |-> TRUE]

Listing(d, n) == [i \in 1 .. n |-> Entry(d, i)]
Failures(d, n) == [i \in 1 .. n |-> DirErr(d, i)]

-----------------------------------------------------------------------------
\* newResultArena and the worker's entryScratch
Init == /\ heap = << Make(NodeSize, Zero), Make(NodeSize, Zero), Make(ErrCap, Zero) >>
        /\ tail = 1
        /\ off = 0
        /\ scratch = Window(2, 0, 0)
        /\ dirErrs = Window(3, 0, 0)
        /\ pc = "idle"
        /\ dir = 0
        /\ mark = 0
        /\ entries = Nil
        /\ batches = << >>

\* Faulty variant: the DirErrs of the last directory are dropped first.
Bug_ReadEntries(n) ==
    /\ pc = "idle"
    /\ dir < MaxDirs
    /\ dir' = dir + 1
    /\ n <= Capacity(heap, scratch)
    /\ heap' = Copy(heap, scratch, Listing(dir', n))
    /\ scratch' = [scratch EXCEPT !.len = n]
    /\ dirErrs' = [dirErrs EXCEPT !.len = 0]
    /\ mark' = 0
    /\ pc' = "listed"
    /\ UNCHANGED <<tail, off, entries, batches>>

\* readEntries fills the scratch from its start, in a larger array if it must,
\* and the caller takes the mark of the DirErrs.
ReadEntries(n) ==
    /\ pc = "idle"
    /\ dir < MaxDirs
    /\ dir' = dir + 1
    /\ \/ /\ n <= Capacity(heap, scratch)
          /\ heap' = Copy(heap, scratch, Listing(dir', n))
          /\ scratch' = [scratch EXCEPT !.len = n]
       \/ /\ n > Capacity(heap, scratch)
          /\ heap' = Append(heap, Listing(dir', n))
          /\ scratch' = Window(Len(heap) + 1, 0, n)
    /\ mark' = dirErrs.len
    /\ pc' = "listed"
    /\ UNCHANGED <<tail, off, dirErrs, entries, batches>>

\* The array is full: the DirErrs move to one of twice the size, and the
\* batches that were sent keep the old one.
GrowDirErrs(e) ==
    LET n == dirErrs.len
    IN  /\ n >= Capacity(heap, dirErrs)
        /\ heap' = Append(heap, Read(heap, dirErrs) \o << e >> \o Make(n - 1, Zero))
        /\ dirErrs' = Window(Len(heap) + 1, 0, n + 1)

AppendDirErr(e) ==
    /\ dirErrs.len < Capacity(heap, dirErrs)
    /\ heap' = Copy(heap, [dirErrs EXCEPT !.from = @ + dirErrs.len], << e >>)
    /\ dirErrs' = [dirErrs EXCEPT !.len = @ + 1]

StoreDirErr ==
    LET e == DirErr(dir, dirErrs.len - mark + 1)
    IN  /\ pc = "listed"
        /\ dirErrs.len - mark < MaxErrs
        /\ GrowDirErrs(e) \/ AppendDirErr(e)
        /\ UNCHANGED <<tail, off, scratch, pc, dir, mark, entries, batches>>

-----------------------------------------------------------------------------
(* storeEntries                                                            *)

StoreNone == /\ scratch.len = 0
             /\ entries' = Nil
             /\ UNCHANGED <<heap, tail, off>>

\* Faulty variant: a large listing is handed out as it is, in the scratch.
Bug_StoreOwn == /\ scratch.len > NodeSize
                /\ entries' = scratch
                /\ UNCHANGED <<heap, tail, off>>

\* A listing longer than a node gets an array of its own.
StoreOwn == /\ scratch.len > NodeSize
            /\ heap' = Append(heap, Read(heap, scratch))
            /\ entries' = Window(Len(heap) + 1, 0, scratch.len)
            /\ UNCHANGED <<tail, off>>

\* Not enough room: the rest of the node is given up for a fresh one.
StoreInNewNode ==
    LET n == scratch.len
    IN  /\ n \in 1 .. NodeSize
        /\ NodeSize - off < n
        /\ heap' = Append(heap, Read(heap, scratch) \o Make(NodeSize - n, Zero))
        /\ tail' = Len(heap) + 1
        /\ off' = n
        /\ entries' = Window(tail', 0, n)

\* Faulty variant: a listing one longer than the room left is taken to fit.
Bug_StoreInTail ==
    LET n == scratch.len
    IN  /\ n \in 1 .. NodeSize
        /\ NodeSize - off >= n - 1
        /\ entries' = Window(tail, off, n)
        /\ heap' = Copy(heap, entries', Read(heap, scratch))
        /\ off' = off + n
        /\ UNCHANGED tail

StoreInTail ==
    LET n == scratch.len
    IN  /\ n \in 1 .. NodeSize
        /\ NodeSize - off >= n
        /\ entries' = Window(tail, off, n)
        /\ heap' = Copy(heap, entries', Read(heap, scratch))
        /\ off' = off + n
        /\ UNCHANGED tail

StoreEntries ==
    /\ pc = "listed"
    /\ StoreNone \/ StoreOwn \/ StoreInNewNode \/ StoreInTail
    /\ pc' = "stored"
    /\ UNCHANGED <<scratch, dirErrs, dir, mark, batches>>

\* The batch is sent, with the DirErrs stored since the mark.
Send ==
    /\ pc = "stored"
    /\ batches' = Append(batches,
                    [entries |-> entries,
                     errs |-> Window(dirErrs.arr, mark, dirErrs.len - mark)])
    /\ pc' = "idle"
    /\ UNCHANGED <<heap, tail, off, scratch, dirErrs, dir, mark, entries>>

\* The consumer's append(s, x): in place when the capacity allows it, and in an
\* array nobody else has otherwise.
ConsumerAppend(s) ==
    /\ s.len < Capacity(heap, s)
    /\ heap' = Copy(heap, [s EXCEPT !.from = @ + s.len], << Mine >>)
    /\ UNCHANGED <<tail, off, scratch, dirErrs, pc, dir, mark, entries, batches>>

\* The worker has handled its last directory.
Quiet == pc = "idle" /\ dir = MaxDirs /\ UNCHANGED vars

Next == \/ \E n \in Sizes : ReadEntries(n)
        \/ StoreDirErr
        \/ StoreEntries
        \/ Send
        \/ Quiet

Spec == Init /\ [][Next]_vars

\* The same with a consumer that appends to what it was sent.
AppendingNext ==
    \/ Next
    \/ \E k \in DOMAIN batches : \E s \in {batches[k].entries, batches[k].errs} : ConsumerAppend(s)

AppendingSpec == Init /\ [][AppendingNext]_vars

-----------------------------------------------------------------------------
(* Properties                                                              *)

Value == [dir : Nat] \cup [dir : Nat, entry : Nat] \cup [dir : Nat, err : Nat]
            \cup [dir : Nat, mine : BOOLEAN]

\* Every variable has its type, and the worker's windows lie within their
\* arrays.
TypeOK ==
    /\ heap \in Seq(Seq(Value))
    /\ tail \in DOMAIN heap /\ Len(heap[tail]) = NodeSize /\ off \in 0 .. NodeSize
    /\ \A s \in {scratch, dirErrs} :
          s \in Slice /\ s.arr \in DOMAIN heap /\ s.from = 0 /\ s.len <= Capacity(heap, s)
    /\ pc \in {"idle", "listed", "stored"}
    /\ dir \in 0 .. MaxDirs
    /\ mark \in 0 .. dirErrs.len
    /\ entries \in Slice
    /\ batches \in Seq([entries : Slice, errs : Slice])

Held == UNION {Cells(batches[k].entries) \cup Cells(batches[k].errs) : k \in DOMAIN batches}

\* The elements the worker may still write to.
Writable == Room(heap, scratch, 0) \cup Room(heap, Window(tail, 0, off), off)
                                   \cup Room(heap, dirErrs, dirErrs.len)

\* Nothing a batch points at is ever written again: not the scratch the next
\* directory reuses, nor the rest of the tail, nor the array DirErrs go to.
HeldIsFrozen == Held \cap Writable = {}

\* What the consumer reads in each batch it holds.
Stored == [k \in DOMAIN batches |-> << Read(heap, batches[k].entries),
                                       Read(heap, batches[k].errs) >>]

OfferedBatches(k) == {<< Listing(k, n), Failures(k, m) >> : n \in Sizes, m \in 0 .. MaxErrs}

Promise == INSTANCE Arena WITH stored <- Stored, Id <- 1 .. MaxDirs,
                               Offered <- OfferedBatches

\* Each batch reads as its own directory's entries and errors when it is sent,
\* and never changes while the worker goes on with the next ones.
ImplementsArena == Promise!Spec

\* "the slices stay valid, and unchanged, for as long as the consumer keeps
\* them" (README.md:134), whatever it does with the other ones it keeps.
HeldUnchanged == [][\A k \in DOMAIN batches : Stored'[k] = Stored[k]]_vars
=============================================================================
