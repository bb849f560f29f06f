------------------------------- MODULE Slices -------------------------------
(***************************************************************************)
(* Go's slices, as the arenas of one worker use them: a heap is a sequence *)
(* of arrays, a slice a window on one of them.  A window's capacity runs   *)
(* to the end of its array, whatever lies there.                           *)
(***************************************************************************)
EXTENDS Naturals, Sequences

Slice == [arr : Nat, from : Nat, len : Nat]

Window(arr, from, len) == [arr |-> arr, from |-> from, len |-> len]

\* The nil slice names no array.
Nil == Window(0, 0, 0)

\* make([]T, n)
Make(n, zero) == [i \in 1 .. n |-> zero]

Capacity(heap, s) == IF s.arr = 0 THEN 0 ELSE Len(heap[s.arr]) - s.from

Read(heap, s) == [i \in 1 .. s.len |-> heap[s.arr][s.from + i]]

\* copy(s, items), within s's capacity
Copy(heap, s, items) ==
    [heap EXCEPT ![s.arr] = [i \in DOMAIN @ |-> IF i \in s.from + 1 .. s.from + Len(items)
                                                THEN items[i - s.from] ELSE @[i]]]

Cells(s) == {s.arr} \X (s.from + 1 .. s.from + s.len)

\* What lies behind the first n elements of s, up to its capacity.
Room(heap, s, n) == {s.arr} \X (s.from + n + 1 .. s.from + Capacity(heap, s))
=============================================================================
