---------------------------- MODULE GenericStore ----------------------------
(***************************************************************************)
(* stores.GenericStore, the lock-free arena that goroutines share: one     *)
(* step per atomic operation of ensureCap, and one for the copy into the   *)
(* claimed range, which nobody else can reach before the append returns.   *)
(***************************************************************************)
EXTENDS Naturals, Sequences, FiniteSets

CONSTANTS Proc,        \* the goroutines that append
          NodeSize,    \* defaultGenericNodeSize
          Caps,        \* the numbers of elements they append at once
          MaxAppends   \* bound: appends each goroutine makes

ASSUME GenericStoreAssumption == /\ NodeSize \in Nat \ {0}
                                 /\ Caps \subseteq Nat
                                 /\ MaxAppends \in Nat

VARIABLES size,    \* the length of each node's buf, nodes in order of allocation
          off,     \* each node's off
          tail,    \* the node the store's tail points at
          mem,     \* the elements written so far, by node and index
          pc,      \* where each goroutine stands in ensureCap
          call,    \* the locals of its append: cap, n, nOff, and the range claimed
          slots    \* the ranges its appends have returned

vars == <<size, off, tail, mem, pc, call, slots>>

\* A slice n.buf[from : from+len] of node n.
Slot == [node : Nat, from : Nat, len : Nat]

NoSlot == [node |-> 0, from |-> 0, len |-> 0]

Cells(s) == {s.node} \X (s.from .. s.from + s.len - 1)

\* What goroutine p passes to its k-th append.
Items(p, k, cap) == [i \in 1 .. cap |-> [by |-> p, nth |-> k, at |-> i]]

-----------------------------------------------------------------------------
\* NewStore
Init == /\ size = << NodeSize >>
        /\ off = << 0 >>
        /\ tail = 1
        /\ mem = [c \in {} |-> << >>]
        /\ pc = [p \in Proc |-> "idle"]
        /\ call = [p \in Proc |-> [cap |-> 0, n |-> 0, nOff |-> 0, slot |-> NoSlot]]
        /\ slots = [p \in Proc |-> << >>]

\* A request longer than a node gets its own allocation.
CallOwn(p, cap) ==
    /\ pc[p] = "idle"
    /\ Len(slots[p]) < MaxAppends
    /\ cap > NodeSize
    /\ size' = Append(size, cap)
    /\ off' = Append(off, cap)
    /\ call' = [call EXCEPT ![p].cap = cap,
                            ![p].slot = [node |-> Len(size) + 1, from |-> 0, len |-> cap]]
    /\ pc' = [pc EXCEPT ![p] = "write"]
    /\ UNCHANGED <<tail, mem, slots>>

CallArena(p, cap) ==
    /\ pc[p] = "idle"
    /\ Len(slots[p]) < MaxAppends
    /\ cap <= NodeSize
    /\ call' = [call EXCEPT ![p].cap = cap]
    /\ pc' = [pc EXCEPT ![p] = "loadTail"]
    /\ UNCHANGED <<size, off, tail, mem, slots>>

LoadTail(p) ==
    /\ pc[p] = "loadTail"
    /\ call' = [call EXCEPT ![p].n = tail]
    /\ pc' = [pc EXCEPT ![p] = "loadOff"]
    /\ UNCHANGED <<size, off, tail, mem, slots>>

\* Faulty variant: a request that just fits is taken not to.
Bug_LoadOff(p) ==
    /\ pc[p] = "loadOff"
    /\ call' = [call EXCEPT ![p].nOff = off[call[p].n]]
    /\ pc' = [pc EXCEPT ![p] = IF NodeSize - off[call[p].n] <= call[p].cap
                               THEN "grow" ELSE "claim"]
    /\ UNCHANGED <<size, off, tail, mem, slots>>

LoadOff(p) ==
    LET nOff == off[call[p].n]
    IN  /\ pc[p] = "loadOff"
        /\ call' = [call EXCEPT ![p].nOff = nOff]
        /\ pc' = [pc EXCEPT ![p] = IF NodeSize - nOff < call[p].cap THEN "grow" ELSE "claim"]
        /\ UNCHANGED <<size, off, tail, mem, slots>>

\* Faulty variant: after the swap the claim still uses the old node's offset.
Bug_Grow(p) ==
    /\ pc[p] = "grow"
    /\ tail = call[p].n
    /\ size' = Append(size, NodeSize)
    /\ off' = Append(off, call[p].nOff)
    /\ tail' = Len(size) + 1
    /\ call' = [call EXCEPT ![p].n = tail']
    /\ pc' = [pc EXCEPT ![p] = "claim"]
    /\ UNCHANGED <<mem, slots>>

\* tail.CompareAndSwap(n, newNode)
Grow(p) ==
    /\ pc[p] = "grow"
    /\ tail = call[p].n
    /\ size' = Append(size, NodeSize)
    /\ off' = Append(off, 0)
    /\ tail' = Len(size) + 1
    /\ call' = [call EXCEPT ![p].n = tail', ![p].nOff = 0]
    /\ pc' = [pc EXCEPT ![p] = "claim"]
    /\ UNCHANGED <<mem, slots>>

\* Another goroutine has swapped in a node: the loop starts again.
GrowFails(p) ==
    /\ pc[p] = "grow"
    /\ tail # call[p].n
    /\ pc' = [pc EXCEPT ![p] = "loadTail"]
    /\ UNCHANGED <<size, off, tail, mem, call, slots>>

ClaimRange(p) ==
    LET c == call[p]
    IN  /\ off' = [off EXCEPT ![c.n] = c.nOff + c.cap]
        /\ call' = [call EXCEPT ![p].slot = [node |-> c.n, from |-> c.nOff, len |-> c.cap]]
        /\ pc' = [pc EXCEPT ![p] = "write"]
        /\ UNCHANGED <<size, tail, mem, slots>>

\* Faulty variant: the new offset is stored without comparing the old one.
Bug_Claim(p) == pc[p] = "claim" /\ ClaimRange(p)

\* n.off.CompareAndSwap(nOff, nOff+cap)
Claim(p) ==
    /\ pc[p] = "claim"
    /\ off[call[p].n] = call[p].nOff
    /\ ClaimRange(p)

\* Faulty variants: the claim is tried again with what was read before; the
\* result of the CompareAndSwap is ignored.
Bug_ClaimAgain(p) ==
    /\ pc[p] = "claim"
    /\ off[call[p].n] # call[p].nOff
    /\ UNCHANGED vars

Bug_ClaimAnyway(p) ==
    /\ pc[p] = "claim"
    /\ off[call[p].n] # call[p].nOff
    /\ ClaimRange(p)

ClaimFails(p) ==
    /\ pc[p] = "claim"
    /\ off[call[p].n] # call[p].nOff
    /\ pc' = [pc EXCEPT ![p] = "loadTail"]
    /\ UNCHANGED <<size, off, tail, mem, call, slots>>

\* Append and AppendSlice: copy(slot, items), and the slot is returned.
Write(p) ==
    LET s == call[p].slot
        items == Items(p, Len(slots[p]) + 1, call[p].cap)
    IN  /\ pc[p] = "write"
        /\ mem' = [c \in DOMAIN mem \cup Cells(s) |->
                      IF c \in Cells(s) THEN items[c[2] - s.from + 1] ELSE mem[c]]
        /\ slots' = [slots EXCEPT ![p] = Append(@, s)]
        /\ pc' = [pc EXCEPT ![p] = "idle"]
        /\ UNCHANGED <<size, off, tail, call>>

Step(p) == \/ LoadTail(p) \/ LoadOff(p) \/ Grow(p) \/ GrowFails(p)
           \/ Claim(p) \/ ClaimFails(p) \/ Write(p)

Call(p) == \E cap \in Caps : CallOwn(p, cap) \/ CallArena(p, cap)

\* Every goroutine has made its appends.
Quiet == (\A p \in Proc : pc[p] = "idle" /\ Len(slots[p]) = MaxAppends) /\ UNCHANGED vars

Next == (\E p \in Proc : Call(p) \/ Step(p)) \/ Quiet

Spec == Init /\ [][Next]_vars

\* A goroutine inside an append runs; nothing makes it append again.
FairSpec == Spec /\ \A p \in Proc : WF_vars(Step(p))

-----------------------------------------------------------------------------
(* Properties                                                              *)

\* The ranges claimed so far, each named by its goroutine and its number.
Claims == {id \in Proc \X (1 .. MaxAppends) :
              \/ id[2] <= Len(slots[id[1]])
              \/ id[2] = Len(slots[id[1]]) + 1 /\ pc[id[1]] = "write"}

SlotOf(id) == IF id[2] <= Len(slots[id[1]]) THEN slots[id[1]][id[2]] ELSE call[id[1]].slot

\* Every variable has its type, no node's off passes its buf, and off never
\* falls behind what a goroutine has read of it.
TypeOK ==
    /\ size \in Seq(Nat) /\ off \in Seq(Nat) /\ Len(off) = Len(size)
    /\ tail \in DOMAIN size
    /\ \A n \in DOMAIN size : off[n] <= size[n]
    /\ pc \in [Proc -> {"idle", "loadTail", "loadOff", "grow", "claim", "write"}]
    /\ call \in [Proc -> [cap : Nat, n : Nat, nOff : Nat, slot : Slot]]
    /\ slots \in [Proc -> Seq(Slot)]
    /\ \A p \in Proc :
          /\ pc[p] \in {"loadOff", "grow", "claim"} => call[p].n \in DOMAIN size
          /\ pc[p] \in {"grow", "claim"} => call[p].nOff <= off[call[p].n]

\* No two appends, finished or about to write, ever hold a common element, and
\* none reaches past the node it is in, however their loads and swaps of tail
\* and off interleave.
Disjoint ==
    /\ \A a, b \in Claims : a # b => Cells(SlotOf(a)) \cap Cells(SlotOf(b)) = {}
    /\ \A a \in Claims : LET s == SlotOf(a)
                        IN  s.node \in DOMAIN size /\ s.from + s.len <= size[s.node]

\* A node is left for a new one only if some request no longer fits in it: a
\* goroutine that loses the race for tail does not throw a fresh node away.
WasteBounded ==
    \A n \in DOMAIN size : n # tail /\ size[n] = NodeSize =>
        \E cap \in Caps : cap <= NodeSize /\ NodeSize - off[n] < cap

\* What the handles that were returned read.
Stored == [id \in {x \in Claims : x[2] <= Len(slots[x[1]])} |->
              LET s == SlotOf(id) IN [i \in 1 .. s.len |-> mem[<<s.node, s.from + i - 1>>]]]

OfferedItems(id) == {Items(id[1], id[2], cap) : cap \in Caps}

Promise == INSTANCE Arena WITH stored <- Stored, Id <- Proc \X (1 .. MaxAppends),
                               Offered <- OfferedItems

\* Through its handle every append reads the elements it was given, for ever:
\* no later append of any goroutine writes over them (ancestor links are read
\* by other workers long after pushAncestor returned).
ImplementsArena == Promise!Spec

\* An append returns: each failed CompareAndSwap means that another goroutine
\* has got on, and the next attempt reads tail and off anew.
AppendsReturn == \A p \in Proc : (pc[p] # "idle") ~> (pc[p] = "idle")
=============================================================================
