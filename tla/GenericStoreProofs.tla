------------------------- MODULE GenericStoreProofs -------------------------
(***************************************************************************)
(* Theorems about GenericStore, for every number of goroutines and appends *)
(* and every node size: ranges are disjoint and in bounds, and every       *)
(* handle keeps reading what was appended through it.                      *)
(***************************************************************************)
EXTENDS GenericStore, SequenceTheorems, TLAPS

\* Two ranges with no common element, told by their bounds.
Apart(r, s) == r.node # s.node \/ r.from + r.len <= s.from \/ s.from + s.len <= r.from

\* A range below its node's off, which no later claim can reach.
Below(sz, os, s) == s.node \in DOMAIN sz /\ s.from + s.len <= os[s.node]

Types ==
    /\ size \in Seq(Nat) /\ off \in Seq(Nat) /\ Len(off) = Len(size)
    /\ pc \in [Proc -> {"idle", "loadTail", "loadOff", "grow", "claim", "write"}]
    /\ call \in [Proc -> [cap : Nat, n : Nat, nOff : Nat, slot : Slot]]
    /\ slots \in [Proc -> Seq(Slot)]

\* The nodes: no off passes its buf, and tail is an ordinary one.
Nodes == /\ tail \in DOMAIN size /\ size[tail] = NodeSize
         /\ \A n \in DOMAIN size : off[n] <= size[n]

(***************************************************************************)
(* What goroutine p knows at each point: the node it loaded is an ordinary *)
(* one, off is at least what it read, and before the claim the range it    *)
(* wants lies within the node.                                             *)
(***************************************************************************)
Knows(sz, os, c, at) ==
    /\ at \in {"loadTail", "loadOff", "grow", "claim"} => c.cap <= NodeSize
    /\ at \in {"loadOff", "grow", "claim"} => c.n \in DOMAIN sz /\ sz[c.n] = NodeSize
    /\ at \in {"grow", "claim"} => c.nOff <= os[c.n]
    /\ at = "claim" => c.nOff + c.cap <= NodeSize

Known == \A p \in Proc : /\ Knows(size, off, call[p], pc[p])
                         /\ Len(slots[p]) <= MaxAppends
                         /\ pc[p] # "idle" => Len(slots[p]) < MaxAppends

Ranges ==
    /\ \A a \in Claims : Below(size, off, SlotOf(a))
    /\ \A a, b \in Claims : a # b => Apart(SlotOf(a), SlotOf(b))

Inv == Types /\ Nodes /\ Known /\ Ranges

-----------------------------------------------------------------------------
\* Ranges apart by their bounds share no element.
LEMMA ApartCells ==
    ASSUME NEW r \in Slot, NEW s \in Slot, Apart(r, s)
    PROVE  Cells(r) \cap Cells(s) = {}
BY DEF Slot, Apart, Cells

LEMMA SlotTypes ==
    ASSUME Types, NEW a \in Claims
    PROVE  SlotOf(a) \in Slot
<1>1. a[1] \in Proc /\ a[2] \in 1 .. MaxAppends
  BY DEF Claims
<1>2. slots[a[1]] \in Seq(Slot) /\ call[a[1]].slot \in Slot
  BY <1>1 DEF Types
<1>3. a[2] <= Len(slots[a[1]]) => slots[a[1]][a[2]] \in Slot
  <2>1. Len(slots[a[1]]) \in Nat /\ a[2] \in Nat /\ a[2] >= 1
    BY <1>1, <1>2, LenProperties, GenericStoreAssumption
  <2> QED
    BY <1>2, <2>1, ElementOfSeq
<1> QED
  BY <1>2, <1>3 DEF SlotOf

LEMMA InvImpliesTypeOK == Inv => TypeOK
BY DEF Inv, Types, Nodes, Known, Knows, TypeOK

LEMMA InvImpliesDisjoint == Inv => Disjoint
<1> SUFFICES ASSUME Inv PROVE Disjoint
  OBVIOUS
<1>1. ASSUME NEW a \in Claims, NEW b \in Claims, a # b
      PROVE  Cells(SlotOf(a)) \cap Cells(SlotOf(b)) = {}
  <2>1. SlotOf(a) \in Slot /\ SlotOf(b) \in Slot
    BY SlotTypes DEF Inv
  <2>2. Apart(SlotOf(a), SlotOf(b))
    BY <1>1 DEF Inv, Ranges
  <2> QED
    BY <2>1, <2>2, ApartCells
<1>2. ASSUME NEW a \in Claims
      PROVE  SlotOf(a).node \in DOMAIN size /\ SlotOf(a).from + SlotOf(a).len <= size[SlotOf(a).node]
  <2> DEFINE s == SlotOf(a)
  <2>1. s \in Slot /\ Below(size, off, s)
    BY SlotTypes DEF Inv, Ranges
  <2>2. off[s.node] \in Nat /\ size[s.node] \in Nat /\ off[s.node] <= size[s.node]
    BY <2>1, LenProperties, ElementOfSeq DEF Inv, Types, Nodes, Below
  <2> QED
    BY <2>1, <2>2 DEF Below, Slot
<1> QED
  BY <1>1, <1>2 DEF Disjoint

\* A node that exists has an off.
LEMMA OffType ==
    ASSUME NEW sz \in Seq(Nat), NEW os \in Seq(Nat), Len(os) = Len(sz), NEW n \in DOMAIN sz
    PROVE  os[n] \in Nat /\ sz[n] \in Nat /\ DOMAIN os = DOMAIN sz
BY LenProperties, ElementOfSeq

-----------------------------------------------------------------------------
(* Frames                                                                  *)

Location == {"idle", "loadTail", "loadOff", "grow", "claim", "write"}
Locals == [cap : Nat, n : Nat, nOff : Nat, slot : Slot]

\* Nodes are only added, and their offs only grow.
Grown == /\ DOMAIN size \subseteq DOMAIN size'
         /\ \A n \in DOMAIN size : size'[n] = size[n] /\ off[n] <= off'[n]

\* A step of p leaves what the other goroutines know true.
LEMMA OneGoroutine ==
    ASSUME Inv, NEW p \in Proc, NEW c \in Locals, NEW at \in Location,
           call' = [call EXCEPT ![p] = c], pc' = [pc EXCEPT ![p] = at], slots' = slots,
           size' \in Seq(Nat), off' \in Seq(Nat), Len(off') = Len(size'), Grown,
           Knows(size', off', c, at), at # "idle" => Len(slots[p]) < MaxAppends
    PROVE  Types' /\ Known'
<1>1. Types'
  BY DEF Inv, Types, Location, Locals
<1>2. ASSUME NEW q \in Proc
      PROVE  /\ Knows(size', off', call'[q], pc'[q])
             /\ Len(slots[q]) <= MaxAppends
             /\ pc'[q] # "idle" => Len(slots[q]) < MaxAppends
  <2>1. CASE q = p
    <3>1. call'[q] = c /\ pc'[q] = at
      BY <2>1 DEF Inv, Types
    <3> QED
      BY <2>1, <3>1 DEF Inv, Known
  <2>2. CASE q # p
    <3>1. call'[q] = call[q] /\ pc'[q] = pc[q] /\ call[q] \in Locals
      BY <2>2 DEF Inv, Types, Locals
    <3>2. Knows(size, off, call[q], pc[q])
      BY DEF Inv, Known
    <3>3. pc[q] \in {"loadOff", "grow", "claim"} =>
             off[call[q].n] \in Nat /\ off'[call[q].n] \in Nat
      <4>1. pc[q] \in {"loadOff", "grow", "claim"} =>
               call[q].n \in DOMAIN size /\ call[q].n \in DOMAIN size'
        BY <3>2 DEF Knows, Grown
      <4> QED
        BY <4>1, OffType DEF Inv, Types
    <3>4. Knows(size', off', call[q], pc[q])
      BY SMTT(60), <3>1, <3>2, <3>3 DEF Knows, Grown, Locals
    <3> QED
      BY <3>1, <3>4 DEF Inv, Known
  <2> QED
    BY <2>1, <2>2
<1>3. Known'
  BY <1>2 DEF Known
<1> QED
  BY <1>1, <1>3

\* A range below an off stays below it.
LEMMA BelowGrows ==
    ASSUME Inv, Grown, off' \in Seq(Nat), Len(off') = Len(size'), NEW s \in Slot, Below(size, off, s)
    PROVE  Below(size', off', s)
<1>1. off[s.node] \in Nat /\ s.node \in DOMAIN size' /\ off[s.node] <= off'[s.node]
  BY LenProperties, ElementOfSeq DEF Inv, Types, Below, Grown
<1>2. off'[s.node] \in Nat
  <2>1. s.node \in DOMAIN off'
    BY <1>1, LenProperties DEF Grown, Below
  <2> QED
    BY <2>1, ElementOfSeq, LenProperties
<1> QED
  BY <1>1, <1>2 DEF Below, Slot

\* A step that claims and returns nothing leaves the ranges as they are.
LEMMA SameRanges ==
    ASSUME Inv, Grown, off' \in Seq(Nat), Len(off') = Len(size'), slots' = slots,
           \A q \in Proc : call'[q].slot = call[q].slot,
           \A q \in Proc : pc'[q] = "write" <=> pc[q] = "write"
    PROVE  Ranges'
<1>1. Claims' = Claims
  BY DEF Claims
<1>2. ASSUME NEW a \in Claims PROVE SlotOf(a)' = SlotOf(a)
  BY DEF SlotOf, Claims
<1>3. ASSUME NEW a \in Claims PROVE Below(size', off', SlotOf(a)')
  <2>1. SlotOf(a) \in Slot /\ Below(size, off, SlotOf(a))
    BY SlotTypes DEF Inv, Ranges
  <2> DEFINE s == SlotOf(a)
  <2>2. s \in Slot /\ Below(size, off, s) /\ SlotOf(a)' = s
    BY <1>2, <2>1
  <2> QED
    BY <2>2, BelowGrows DEF Below
<1> QED
  BY <1>1, <1>2, <1>3 DEF Inv, Ranges, Apart

\* A step by which p claims range s, apart from all that are below an off.
LEMMA NewRange ==
    ASSUME Inv, Grown, off' \in Seq(Nat), Len(off') = Len(size'), slots' = slots,
           NEW p \in Proc, pc[p] # "write", pc' = [pc EXCEPT ![p] = "write"],
           NEW s \in Slot, call'[p].slot = s,
           \A q \in Proc \ {p} : call'[q].slot = call[q].slot,
           Below(size', off', s), \A r \in Slot : Below(size, off, r) => Apart(r, s)
    PROVE  Ranges'
<1> DEFINE new == <<p, Len(slots[p]) + 1>>
<1>1. Len(slots[p]) \in Nat
  BY LenProperties DEF Inv, Types
<1>2. new \in Claims' => SlotOf(new)' = s
  BY <1>1 DEF SlotOf
<1>3. ASSUME NEW a \in Claims', a # new
      PROVE  a \in Claims /\ SlotOf(a)' = SlotOf(a)
  <2>1. PICK q \in Proc, k \in 1 .. MaxAppends : a = <<q, k>>
    BY <1>3 DEF Claims
  <2>2. \/ k <= Len(slots[q])
        \/ k = Len(slots[q]) + 1 /\ pc'[q] = "write"
    BY <2>1, <1>3 DEF Claims
  <2>3. CASE q = p
    <3>1. k <= Len(slots[q])
      BY <1>3, <2>1, <2>2, <2>3
    <3> QED
      BY <2>1, <3>1 DEF Claims, SlotOf
  <2>4. CASE q # p
    <3>1. pc'[q] = pc[q] /\ call'[q].slot = call[q].slot
      BY <2>4 DEF Inv, Types
    <3> QED
      BY <2>1, <2>2, <3>1 DEF Claims, SlotOf
  <2> QED
    BY <2>3, <2>4
<1>4. ASSUME NEW a \in Claims
      PROVE  SlotOf(a) \in Slot /\ Below(size, off, SlotOf(a)) /\ Below(size', off', SlotOf(a))
  <2>1. SlotOf(a) \in Slot /\ Below(size, off, SlotOf(a))
    BY SlotTypes DEF Inv, Ranges
  <2> QED
    BY <2>1, BelowGrows
<1>5. ASSUME NEW a \in Claims' PROVE Below(size', off', SlotOf(a)')
  BY <1>2, <1>3, <1>4
<1>6. ASSUME NEW a \in Claims', NEW b \in Claims', a # b
      PROVE  Apart(SlotOf(a)', SlotOf(b)')
  <2>1. CASE a = new
    BY <1>2, <1>3, <1>4, <1>6, <2>1 DEF Apart
  <2>2. CASE b = new
    BY <1>2, <1>3, <1>4, <1>6, <2>2
  <2>3. CASE a # new /\ b # new
    BY <1>3, <1>6, <2>3 DEF Inv, Ranges
  <2> QED
    BY <2>1, <2>2, <2>3
<1> QED
  BY <1>5, <1>6 DEF Ranges, Below, Apart

-----------------------------------------------------------------------------
(* Each action keeps the invariant                                         *)

LEMMA InitInv == Init => Inv
<1> SUFFICES ASSUME Init PROVE Inv
  OBVIOUS
<1>1. NoSlot \in Slot /\ NodeSize \in Nat /\ MaxAppends \in Nat
  BY GenericStoreAssumption DEF NoSlot, Slot
<1>2. Types
  BY <1>1 DEF Init, Types
<1>3. Nodes
  BY <1>1 DEF Init, Nodes
<1>4. Known
  BY <1>1 DEF Init, Known, Knows
<1>5. Claims = {}
  <2>1. \A a \in Proc \X (1 .. MaxAppends) : ~ (a[2] <= 0)
    BY <1>1
  <2>2. \A q \in Proc : Len(slots[q]) = 0 /\ pc[q] = "idle"
    BY DEF Init
  <2> QED
    BY <2>1, <2>2 DEF Claims
<1> QED
  BY <1>2, <1>3, <1>4, <1>5 DEF Inv, Ranges

\* A step of p that changes neither a node nor a range.
LEMMA LocalStep ==
    ASSUME Inv, NEW p \in Proc, pc[p] # "write",
           NEW c \in Locals, c.slot = call[p].slot, NEW at \in Location \ {"idle", "write"},
           call' = [call EXCEPT ![p] = c], pc' = [pc EXCEPT ![p] = at],
           UNCHANGED <<size, off, tail, slots>>,
           Knows(size, off, c, at), Len(slots[p]) < MaxAppends
    PROVE  Inv'
<1>1. Grown
  <2>1. \A n \in DOMAIN size : off[n] \in Nat
    BY OffType DEF Inv, Types
  <2> QED
    BY <2>1 DEF Grown
<1>2. Types' /\ Known'
  <2>1. size' \in Seq(Nat) /\ off' \in Seq(Nat) /\ Len(off') = Len(size')
        /\ Knows(size', off', c, at) /\ slots' = slots
    BY DEF Inv, Types
  <2> QED
    BY <1>1, <2>1, OneGoroutine
<1>3. Nodes'
  BY DEF Inv, Nodes
<1>4. Ranges'
  <2>1. \A q \in Proc : call'[q].slot = call[q].slot
    BY DEF Inv, Types
  <2>2. \A q \in Proc : pc'[q] = "write" <=> pc[q] = "write"
    BY DEF Inv, Types
  <2>3. off' \in Seq(Nat) /\ Len(off') = Len(size') /\ slots' = slots
    BY DEF Inv, Types
  <2> QED
    BY <1>1, <2>1, <2>2, <2>3, SameRanges
<1> QED
  BY <1>2, <1>3, <1>4 DEF Inv

LEMMA CallArenaInv ==
    ASSUME Inv, NEW p \in Proc, NEW cap \in Caps, CallArena(p, cap)
    PROVE  Inv'
<1> DEFINE c == [call[p] EXCEPT !.cap = cap]
<1>1. c \in Locals /\ c.slot = call[p].slot /\ c.cap = cap
  BY GenericStoreAssumption DEF Inv, Types, Locals
<1>2. call' = [call EXCEPT ![p] = c]
  BY DEF CallArena, Inv, Types
<1> HIDE DEF c
<1>3. Knows(size, off, c, "loadTail")
  BY <1>1 DEF CallArena, Knows
<1> QED
  BY <1>1, <1>2, <1>3, LocalStep DEF CallArena, Location

LEMMA LoadTailInv ==
    ASSUME Inv, NEW p \in Proc, LoadTail(p)
    PROVE  Inv'
<1> DEFINE c == [call[p] EXCEPT !.n = tail]
<1>1. tail \in Nat
  BY LenProperties DEF Inv, Types, Nodes
<1>2. c \in Locals /\ c.slot = call[p].slot /\ c.cap = call[p].cap /\ c.n = tail
  BY <1>1 DEF Inv, Types, Locals
<1>3. call' = [call EXCEPT ![p] = c]
  BY DEF LoadTail, Inv, Types
<1> HIDE DEF c
<1>4. Knows(size, off, c, "loadOff")
  BY <1>2 DEF LoadTail, Inv, Known, Knows, Nodes
<1>5. Len(slots[p]) < MaxAppends
  BY DEF LoadTail, Inv, Known
<1> QED
  BY <1>2, <1>3, <1>4, <1>5, LocalStep DEF LoadTail, Location

LEMMA LoadOffInv ==
    ASSUME Inv, NEW p \in Proc, LoadOff(p)
    PROVE  Inv'
<1> DEFINE v == off[call[p].n]
           c == [call[p] EXCEPT !.nOff = v]
<1>1. /\ call[p].n \in DOMAIN size /\ size[call[p].n] = NodeSize
      /\ call[p].cap <= NodeSize /\ Len(slots[p]) < MaxAppends
  BY DEF LoadOff, Inv, Known, Knows
<1>2. v \in Nat /\ v <= NodeSize /\ NodeSize \in Nat /\ call[p].cap \in Nat
  BY <1>1, OffType, GenericStoreAssumption DEF Inv, Types, Nodes
<1>3. /\ c \in Locals /\ c.slot = call[p].slot /\ c.cap = call[p].cap
      /\ c.n = call[p].n /\ c.nOff = v
  BY <1>2 DEF Inv, Types, Locals
<1>4. call' = [call EXCEPT ![p] = c]
  BY DEF LoadOff, Inv, Types
<1> HIDE DEF c
<1>5. CASE NodeSize - v < call[p].cap
  <2>1. Knows(size, off, c, "grow")
    BY <1>1, <1>2, <1>3 DEF Knows
  <2>2. pc' = [pc EXCEPT ![p] = "grow"]
    BY <1>5 DEF LoadOff
  <2> QED
    BY <1>1, <1>3, <1>4, <2>1, <2>2, LocalStep DEF LoadOff, Location
<1>6. CASE ~ (NodeSize - v < call[p].cap)
  <2>1. Knows(size, off, c, "claim")
    BY <1>1, <1>2, <1>3, <1>6 DEF Knows
  <2>2. pc' = [pc EXCEPT ![p] = "claim"]
    BY <1>6 DEF LoadOff
  <2> QED
    BY <1>1, <1>3, <1>4, <2>1, <2>2, LocalStep DEF LoadOff, Location
<1> QED
  BY <1>5, <1>6

\* A failed CompareAndSwap sends the goroutine back to the load of tail.
LEMMA RetryInv ==
    ASSUME Inv, NEW p \in Proc, GrowFails(p) \/ ClaimFails(p)
    PROVE  Inv'
<1>1. /\ call[p] \in Locals /\ call[p].cap <= NodeSize /\ Len(slots[p]) < MaxAppends
      /\ pc[p] # "write"
  BY DEF GrowFails, ClaimFails, Inv, Types, Locals, Known, Knows
<1>2. call' = [call EXCEPT ![p] = call[p]] /\ pc' = [pc EXCEPT ![p] = "loadTail"]
  BY DEF GrowFails, ClaimFails, Inv, Types
<1>3. Knows(size, off, call[p], "loadTail")
  BY <1>1 DEF Knows
<1> QED
  BY <1>1, <1>2, <1>3, LocalStep DEF GrowFails, ClaimFails, Location

\* Adding a node of length z with the first f elements taken.
LEMMA NodeAdded ==
    ASSUME Inv, NEW z \in Nat, NEW f \in Nat, f <= z,
           size' = Append(size, z), off' = Append(off, f)
    PROVE  /\ size' \in Seq(Nat) /\ off' \in Seq(Nat) /\ Len(off') = Len(size')
           /\ Grown
           /\ Len(size) + 1 \in DOMAIN size' /\ Len(size) + 1 \notin DOMAIN size
           /\ size'[Len(size) + 1] = z /\ off'[Len(size) + 1] = f
           /\ \A n \in DOMAIN size' : off'[n] <= size'[n]
<1>1. /\ size \in Seq(Nat) /\ off \in Seq(Nat) /\ Len(off) = Len(size) /\ Len(size) \in Nat
      /\ DOMAIN size = 1 .. Len(size) /\ DOMAIN off = 1 .. Len(size)
  BY LenProperties DEF Inv, Types
<1>2. /\ size' \in Seq(Nat) /\ Len(size') = Len(size) + 1
      /\ \A n \in 1 .. Len(size) : size'[n] = size[n]
      /\ size'[Len(size) + 1] = z
  BY <1>1, AppendProperties
<1>3. /\ off' \in Seq(Nat) /\ Len(off') = Len(off) + 1
      /\ \A n \in 1 .. Len(off) : off'[n] = off[n]
      /\ off'[Len(off) + 1] = f
  BY <1>1, AppendProperties
<1>4. DOMAIN size' = 1 .. Len(size) + 1
  BY <1>1, <1>2, LenProperties
<1>5. \A n \in DOMAIN size : off[n] \in Nat
  BY <1>1, OffType
<1>6. Grown
  BY <1>1, <1>2, <1>3, <1>4, <1>5 DEF Grown
<1>7. \A n \in DOMAIN size' : off'[n] <= size'[n]
  BY <1>1, <1>2, <1>3, <1>4 DEF Inv, Nodes
<1> QED
  BY <1>1, <1>2, <1>3, <1>4, <1>6, <1>7

LEMMA GrowInv ==
    ASSUME Inv, NEW p \in Proc, Grow(p)
    PROVE  Inv'
<1> DEFINE new == Len(size) + 1
           c == [call[p] EXCEPT !.n = new, !.nOff = 0]
<1>1. call[p].cap <= NodeSize /\ Len(slots[p]) < MaxAppends
  BY DEF Grow, Inv, Known, Knows
<1>2. size' = Append(size, NodeSize) /\ off' = Append(off, 0) /\ tail' = new
  BY DEF Grow
<1>3. /\ size' \in Seq(Nat) /\ off' \in Seq(Nat) /\ Len(off') = Len(size')
      /\ Grown /\ new \in DOMAIN size' /\ size'[new] = NodeSize /\ off'[new] = 0
      /\ \A n \in DOMAIN size' : off'[n] <= size'[n]
  <2>1. 0 \in Nat /\ NodeSize \in Nat /\ 0 <= NodeSize
    BY GenericStoreAssumption
  <2> QED
    BY <1>2, <2>1, NodeAdded
<1>4. /\ c \in Locals /\ c.slot = call[p].slot /\ c.cap = call[p].cap
      /\ c.n = new /\ c.nOff = 0 /\ c.cap \in Nat
  <2>1. Len(size) \in Nat
    BY LenProperties DEF Inv, Types
  <2>2. call[p] \in Locals
    BY DEF Inv, Types, Locals
  <2>3. new \in Nat
    BY <2>1
  <2> HIDE DEF new
  <2> QED
    BY <2>2, <2>3 DEF Locals
<1>5. call' = [call EXCEPT ![p] = c] /\ slots' = slots /\ pc' = [pc EXCEPT ![p] = "claim"]
  BY <1>2 DEF Grow, Inv, Types
<1> HIDE DEF c, new
<1>6. Knows(size', off', c, "claim")
  BY <1>1, <1>3, <1>4, GenericStoreAssumption DEF Knows
<1>7. Types' /\ Known'
  BY <1>1, <1>3, <1>4, <1>5, <1>6, OneGoroutine DEF Location
<1>8. Nodes'
  BY <1>2, <1>3 DEF Nodes
<1>9. Ranges'
  <2>1. \A q \in Proc : call'[q].slot = call[q].slot
    BY <1>4, <1>5 DEF Inv, Types
  <2>2. \A q \in Proc : pc'[q] = "write" <=> pc[q] = "write"
    BY <1>5 DEF Grow, Inv, Types
  <2> QED
    BY <1>3, <1>5, <2>1, <2>2, SameRanges
<1> QED
  BY <1>7, <1>8, <1>9 DEF Inv

LEMMA CallOwnInv ==
    ASSUME Inv, NEW p \in Proc, NEW cap \in Caps, CallOwn(p, cap)
    PROVE  Inv'
<1> DEFINE new == Len(size) + 1
           s == [node |-> new, from |-> 0, len |-> cap]
           c == [call[p] EXCEPT !.cap = cap, !.slot = s]
<1>1. cap \in Nat /\ cap <= cap /\ Len(slots[p]) < MaxAppends
  BY GenericStoreAssumption DEF CallOwn
<1>2. size' = Append(size, cap) /\ off' = Append(off, cap)
  BY DEF CallOwn
<1>3. /\ size' \in Seq(Nat) /\ off' \in Seq(Nat) /\ Len(off') = Len(size')
      /\ Grown /\ new \in DOMAIN size' /\ new \notin DOMAIN size /\ off'[new] = cap
      /\ \A n \in DOMAIN size' : off'[n] <= size'[n]
  BY <1>1, <1>2, NodeAdded
<1>4. s \in Slot /\ s.node = new /\ s.from = 0 /\ s.len = cap
  <2>1. Len(size) \in Nat
    BY LenProperties DEF Inv, Types
  <2> QED
    BY <1>1, <2>1 DEF Slot
<1>5. call' = [call EXCEPT ![p] = c] /\ slots' = slots /\ pc' = [pc EXCEPT ![p] = "write"]
  BY DEF CallOwn, Inv, Types
<1> HIDE DEF s, new
<1>6. c \in Locals /\ c.slot = s
  BY <1>1, <1>4 DEF Inv, Types, Locals
<1> HIDE DEF c
<1>7. Types' /\ Known'
  <2>1. Knows(size', off', c, "write")
    BY DEF Knows
  <2> QED
    BY <1>1, <1>3, <1>5, <1>6, <2>1, OneGoroutine DEF Location
<1>8. Nodes'
  BY <1>3 DEF CallOwn, Inv, Nodes, Grown
<1>9. Ranges'
  <2>1. Below(size', off', s) /\ \A r \in Slot : Below(size, off, r) => Apart(r, s)
    BY <1>1, <1>3, <1>4 DEF Below, Apart
  <2>2. pc[p] # "write" /\ call'[p].slot = s
        /\ \A q \in Proc \ {p} : call'[q].slot = call[q].slot
    BY <1>5, <1>6 DEF CallOwn, Inv, Types
  <2> QED
    BY <1>3, <1>4, <1>5, <2>1, <2>2, NewRange
<1> QED
  BY <1>7, <1>8, <1>9 DEF Inv

\* The CompareAndSwap succeeds only on the off that p read, so the range starts
\* where every range claimed before it in this node has ended.
LEMMA ClaimInv ==
    ASSUME Inv, NEW p \in Proc, Claim(p)
    PROVE  Inv'
<1> DEFINE n == call[p].n
           f == call[p].nOff
           k == call[p].cap
           s == [node |-> n, from |-> f, len |-> k]
           c == [call[p] EXCEPT !.slot = s]
<1>1. /\ n \in DOMAIN size /\ size[n] = NodeSize /\ off[n] = f /\ f + k <= NodeSize
      /\ Len(slots[p]) < MaxAppends
  BY DEF Claim, Inv, Known, Knows
<1>2. n \in Nat /\ f \in Nat /\ k \in Nat /\ NodeSize \in Nat /\ call[p] \in Locals
  BY GenericStoreAssumption DEF Inv, Types, Locals
<1>3. off' = [off EXCEPT ![n] = f + k] /\ size' = size
  BY DEF Claim, ClaimRange
<1>4. s \in Slot /\ s.node = n /\ s.from = f /\ s.len = k
  BY <1>2 DEF Slot
<1>5. call' = [call EXCEPT ![p] = c] /\ slots' = slots /\ pc' = [pc EXCEPT ![p] = "write"]
  BY DEF Claim, ClaimRange, Inv, Types
<1> HIDE DEF s
<1>6. c \in Locals /\ c.slot = s
  BY <1>2, <1>4 DEF Locals
<1> HIDE DEF c
<1>7. n \in DOMAIN off /\ n \in 1 .. Len(off) /\ \A m \in DOMAIN size : off[m] \in Nat
  BY <1>1, OffType, LenProperties DEF Inv, Types
<1>8. off' \in Seq(Nat) /\ Len(off') = Len(size') /\ size' \in Seq(Nat)
  BY <1>2, <1>3, <1>7, ExceptSeq DEF Inv, Types
<1>9. off'[n] = f + k /\ \A m \in DOMAIN size : m # n => off'[m] = off[m]
  BY <1>3, <1>7
<1>10. Grown
  BY <1>1, <1>2, <1>3, <1>7, <1>9 DEF Grown
<1>11. Types' /\ Known'
  <2>1. Knows(size', off', c, "write")
    BY DEF Knows
  <2> QED
    BY <1>1, <1>5, <1>6, <1>8, <1>10, <2>1, OneGoroutine DEF Location
<1>12. Nodes'
  BY <1>1, <1>3, <1>9 DEF Claim, ClaimRange, Inv, Nodes
<1>13. Ranges'
  <2>1. Below(size', off', s)
    <3>1. s.node \in DOMAIN size' /\ s.from + s.len = f + k /\ off'[s.node] = f + k
      BY <1>1, <1>3, <1>4, <1>9
    <3> HIDE DEF n, f, k
    <3>2. f + k \in Nat
      BY <1>2
    <3> QED
      BY <3>1, <3>2 DEF Below
  <2>2. \A r \in Slot : Below(size, off, r) => Apart(r, s)
    BY <1>1, <1>4 DEF Below, Apart
  <2>3. pc[p] # "write" /\ call'[p].slot = s
        /\ \A q \in Proc \ {p} : call'[q].slot = call[q].slot
    BY <1>5, <1>6 DEF Claim, Inv, Types
  <2> QED
    BY <1>4, <1>5, <1>8, <1>10, <2>1, <2>2, <2>3, NewRange
<1> QED
  BY <1>11, <1>12, <1>13 DEF Inv

\* Returning a range moves it from the locals to the handles.
LEMMA WriteMoves ==
    ASSUME Inv, NEW p \in Proc, Write(p)
    PROVE  /\ Claims' = Claims
           /\ \A a \in Claims : SlotOf(a)' = SlotOf(a)
           /\ slots'[p] \in Seq(Slot) /\ Len(slots'[p]) = Len(slots[p]) + 1
<1> DEFINE s == call[p].slot
<1>1. /\ slots[p] \in Seq(Slot) /\ s \in Slot /\ Len(slots[p]) \in Nat
      /\ slots'[p] = Append(slots[p], s) /\ pc[p] = "write" /\ pc'[p] = "idle"
  BY LenProperties DEF Write, Inv, Types
<1>2. /\ slots'[p] \in Seq(Slot) /\ Len(slots'[p]) = Len(slots[p]) + 1
      /\ \A k \in 1 .. Len(slots[p]) : slots'[p][k] = slots[p][k]
      /\ slots'[p][Len(slots[p]) + 1] = s
  BY <1>1, AppendProperties
<1>3. \A q \in Proc \ {p} : slots'[q] = slots[q] /\ pc'[q] = pc[q]
  BY DEF Write, Inv, Types
<1>4. ASSUME NEW q \in Proc, NEW k \in 1 .. MaxAppends
      PROVE  /\ <<q, k>> \in Claims' <=> <<q, k>> \in Claims
             /\ <<q, k>> \in Claims => SlotOf(<<q, k>>)' = SlotOf(<<q, k>>)
  <2>1. CASE q # p
    BY <1>3, <2>1 DEF Claims, SlotOf, Write
  <2>2. CASE q = p
    <3>1. k \in Nat /\ k >= 1
      BY GenericStoreAssumption
    <3>2. <<q, k>> \in Claims' <=> k <= Len(slots[p]) + 1
      BY <1>1, <1>2, <2>2, <3>1 DEF Claims
    <3>3. <<q, k>> \in Claims <=> k <= Len(slots[p]) + 1
      BY <1>1, <2>2, <3>1 DEF Claims
    <3>4. k <= Len(slots[p]) + 1 => SlotOf(<<q, k>>)' = SlotOf(<<q, k>>)
      BY <1>1, <1>2, <2>2, <3>1 DEF SlotOf
    <3> QED
      BY <3>2, <3>3, <3>4
  <2> QED
    BY <2>1, <2>2
<1>5. Claims' = Claims
  BY <1>4 DEF Claims
<1>6. \A a \in Claims : SlotOf(a)' = SlotOf(a)
  BY <1>4 DEF Claims
<1> QED
  BY <1>2, <1>5, <1>6

LEMMA WriteInv ==
    ASSUME Inv, NEW p \in Proc, Write(p)
    PROVE  Inv'
<1>1. /\ Claims' = Claims /\ \A a \in Claims : SlotOf(a)' = SlotOf(a)
      /\ slots'[p] \in Seq(Slot) /\ Len(slots'[p]) = Len(slots[p]) + 1
  BY WriteMoves
<1>2. Types'
  BY <1>1 DEF Write, Inv, Types
<1>3. Nodes'
  BY DEF Write, Inv, Nodes
<1>4. Known'
  <2>1. Len(slots[p]) < MaxAppends /\ Len(slots[p]) \in Nat /\ MaxAppends \in Nat
    BY LenProperties, GenericStoreAssumption DEF Write, Inv, Types, Known
  <2>2. ASSUME NEW q \in Proc
        PROVE  /\ Knows(size', off', call'[q], pc'[q])
               /\ Len(slots'[q]) <= MaxAppends
               /\ pc'[q] # "idle" => Len(slots'[q]) < MaxAppends
    <3>1. CASE q = p
      BY <1>1, <2>1, <3>1 DEF Write, Inv, Types, Knows
    <3>2. CASE q # p
      BY <3>2 DEF Write, Inv, Types, Known, Knows
    <3> QED
      BY <3>1, <3>2
  <2> QED
    BY <2>2 DEF Known
<1>5. Ranges'
  BY <1>1 DEF Write, Inv, Ranges, Below, Apart
<1> QED
  BY <1>2, <1>3, <1>4, <1>5 DEF Inv

LEMMA NextInv == ASSUME Inv, [Next]_vars PROVE Inv'
<1>1. ASSUME NEW p \in Proc, Step(p) PROVE Inv'
  BY <1>1, LoadTailInv, LoadOffInv, GrowInv, RetryInv, ClaimInv, WriteInv DEF Step
<1>2. ASSUME NEW p \in Proc, Call(p) PROVE Inv'
  BY <1>2, CallOwnInv, CallArenaInv DEF Call
<1>3. CASE UNCHANGED vars
  BY <1>3 DEF vars, Inv, Types, Nodes, Known, Ranges, Claims, SlotOf
<1> QED
  BY <1>1, <1>2, <1>3 DEF Next, Quiet

\* The store is well typed, and no node's off passes its buf.
THEOREM StoreTypeCorrect == Spec => []TypeOK
<1>1. Init => Inv
  BY InitInv
<1>2. Inv /\ [Next]_vars => Inv'
  BY NextInv
<1>3. Inv => TypeOK
  BY InvImpliesTypeOK
<1> QED
  BY <1>1, <1>2, <1>3, PTL DEF Spec

\* However their atomic operations interleave, two appends never hold a common
\* element and none leaves its node (generic_store.go:69-90): a claim succeeds
\* only on the off it read, and every earlier range ends at or before it.
THEOREM RangesAreDisjoint == Spec => []Disjoint
<1>1. Init => Inv
  BY InitInv
<1>2. Inv /\ [Next]_vars => Inv'
  BY NextInv
<1>3. Inv => Disjoint
  BY InvImpliesDisjoint
<1> QED
  BY <1>1, <1>2, <1>3, PTL DEF Spec

-----------------------------------------------------------------------------
(* What the handles read                                                   *)

\* The appends that have returned.
Returned == {x \in Proc \X (1 .. MaxAppends) : x[2] <= Len(slots[x[1]])}

Reads(m, s) == [i \in 1 .. s.len |-> m[<<s.node, s.from + i - 1>>]]

\* An append in progress was offered a request, and claims all of it; one that
\* has returned has written all its cells.
Whole == /\ \A p \in Proc : /\ pc[p] # "idle" => call[p].cap \in Caps
                            /\ pc[p] = "write" => call[p].slot.len = call[p].cap
         /\ \A id \in Returned : Cells(SlotOf(id)) \subseteq DOMAIN mem

LEMMA StoredReads ==
    Stored = [id \in Returned |-> Reads(mem, SlotOf(id))] /\ Returned \subseteq Claims
BY DEF Stored, Returned, Claims, Reads

\* Only a write changes what handles read.
LEMMA QuietStored ==
    ASSUME slots' = slots, mem' = mem
    PROVE  /\ Stored' = Stored
           /\ Returned' = Returned
           /\ \A id \in Returned : SlotOf(id)' = SlotOf(id)
<1>1. Returned' = Returned
  BY DEF Returned
<1>2. \A id \in Returned : SlotOf(id)' = SlotOf(id)
  BY DEF Returned, SlotOf
<1>3. Stored' = [id \in Returned' |-> Reads(mem', SlotOf(id)')]
  BY DEF Stored, Returned, Claims, Reads
<1> QED
  BY <1>1, <1>2, <1>3, StoredReads

\* A step of ensureCap.
LEMMA QuietWhole ==
    ASSUME Whole, NEW p \in Proc, slots' = slots, mem' = mem,
           pc'[p] # "idle" => call'[p].cap \in Caps,
           pc'[p] = "write" => call'[p].slot.len = call'[p].cap,
           \A q \in Proc \ {p} : pc'[q] = pc[q] /\ call'[q] = call[q]
    PROVE  Whole' /\ Stored' = Stored
<1>1. \A q \in Proc : /\ pc'[q] # "idle" => call'[q].cap \in Caps
                      /\ pc'[q] = "write" => call'[q].slot.len = call'[q].cap
  BY DEF Whole
<1>2. \A id \in Returned' : Cells(SlotOf(id)') \subseteq DOMAIN mem'
  BY QuietStored DEF Whole
<1>3. \A id \in Returned' : Cells(SlotOf(id))' = Cells(SlotOf(id)')
  BY DEF Cells
<1> QED
  BY <1>1, <1>2, <1>3, QuietStored DEF Whole

\* The write of p makes one handle readable and leaves the others alone.
LEMMA WriteStores ==
    ASSUME Inv, Whole, NEW p \in Proc, Write(p)
    PROVE  /\ Whole'
           /\ \E id \in Proc \X (1 .. MaxAppends) :
                 /\ id \notin DOMAIN Stored
                 /\ \E items \in OfferedItems(id) :
                       Stored' = [d \in DOMAIN Stored \cup {id} |->
                                     IF d = id THEN items ELSE Stored[d]]
<1> DEFINE s == call[p].slot
           k == Len(slots[p]) + 1
           items == Items(p, k, call[p].cap)
<1>1. /\ pc[p] = "write" /\ s \in Slot /\ call[p].cap \in Caps /\ s.len = call[p].cap
      /\ k \in 1 .. MaxAppends /\ Len(slots[p]) \in Nat
  <2>1. /\ pc[p] = "write" /\ slots[p] \in Seq(Slot) /\ Len(slots[p]) < MaxAppends
        /\ s \in Slot
    BY DEF Write, Inv, Types, Known
  <2>2. Len(slots[p]) \in Nat /\ MaxAppends \in Nat
    BY <2>1, LenProperties, GenericStoreAssumption
  <2>3. call[p].cap \in Caps /\ s.len = call[p].cap
    BY <2>1 DEF Whole
  <2> QED
    BY <2>1, <2>2, <2>3
<1>2. PICK new \in Proc \X (1 .. MaxAppends) : new = <<p, k>>
  BY <1>1
<1>3. /\ Claims' = Claims /\ \A a \in Claims : SlotOf(a)' = SlotOf(a)
      /\ Len(slots'[p]) = k /\ \A q \in Proc \ {p} : slots'[q] = slots[q]
  BY WriteMoves DEF Write, Inv, Types
<1>4. mem' = [c \in DOMAIN mem \cup Cells(s) |->
                 IF c \in Cells(s) THEN items[c[2] - s.from + 1] ELSE mem[c]]
  BY DEF Write
<1>5. new \in Claims /\ new \notin Returned /\ SlotOf(new) = s
  BY <1>1, <1>2 DEF Claims, Returned, SlotOf
<1>6. Returned' = Returned \cup {new}
  <2>1. ASSUME NEW q \in Proc, NEW j \in 1 .. MaxAppends
        PROVE  <<q, j>> \in Returned' <=> <<q, j>> \in Returned \cup {new}
    <3>1. CASE q = p
      <4>1. <<q, j>> \in Returned' <=> j <= k
        BY <1>3, <3>1 DEF Returned
      <4>2. <<q, j>> \in Returned <=> j <= Len(slots[p])
        BY <3>1 DEF Returned
      <4>3. j \in Nat /\ (j <= k <=> j <= Len(slots[p]) \/ j = k)
        BY <1>1
      <4> QED
        BY <1>2, <3>1, <4>1, <4>2, <4>3
    <3>2. CASE q # p
      BY <1>2, <1>3, <3>2 DEF Returned
    <3> QED
      BY <3>1, <3>2
  <2> QED
    BY <1>1, <1>2, <2>1 DEF Returned
<1>7. Returned \subseteq Claims
  BY StoredReads
<1>8. \A id \in Returned : Cells(SlotOf(id)) \cap Cells(s) = {}
  BY <1>5, <1>7, InvImpliesDisjoint DEF Disjoint
<1>9. ASSUME NEW id \in Returned
      PROVE  Reads(mem', SlotOf(id)) = Reads(mem, SlotOf(id))
  <2> DEFINE r == SlotOf(id)
  <2>1. r \in Slot
    BY <1>7, SlotTypes DEF Inv
  <2>2. Cells(r) \subseteq DOMAIN mem /\ Cells(r) \cap Cells(s) = {}
    BY <1>8 DEF Whole
  <2> HIDE DEF r, s, items
  <2>3. \A c \in Cells(r) : mem'[c] = mem[c]
    BY <1>4, <2>2
  <2>4. \A i \in 1 .. r.len : <<r.node, r.from + i - 1>> \in Cells(r)
    BY <2>1 DEF Cells, Slot
  <2>5. Reads(mem', r) = Reads(mem, r)
    BY <2>3, <2>4 DEF Reads
  <2> QED
    BY <2>5 DEF r
<1>10. Reads(mem', s) = items
  <2>1. \A i \in 1 .. s.len : <<s.node, s.from + i - 1>> \in Cells(s)
    BY <1>1 DEF Cells, Slot
  <2>2. \A i \in 1 .. s.len : items[i] = [by |-> p, nth |-> k, at |-> i]
    BY <1>1 DEF Items
  <2> HIDE DEF items, s
  <2>3. \A i \in 1 .. s.len : mem'[<<s.node, s.from + i - 1>>] = items[i]
    <3>1. ASSUME NEW i \in 1 .. s.len
          PROVE  mem'[<<s.node, s.from + i - 1>>] = items[i]
      <4> DEFINE c == <<s.node, s.from + i - 1>>
      <4>1. c \in Cells(s)
        BY <2>1
      <4>2. c[2] - s.from + 1 = i
        <5>1. s.from \in Nat
          BY <1>1 DEF s, Slot
        <5>2. c[2] = s.from + i - 1
          OBVIOUS
        <5> HIDE DEF c
        <5> QED
          BY <5>1, <5>2
      <4> HIDE DEF c
      <4>3. mem'[c] = items[i]
        BY <1>4, <4>1, <4>2
      <4> QED
        BY <4>3 DEF c
    <3> QED
      BY <3>1
  <2>4. Reads(mem', s) = [i \in 1 .. s.len |-> [by |-> p, nth |-> k, at |-> i]]
    BY <2>2, <2>3 DEF Reads
  <2> QED
    BY <1>1, <2>4 DEF Items, items
<1>11. /\ \A id \in Returned : SlotOf(id)' = SlotOf(id)
       /\ SlotOf(new)' = s
  BY <1>3, <1>5, <1>7
<1>12. Stored' = [id \in Returned' |-> Reads(mem', SlotOf(id)')]
  BY DEF Stored, Returned, Claims, Reads
<1>13. Stored' = [d \in Returned \cup {new} |-> IF d = new THEN items ELSE Stored[d]]
  <2> HIDE DEF items, s
  <2>1. \A d \in Returned \cup {new} :
           Reads(mem', SlotOf(d)') = IF d = new THEN items ELSE Stored[d]
    BY <1>5, <1>9, <1>10, <1>11, StoredReads
  <2> QED
    BY <1>6, <1>12, <2>1
<1>14. Whole'
  <2>1. \A q \in Proc : /\ pc'[q] # "idle" => call'[q].cap \in Caps
                        /\ pc'[q] = "write" => call'[q].slot.len = call'[q].cap
    BY DEF Write, Inv, Types, Whole
  <2>2. \A id \in Returned' : Cells(SlotOf(id)') \subseteq DOMAIN mem'
    <3> HIDE DEF s, items
    <3>1. DOMAIN mem' = DOMAIN mem \cup Cells(s)
      BY <1>4
    <3> QED
      BY <1>6, <1>11, <3>1 DEF Whole
  <2>3. \A id \in Returned' : Cells(SlotOf(id))' = Cells(SlotOf(id)')
    BY DEF Cells
  <2> QED
    BY <2>1, <2>2, <2>3 DEF Whole
<1>15. new \in Proc \X (1 .. MaxAppends) /\ items \in OfferedItems(new)
  BY <1>1, <1>2 DEF OfferedItems
<1>16. DOMAIN Stored = Returned
  BY StoredReads
<1> HIDE DEF items
<1> QED
  BY <1>5, <1>13, <1>14, <1>15, <1>16

LEMMA InitWhole == Init => Whole /\ Promise!Init
<1> SUFFICES ASSUME Init PROVE Whole /\ Promise!Init
  OBVIOUS
<1>1. Returned = {}
  <2>1. \A p \in Proc : Len(slots[p]) = 0
    BY DEF Init
  <2>2. \A k \in 1 .. MaxAppends : ~ (k <= 0)
    BY GenericStoreAssumption
  <2> QED
    BY <2>1, <2>2 DEF Returned
<1>2. Whole
  BY <1>1 DEF Whole, Init
<1>3. Stored = [id \in {} |-> << >>]
  BY <1>1, StoredReads
<1> QED
  BY <1>2, <1>3 DEF Promise!Init

LEMMA StepWhole ==
    ASSUME Inv, Whole, NEW p \in Proc, Step(p), ~ Write(p)
    PROVE  Whole' /\ Stored' = Stored
<1>1. slots' = slots /\ mem' = mem /\ pc[p] # "idle" /\ call[p].cap \in Caps
  BY DEF Step, LoadTail, LoadOff, Grow, GrowFails, Claim, ClaimRange, ClaimFails, Whole
<1>2. call'[p].cap = call[p].cap
  BY DEF Step, LoadTail, LoadOff, Grow, GrowFails, Claim, ClaimRange, ClaimFails, Inv, Types
<1>3. pc'[p] = "write" => call'[p].slot.len = call'[p].cap
  BY DEF Step, LoadTail, LoadOff, Grow, GrowFails, Claim, ClaimRange, ClaimFails, Inv, Types
<1>4. \A q \in Proc \ {p} : pc'[q] = pc[q] /\ call'[q] = call[q]
  BY DEF Step, LoadTail, LoadOff, Grow, GrowFails, Claim, ClaimRange, ClaimFails, Inv, Types
<1> QED
  BY <1>1, <1>2, <1>3, <1>4, QuietWhole

LEMMA CallWhole ==
    ASSUME Inv, Whole, NEW p \in Proc, Call(p)
    PROVE  Whole' /\ Stored' = Stored
<1>1. PICK cap \in Caps : CallOwn(p, cap) \/ CallArena(p, cap)
  BY DEF Call
<1>2. slots' = slots /\ mem' = mem /\ call'[p].cap = cap
  BY <1>1 DEF CallOwn, CallArena, Inv, Types
<1>3. pc'[p] = "write" => call'[p].slot.len = cap
  BY <1>1 DEF CallOwn, CallArena, Inv, Types
<1>4. \A q \in Proc \ {p} : pc'[q] = pc[q] /\ call'[q] = call[q]
  BY <1>1 DEF CallOwn, CallArena, Inv, Types
<1> QED
  BY <1>2, <1>3, <1>4, QuietWhole

LEMMA NextWhole ==
    ASSUME Inv, Whole, [Next]_vars
    PROVE  Whole' /\ [Promise!Next]_Stored
<1>1. ASSUME NEW p \in Proc, Write(p) PROVE Whole' /\ Promise!Next
  BY <1>1, WriteStores DEF Promise!Next, Promise!Store
<1>2. ASSUME NEW p \in Proc, Step(p), ~ Write(p) PROVE Whole' /\ Stored' = Stored
  BY <1>2, StepWhole
<1>3. ASSUME NEW p \in Proc, Call(p) PROVE Whole' /\ Stored' = Stored
  BY <1>3, CallWhole
<1>4. CASE UNCHANGED vars
  <2>1. slots' = slots /\ mem' = mem /\ pc' = pc /\ call' = call
    BY <1>4 DEF vars
  <2>2. Returned' = Returned /\ Stored' = Stored
    BY <2>1, QuietStored
  <2>3. Whole'
    BY <2>1, <2>2 DEF Whole, SlotOf, Cells
  <2> QED
    BY <2>2, <2>3
<1> QED
  BY <1>1, <1>2, <1>3, <1>4 DEF Next, Quiet

\* What an append returned reads what was appended, for ever: the store does
\* what Arena promises, for every number of goroutines and every node size
\* (generic_store.go:94-109).
THEOREM AppendsAreKept == Spec => ImplementsArena
<1>1. Init => Inv /\ Whole /\ Promise!Init
  BY InitInv, InitWhole
<1>2. Inv /\ Whole /\ [Next]_vars => (Inv /\ Whole)'
  BY NextInv, NextWhole
<1>3. Inv /\ Whole /\ [Next]_vars => [Promise!Next]_Stored
  BY NextWhole
<1> QED
  BY <1>1, <1>2, <1>3, PTL DEF Spec, ImplementsArena, Promise!Spec

-----------------------------------------------------------------------------
(* No node is thrown away                                                  *)

\* A goroutine about to swap in a node has found the old one too full for it.
Wanting == \A p \in Proc : pc[p] = "grow" => NodeSize - call[p].nOff < call[p].cap

\* Some request does not fit behind offset f of an ordinary node.
TooFull(f) == \E cap \in Caps : cap <= NodeSize /\ NodeSize - f < cap

Waste == WasteBounded /\ Wanting

\* A node too full stays so: its off only grows.
LEMMA TooFullGrows ==
    ASSUME NEW f \in Nat, NEW g \in Nat, f <= g, TooFull(f)
    PROVE  TooFull(g)
<1>1. PICK cap \in Caps : cap <= NodeSize /\ NodeSize - f < cap
  BY DEF TooFull
<1>2. cap \in Nat /\ NodeSize \in Nat
  BY GenericStoreAssumption
<1>3. NodeSize - g < cap
  BY <1>1, <1>2
<1> QED
  BY <1>1, <1>3 DEF TooFull

\* The nodes that were left before the step are still too full after it.
LEMMA OldNodes ==
    ASSUME Inv, Inv', WasteBounded, Grown,
           NEW n \in DOMAIN size, n # tail, size'[n] = NodeSize
    PROVE  TooFull(off'[n])
<1>1. n \in DOMAIN size' /\ size'[n] = size[n] /\ off[n] <= off'[n]
  BY DEF Grown
<1>2. off[n] \in Nat /\ off'[n] \in Nat
  BY <1>1, OffType DEF Inv, Types
<1>3. TooFull(off[n])
  BY <1>1 DEF WasteBounded, TooFull
<1> QED
  BY <1>1, <1>2, <1>3, TooFullGrows

\* A step that adds no node and leaves tail alone.
LEMMA SameNodes ==
    ASSUME Inv, Inv', WasteBounded, Grown, size' = size, tail' = tail
    PROVE  WasteBounded'
<1>1. \A n \in DOMAIN size' : n # tail' /\ size'[n] = NodeSize => TooFull(off'[n])
  BY OldNodes
<1> QED
  BY <1>1 DEF WasteBounded, TooFull

LEMMA InitWaste == Init => Waste
<1> SUFFICES ASSUME Init PROVE Waste
  OBVIOUS
<1>1. DOMAIN size = {1} /\ tail = 1
  BY DEF Init
<1>2. WasteBounded
  BY <1>1 DEF WasteBounded
<1>3. Wanting
  BY DEF Init, Wanting
<1> QED
  BY <1>2, <1>3 DEF Waste

\* The node that is left is the one whose off the goroutine has read.
LEMMA GrowWaste ==
    ASSUME Inv, Inv', Whole, Waste, NEW p \in Proc, Grow(p)
    PROVE  WasteBounded'
<1>1. /\ call[p].n = tail /\ tail \in DOMAIN size /\ call[p].nOff <= off[tail]
      /\ call[p].cap <= NodeSize /\ call[p].cap \in Caps
      /\ NodeSize - call[p].nOff < call[p].cap
  BY DEF Grow, Inv, Nodes, Known, Knows, Whole, Waste, Wanting
<1>2. call[p].nOff \in Nat /\ off[tail] \in Nat
  BY <1>1, OffType DEF Inv, Types
<1>3. TooFull(off[tail])
  <2>1. TooFull(call[p].nOff)
    BY <1>1 DEF TooFull
  <2> QED
    BY <1>1, <1>2, <2>1, TooFullGrows
<1>4. /\ Grown /\ size' = Append(size, NodeSize) /\ off' = Append(off, 0)
      /\ tail' = Len(size) + 1
  <2>1. 0 \in Nat /\ NodeSize \in Nat /\ 0 <= NodeSize
    BY GenericStoreAssumption
  <2>2. size' = Append(size, NodeSize) /\ off' = Append(off, 0) /\ tail' = Len(size) + 1
    BY DEF Grow
  <2> QED
    BY <2>1, <2>2, NodeAdded
<1>5. off'[tail] = off[tail]
  BY <1>1, <1>4, AppendProperties, LenProperties DEF Inv, Types
<1>6. \A n \in DOMAIN size' : n = tail' \/ n \in DOMAIN size
  <2>1. size \in Seq(Nat) /\ size' \in Seq(Nat) /\ Len(size) \in Nat /\ Len(size') = Len(size) + 1
    BY <1>4, AppendProperties, LenProperties, GenericStoreAssumption DEF Inv, Types
  <2>2. DOMAIN size = 1 .. Len(size) /\ DOMAIN size' = 1 .. Len(size')
    BY <2>1, LenProperties
  <2> QED
    BY <1>4, <2>1, <2>2
<1>7. ASSUME NEW n \in DOMAIN size', n # tail', size'[n] = NodeSize
      PROVE  TooFull(off'[n])
  <2>1. CASE n = tail
    BY <1>3, <1>5, <2>1
  <2>2. CASE n # tail
    BY <1>4, <1>6, <1>7, <2>2, OldNodes DEF Waste
  <2> QED
    BY <2>1, <2>2
<1> QED
  BY <1>7 DEF WasteBounded, TooFull

\* The node of a long request is not an ordinary one.
LEMMA CallOwnWaste ==
    ASSUME Inv, Inv', WasteBounded, NEW p \in Proc, NEW cap \in Caps, CallOwn(p, cap)
    PROVE  WasteBounded'
<1>1. cap \in Nat /\ NodeSize \in Nat /\ cap <= cap /\ cap > NodeSize
  BY GenericStoreAssumption DEF CallOwn
<1>2. size' = Append(size, cap) /\ off' = Append(off, cap) /\ tail' = tail
  BY DEF CallOwn
<1>3. Grown /\ size'[Len(size) + 1] = cap
  BY <1>1, <1>2, NodeAdded
<1>4. \A n \in DOMAIN size' : n = Len(size) + 1 \/ n \in DOMAIN size
  <2>1. size \in Seq(Nat) /\ size' \in Seq(Nat) /\ Len(size) \in Nat /\ Len(size') = Len(size) + 1
    BY <1>1, <1>2, AppendProperties, LenProperties DEF Inv, Types
  <2>2. DOMAIN size = 1 .. Len(size) /\ DOMAIN size' = 1 .. Len(size')
    BY <2>1, LenProperties
  <2> QED
    BY <2>1, <2>2
<1>5. ASSUME NEW n \in DOMAIN size', n # tail', size'[n] = NodeSize
      PROVE  TooFull(off'[n])
  <2>1. n # Len(size) + 1
    BY <1>1, <1>3, <1>5
  <2> QED
    BY <1>2, <1>3, <1>4, <1>5, <2>1, OldNodes
<1> QED
  BY <1>5 DEF WasteBounded, TooFull

\* A claim moves the off of its node forward.
LEMMA ClaimGrown ==
    ASSUME Inv, NEW p \in Proc, Claim(p)
    PROVE  Grown
<1> DEFINE n == call[p].n
           f == call[p].nOff
           k == call[p].cap
<1>1. n \in DOMAIN off /\ off[n] = f /\ f \in Nat /\ k \in Nat
  BY OffType DEF Claim, Inv, Types, Known, Knows
<1>2. off' = [off EXCEPT ![n] = f + k] /\ size' = size
  BY DEF Claim, ClaimRange
<1> HIDE DEF n, f, k
<1>3. \A m \in DOMAIN size : off[m] \in Nat /\ m \in DOMAIN off
  BY OffType DEF Inv, Types
<1>4. \A m \in DOMAIN size : off[m] <= off'[m]
  BY <1>1, <1>2, <1>3
<1> QED
  BY <1>2, <1>4 DEF Grown

LEMMA NextWaste ==
    ASSUME Inv, Inv', Whole, Waste, [Next]_vars
    PROVE  Waste'
<1>1. \A n \in DOMAIN size : off[n] \in Nat
  BY OffType DEF Inv, Types
<1>2. WasteBounded'
  <2>1. CASE UNCHANGED <<size, off, tail>>
    BY <1>1, <2>1, SameNodes DEF Waste, Grown
  <2>2. ASSUME NEW p \in Proc, Claim(p) PROVE WasteBounded'
    BY <2>2, ClaimGrown, SameNodes DEF Waste, Claim, ClaimRange
  <2>3. ASSUME NEW p \in Proc, Grow(p) PROVE WasteBounded'
    BY <2>3, GrowWaste
  <2>4. ASSUME NEW p \in Proc, NEW cap \in Caps, CallOwn(p, cap) PROVE WasteBounded'
    BY <2>4, CallOwnWaste DEF Waste
  <2> QED
    BY <2>1, <2>2, <2>3, <2>4
       DEF Next, Step, Call, Quiet, vars, CallArena, LoadTail, LoadOff, GrowFails, ClaimFails, Write
<1>3. Wanting'
  <2>1. ASSUME NEW p \in Proc, pc'[p] = "grow", pc[p] = pc'[p], call[p] = call'[p]
        PROVE  NodeSize - call'[p].nOff < call'[p].cap
    BY <2>1 DEF Waste, Wanting
  <2>2. ASSUME NEW p \in Proc, Step(p) \/ Call(p) PROVE Wanting'
    <3>1. \A q \in Proc \ {p} : pc'[q] = pc[q] /\ call'[q] = call[q]
      BY <2>2 DEF Step, Call, CallOwn, CallArena, LoadTail, LoadOff, Grow, GrowFails, Claim,
                  ClaimRange, ClaimFails, Write, Inv, Types
    <3>2. pc'[p] = "grow" => LoadOff(p)
      BY <2>2 DEF Step, Call, CallOwn, CallArena, LoadTail, Grow, GrowFails, Claim,
                  ClaimRange, ClaimFails, Write, Inv, Types
    <3>3. LoadOff(p) /\ pc'[p] = "grow" => NodeSize - call'[p].nOff < call'[p].cap
      BY DEF LoadOff, Inv, Types
    <3>4. ASSUME NEW q \in Proc, pc'[q] = "grow"
          PROVE  NodeSize - call'[q].nOff < call'[q].cap
      BY <2>1, <3>1, <3>2, <3>3, <3>4
    <3> QED
      BY <3>4 DEF Wanting
  <2>3. CASE UNCHANGED vars
    BY <2>3 DEF vars, Waste, Wanting
  <2> QED
    BY <2>2, <2>3 DEF Next, Quiet
<1> QED
  BY <1>2, <1>3 DEF Waste

\* A goroutine that loses the race for tail does not throw a fresh node away
\* (generic_store.go:78-85): every ordinary node that was left has too little
\* room for some request, whatever happened to its off since it was read.
THEOREM NodesAreNotWasted == Spec => []WasteBounded
<1>1. Init => Inv /\ Whole /\ Waste
  BY InitInv, InitWhole, InitWaste
<1>2. Inv /\ Whole /\ Waste /\ [Next]_vars => (Inv /\ Whole /\ Waste)'
  BY NextInv, NextWhole, NextWaste
<1>3. Waste => WasteBounded
  BY DEF Waste
<1> QED
  BY <1>1, <1>2, <1>3, PTL DEF Spec

=============================================================================
