--------------------------- MODULE AncestorsProofs ---------------------------
(***************************************************************************)
(* Theorems about Ancestors, for every number of workers, pushes and       *)
(* identities and every node size: whatever is pushed meanwhile, the       *)
(* pointers of an item spell the identities of its path, and hasCycle,     *)
(* which follows them one by one, answers for the whole chain.             *)
(*                                                                         *)
(* What the store guarantees is taken from GenericStoreProofs, for appends *)
(* of one element.                                                         *)
(***************************************************************************)
EXTENDS Ancestors, SequenceTheorems, WellFoundedInduction, TLAPS

Lib == INSTANCE GenericStoreProofs WITH Caps <- {1}

Location == {"free", "item", "search", "cycle", "fresh", "push"}

LinkType == [id : Identity, parent : Store!Slot]

ItemType == [ancestor : Store!Slot, chain : Seq(Identity)]

Types ==
    /\ given \in [Proc -> Seq(LinkType)]
    /\ items \subseteq ItemType
    /\ held \in [Proc -> ItemType]
    /\ at \in [Proc -> Location]
    /\ search \in [Proc -> [ref : Store!Slot, target : Identity \cup {NoSearch.target}]]
    /\ \A p \in Proc : at[p] \in {"search", "cycle", "fresh"} => search[p].target \in Identity
    /\ spawnBuf \in [Proc -> SUBSET ItemType]

\* A worker has given one link more than the store has returned while, and only
\* while, it pushes.
Pace == \A p \in Proc :
            /\ at[p] = "push" <=> pc[p] # "idle"
            /\ Len(given[p]) = IF pc[p] = "idle" THEN Len(slots[p]) ELSE Len(slots[p]) + 1

\* The link being pushed hangs on the item the worker holds.
Pushing == \A p \in Proc : at[p] = "push" => given[p][Len(given[p])].parent = held[p].ancestor

\* Every element of memory belongs to the append that wrote it, and that append
\* has returned.
Layout == \A c \in DOMAIN mem :
              /\ mem[c].by \in Proc
              /\ mem[c].nth \in 1 .. Len(slots[mem[c].by])
              /\ c \in Store!Cells(slots[mem[c].by][mem[c].nth])

\* A link that has been copied to its place.
Written(ref) == ref.len = 1 /\ <<ref.node, ref.from>> \in DOMAIN mem

Paths(it) == [0 .. Len(it.chain) -> Store!Slot]

\* h is the way from nil out to the item's own link: h[k] points at the link of
\* the k-th directory of its path.
Path(h, it) ==
    /\ h[0] = Nil
    /\ h[Len(it.chain)] = it.ancestor
    /\ \A k \in 1 .. Len(it.chain) :
           Written(h[k]) /\ Deref(h[k]) = Link(it.chain[k], h[k - 1])

Chains == \A it \in InUse : \E h \in Paths(it) : Path(h, it)

\* hasCycle stands on the way, and no link it has left behind was its target.
Searching ==
    \A p \in Proc : at[p] = "search" =>
        \E h \in Paths(held[p]) :
            /\ Path(h, held[p])
            /\ \E j \in 0 .. Len(held[p].chain) :
                  /\ search[p].ref = h[j]
                  /\ \A k \in j + 1 .. Len(held[p].chain) : held[p].chain[k] # search[p].target

StoreInv == Lib!Inv /\ Lib!Whole

Inv == StoreInv /\ Types /\ Pace /\ Pushing /\ Layout /\ Chains /\ Searching /\ AnswersRight

-----------------------------------------------------------------------------
(* The store's steps                                                       *)

\* A step of Append is a step of the store by itself.
LEMMA StoreSteps ==
    ASSUME StoreInv, NEW p \in Proc,
           \/ Store!CallArena(p, 1) \/ Store!LoadTail(p) \/ Store!LoadOff(p)
           \/ Store!Grow(p) \/ Store!GrowFails(p) \/ Store!Claim(p)
           \/ Store!ClaimFails(p) \/ Store!Write(p)
    PROVE  StoreInv'
<1>1. Lib!Call(p) \/ Lib!Step(p)
  <2>1. CASE Store!CallArena(p, 1)
    <3>1. Lib!CallArena(p, 1)
      BY <2>1 DEF Store!CallArena, Lib!CallArena
    <3> QED
      BY <3>1 DEF Lib!Call
  <2>2. CASE Store!LoadTail(p)
    BY <2>2 DEF Store!LoadTail, Lib!LoadTail, Lib!Step
  <2>3. CASE Store!LoadOff(p)
    BY <2>3 DEF Store!LoadOff, Lib!LoadOff, Lib!Step
  <2>4. CASE Store!Grow(p)
    BY <2>4 DEF Store!Grow, Lib!Grow, Lib!Step
  <2>5. CASE Store!GrowFails(p)
    BY <2>5 DEF Store!GrowFails, Lib!GrowFails, Lib!Step
  <2>6. CASE Store!Claim(p)
    BY <2>6 DEF Store!Claim, Store!ClaimRange, Lib!Claim, Lib!ClaimRange, Lib!Step
  <2>7. CASE Store!ClaimFails(p)
    BY <2>7 DEF Store!ClaimFails, Lib!ClaimFails, Lib!Step
  <2>8. CASE Store!Write(p)
    BY <2>8 DEF Store!Write, Store!Cells, Store!Items, Lib!Write, Lib!Cells, Lib!Items, Lib!Step
  <2> QED
    BY <2>1, <2>2, <2>3, <2>4, <2>5, <2>6, <2>7, <2>8
<1>2. Lib!Next
  BY <1>1 DEF Lib!Next
<1>3. Lib!GenericStoreAssumption
  BY AncestorsAssumption DEF Lib!GenericStoreAssumption
<1> QED
  BY <1>2, <1>3, Lib!NextInv, Lib!NextWhole DEF StoreInv

LEMMA StoreStutters ==
    ASSUME StoreInv, UNCHANGED storeVars
    PROVE  StoreInv'
<1>1. Lib!GenericStoreAssumption
  BY AncestorsAssumption DEF Lib!GenericStoreAssumption
<1>2. UNCHANGED Lib!vars
  BY DEF storeVars, Lib!vars
<1> QED
  BY <1>1, <1>2, Lib!NextInv, Lib!NextWhole DEF StoreInv

LEMMA NilIsASlot == Nil \in Store!Slot /\ Nil.len = 0
BY DEF Nil, Store!NoSlot, Store!Slot

\* A slot for one link is one element.
LEMMA OneCell ==
    ASSUME NEW s \in Store!Slot, s.len = 1
    PROVE  Store!Cells(s) = {<<s.node, s.from>>}
<1>1. s.from \in Nat /\ s.from .. s.from + s.len - 1 = {s.from}
  BY DEF Store!Slot
<1> QED
  BY <1>1 DEF Store!Cells

LEMMA StoreTypes ==
    ASSUME StoreInv, NEW p \in Proc
    PROVE  /\ slots \in [Proc -> Seq(Store!Slot)] /\ Len(slots[p]) \in Nat
           /\ DOMAIN pc = Proc
           /\ call[p].slot \in Store!Slot
           /\ pc[p] = "write" => call[p].slot.len = 1 /\ call[p].cap = 1
<1>1. slots \in [Proc -> Seq(Store!Slot)] /\ DOMAIN pc = Proc /\ call[p].slot \in Store!Slot
  BY DEF StoreInv, Lib!Inv, Lib!Types, Lib!Slot, Store!Slot
<1>2. Len(slots[p]) \in Nat
  BY <1>1, LenProperties
<1>3. pc[p] = "write" => call[p].slot.len = 1 /\ call[p].cap = 1
  BY DEF StoreInv, Lib!Whole
<1> QED
  BY <1>1, <1>2, <1>3

\* The element an append is about to write is nobody's.
LEMMA WriteIsFresh ==
    ASSUME StoreInv, Layout, NEW p \in Proc, pc[p] = "write"
    PROVE  <<call[p].slot.node, call[p].slot.from>> \notin DOMAIN mem
<1> DEFINE s == call[p].slot
           c == <<s.node, s.from>>
           k == Len(slots[p]) + 1
<1> SUFFICES ASSUME c \in DOMAIN mem PROVE FALSE
  OBVIOUS
<1>1. s \in Store!Slot /\ s.len = 1 /\ Len(slots[p]) \in Nat
  BY StoreTypes
<1>2. c \in Store!Cells(s)
  BY <1>1, OneCell
<1>3. PICK q \in Proc : \E n \in 1 .. Len(slots[q]) : c \in Store!Cells(slots[q][n])
  BY DEF Layout
<1>4. PICK n \in 1 .. Len(slots[q]) : c \in Store!Cells(slots[q][n])
  BY <1>3
<1>5. Len(slots[q]) \in Nat /\ Len(slots[q]) <= MaxAppends /\ k <= MaxAppends /\ MaxAppends \in Nat
  BY StoreTypes, <1>1, AncestorsAssumption DEF StoreInv, Lib!Inv, Lib!Known
<1>6. PICK mine : mine = <<p, k>>
  OBVIOUS
<1>7. PICK other : other = <<q, n>>
  OBVIOUS
<1>8. mine \in Lib!Claims /\ Lib!SlotOf(mine) = s
  BY <1>1, <1>5, <1>6 DEF Lib!Claims, Lib!SlotOf
<1>9. other \in Lib!Claims /\ Lib!SlotOf(other) = slots[q][n]
  BY <1>3, <1>4, <1>5, <1>7 DEF Lib!Claims, Lib!SlotOf
<1>10. mine # other
  BY <1>1, <1>4, <1>5, <1>6, <1>7
<1>11. Lib!GenericStoreAssumption
  BY AncestorsAssumption DEF Lib!GenericStoreAssumption
<1>12. Lib!Disjoint
  BY <1>11, Lib!InvImpliesDisjoint DEF StoreInv
<1>13. Lib!Cells(s) \cap Lib!Cells(slots[q][n]) = {}
  BY <1>8, <1>9, <1>10, <1>12 DEF Lib!Disjoint
<1> QED
  BY <1>2, <1>4, <1>13 DEF Lib!Cells, Store!Cells

-----------------------------------------------------------------------------
(* What has been pushed stays                                              *)

\* What was written, by whoever, is left alone.
Kept == /\ DOMAIN mem \subseteq DOMAIN mem'
        /\ \A c \in DOMAIN mem :
              /\ mem'[c] = mem[c]
              /\ given'[mem[c].by][mem[c].nth] = given[mem[c].by][mem[c].nth]

LEMMA LinksStay ==
    ASSUME Kept, NEW ref, Written(ref)
    PROVE  Written(ref)' /\ Deref(ref)' = Deref(ref)
BY DEF Kept, Written, Deref

LEMMA PathsStay ==
    ASSUME Kept, NEW it, NEW h, Path(h, it)
    PROVE  Path(h, it)'
<1>1. \A k \in 1 .. Len(it.chain) :
          Written(h[k])' /\ Deref(h[k])' = Link(it.chain[k], h[k - 1])
  BY LinksStay DEF Path
<1> QED
  BY <1>1 DEF Path, Nil, Store!NoSlot, Link

\* A worker other than those that move searches on.
LEMMA SearchStays ==
    ASSUME Kept, Searching, NEW p \in Proc, at[p] = "search",
           search'[p] = search[p], held'[p] = held[p]
    PROVE  \E h \in Paths(held'[p]) :
               /\ Path(h, held[p])'
               /\ \E j \in 0 .. Len(held'[p].chain) :
                     /\ search'[p].ref = h[j]
                     /\ \A k \in j + 1 .. Len(held'[p].chain) :
                           held'[p].chain[k] # search'[p].target
<1>1. PICK it : it = held[p]
  OBVIOUS
<1>2. PICK h \in Paths(it) :
          /\ Path(h, it)
          /\ \E j \in 0 .. Len(it.chain) :
                /\ search[p].ref = h[j]
                /\ \A k \in j + 1 .. Len(it.chain) : it.chain[k] # search[p].target
  BY <1>1 DEF Searching
<1>3. Path(h, it)'
  BY <1>2, PathsStay
<1>4. Paths(it)' = Paths(it)
  BY DEF Paths, Store!Slot
<1> QED
  BY <1>1, <1>2, <1>3, <1>4

LEMMA KeptBy ==
    ASSUME StoreInv, Types, Pace, Layout, DOMAIN mem \subseteq DOMAIN mem',
           \A c \in DOMAIN mem : mem'[c] = mem[c],
           \A q \in Proc : \/ given'[q] = given[q]
                           \/ \E l \in LinkType : given'[q] = Append(given[q], l)
    PROVE  Kept
<1> SUFFICES ASSUME NEW c \in DOMAIN mem
             PROVE  given'[mem[c].by][mem[c].nth] = given[mem[c].by][mem[c].nth]
  BY DEF Kept
<1> DEFINE q == mem[c].by
           n == mem[c].nth
<1>1. q \in Proc /\ n \in 1 .. Len(slots[q])
  BY DEF Layout
<1>2. given[q] \in Seq(LinkType) /\ Len(slots[q]) \in Nat
      /\ Len(given[q]) \in {Len(slots[q]), Len(slots[q]) + 1}
  BY <1>1, StoreTypes DEF Types, Pace
<1>3. n \in 1 .. Len(given[q])
  BY <1>1, <1>2
<1>4. CASE given'[q] = given[q]
  BY <1>4
<1>5. ASSUME NEW l \in LinkType, given'[q] = Append(given[q], l)
      PROVE  given'[q][n] = given[q][n]
  BY <1>2, <1>3, <1>5, AppendProperties
<1> QED
  BY <1>1, <1>4, <1>5

LEMMA ChainsStay ==
    ASSUME Kept, Chains,
           \A it \in InUse' : it \in InUse \/ \E h \in Paths(it) : Path(h, it)'
    PROVE  Chains'
<1> SUFFICES ASSUME NEW it \in InUse' PROVE \E h \in Paths(it) : Path(h, it)'
  BY DEF Chains, Paths, Store!Slot
<1> QED
  BY PathsStay DEF Chains

\* What worker p's search is worth once the step is taken.
SearchHolds(p) ==
    /\ at[p] = "search" =>
          \E h \in Paths(held[p]) :
              /\ Path(h, held[p])
              /\ \E j \in 0 .. Len(held[p].chain) :
                    /\ search[p].ref = h[j]
                    /\ \A k \in j + 1 .. Len(held[p].chain) :
                          held[p].chain[k] # search[p].target
    /\ at[p] = "cycle" => search[p].target \in Range(held[p].chain)
    /\ at[p] = "fresh" => search[p].target \notin Range(held[p].chain)

\* Searches that a step does not concern go on as before.
LEMMA OtherSearches ==
    ASSUME Kept, Searching, AnswersRight, NEW p \in Proc,
           \A q \in Proc \ {p} : /\ at'[q] = at[q] /\ search'[q] = search[q]
                                 /\ held'[q] = held[q],
           SearchHolds(p)'
    PROVE  Searching' /\ AnswersRight'
<1>1. ASSUME NEW q \in Proc PROVE SearchHolds(q)'
  <2>1. CASE q # p /\ at[q] = "search"
    <3>1. \E h \in Paths(held'[q]) :
              /\ Path(h, held[q])'
              /\ \E j \in 0 .. Len(held'[q].chain) :
                    /\ search'[q].ref = h[j]
                    /\ \A k \in j + 1 .. Len(held'[q].chain) :
                          held'[q].chain[k] # search'[q].target
      BY <2>1, SearchStays
    <3> QED
      BY <2>1, <3>1 DEF SearchHolds, Paths, Store!Slot
  <2>2. CASE q # p /\ at[q] # "search"
    BY <2>2 DEF SearchHolds, AnswersRight
  <2> QED
    BY <2>1, <2>2
<1>2. Searching'
  BY <1>1 DEF SearchHolds, Searching
<1>3. AnswersRight'
  BY <1>1 DEF SearchHolds, AnswersRight
<1> QED
  BY <1>2, <1>3

\* A worker at an item, whose parts are typed, whose chain is spelled.
LEMMA HeldItem ==
    ASSUME Types, Chains, NEW p \in Proc
    PROVE  /\ held[p] \in ItemType /\ held[p].ancestor \in Store!Slot
           /\ held[p].chain \in Seq(Identity) /\ Len(held[p].chain) \in Nat
           /\ \E h \in Paths(held[p]) : Path(h, held[p])
<1>1. held[p] \in ItemType
  BY DEF Types
<1>2. held[p] \in InUse
  BY DEF InUse
<1> QED
  BY <1>1, <1>2, LenProperties DEF ItemType, Chains

-----------------------------------------------------------------------------
(* The actions                                                             *)

LEMMA EmptyItem ==
    /\ Item(Nil, << >>) \in ItemType
    /\ [k \in 0 .. 0 |-> Nil] \in Paths(Item(Nil, << >>))
    /\ Path([k \in 0 .. 0 |-> Nil], Item(Nil, << >>))
BY NilIsASlot DEF Item, ItemType, Paths, Path

LEMMA NoSearchType ==
    NoSearch \in [ref : Store!Slot, target : Identity \cup {NoSearch.target}]
BY NilIsASlot DEF NoSearch

LEMMA InitInv == Init => Inv
<1> SUFFICES ASSUME Init PROVE Inv
  OBVIOUS
<1>1. StoreInv
  <2>1. Lib!Init
    BY DEF Init, Store!Init, Store!NoSlot, Lib!Init, Lib!NoSlot
  <2>2. Lib!GenericStoreAssumption
    BY AncestorsAssumption DEF Lib!GenericStoreAssumption
  <2> QED
    BY <2>1, <2>2, Lib!InitInv, Lib!InitWhole DEF StoreInv
<1>2. Types
  BY EmptyItem, NoSearchType DEF Init, Types, Location
<1>3. Pace
  BY DEF Init, Pace, Store!Init
<1>4. Layout
  BY DEF Init, Layout, Store!Init
<1>5. Chains
  <2>1. \A it \in InUse : it = Item(Nil, << >>)
    BY DEF Init, InUse
  <2> QED
    BY <2>1, EmptyItem DEF Chains
<1>6. Searching /\ AnswersRight
  BY DEF Init, Searching, AnswersRight
<1>7. Pushing
  BY DEF Init, Pushing
<1> QED
  BY <1>7, <1>1, <1>2, <1>3, <1>4, <1>5, <1>6 DEF Inv

\* A step outside Append.
LEMMA MemoryStays ==
    ASSUME Inv, UNCHANGED <<storeVars, given>>
    PROVE  /\ StoreInv' /\ Kept /\ Layout'
           /\ pc' = pc /\ slots' = slots /\ mem' = mem /\ given' = given
<1>1. pc' = pc /\ slots' = slots /\ mem' = mem /\ given' = given
  BY DEF storeVars
<1>2. StoreInv' /\ Kept
  BY <1>1, StoreStutters, KeptBy DEF Inv
<1>3. Layout'
  BY <1>1 DEF Inv, Layout, Store!Cells
<1> QED
  BY <1>1, <1>2, <1>3

LEMMA TakeInv ==
    ASSUME Inv, NEW p \in Proc, NEW it \in items, Take(p, it)
    PROVE  Inv'
<1>1. UNCHANGED <<storeVars, given>>
  BY DEF Take
<1>2. /\ StoreInv' /\ Kept /\ Layout'
      /\ pc' = pc /\ slots' = slots /\ given' = given
  BY <1>1, MemoryStays
<1>3. Types'
  BY <1>2 DEF Take, Inv, Types, Location
<1>4. Pace'
  BY <1>2 DEF Take, Inv, Pace, Types
<1>5. InUse' \subseteq InUse
  BY DEF Take, Inv, Types, InUse
<1>6. Chains'
  BY <1>2, <1>5, ChainsStay DEF Inv
<1>7. SearchHolds(p)'
  BY DEF Take, Inv, Types, SearchHolds
<1>8. Searching' /\ AnswersRight'
  BY <1>2, <1>7, OtherSearches DEF Inv, Take, Types
<1>9. Pushing'
  BY <1>2 DEF Take, Inv, Pushing, Types
<1> QED
  BY <1>9, <1>2, <1>3, <1>4, <1>6, <1>8 DEF Inv

LEMMA HasCycleInv ==
    ASSUME Inv, NEW p \in Proc, NEW id \in Identity, HasCycle(p, id)
    PROVE  Inv'
<1>1. UNCHANGED <<storeVars, given>>
  BY DEF HasCycle
<1>2. /\ StoreInv' /\ Kept /\ Layout'
      /\ pc' = pc /\ slots' = slots /\ given' = given
  BY <1>1, MemoryStays
<1>3. /\ items' = items /\ held' = held /\ spawnBuf' = spawnBuf
      /\ at'[p] = "search" /\ search'[p] = [ref |-> held[p].ancestor, target |-> id]
      /\ \A q \in Proc \ {p} : at'[q] = at[q] /\ search'[q] = search[q]
  BY DEF HasCycle, Inv, Types
<1>4. Types'
  <2>1. [ref |-> held[p].ancestor, target |-> id] \in
            [ref : Store!Slot, target : Identity \cup {NoSearch.target}]
    BY HeldItem DEF Inv
  <2>2. search' = [search EXCEPT ![p] = [ref |-> held[p].ancestor, target |-> id]]
    BY DEF HasCycle
  <2> QED
    BY <1>2, <1>3, <2>1, <2>2 DEF HasCycle, Inv, Types, Location
<1>5. Pace'
  BY <1>2, <1>3 DEF HasCycle, Inv, Pace, Types
<1>6. Chains'
  BY <1>2, <1>3, ChainsStay DEF Inv, InUse
<1>7. SearchHolds(p)'
  <2>1. PICK it : it = held[p]
    OBVIOUS
  <2>2. PICK h \in Paths(it) : Path(h, it)
    BY <2>1, HeldItem DEF Inv
  <2>3. Path(h, it)' /\ Paths(it)' = Paths(it) /\ h[Len(it.chain)] = it.ancestor
    BY <1>2, <2>2, PathsStay DEF Path, Paths, Store!Slot
  <2>4. Len(it.chain) \in Nat
    BY <2>1, HeldItem DEF Inv
  <2>5. Len(it.chain) \in 0 .. Len(it.chain) /\ Len(it.chain) + 1 .. Len(it.chain) = {}
    BY <2>4
  <2> QED
    BY <1>3, <2>1, <2>2, <2>3, <2>5 DEF SearchHolds
<1>8. Searching' /\ AnswersRight'
  BY <1>2, <1>3, <1>7, OtherSearches DEF Inv
<1>9. Pushing'
  BY <1>2, <1>3 DEF HasCycle, Inv, Pushing, Types
<1> QED
  BY <1>9, <1>2, <1>4, <1>5, <1>6, <1>8 DEF Inv

\* Where a search stands, and the link it looks at.
LEMMA SearchPoint ==
    ASSUME Inv, NEW p \in Proc, at[p] = "search"
    PROVE  \E h \in Paths(held[p]), j \in 0 .. Len(held[p].chain) :
               /\ Path(h, held[p])
               /\ search[p].ref = h[j]
               /\ \A k \in j + 1 .. Len(held[p].chain) : held[p].chain[k] # search[p].target
               /\ IF j = 0 THEN search[p].ref = Nil
                           ELSE /\ search[p].ref # Nil
                                /\ Deref(search[p].ref) = Link(held[p].chain[j], h[j - 1])
<1>1. PICK h \in Paths(held[p]) :
          /\ Path(h, held[p])
          /\ \E j \in 0 .. Len(held[p].chain) :
                /\ search[p].ref = h[j]
                /\ \A k \in j + 1 .. Len(held[p].chain) : held[p].chain[k] # search[p].target
  BY DEF Inv, Searching
<1>2. PICK j \in 0 .. Len(held[p].chain) :
          /\ search[p].ref = h[j]
          /\ \A k \in j + 1 .. Len(held[p].chain) : held[p].chain[k] # search[p].target
  BY <1>1
<1>3. CASE j = 0
  BY <1>1, <1>2, <1>3 DEF Path
<1>4. CASE j # 0
  <2>1. j \in 1 .. Len(held[p].chain)
    BY <1>4, HeldItem DEF Inv
  <2>2. Written(h[j]) /\ Deref(h[j]) = Link(held[p].chain[j], h[j - 1])
    BY <1>1, <2>1 DEF Path
  <2>3. h[j] # Nil
    BY <2>2, NilIsASlot DEF Written
  <2> QED
    BY <1>1, <1>2, <1>4, <2>2, <2>3
<1> QED
  BY <1>3, <1>4

LEMMA CompareInv ==
    ASSUME Inv, NEW p \in Proc, Compare(p)
    PROVE  Inv'
<1>1. UNCHANGED <<storeVars, given>>
  BY DEF Compare
<1>2. /\ StoreInv' /\ Kept /\ Layout'
      /\ pc' = pc /\ slots' = slots /\ given' = given
  BY <1>1, MemoryStays
<1>3. /\ items' = items /\ held' = held /\ spawnBuf' = spawnBuf
      /\ at[p] = "search" /\ search[p].ref # Nil
      /\ \A q \in Proc \ {p} : at'[q] = at[q] /\ search'[q] = search[q]
  BY DEF Compare, Inv, Types
<1>4. PICK h \in Paths(held[p]), j \in 0 .. Len(held[p].chain) :
          /\ Path(h, held[p])
          /\ search[p].ref = h[j]
          /\ \A k \in j + 1 .. Len(held[p].chain) : held[p].chain[k] # search[p].target
          /\ j # 0
          /\ Deref(search[p].ref) = Link(held[p].chain[j], h[j - 1])
  BY <1>3, SearchPoint
<1>5. /\ held[p].chain \in Seq(Identity) /\ Len(held[p].chain) \in Nat
      /\ j \in 1 .. Len(held[p].chain) /\ j - 1 \in 0 .. Len(held[p].chain)
      /\ h[j - 1] \in Store!Slot
  BY <1>4, HeldItem DEF Inv, Paths
<1>6. \/ /\ held[p].chain[j] = search[p].target
         /\ at' = [at EXCEPT ![p] = "cycle"] /\ search' = search
      \/ /\ held[p].chain[j] # search[p].target
         /\ at' = at
         /\ search' = [search EXCEPT ![p].ref = h[j - 1]]
  BY <1>4 DEF Compare, Link
<1>7. Types'
  <2> DEFINE SearchType == [ref : Store!Slot, target : Identity \cup {NoSearch.target}]
             next       == [search[p] EXCEPT !.ref = h[j - 1]]
  <2>1. /\ at \in [Proc -> Location] /\ search \in [Proc -> SearchType]
        /\ "cycle" \in Location
    BY DEF Inv, Types, Location
  <2>2. at' \in [Proc -> Location] /\ \A q \in Proc \ {p} : at'[q] = at[q]
    BY <1>6, <2>1
  <2>3. next \in SearchType /\ next.target = search[p].target
    BY <1>5, <2>1
  <2>4. search[p].target \in Identity
    BY <1>3 DEF Inv, Types
  <2> HIDE DEF SearchType, next
  <2>5. search' = search \/ search' = [search EXCEPT ![p] = next]
    BY <1>6 DEF next
  <2>6. /\ search' \in [Proc -> SearchType] /\ search'[p].target = search[p].target
        /\ \A q \in Proc \ {p} : search'[q] = search[q]
    BY <2>1, <2>3, <2>5
  <2>7. ASSUME NEW q \in Proc, at'[q] \in {"search", "cycle", "fresh"}
        PROVE  search'[q].target \in Identity
    BY <2>2, <2>4, <2>6, <2>7 DEF Inv, Types
  <2> QED
    BY <1>2, <1>3, <2>2, <2>6, <2>7 DEF Inv, Types, SearchType
<1>8. Pace'
  BY <1>2, <1>3, <1>6 DEF Inv, Pace, Types
<1>9. Chains'
  BY <1>2, <1>3, ChainsStay DEF Inv, InUse
<1>10. SearchHolds(p)'
  <2>1. CASE held[p].chain[j] = search[p].target
    <3>1. held[p].chain[j] \in Range(held[p].chain)
      BY <1>5 DEF Range
    <3>2. at'[p] = "cycle" /\ search' = search
      BY <1>6, <2>1 DEF Inv, Types
    <3> QED
      BY <1>3, <2>1, <3>1, <3>2 DEF SearchHolds
  <2>2. CASE held[p].chain[j] # search[p].target
    <3>1. PICK it : it = held[p]
      OBVIOUS
    <3>2. Path(h, it)' /\ Paths(it)' = Paths(it)
      BY <1>2, <1>4, <3>1, PathsStay DEF Paths, Store!Slot
    <3>3. at'[p] = "search" /\ search'[p].ref = h[j - 1] /\ search'[p].target = search[p].target
      BY <1>3, <1>6, <2>2 DEF Inv, Types
    <3>4. \A k \in (j - 1) + 1 .. Len(it.chain) : it.chain[k] # search[p].target
      BY <1>4, <1>5, <2>2, <3>1
    <3> QED
      BY <1>3, <1>4, <1>5, <3>1, <3>2, <3>3, <3>4 DEF SearchHolds
  <2> QED
    BY <2>1, <2>2
<1>11. Searching' /\ AnswersRight'
  BY <1>2, <1>3, <1>6, <1>10, OtherSearches DEF Inv
<1>12. Pushing'
  BY <1>2, <1>3, <1>6 DEF Inv, Pushing, Types
<1> QED
  BY <1>12, <1>2, <1>7, <1>8, <1>9, <1>11 DEF Inv

LEMMA EndOfChainInv ==
    ASSUME Inv, NEW p \in Proc, EndOfChain(p)
    PROVE  Inv'
<1>1. UNCHANGED <<storeVars, given>>
  BY DEF EndOfChain
<1>2. /\ StoreInv' /\ Kept /\ Layout'
      /\ pc' = pc /\ slots' = slots /\ given' = given
  BY <1>1, MemoryStays
<1>3. /\ items' = items /\ held' = held /\ spawnBuf' = spawnBuf /\ search' = search
      /\ at[p] = "search" /\ search[p].ref = Nil /\ at' = [at EXCEPT ![p] = "fresh"]
  BY DEF EndOfChain
<1>4. Types'
  BY <1>2, <1>3 DEF Inv, Types, Location
<1>5. Pace'
  BY <1>2, <1>3 DEF Inv, Pace, Types
<1>6. Chains'
  BY <1>2, <1>3, ChainsStay DEF Inv, InUse
<1>7. SearchHolds(p)'
  <2>1. \A k \in 1 .. Len(held[p].chain) : held[p].chain[k] # search[p].target
    BY <1>3, SearchPoint
  <2>2. search[p].target \notin Range(held[p].chain)
    BY <2>1, HeldItem DEF Inv, Range
  <2> QED
    BY <1>3, <2>2 DEF SearchHolds, Inv, Types
<1>8. Searching' /\ AnswersRight'
  BY <1>2, <1>3, <1>7, OtherSearches DEF Inv
<1>9. Pushing'
  BY <1>2, <1>3 DEF Inv, Pushing, Types
<1> QED
  BY <1>9, <1>2, <1>4, <1>5, <1>6, <1>8 DEF Inv

LEMMA NoPushInv ==
    ASSUME Inv, NEW p \in Proc, NoPush(p)
    PROVE  Inv'
<1>1. UNCHANGED <<storeVars, given>>
  BY DEF NoPush
<1>2. /\ StoreInv' /\ Kept /\ Layout'
      /\ pc' = pc /\ slots' = slots /\ given' = given
  BY <1>1, MemoryStays
<1>3. /\ items' = items /\ held' = held /\ spawnBuf' = spawnBuf
      /\ at[p] \in {"cycle", "fresh"} /\ at' = [at EXCEPT ![p] = "item"]
      /\ search' = [search EXCEPT ![p] = NoSearch]
  BY DEF NoPush
<1>4. Types'
  BY <1>2, <1>3, NoSearchType DEF Inv, Types, Location
<1>5. Pace'
  BY <1>2, <1>3 DEF Inv, Pace, Types
<1>6. Chains'
  BY <1>2, <1>3, ChainsStay DEF Inv, InUse
<1>7. SearchHolds(p)'
  BY <1>3 DEF SearchHolds, Inv, Types
<1>8. Searching' /\ AnswersRight'
  BY <1>2, <1>3, <1>7, OtherSearches DEF Inv, Types
<1>9. Pushing'
  BY <1>2, <1>3 DEF Inv, Pushing, Types
<1> QED
  BY <1>9, <1>2, <1>4, <1>5, <1>6, <1>8 DEF Inv

LEMMA SpawnInv ==
    ASSUME Inv, NEW p \in Proc, Spawn(p)
    PROVE  Inv'
<1>1. UNCHANGED <<storeVars, given>>
  BY DEF Spawn
<1>2. /\ StoreInv' /\ Kept /\ Layout'
      /\ pc' = pc /\ slots' = slots /\ given' = given
  BY <1>1, MemoryStays
<1>3. /\ items' = items \cup spawnBuf[p] /\ spawnBuf' = [spawnBuf EXCEPT ![p] = {}]
      /\ held' = [held EXCEPT ![p] = Item(Nil, << >>)]
      /\ at[p] = "item" /\ at' = [at EXCEPT ![p] = "free"] /\ search' = search
  BY DEF Spawn
<1>4. Types'
  BY <1>2, <1>3, EmptyItem DEF Inv, Types, Location
<1>5. Pace'
  BY <1>2, <1>3 DEF Inv, Pace, Types
<1>6. Chains'
  <2>1. \A it \in InUse' : it \in InUse \/ it = Item(Nil, << >>)
    BY <1>3 DEF Inv, Types, InUse
  <2>2. PICK it : it = Item(Nil, << >>)
    OBVIOUS
  <2>3. Item(Nil, << >>)' = Item(Nil, << >>)
    BY DEF Item, Nil, Store!NoSlot
  <2>4. \E h \in Paths(it) : Path(h, it)'
    BY <1>2, <2>2, EmptyItem, PathsStay
  <2> QED
    BY <1>2, <2>1, <2>2, <2>4, ChainsStay DEF Inv
<1>7. SearchHolds(p)'
  BY <1>3 DEF SearchHolds, Inv, Types
<1>8. Searching' /\ AnswersRight'
  BY <1>2, <1>3, <1>7, OtherSearches DEF Inv, Types
<1>9. Pushing'
  BY <1>2, <1>3 DEF Inv, Pushing, Types
<1> QED
  BY <1>9, <1>2, <1>4, <1>5, <1>6, <1>8 DEF Inv

LEMMA PushInv ==
    ASSUME Inv, NEW p \in Proc, NEW id \in Identity, PushAncestor(p, id)
    PROVE  Inv'
<1> DEFINE l == Link(id, held[p].ancestor)
<1>1. /\ Store!CallArena(p, 1)
      /\ given' = [given EXCEPT ![p] = Append(given[p], l)]
      /\ search' = [search EXCEPT ![p] = NoSearch]
      /\ at' = [at EXCEPT ![p] = "push"]
      /\ UNCHANGED <<items, held, spawnBuf>>
  BY DEF PushAncestor
<1>2. /\ mem' = mem /\ slots' = slots /\ pc[p] = "idle"
      /\ pc' = [pc EXCEPT ![p] = "loadTail"]
  BY <1>1 DEF Store!CallArena
<1>3. l \in LinkType
  BY HeldItem DEF Inv, Link, LinkType
<1>4. StoreInv'
  BY <1>1, StoreSteps DEF Inv
<1>5. \A q \in Proc : given'[q] = IF q = p THEN Append(given[p], l) ELSE given[q]
  BY <1>1 DEF Inv, Types
<1>6. Kept
  BY <1>2, <1>3, <1>5, KeptBy DEF Inv
<1>7. Layout'
  BY <1>2 DEF Inv, Layout, Store!Cells
<1>8. Types'
  <2>1. given' \in [Proc -> Seq(LinkType)]
    <3>1. Append(given[p], l) \in Seq(LinkType)
      BY <1>3, AppendProperties DEF Inv, Types
    <3> QED
      BY <1>1, <3>1 DEF Inv, Types
  <2> QED
    BY <1>1, <2>1, NoSearchType DEF Inv, Types, Location
<1>9. Pace'
  <2>1. Len(Append(given[p], l)) = Len(slots[p]) + 1
    BY <1>2, <1>3, AppendProperties DEF Inv, Pace, Types
  <2>2. DOMAIN pc = Proc
    BY StoreTypes DEF Inv
  <2>3. ASSUME NEW q \in Proc
        PROVE  /\ at'[q] = "push" <=> pc'[q] # "idle"
               /\ Len(given'[q]) = IF pc'[q] = "idle" THEN Len(slots'[q]) ELSE Len(slots'[q]) + 1
    <3>1. CASE q = p
      BY <1>1, <1>2, <1>5, <2>1, <2>2, <3>1 DEF Inv, Types
    <3>2. CASE q # p
      BY <1>1, <1>2, <1>5, <2>2, <3>2 DEF Inv, Types, Pace
    <3> QED
      BY <3>1, <3>2
  <2> QED
    BY <2>3 DEF Pace
<1>10. Chains'
  BY <1>1, <1>6, ChainsStay DEF Inv, InUse
<1>11. SearchHolds(p)'
  BY <1>1 DEF SearchHolds, Inv, Types
<1>12. Searching' /\ AnswersRight'
  BY <1>1, <1>6, <1>11, OtherSearches DEF Inv, Types
<1>13. Pushing'
  <2>1. given'[p][Len(given'[p])].parent = held[p].ancestor
    <3>1. given'[p] = Append(given[p], l) /\ given[p] \in Seq(LinkType)
      BY <1>5 DEF Inv, Types
    <3>2. given'[p][Len(given'[p])] = l
      BY <1>3, <3>1, AppendProperties
    <3> QED
      BY <3>2 DEF Link
  <2> QED
    BY <1>1, <1>5, <2>1 DEF Inv, Pushing, Types
<1> QED
  BY <1>13, <1>4, <1>7, <1>8, <1>9, <1>10, <1>12 DEF Inv

LEMMA InAppendInv ==
    ASSUME Inv, NEW p \in Proc, InAppend(p)
    PROVE  Inv'
<1>1. /\ at[p] = "push"
      /\ UNCHANGED <<given, items, held, at, search, spawnBuf>>
  BY DEF InAppend
<1>2. StoreInv'
  BY StoreSteps DEF Inv, InAppend
<1>3. /\ mem' = mem /\ slots' = slots /\ pc[p] # "idle"
      /\ \E to \in {"loadTail", "loadOff", "grow", "claim", "write"} :
            pc' = [pc EXCEPT ![p] = to]
  BY DEF InAppend, Store!LoadTail, Store!LoadOff, Store!Grow, Store!GrowFails, Store!Claim,
         Store!ClaimRange, Store!ClaimFails
<1>4. Kept
  BY <1>1, <1>3, KeptBy DEF Inv
<1>5. Layout'
  BY <1>3 DEF Inv, Layout, Store!Cells
<1>6. Types'
  BY <1>1 DEF Inv, Types
<1>7. Pace'
  <2>1. \A q \in Proc : pc'[q] = "idle" <=> pc[q] = "idle"
    BY <1>3, StoreTypes DEF Inv
  <2> QED
    BY <1>1, <1>3, <2>1 DEF Inv, Pace
<1>8. Chains'
  BY <1>1, <1>4, ChainsStay DEF Inv, InUse
<1>9. SearchHolds(p)'
  BY <1>1 DEF SearchHolds
<1>10. Searching' /\ AnswersRight'
  BY <1>1, <1>4, <1>9, OtherSearches DEF Inv
<1>11. Pushing'
  BY <1>1 DEF Inv, Pushing
<1> QED
  BY <1>11, <1>2, <1>5, <1>6, <1>7, <1>8, <1>10 DEF Inv

\* The child gets a link that is in place and hangs on its parent's.
LEMMA PushedInv ==
    ASSUME Inv, NEW p \in Proc, Pushed(p)
    PROVE  Inv'
<1> DEFINE s == call[p].slot
           cell == <<s.node, s.from>>
           k == Len(slots[p]) + 1
           l == given[p][k]
           chain == held[p].chain
           child == Item(s, Append(chain, l.id))
<1>1. /\ Store!Write(p)
      /\ spawnBuf' = [spawnBuf EXCEPT ![p] = @ \cup
             {Item(call[p].slot, Append(held[p].chain, given[p][Len(given[p])].id))}]
      /\ at[p] = "push" /\ at' = [at EXCEPT ![p] = "item"]
      /\ UNCHANGED <<given, items, held, search>>
  BY DEF Pushed, AddChild
<1>2. /\ pc[p] = "write" /\ pc' = [pc EXCEPT ![p] = "idle"]
      /\ slots' = [slots EXCEPT ![p] = Append(slots[p], s)]
      /\ mem' = [c \in DOMAIN mem \cup Store!Cells(s) |->
                    IF c \in Store!Cells(s)
                    THEN Store!Items(p, k, call[p].cap)[c[2] - s.from + 1] ELSE mem[c]]
  BY <1>1 DEF Store!Write
<1>3. /\ s \in Store!Slot /\ s.len = 1 /\ call[p].cap = 1
      /\ slots \in [Proc -> Seq(Store!Slot)] /\ Len(slots[p]) \in Nat /\ DOMAIN pc = Proc
  BY <1>2, StoreTypes DEF Inv
<1>4. /\ Len(given[p]) = k /\ l \in LinkType /\ l.parent = held[p].ancestor
      /\ spawnBuf' = [spawnBuf EXCEPT ![p] = @ \cup {child}]
  <2>1. Len(given[p]) = k
    BY <1>2 DEF Inv, Pace
  <2>2. l \in LinkType
    BY <1>3, <2>1 DEF Inv, Types
  <2>3. l.parent = held[p].ancestor
    BY <1>1, <2>1 DEF Inv, Pushing
  <2> QED
    BY <1>1, <2>1, <2>2, <2>3
<1>5. StoreInv'
  BY <1>1, StoreSteps DEF Inv
<1>6. /\ cell \notin DOMAIN mem /\ DOMAIN mem' = DOMAIN mem \cup {cell}
      /\ mem'[cell].by = p /\ mem'[cell].nth = k
      /\ \A c \in DOMAIN mem : mem'[c] = mem[c]
  <2>1. cell \notin DOMAIN mem
    BY <1>2, WriteIsFresh DEF Inv
  <2>2. Store!Cells(s) = {cell}
    BY <1>3, OneCell
  <2>3. mem' = [c \in DOMAIN mem \cup {cell} |->
                   IF c \in {cell} THEN Store!Items(p, k, 1)[c[2] - s.from + 1] ELSE mem[c]]
    BY <1>2, <1>3, <2>2
  <2>4. mem'[cell] = Store!Items(p, k, 1)[1]
    <3>1. cell[2] - s.from + 1 = 1
      BY <1>3 DEF Store!Slot
    <3> QED
      BY <2>3, <3>1
  <2>5. mem'[cell] = [by |-> p, nth |-> k, at |-> 1]
    BY <2>4 DEF Store!Items
  <2>6. \A c \in DOMAIN mem : mem'[c] = mem[c]
    BY <2>1, <2>3
  <2>7. DOMAIN mem' = DOMAIN mem \cup {cell}
    BY <2>3
  <2> QED
    BY <2>1, <2>5, <2>6, <2>7
<1>7. Kept
  BY <1>1, <1>6, KeptBy DEF Inv
<1>8. /\ slots'[p] = Append(slots[p], s) /\ Len(slots'[p]) = k /\ slots'[p][k] = s
      /\ \A i \in 1 .. Len(slots[p]) : slots'[p][i] = slots[p][i]
      /\ \A q \in Proc \ {p} : slots'[q] = slots[q]
  BY <1>2, <1>3, AppendProperties
<1>9. Layout'
  <2> SUFFICES ASSUME NEW c \in DOMAIN mem'
               PROVE  /\ mem'[c].by \in Proc
                      /\ mem'[c].nth \in 1 .. Len(slots'[mem'[c].by])
                      /\ c \in Store!Cells(slots'[mem'[c].by][mem'[c].nth])
    BY DEF Layout, Store!Cells
  <2>1. CASE c = cell
    <3>1. mem'[c].by = p /\ mem'[c].nth = k /\ slots'[p][k] = s /\ Len(slots'[p]) = k
      BY <1>6, <1>8, <2>1
    <3>2. c \in Store!Cells(s)
      BY <1>3, <2>1, OneCell
    <3>3. k \in 1 .. k
      BY <1>2
    <3> QED
      BY <3>1, <3>2, <3>3
  <2>2. CASE c \in DOMAIN mem
    <3>1. /\ mem'[c] = mem[c] /\ mem[c].by \in Proc
          /\ mem[c].nth \in 1 .. Len(slots[mem[c].by])
          /\ c \in Store!Cells(slots[mem[c].by][mem[c].nth])
      BY <1>6, <2>2 DEF Inv, Layout
    <3>2. CASE mem[c].by = p
      BY <1>3, <1>8, <3>1, <3>2
    <3>3. CASE mem[c].by # p
      BY <1>8, <3>1, <3>3
    <3> QED
      BY <3>2, <3>3
  <2> QED
    BY <1>6, <2>1, <2>2
<1>10. child \in ItemType
  <2>1. Append(chain, l.id) \in Seq(Identity)
    BY <1>4, HeldItem, AppendProperties DEF Inv, LinkType
  <2> QED
    BY <1>3, <2>1 DEF Item, ItemType
<1>11. Types'
  BY <1>1, <1>4, <1>10 DEF Inv, Types, Location
<1>12. Pace'
  <2> SUFFICES ASSUME NEW q \in Proc
               PROVE  /\ at'[q] = "push" <=> pc'[q] # "idle"
                      /\ Len(given'[q]) = IF pc'[q] = "idle" THEN Len(slots'[q])
                                          ELSE Len(slots'[q]) + 1
    BY DEF Pace
  <2>1. CASE q = p
    BY <1>1, <1>2, <1>3, <1>4, <1>8, <2>1 DEF Inv, Types
  <2>2. CASE q # p
    BY <1>1, <1>2, <1>3, <1>8, <2>2 DEF Inv, Types, Pace
  <2> QED
    BY <2>1, <2>2
<1>13. Pushing'
  BY <1>1 DEF Inv, Pushing, Types
<1>14. PICK it : it = child
  OBVIOUS
<1>15. \E h \in Paths(it) : Path(h, it)'
  <2>1. PICK parent : parent = held[p]
    OBVIOUS
  <2>2. PICK g \in Paths(parent) : Path(g, parent)
    BY <2>1, HeldItem DEF Inv
  <2>3. PICK ref : ref = s
    OBVIOUS
  <2> DEFINE n == Len(parent.chain)
             h == [i \in 0 .. n + 1 |-> IF i <= n THEN g[i] ELSE ref]
  <2>4. /\ n \in Nat /\ parent.chain \in Seq(Identity) /\ it.ancestor = ref
        /\ it.chain = Append(parent.chain, l.id) /\ Len(it.chain) = n + 1
        /\ it.chain[n + 1] = l.id /\ \A i \in 1 .. n : it.chain[i] = parent.chain[i]
    BY <1>4, <1>14, <2>1, <2>3, HeldItem, AppendProperties DEF Inv, Item, LinkType
  <2>5. h \in Paths(it)
    BY <1>3, <2>2, <2>4, <2>3 DEF Paths
  <2>6. Path(g, parent)'
    BY <1>7, <2>2, PathsStay
  <2>7. Written(ref)' /\ Deref(ref)' = l
    BY <1>1, <1>3, <1>6, <2>3 DEF Written, Deref
  <2>8. l = Link(l.id, g[n])
    BY <1>4, <2>1, <2>2 DEF LinkType, Link, Path
  <2>9. \A i \in 1 .. n : h[i] = g[i] /\ h[i - 1] = g[i - 1]
    BY <2>4
  <2>10. h[n + 1] = ref /\ h[n] = g[n] /\ h[0] = g[0]
    BY <2>4
  <2>11. Path(h, it)'
    <3> HIDE DEF h
    <3>1. \A i \in 1 .. n : Written(h[i])' /\ Deref(h[i])' = Link(it.chain[i], h[i - 1])
      BY <2>4, <2>6, <2>9 DEF Path
    <3>2. Written(h[n + 1])' /\ Deref(h[n + 1])' = Link(it.chain[n + 1], h[n])
      BY <2>4, <2>7, <2>8, <2>10
    <3>3. \A i \in 1 .. n + 1 : Written(h[i])' /\ Deref(h[i])' = Link(it.chain[i], h[i - 1])
      BY <2>4, <3>1, <3>2
    <3> QED
      BY <2>4, <2>6, <2>10, <3>3 DEF Path
  <2> QED
    BY <2>5, <2>11
<1>16. Chains'
  <2>1. \A x \in InUse' : x \in InUse \/ x = it
    BY <1>1, <1>4, <1>14 DEF Inv, Types, InUse
  <2> QED
    BY <1>7, <1>15, <2>1, ChainsStay DEF Inv
<1>17. SearchHolds(p)'
  BY <1>1 DEF SearchHolds, Inv, Types
<1>18. Searching' /\ AnswersRight'
  BY <1>1, <1>7, <1>17, OtherSearches DEF Inv, Types
<1> QED
  BY <1>5, <1>9, <1>11, <1>12, <1>13, <1>16, <1>18 DEF Inv

LEMMA NextInv == ASSUME Inv, [Next]_vars PROVE Inv'
<1>1. CASE UNCHANGED vars
  <2>1. UNCHANGED <<storeVars, given>> /\ UNCHANGED <<items, held, at, search, spawnBuf>>
    BY <1>1 DEF vars
  <2>2. /\ StoreInv' /\ Kept /\ Layout'
        /\ pc' = pc /\ slots' = slots /\ given' = given
    BY <2>1, MemoryStays
  <2>3. Types' /\ Pace' /\ Pushing'
    BY <2>1, <2>2 DEF Inv, Types, Pace, Pushing
  <2>4. Chains'
    BY <2>1, <2>2, ChainsStay DEF Inv, InUse
  <2>5. Searching'
    <3>1. ASSUME NEW q \in Proc, at'[q] = "search"
          PROVE  \E h \in Paths(held'[q]) :
                     /\ Path(h, held[q])'
                     /\ \E j \in 0 .. Len(held'[q].chain) :
                           /\ search'[q].ref = h[j]
                           /\ \A k \in j + 1 .. Len(held'[q].chain) :
                                 held'[q].chain[k] # search'[q].target
      BY <2>1, <2>2, <3>1, SearchStays DEF Inv
    <3> QED
      BY <3>1 DEF Searching, Paths, Store!Slot
  <2>6. AnswersRight'
    BY <2>1 DEF Inv, AnswersRight
  <2> QED
    BY <2>2, <2>3, <2>4, <2>5, <2>6 DEF Inv
<1>2. ASSUME NEW p \in Proc, NEW it \in items, Take(p, it) PROVE Inv'
  BY <1>2, TakeInv
<1>3. ASSUME NEW p \in Proc, NEW id \in Identity, HasCycle(p, id) PROVE Inv'
  BY <1>3, HasCycleInv
<1>4. ASSUME NEW p \in Proc, NEW id \in Identity, PushDir(p, id) PROVE Inv'
  BY <1>4, PushInv DEF PushDir
<1>5. ASSUME NEW p \in Proc, PushTarget(p) PROVE Inv'
  BY <1>5, PushInv DEF PushTarget, Inv, Types
<1>6. ASSUME NEW p \in Proc, \/ Compare(p) \/ EndOfChain(p) \/ NoPush(p)
                             \/ InAppend(p) \/ Pushed(p) \/ Spawn(p)
      PROVE  Inv'
  BY <1>6, CompareInv, EndOfChainInv, NoPushInv, InAppendInv, PushedInv, SpawnInv
<1> QED
  BY <1>1, <1>2, <1>3, <1>4, <1>5, <1>6 DEF Next, Quiet

LEMMA InvImpliesTypeOK == Inv => TypeOK
<1> SUFFICES ASSUME Inv PROVE TypeOK
  OBVIOUS
<1>1. ASSUME NEW it \in InUse
      PROVE  /\ it.chain \in Seq(Identity)
             /\ it.ancestor # Nil => Store!Cells(it.ancestor) \subseteq DOMAIN mem
  <2>1. it \in ItemType
    BY DEF Inv, Types, InUse
  <2>2. it.chain \in Seq(Identity) /\ Len(it.chain) \in Nat /\ it.ancestor \in Store!Slot
    BY <2>1, LenProperties DEF ItemType
  <2>3. PICK h \in Paths(it) : Path(h, it)
    BY DEF Inv, Chains
  <2>4. CASE Len(it.chain) = 0
    BY <2>2, <2>3, <2>4 DEF Path
  <2>5. CASE Len(it.chain) # 0
    <3>1. Written(it.ancestor)
      BY <2>2, <2>3, <2>5 DEF Path
    <3> QED
      BY <2>2, <3>1, OneCell DEF Written
  <2> QED
    BY <2>2, <2>4, <2>5
<1> QED
  BY <1>1 DEF Inv, Types, Pace, Location, LinkType, TypeOK

\* No worker holds, has queued or will queue an item whose link is not in place,
\* and a worker is inside Append exactly while it pushes.
THEOREM AncestorsTypeCorrect == Spec => []TypeOK
<1>1. Init => Inv
  BY InitInv
<1>2. Inv /\ [Next]_vars => Inv'
  BY NextInv
<1>3. Inv => TypeOK
  BY InvImpliesTypeOK
<1> QED
  BY <1>1, <1>2, <1>3, PTL DEF Spec

\* hasCycle, reading link after link while other workers push theirs to the same
\* store, reports a cycle exactly if its target is on the item's path.
THEOREM CyclesAreFound == Spec => []AnswersRight
<1>1. Init => Inv
  BY InitInv
<1>2. Inv /\ [Next]_vars => Inv'
  BY NextInv
<1>3. Inv => AnswersRight
  BY DEF Inv
<1> QED
  BY <1>1, <1>2, <1>3, PTL DEF Spec

-----------------------------------------------------------------------------
(* Following the pointers                                                  *)

\* A set of natural numbers has a least one.
LEMMA LeastNat ==
    ASSUME NEW T \in SUBSET Nat, T # {}
    PROVE  \E x \in T : \A y \in T : x <= y
<1> DEFINE R == OpToRel(<, Nat)
<1>1. IsWellFoundedOn(R, Nat)
  BY NatLessThanWellFounded
<1>2. \A i, j \in Nat : <<i, j>> \in R <=> i < j
  BY DEF OpToRel
<1> HIDE DEF R
<1>3. PICK x \in T : \A y \in T : ~ (<<y, x>> \in R)
  BY <1>1, WFMin
<1>4. ASSUME NEW y \in T PROVE x <= y
  <2>1. x \in Nat /\ y \in Nat
    OBVIOUS
  <2>2. ~ (y < x)
    BY <1>2, <1>3, <2>1
  <2> QED
    BY <2>1, <2>2
<1> QED
  BY <1>4

\* hop follows the pointers from the item's own link inwards.
Follows(hop, it) ==
    hop = [k \in 0 .. Len(it.chain) |->
              IF k = 0 THEN it.ancestor ELSE Deref(hop[k - 1]).parent]

\* The way in is the way out, backwards.
LEMMA WayBack ==
    ASSUME NEW it, Len(it.chain) \in Nat, NEW h \in Paths(it), Path(h, it),
           NEW k \in 1 .. Len(it.chain)
    PROVE  /\ h[Len(it.chain) - (k - 1)] # Nil
           /\ Deref(h[Len(it.chain) - (k - 1)]).id = it.chain[Len(it.chain) - k + 1]
           /\ Deref(h[Len(it.chain) - (k - 1)]).parent = h[Len(it.chain) - k]
<1> DEFINE i == Len(it.chain) - (k - 1)
<1>1. i \in 1 .. Len(it.chain) /\ i = Len(it.chain) - k + 1 /\ i - 1 = Len(it.chain) - k
  OBVIOUS
<1>2. Written(h[i]) /\ Deref(h[i]) = Link(it.chain[i], h[i - 1])
  BY <1>1 DEF Path
<1>3. h[i] # Nil
  BY <1>2, NilIsASlot DEF Written
<1>4. Deref(h[i]).id = it.chain[i] /\ Deref(h[i]).parent = h[i - 1]
  BY <1>2 DEF Link
<1> QED
  BY <1>1, <1>3, <1>4

LEMMA HopsExist ==
    ASSUME NEW it, Len(it.chain) \in Nat, NEW h \in Paths(it), Path(h, it)
    PROVE  \E hop : Follows(hop, it)
<1> DEFINE n == Len(it.chain)
           hop == [k \in 0 .. n |-> h[n - k]]
           turn(k) == IF k = 0 THEN it.ancestor ELSE Deref(hop[k - 1]).parent
<1>1. ASSUME NEW k \in 0 .. n PROVE hop[k] = turn(k)
  <2>1. CASE k = 0
    BY <2>1 DEF Path
  <2>2. CASE k # 0
    <3>1. k \in 1 .. n /\ hop[k - 1] = h[n - (k - 1)] /\ hop[k] = h[n - k]
      BY <2>2
    <3>2. Deref(h[n - (k - 1)]).parent = h[n - k]
      BY <3>1, WayBack
    <3> QED
      BY <2>2, <3>1, <3>2
  <2> QED
    BY <2>1, <2>2
<1>2. hop = [k \in 0 .. n |-> turn(k)]
  BY <1>1
<1> QED
  BY <1>2 DEF Follows

LEMMA HopsGoBack ==
    ASSUME NEW it, Len(it.chain) \in Nat, NEW h \in Paths(it), Path(h, it),
           NEW hop, Follows(hop, it)
    PROVE  \A k \in 0 .. Len(it.chain) : hop[k] = h[Len(it.chain) - k]
<1> DEFINE n == Len(it.chain)
           T == {k \in 0 .. n : hop[k] # h[n - k]}
<1> SUFFICES ASSUME T # {} PROVE FALSE
  OBVIOUS
<1>1. T \in SUBSET Nat
  OBVIOUS
<1>2. PICK k \in T : \A y \in T : k <= y
  BY <1>1, LeastNat
<1>3. k \in 0 .. n /\ hop[k] # h[n - k]
  OBVIOUS
<1>4. k # 0
  <2>1. hop[0] = it.ancestor
    BY DEF Follows
  <2> QED
    BY <1>3, <2>1 DEF Path
<1>5. k \in 1 .. n /\ k - 1 \in 0 .. n
  BY <1>3, <1>4
<1>6. hop[k - 1] = h[n - (k - 1)]
  <2>1. k - 1 \notin T
    BY <1>2, <1>5
  <2> QED
    BY <1>5, <2>1
<1>7. hop[k] = Deref(hop[k - 1]).parent
  BY <1>4, <1>5 DEF Follows
<1>8. Deref(h[n - (k - 1)]).parent = h[n - k]
  BY <1>5, WayBack
<1> QED
  BY <1>3, <1>6, <1>7, <1>8

LEMMA InvImpliesChainsIntact == Inv => ChainsIntact
<1> SUFFICES ASSUME Inv PROVE ChainsIntact
  OBVIOUS
<1>1. ASSUME NEW it \in InUse, NEW hop, Follows(hop, it)
      PROVE  /\ \A k \in 1 .. Len(it.chain) :
                    /\ hop[k - 1] # Nil
                    /\ Deref(hop[k - 1]).id = it.chain[Len(it.chain) - k + 1]
             /\ hop[Len(it.chain)] = Nil
  <2>1. Len(it.chain) \in Nat
    BY LenProperties DEF Inv, Types, InUse, ItemType
  <2>2. PICK h \in Paths(it) : Path(h, it)
    BY DEF Inv, Chains
  <2>3. \A k \in 0 .. Len(it.chain) : hop[k] = h[Len(it.chain) - k]
    BY <1>1, <2>1, <2>2, HopsGoBack
  <2>4. ASSUME NEW k \in 1 .. Len(it.chain)
        PROVE  /\ hop[k - 1] # Nil
               /\ Deref(hop[k - 1]).id = it.chain[Len(it.chain) - k + 1]
    <3>1. hop[k - 1] = h[Len(it.chain) - (k - 1)]
      BY <2>1, <2>3
    <3> QED
      BY <2>1, <2>2, <3>1, WayBack
  <2>5. hop[Len(it.chain)] = Nil
    BY <2>1, <2>2, <2>3 DEF Path
  <2> QED
    BY <2>4, <2>5
<1>2. ASSUME NEW it \in InUse PROVE \E hop : Follows(hop, it)
  <2>1. Len(it.chain) \in Nat
    BY LenProperties DEF Inv, Types, InUse, ItemType
  <2> QED
    BY <2>1, HopsExist DEF Inv, Chains
<1> QED
  BY <1>1, <1>2 DEF ChainsIntact, Follows

\* Through its pointers every item's chain reads as the identities of its path,
\* innermost first and then nil, whatever is pushed by whom.
THEOREM ChainsStayIntact == Spec => []ChainsIntact
<1>1. Init => Inv
  BY InitInv
<1>2. Inv /\ [Next]_vars => Inv'
  BY NextInv
<1>3. Inv => ChainsIntact
  BY InvImpliesChainsIntact
<1> QED
  BY <1>1, <1>2, <1>3, PTL DEF Spec
=============================================================================
