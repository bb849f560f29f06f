------------------------------ MODULE Ancestors ------------------------------
(***************************************************************************)
(* Ancestor chains as they lie in memory: links that workers push to one   *)
(* shared GenericStore and reach through pointers, their own and those of  *)
(* items other workers spawned.  Store takes the atomic operations of      *)
(* Append one by one; hasCycle here reads one link at a time.              *)
(***************************************************************************)
EXTENDS Naturals, Sequences, FiniteSets, SequencesExt

CONSTANTS Proc,        \* the workers
          NodeSize,    \* defaultGenericNodeSize
          MaxAppends,  \* bound: links a worker pushes
          Identity     \* the identities of directories, [ino, dev]

ASSUME AncestorsAssumption == NodeSize \in Nat \ {0} /\ MaxAppends \in Nat

VARIABLES size, off, tail, mem, pc, call, slots,   \* the store, as in GenericStore
          given,     \* the ancestorEntry each worker passed to each Append
          items,     \* the items queued
          held,      \* the item of each worker
          at,        \* where it stands with that item
          search,    \* the locals of its hasCycle, ref and target
          spawnBuf   \* the children it will spawn

Store == INSTANCE GenericStore WITH Caps <- {1}

storeVars == <<size, off, tail, mem, pc, call, slots>>
vars == <<storeVars, given, items, held, at, search, spawnBuf>>

Nil == Store!NoSlot

Link(id, parent) == [id |-> id, parent |-> parent]

\* *ref; memory nobody has written is zero.
Deref(ref) ==
    IF <<ref.node, ref.from>> \in DOMAIN mem
    THEN LET e == mem[<<ref.node, ref.from>>] IN given[e.by][e.nth]
    ELSE Link([ino |-> 0, dev |-> 0], Nil)

NoSearch == [ref |-> Nil, target |-> [ino |-> 0, dev |-> 0]]

\* chain is what Walkman knows of the item: the identities along its pointers.
Item(ancestor, chain) == [ancestor |-> ancestor, chain |-> chain]

-----------------------------------------------------------------------------
(***************************************************************************)
(* The first item stands for Walk, which pushes the root's link onto nil,  *)
(* and for a root that could not be stat'ed, whose links are pushed there. *)
(***************************************************************************)
Init == /\ Store!Init
        /\ given = [p \in Proc |-> << >>]
        /\ items = {Item(Nil, << >>)}
        /\ held = [p \in Proc |-> Item(Nil, << >>)]
        /\ at = [p \in Proc |-> "free"]
        /\ search = [p \in Proc |-> NoSearch]
        /\ spawnBuf = [p \in Proc |-> {}]

Take(p, it) == /\ at[p] = "free"
               /\ it \in items
               /\ items' = items \ {it}
               /\ held' = [held EXCEPT ![p] = it]
               /\ at' = [at EXCEPT ![p] = "item"]
               /\ UNCHANGED <<storeVars, given, search, spawnBuf>>

\* visitSym meets a link to the directory id.
HasCycle(p, id) == /\ at[p] = "item"
                   /\ Len(slots[p]) < MaxAppends
                   /\ search' = [search EXCEPT ![p] = [ref |-> held[p].ancestor, target |-> id]]
                   /\ at' = [at EXCEPT ![p] = "search"]
                   /\ UNCHANGED <<storeVars, given, items, held, spawnBuf>>

\* Faulty variant: inodes are compared without their devices.
Bug_Compare(p) ==
    LET s == search[p]
    IN  /\ at[p] = "search"
        /\ s.ref # Nil
        /\ IF Deref(s.ref).id.ino = s.target.ino
           THEN at' = [at EXCEPT ![p] = "cycle"] /\ UNCHANGED search
           ELSE search' = [search EXCEPT ![p].ref = Deref(s.ref).parent] /\ UNCHANGED at
        /\ UNCHANGED <<storeVars, given, items, held, spawnBuf>>

\* One turn of hasCycle's loop.
Compare(p) ==
    LET s == search[p]
    IN  /\ at[p] = "search"
        /\ s.ref # Nil
        /\ IF Deref(s.ref).id = s.target
           THEN at' = [at EXCEPT ![p] = "cycle"] /\ UNCHANGED search
           ELSE search' = [search EXCEPT ![p].ref = Deref(s.ref).parent] /\ UNCHANGED at
        /\ UNCHANGED <<storeVars, given, items, held, spawnBuf>>

EndOfChain(p) == /\ at[p] = "search"
                 /\ search[p].ref = Nil
                 /\ at' = [at EXCEPT ![p] = "fresh"]
                 /\ UNCHANGED <<storeVars, given, items, held, search, spawnBuf>>

\* The link is dropped, or is one at the depth limit, and visitSym goes on.
NoPush(p) == /\ at[p] \in {"cycle", "fresh"}
             /\ search' = [search EXCEPT ![p] = NoSearch]
             /\ at' = [at EXCEPT ![p] = "item"]
             /\ UNCHANGED <<storeVars, given, items, held, spawnBuf>>

\* Faulty variant: the new link hangs on the one this worker pushed last.
Bug_PushAncestor(p, id) ==
    /\ Store!CallArena(p, 1)
    /\ given' = [given EXCEPT ![p] = Append(@, Link(id, IF slots[p] = << >> THEN held[p].ancestor
                                                        ELSE slots[p][Len(slots[p])]))]
    /\ search' = [search EXCEPT ![p] = NoSearch]
    /\ at' = [at EXCEPT ![p] = "push"]
    /\ UNCHANGED <<items, held, spawnBuf>>

PushAncestor(p, id) ==
    /\ Store!CallArena(p, 1)
    /\ given' = [given EXCEPT ![p] = Append(@, Link(id, held[p].ancestor))]
    /\ search' = [search EXCEPT ![p] = NoSearch]
    /\ at' = [at EXCEPT ![p] = "push"]
    /\ UNCHANGED <<items, held, spawnBuf>>

\* A link that closes no cycle, and a plain directory, which has its parent's
\* device; or the root, in Walk.
PushTarget(p) == at[p] = "fresh" /\ PushAncestor(p, search[p].target)

PushDir(p, id) == /\ at[p] = "item"
                  /\ held[p].ancestor # Nil => id.dev = Deref(held[p].ancestor).id.dev
                  /\ PushAncestor(p, id)

InAppend(p) == /\ at[p] = "push"
               /\ \/ Store!LoadTail(p) \/ Store!LoadOff(p) \/ Store!Grow(p)
                  \/ Store!GrowFails(p) \/ Store!Claim(p) \/ Store!ClaimFails(p)
               /\ UNCHANGED <<given, items, held, at, search, spawnBuf>>

AddChild(p) ==
    /\ spawnBuf' = [spawnBuf EXCEPT ![p] = @ \cup
          {Item(call[p].slot, Append(held[p].chain, given[p][Len(given[p])].id))}]
    /\ at' = [at EXCEPT ![p] = "item"]
    /\ UNCHANGED <<given, items, held, search>>

\* Faulty variant: the child gets the address before the link is copied there.
Bug_Pushed(p) == at[p] = "push" /\ pc[p] = "write" /\ AddChild(p) /\ UNCHANGED storeVars

\* Append returns the link's address, which becomes the child's ancestor.
Pushed(p) == at[p] = "push" /\ Store!Write(p) /\ AddChild(p)

Spawn(p) == /\ at[p] = "item"
            /\ items' = items \cup spawnBuf[p]
            /\ spawnBuf' = [spawnBuf EXCEPT ![p] = {}]
            /\ held' = [held EXCEPT ![p] = Item(Nil, << >>)]
            /\ at' = [at EXCEPT ![p] = "free"]
            /\ UNCHANGED <<storeVars, given, search>>

Quiet == items = {} /\ (\A p \in Proc : at[p] = "free") /\ UNCHANGED vars

Next == \/ \E p \in Proc :
             \/ \E it \in items : Take(p, it)
             \/ \E id \in Identity : HasCycle(p, id) \/ PushDir(p, id)
             \/ Compare(p) \/ EndOfChain(p) \/ NoPush(p) \/ PushTarget(p)
             \/ InAppend(p) \/ Pushed(p) \/ Spawn(p)
        \/ Quiet

Spec == Init /\ [][Next]_vars

-----------------------------------------------------------------------------
(* Properties                                                              *)

InUse == items \cup UNION {spawnBuf[p] \cup {held[p]} : p \in Proc}

\* Every variable has its type, and no item that a worker holds, has queued or
\* will queue names a link that is still to be written.
TypeOK ==
    /\ given \in [Proc -> Seq([id : Identity, parent : Store!Slot])]
    /\ at \in [Proc -> {"free", "item", "search", "cycle", "fresh", "push"}]
    /\ \A it \in InUse : /\ it.chain \in Seq(Identity)
                         /\ it.ancestor # Nil =>
                               Store!Cells(it.ancestor) \subseteq DOMAIN mem
    /\ \A p \in Proc : at[p] = "push" <=> pc[p] # "idle"

\* Whoever follows an item's pointers, and whatever was pushed meanwhile, finds
\* the identities of its path, innermost first, and then nil: Walkman may take a
\* chain for the sequence of its links.
ChainsIntact ==
    \A it \in InUse :
        LET n == Len(it.chain)
            hop[k \in 0 .. n] == IF k = 0 THEN it.ancestor ELSE Deref(hop[k - 1]).parent
        IN  /\ \A k \in 1 .. n : hop[k - 1] # Nil /\ Deref(hop[k - 1]).id = it.chain[n - k + 1]
            /\ hop[n] = Nil

\* hasCycle, which reads link by link while others push, answers as a look at the
\* whole chain would.
AnswersRight ==
    \A p \in Proc :
        /\ at[p] = "cycle" => search[p].target \in Range(held[p].chain)
        /\ at[p] = "fresh" => search[p].target \notin Range(held[p].chain)
=============================================================================
