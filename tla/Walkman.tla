------------------------------ MODULE Walkman ------------------------------
(***************************************************************************)
(* The walker of walkman.go: Walk, the pool's workers running visit or     *)
(* visitSym, the result channel, and the goroutine that ranges over it.    *)
(*                                                                         *)
(* A step of a worker is one record of a listing, one entry resolved or    *)
(* scanned, one send, or one return; what it does in between touches only  *)
(* memory of that worker.  The pool (workstealpool, a library) is a bag of *)
(* items from which an idle worker takes any one.                          *)
(***************************************************************************)
EXTENDS Tree, FiniteSets, Bags, SequencesExt

CONSTANTS Worker,           \* the pool's workers, PoolSize of them
          ResultBuffSize,   \* capacity of the result channel
          MayBreak,         \* the consumer may break out of its range loop
          SortsInPlace      \* the consumer may reorder the Entries it was sent

ASSUME WalkmanAssumption == /\ IsFiniteSet(Worker) /\ Worker # {}
                            /\ ResultBuffSize \in Nat
                            /\ MayBreak \in BOOLEAN
                            /\ SortsInPlace \in BOOLEAN

VARIABLES conf,       \* the configuration of this walk
          pc,         \* where each worker stands in visit or visitSym
          task,       \* each worker's item and its scratch for that item
          pending,    \* the bag of items the pool holds
          chan,       \* the batches buffered in the result channel
          received,   \* the bag of batches the consumer took from it
          closed,     \* the pool has closed the channel
          consumer    \* the consumer's progress

vars == <<conf, pc, task, pending, chan, received, closed, consumer>>

-----------------------------------------------------------------------------
(***************************************************************************)
(* Items.  dir is what openat finds at the item's path.  ancestor is the   *)
(* chain of ancestorEntry links, the walk's root first; << >> is nil.      *)
(***************************************************************************)
Item == [path : Path, dir : Target, depth : Nat, ancestor : Seq(Identity)]

\* Faulty variant: the child's name is not joined to the parent's path.
Bug_Child(c, parent, e, chain) ==
    [path |-> parent.path, dir |-> c.to[parent.dir][e.name],
     depth |-> parent.depth + 1, ancestor |-> chain]

Child(c, parent, e, chain) ==
    [path |-> Append(parent.path, e.name), dir |-> c.to[parent.dir][e.name],
     depth |-> parent.depth + 1, ancestor |-> chain]

PushAncestor(ino, dev, parent) == Append(parent, [ino |-> ino, dev |-> dev])

\* Faulty variant: only the directory that holds the link is compared.
Bug_HasCycle(chain, id) == chain # << >> /\ chain[Len(chain)] = id

HasCycle(chain, id) == \E i \in DOMAIN chain : chain[i] = id

\* The d_type of a link's target that is not a directory.
DTypeFromInfo(target) == IF target = "reg" THEN "reg" ELSE "unknown"

(***************************************************************************)
(* Scratch.  pos is the loop's index, keep the index the next kept entry   *)
(* is written to, spawn the bag of children collected in spawnBuf.  Once   *)
(* sent, entries is the very arena run that the batch's Entries points at. *)
(***************************************************************************)
NewTask(it) == [item |-> it, entries |-> << >>, pos |-> 1, keep |-> 1,
                errs |-> {}, sawLink |-> FALSE, spawn |-> EmptyBag]

NoTask == NewTask([path |-> << >>, dir |-> "missing", depth |-> 0, ancestor |-> << >>])

BatchOf(t) == [dir |-> t.item.path, entries |-> Range(t.entries), errs |-> t.errs]

AddChild(t, it) == [t EXCEPT !.spawn = @ (+) SetToBag({it})]

(***************************************************************************)
(* The consumer: "start" before Walk, "range" in the loop, "drained" after *)
(* it, "done" after Wait, "broke" once it has stopped receiving before the *)
(* end, and "dead" once a panic in some worker has ended the program.      *)
(***************************************************************************)
Init == /\ conf \in Configs
        /\ pc = [w \in Worker |-> "idle"]
        /\ task = [w \in Worker |-> NoTask]
        /\ pending = EmptyBag
        /\ chan = << >>
        /\ received = EmptyBag
        /\ closed = FALSE
        /\ consumer = "start"

\* Walk: the root's item, its chain seeded by os.Stat, Submit and Run.
Walk ==
    /\ consumer = "start"
    /\ consumer' = "range"
    /\ pending' = SetToBag({[path |-> << >>, dir |-> conf.root, depth |-> 1,
                             ancestor |-> IF conf.followLinks /\ conf.rootStat
                                          THEN << conf.id[conf.root] >> ELSE << >>]})
    /\ UNCHANGED <<conf, pc, task, chan, received, closed>>

\* The pool hands an item to an idle worker, its own or a stolen one.
Take(w, it) ==
    /\ pc[w] = "idle"
    /\ it \in BagToSet(pending)
    /\ pc' = [pc EXCEPT ![w] = "read"]
    /\ task' = [task EXCEPT ![w] = NewTask(it)]
    /\ pending' = pending (-) SetToBag({it})
    /\ UNCHANGED <<conf, chan, received, closed, consumer>>

-----------------------------------------------------------------------------
(* readEntries and readDirRaw                                              *)

\* A loop goes on to its next record or entry.
Advance(t) == [t EXCEPT !.pos = @ + 1]

OnEntry(t, r) == [t EXCEPT !.pos = @ + 1, !.entries = Append(@, r),
                           !.sawLink = @ \/ r.typ = "lnk"]

\* One getdents64 record: skipped, or appended to entryScratch by onEntry.
ReadRecord(w) ==
    LET t == task[w]
        r == conf.list[t.item.dir][t.pos]
    IN  /\ pc[w] = "read"
        /\ t.item.dir \in Dir
        /\ t.pos \in DOMAIN conf.list[t.item.dir]
        /\ task' = [task EXCEPT ![w] =
              IF r.name \in conf.skipSet THEN Advance(t) ELSE OnEntry(t, r)]
        /\ UNCHANGED <<conf, pc, pending, chan, received, closed, consumer>>

\* Faulty variant: the loop over the entries starts where the read stopped.
Bug_ReadDone(w) ==
    LET t == task[w]
    IN  /\ pc[w] = "read"
        /\ t.item.dir \in Dir \ conf.faulty
        /\ t.pos = Len(conf.list[t.item.dir]) + 1
        /\ pc' = [pc EXCEPT ![w] = IF conf.followLinks THEN "resolve" ELSE "send"]
        /\ UNCHANGED <<conf, task, pending, chan, received, closed, consumer>>

\* EOF: visit goes on to its send, visitSym to its pass over the entries.
ReadDone(w) ==
    LET t == task[w]
    IN  /\ pc[w] = "read"
        /\ t.item.dir \in Dir \ conf.faulty
        /\ t.pos = Len(conf.list[t.item.dir]) + 1
        /\ task' = [task EXCEPT ![w] = [t EXCEPT !.pos = 1]]
        /\ pc' = [pc EXCEPT ![w] = IF conf.followLinks THEN "resolve" ELSE "send"]
        /\ UNCHANGED <<conf, pending, chan, received, closed, consumer>>

\* Faulty variants: the records read before the failure are sent with the
\* error; a failed read is tried again instead of being reported.
Bug_ReadFails(w) ==
    LET t == task[w]
    IN  /\ pc[w] = "read"
        /\ t.item.dir \notin Dir \ conf.faulty
        /\ task' = [task EXCEPT ![w].errs = {[at |-> t.item.path, err |-> "unreadable"]}]
        /\ pc' = [pc EXCEPT ![w] = "sendErr"]
        /\ UNCHANGED <<conf, pending, chan, received, closed, consumer>>

Bug_RetryRead(w) ==
    LET t == task[w]
    IN  /\ pc[w] = "read"
        /\ t.item.dir \notin Dir \ conf.faulty
        /\ task' = [task EXCEPT ![w] = NewTask(t.item)]
        /\ UNCHANGED <<conf, pc, pending, chan, received, closed, consumer>>

\* openat fails, or a getdents64 after any number of records: what was read
\* so far is discarded and the directory's one DirErr is sent instead.
ReadFails(w) ==
    LET t == task[w]
    IN  /\ pc[w] = "read"
        /\ t.item.dir \notin Dir \ conf.faulty
        /\ task' = [task EXCEPT ![w] =
              [NewTask(t.item) EXCEPT !.errs = {[at |-> t.item.path, err |-> "unreadable"]}]]
        /\ pc' = [pc EXCEPT ![w] = "sendErr"]
        /\ UNCHANGED <<conf, pending, chan, received, closed, consumer>>

-----------------------------------------------------------------------------
(* visitSym's pass over the listing                                        *)

\* scratch[keep] = e; keep++, in the same array the loop still reads.
Keep(t, e) == [t EXCEPT !.entries = [@ EXCEPT ![t.keep] = e], !.keep = @ + 1, !.pos = @ + 1]

StoreDirErr(t, e, kind) ==
    [t EXCEPT !.errs = @ \cup {[at |-> Append(t.item.path, e.name), err |-> kind]}]

\* Faulty variant: the target's type is not written back to the scratch.
Bug_KeepLinkToFile(t, e, target) == Keep(t, e)

\* A link whose os.Stat succeeded, to an object that is not a directory.
KeepLinkToFile(t, e, target) == Keep(t, [e EXCEPT !.typ = DTypeFromInfo(target)])

\* Faulty variant: the branch falls through to that of a plain directory.
Bug_FollowLink(c, t, e, target) ==
    LET id    == c.id[target]
        kept  == Keep(t, [e EXCEPT !.typ = "dir"])
        child == Child(c, t.item, e, PushAncestor(id.ino, id.dev, t.item.ancestor))
    IN  IF AtMaxDepth(c, t.item.depth) THEN kept ELSE AddChild(AddChild(kept, child), child)

\* A link to a directory: kept as a directory, walked under the link's path.
FollowLink(c, t, e, target) ==
    LET id   == c.id[target]
        kept == Keep(t, [e EXCEPT !.typ = "dir"])
    IN  IF AtMaxDepth(c, t.item.depth) THEN kept
        ELSE AddChild(kept, Child(c, t.item, e,
                                  PushAncestor(id.ino, id.dev, t.item.ancestor)))

\* Any other entry.  A directory's link in the chain takes its inode from the
\* record and its device from the link of the directory that lists it.
KeepEntry(c, t, e) ==
    LET chain == t.item.ancestor
    IN  IF e.typ # "dir" \/ AtMaxDepth(c, t.item.depth) THEN Keep(t, e)
        ELSE AddChild(Keep(t, e),
                      Child(c, t.item, e, PushAncestor(e.ino, chain[Len(chain)].dev, chain)))

\* item.ancestor.dev is read where item.ancestor is nil.
DerefsNil(c, t, e) ==
    e.typ = "dir" /\ ~ AtMaxDepth(c, t.item.depth) /\ t.item.ancestor = << >>

Resolve(w) ==
    LET t      == task[w]
        e      == t.entries[t.pos]
        target == conf.to[t.item.dir][e.name]
        isLink == t.sawLink /\ e.typ = "lnk"
        Become(new) == task' = [task EXCEPT ![w] = new]
    IN  /\ pc[w] = "resolve"
        /\ t.pos \in DOMAIN t.entries
        /\ \/ /\ isLink /\ target = "missing"
              /\ Become(Advance(StoreDirErr(t, e, "dangling")))
           \/ /\ isLink /\ target = "nosys"
              /\ Become(Keep(StoreDirErr(t, e, "nosys"), e))
           \/ /\ isLink /\ target \in {"reg", "other"}
              /\ Become(KeepLinkToFile(t, e, target))
           \/ /\ isLink /\ target \in Dir /\ HasCycle(t.item.ancestor, conf.id[target])
              /\ Become(Advance(StoreDirErr(t, e, "cycle")))
           \/ /\ isLink /\ target \in Dir /\ ~ HasCycle(t.item.ancestor, conf.id[target])
              /\ Become(FollowLink(conf, t, e, target))
           \/ /\ ~ isLink /\ ~ DerefsNil(conf, t, e)
              /\ Become(KeepEntry(conf, t, e))
        /\ UNCHANGED <<conf, pc, pending, chan, received, closed, consumer>>

\* The same loop at a directory entry of an item with a nil chain: a panic in
\* the worker's goroutine, which ends every goroutine of the program.
PanicOnNil(w) ==
    LET t == task[w]
    IN  /\ pc[w] = "resolve"
        /\ t.pos \in DOMAIN t.entries
        /\ DerefsNil(conf, t, t.entries[t.pos])
        /\ pc' = [v \in Worker |-> "dead"]
        /\ consumer' = "dead"
        /\ UNCHANGED <<conf, task, pending, chan, received, closed>>

\* scratch = scratch[:keep], then storeEntries.
ResolveDone(w) ==
    LET t == task[w]
    IN  /\ pc[w] = "resolve"
        /\ t.pos = Len(t.entries) + 1
        /\ task' = [task EXCEPT ![w] = [t EXCEPT !.entries = SubSeq(@, 1, t.keep - 1)]]
        /\ pc' = [pc EXCEPT ![w] = "send"]
        /\ UNCHANGED <<conf, pending, chan, received, closed, consumer>>

-----------------------------------------------------------------------------
\* Faulty variant: a batch nobody takes any more is dropped, and the walk goes on.
Bug_Deliver(b) ==
    \/ /\ Len(chan) < ResultBuffSize
       /\ chan' = Append(chan, b)
       /\ UNCHANGED received
    \/ /\ consumer = "broke"
       /\ Len(chan) >= ResultBuffSize
       /\ UNCHANGED <<chan, received>>

(***************************************************************************)
(* res <- batch.  It blocks while the buffer is full; with no buffer it    *)
(* needs the consumer at the channel.                                      *)
(***************************************************************************)
Deliver(b) ==
    \/ /\ Len(chan) < ResultBuffSize
       /\ chan' = Append(chan, b)
       /\ UNCHANGED received
    \/ /\ ResultBuffSize = 0
       /\ consumer = "range"
       /\ received' = received (+) SetToBag({b})
       /\ UNCHANGED chan

Return(w) == /\ pc' = [pc EXCEPT ![w] = "idle"]
             /\ task' = [task EXCEPT ![w] = NoTask]

\* The batch of a directory that could not be read; the task then returns.
SendErr(w) ==
    /\ pc[w] = "sendErr"
    /\ Deliver(BatchOf(task[w]))
    /\ Return(w)
    /\ UNCHANGED <<conf, pending, closed, consumer>>

\* Faulty variant: the children are spawned first, then the batch is sent.
Bug_Send(w) ==
    LET t == task[w]
    IN  /\ pc[w] = "send"
        /\ ~ conf.followLinks
        /\ pending' = IF AtMaxDepth(conf, t.item.depth) THEN pending
                      ELSE pending (+) SetToBag({Child(conf, t.item, e, << >>) :
                                          e \in {x \in Range(t.entries) : x.typ = "dir"}})
        /\ pc' = [pc EXCEPT ![w] = "sendErr"]
        /\ UNCHANGED <<conf, task, chan, received, closed, consumer>>

\* visit's send, and its return at the depth limit.
Send(w) ==
    /\ pc[w] = "send"
    /\ ~ conf.followLinks
    /\ Deliver(BatchOf(task[w]))
    /\ IF AtMaxDepth(conf, task[w].item.depth)
       THEN Return(w)
       ELSE pc' = [pc EXCEPT ![w] = "scan"] /\ UNCHANGED task
    /\ UNCHANGED <<conf, pending, closed, consumer>>

\* visit's loop over the entries it has already published.
Scan(w) ==
    LET t == task[w]
        e == t.entries[t.pos]
    IN  /\ pc[w] = "scan"
        /\ t.pos \in DOMAIN t.entries
        /\ task' = [task EXCEPT ![w] =
              IF e.typ = "dir" THEN AddChild(Advance(t), Child(conf, t.item, e, << >>))
              ELSE Advance(t)]
        /\ UNCHANGED <<conf, pc, pending, chan, received, closed, consumer>>

ScanDone(w) ==
    /\ pc[w] = "scan"
    /\ task[w].pos = Len(task[w].entries) + 1
    /\ pc' = [pc EXCEPT ![w] = "spawn"]
    /\ UNCHANGED <<conf, task, pending, chan, received, closed, consumer>>

\* Faulty variant: the children are spawned first, then the batch is sent.
Bug_SendResolved(w) ==
    /\ pc[w] = "send"
    /\ conf.followLinks
    /\ pending' = pending (+) task[w].spawn
    /\ pc' = [pc EXCEPT ![w] = "sendErr"]
    /\ UNCHANGED <<conf, task, chan, received, closed, consumer>>

\* visitSym's send: the children are known, and are spawned only after it.
SendResolved(w) ==
    /\ pc[w] = "send"
    /\ conf.followLinks
    /\ Deliver(BatchOf(task[w]))
    /\ pc' = [pc EXCEPT ![w] = "spawn"]
    /\ UNCHANGED <<conf, task, pending, closed, consumer>>

\* Faulty variant: a single child is not worth a call to spawn.
Bug_Spawn(w) ==
    /\ pc[w] = "spawn"
    /\ pending' = IF BagCardinality(task[w].spawn) > 1
                  THEN pending (+) task[w].spawn ELSE pending
    /\ Return(w)
    /\ UNCHANGED <<conf, chan, received, closed, consumer>>

\* spawn(spawnBuf...), the pool copying the items, and return nil.
Spawn(w) ==
    /\ pc[w] = "spawn"
    /\ pending' = pending (+) task[w].spawn
    /\ Return(w)
    /\ UNCHANGED <<conf, chan, received, closed, consumer>>

-----------------------------------------------------------------------------
\* The pool closes the channel when nothing is queued or running.
Close == /\ consumer # "start"
         /\ ~ closed
         /\ pending = EmptyBag
         /\ \A w \in Worker : pc[w] = "idle"
         /\ closed' = TRUE
         /\ UNCHANGED <<conf, pc, task, pending, chan, received, consumer>>

Receive == /\ consumer = "range"
           /\ chan # << >>
           /\ received' = received (+) SetToBag({Head(chan)})
           /\ chan' = Tail(chan)
           /\ UNCHANGED <<conf, pc, task, pending, closed, consumer>>

RangeEnds == /\ consumer = "range"
             /\ chan = << >>
             /\ closed
             /\ consumer' = "drained"
             /\ UNCHANGED <<conf, pc, task, pending, chan, received, closed>>

\* No task returns an error, so Wait returns nil.
Wait == /\ consumer = "drained"
        /\ closed
        /\ consumer' = "done"
        /\ UNCHANGED <<conf, pc, task, pending, chan, received, closed>>

\* The consumer stops receiving: it breaks out of its loop at some batch, or calls
\* Wait or returns without having taken a single one.
Break == /\ MayBreak
         /\ consumer = "range"
         /\ consumer' = "broke"
         /\ UNCHANGED <<conf, pc, task, pending, chan, received, closed>>

\* One swap of the consumer's sort, directories first, of a batch whose task is
\* still running: the slice it sorts is the run the worker holds.
SortSwap(w, i, j) ==
    LET t == task[w]
    IN  /\ SortsInPlace
        /\ consumer = "range"
        /\ pc[w] \in {"scan", "spawn"}
        /\ \E b \in BagToSet(received) : b.dir = t.item.path
        /\ i \in DOMAIN t.entries /\ j \in DOMAIN t.entries /\ i < j
        /\ t.entries[i].typ # "dir" /\ t.entries[j].typ = "dir"
        /\ task' = [task EXCEPT ![w] =
              [t EXCEPT !.entries = [@ EXCEPT ![i] = t.entries[j], ![j] = t.entries[i]]]]
        /\ UNCHANGED <<conf, pc, pending, chan, received, closed, consumer>>

\* The program has ended, or its consumer no longer takes part in the walk.
Halted == consumer \in {"done", "broke", "dead"} /\ UNCHANGED vars

Step(w) == \/ ReadRecord(w) \/ ReadDone(w) \/ ReadFails(w)
           \/ Resolve(w) \/ PanicOnNil(w) \/ ResolveDone(w)
           \/ SendErr(w) \/ Send(w) \/ SendResolved(w)
           \/ Scan(w) \/ ScanDone(w) \/ Spawn(w)

Consume == Receive \/ RangeEnds \/ Wait

Next ==
    \/ Walk
    \/ \E w \in Worker : \E it \in BagToSet(pending) : Take(w, it)
    \/ \E w \in Worker : Step(w)
    \/ Close
    \/ Consume
    \/ Break
    \/ \E w \in Worker : \E i, j \in DOMAIN task[w].entries : SortSwap(w, i, j)
    \/ Halted

Spec == Init /\ [][Next]_vars

(***************************************************************************)
(* The Go scheduler runs every goroutine that can run, the pool hands out  *)
(* what it holds, and the consumer's loop takes what is ready.  Nothing    *)
(* makes a consumer break or sort, and WF of Take is for the pool as a     *)
(* whole: which worker steals which item is not promised.                  *)
(***************************************************************************)
Fairness == /\ \A w \in Worker : WF_vars(Step(w))
            /\ WF_vars(\E w \in Worker : \E it \in BagToSet(pending) : Take(w, it))
            /\ WF_vars(Walk \/ Close)
            /\ WF_vars(Consume)

FairSpec == Spec /\ Fairness

-----------------------------------------------------------------------------
(* Properties                                                              *)

Location == {"idle", "read", "resolve", "send", "sendErr", "scan", "spawn", "dead"}

TaskOK(t) ==
    /\ t = [item |-> t.item, entries |-> t.entries, pos |-> t.pos, keep |-> t.keep,
            errs |-> t.errs, sawLink |-> t.sawLink, spawn |-> t.spawn]
    /\ t.item \in Item
    /\ t.entries \in Seq(Dirent)
    /\ t.pos \in Nat \ {0}
    /\ t.keep \in Nat \ {0}
    /\ t.errs \subseteq [at : Path, err : ErrKind]
    /\ t.sawLink \in BOOLEAN
    /\ IsABag(t.spawn) /\ BagToSet(t.spawn) \subseteq Item

\* Where the loops of visit and visitSym stand in the listing of a directory.
InListing(w) ==
    LET t == task[w]
    IN  /\ t.item.dir \in Dir
        /\ t.keep <= t.pos
        /\ t.pos <= Len(t.entries) + 1

\* Every variable has its type, and the in-place filter of visitSym writes only
\* where it has already read: keep never passes the loop's index, and the index
\* stays within the listing.
TypeOK ==
    /\ conf \in Configs
    /\ pc \in [Worker -> Location]
    /\ task = [w \in Worker |-> task[w]]
    /\ \A w \in Worker : TaskOK(task[w])
    /\ \A w \in Worker : pc[w] \in {"resolve", "scan"} => InListing(w)
    /\ IsABag(pending) /\ BagToSet(pending) \subseteq Item
    /\ chan \in Seq(Batch)
    /\ IsABag(received) /\ BagToSet(received) \subseteq Batch
    /\ closed \in BOOLEAN
    /\ consumer \in {"start", "range", "drained", "done", "broke", "dead"}

\* The consumer never sees two batches for one path, however the items were
\* stolen: visit and visitSym spawn each directory of a listing once, and no
\* item is handed to two workers.
OneBatchPerDir ==
    \A b \in BagToSet(received) :
        /\ received[b] = 1
        /\ \A a \in BagToSet(received) : a.dir = b.dir => a = b

\* A batch other than the root's reaches the consumer only after the batch that
\* lists its directory: both tasks send before they spawn, and the channel is
\* first in, first out.
ParentFirst ==
    \A b \in BagToSet(received) :
        b.dir = << >> \/ \E a \in BagToSet(received) : b.dir \in ChildrenOf(a)

\* When the range loop has ended normally, every directory that some received
\* batch lists, above the depth limit, has its own batch: the pool closes the
\* channel only when no item is queued, being read, or waiting to be sent.
Complete ==
    consumer \in {"drained", "done"} =>
        /\ \E b \in BagToSet(received) : b.dir = << >>
        /\ \A a \in BagToSet(received) : ~ AtMaxDepth(conf, Len(a.dir) + 1) =>
               \A p \in ChildrenOf(a) : \E b \in BagToSet(received) : b.dir = p

Promise == INSTANCE TreeWalk
             WITH delivered <- received, finished <- consumer \in {"drained", "done"}

\* The consumer sees a walk of the tree as TreeWalk specifies it: concurrency,
\* stealing, partial reads and the in-place filter of visitSym leave no trace.
ImplementsTreeWalk == Promise!SafeSpec

\* No path the walk visits enters one directory by two symbolic links, because
\* a followed link pushes its target's identity and hasCycle searches the whole
\* chain.  It is why a walk through links that form cycles is finite.
LinkHopsDistinct ==
    \A b \in BagToSet(received) :
        LET Reached(k) == Promise!DirAt(conf, SubSeq(b.dir, 1, k))
            ByLink(k)  == \E r \in Range(conf.list[Reached(k - 1)]) :
                             r.name = b.dir[k] /\ r.typ = "lnk"
            Hops == {k \in 1 .. Len(b.dir) : ByLink(k)}
        IN  \A j, k \in Hops : Reached(j) = Reached(k) => j = k

\* Every walk ends whose consumer keeps receiving: the tree is exhausted even when
\* its links form cycles, no worker stays blocked on its send, the channel is
\* closed and Wait returns.  A root that appears late is the exception: its nil
\* chain may end the program before that (walkman.go:400).
Terminates ==
    (conf.root \in Dir => conf.rootStat) => <>(consumer \in {"done", "broke"})

\* Once the consumer has stopped receiving, the walk comes to rest with nothing
\* dropped, instead of reading the tree behind the consumer's back: either every
\* worker blocks at the send that has no alternative (walkman.go:265), or no item is
\* left to take, and each directory that was announced has its batch with the
\* consumer or in the channel, or waits as an item of the pool or of a worker.
BreakComesToRest ==
    LET sent    == BagToSet(received) \cup Range(chan)
        listed  == {<< >>} \cup UNION {ChildrenOf(b) : b \in {x \in sent :
                                           ~ AtMaxDepth(conf, Len(x.dir) + 1)}}
        blocked == {w \in Worker : pc[w] \in {"send", "sendErr"}}
        AtRest  == /\ \A w \in Worker \ blocked : pc[w] = "idle"
                   /\ blocked = Worker \/ pending = EmptyBag
                   /\ listed \subseteq {b.dir : b \in sent}
                                       \cup {it.path : it \in BagToSet(pending)}
                                       \cup {task[w].item.path : w \in blocked}
    IN  (consumer = "broke") ~> []AtRest

-----------------------------------------------------------------------------
(* What the documentation says and the code does not keep                  *)

\* "nil when followLinks is off, or for the root when the root couldn't be
\* stat'ed" (walkman.go:36): a nil chain is an expected value, not a panic.
NilChainIsExpected == consumer # "dead"

\* "a symlink that resolves to a directory already present in this directory's
\* ancestor chain is reported as ErrSymlinkCycle" (walkman.go:306): a reported
\* link does lead to a directory on the path it was found on.
CyclesAreReal ==
    \A b \in BagToSet(received) : \A x \in b.errs : x.err = "cycle" =>
        \E k \in 0 .. Len(b.dir) :
            Promise!DirAt(conf, SubSeq(b.dir, 1, k)) = Promise!DirAt(conf, x.at)
=============================================================================
