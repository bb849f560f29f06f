# A TLA+ model of walkman

`walkman` is a parallel directory walker in Go. This directory holds its
specification: modules translated from the source, TLC configurations that
check them on small instances, and theorems checked by TLAPS. File and line
references are to the repository (`src/`).

## The system

| Part | State | Operations | Talks to |
| --- | --- | --- | --- |
| **Walker** `walkman.go` | options (`walkConf`); per worker: entry scratch, spawn buffer, arenas | `Walk`, `visit`, `visitSym`, `Wait` | pool (items), result channel (batches), arenas, kernel |
| **Directory reading** `readdir_linux.go`, `readEntries` | a 128 KiB buffer per worker | `openDirZ`, `readDirRaw`, its `onEntry` callback | kernel: `openat`, `getdents64` |
| **Ancestor chain** `ancestors.go` | links `(ino, dev, parent)` in one shared store | `pushAncestor`, `hasCycle` | GenericStore |
| **GenericStore** `stores/generic_store.go` | `tail`, and `buf` and `off` of each node | `Append`, `AppendSlice` (`ensureCap`) | all workers at once, no lock |
| **Result arena** `result_arena.go` | entry nodes, DirErrs, one per worker | `storeEntries`, `storeDirErr`, `sliceDirErr` | worker writes, consumer reads |
| **StringStore** `stores/string_store.go` | byte nodes, one per worker | `StoreBytes`, `StorePathZ`, ... | paths go to `openat` as C strings |
| **Command line** `main/main.go` | flags, tallies | one loop over the channel per run | Walker |
| **workstealpool** (library, not in the repository) | deques, result channel | `Submit`, `Run`, `Wait` | Walker |
| Rust tools, benchmark scripts | none of the walker's | | |

`Walk` stats the root (when links are followed), submits one item and returns
the result channel. Each worker takes an item - its own or a stolen one - reads
the directory, sends one `DirBatch`, spawns an item per child directory, and
takes the next. `visit` sends first and finds the children in the slice it has
just sent; `visitSym` makes one pass over the listing that resolves links,
drops what leads nowhere or in a circle, compacts the slice in place and
collects the children, and only then sends and spawns. The channel closes when
nothing is queued or running; the consumer's loop ends and it calls `Wait`.

What is hard here, and what correctness means for each part:

* **Walker**: workers, stealing, a bounded channel and a consumer at its own
  pace interleave freely. The consumer must see each directory once, parents
  first, with the right contents, and nothing may be missing when the loop
  ends. Links may form cycles; the walk must end and yet not drop anything that
  is not a cycle. Directories may fail half way through a listing. A slice is
  shared between a worker that still reads it and the consumer that owns it.
* **Directory reading**: a listing comes in pieces, in a buffer that is reused; names
  are views of it until they are copied; each way out must close the descriptor.
* **GenericStore**: goroutines race with plain loads and two CompareAndSwaps.
  Ranges must be disjoint and in bounds, what is appended must be read back for
  ever, a lost race must waste no node, and an append must return.
* **Ancestor chain**: identities are pairs `(ino, dev)` and not all of them are
  the directory's own (`walkman.go:400`).
* **Result arena and StringStore**: runs handed out must never be written again,
  across node boundaries and growth; a path must be followed by a NUL.

## Modules

| Module | Models |
| --- | --- |
| `Tree` | what a walk is given: the options, and the file system as `getdents64`, `openat` and `stat` show it |
| `TreeWalk` | abstract: what the stream of batches promises the consumer |
| `Walkman` | the walker: workers in `visit` and `visitSym`, pool, channel, consumer |
| `Trees` | small trees and options for TLC |
| `MCWalkman` | the instances of `Walkman` |
| `WalkmanProofs`, `WalkmanStream` | theorems about `Walkman`: types, order and links; what the stream holds, which is what `TreeWalk` promises |
| `Arena` | abstract: what any of the stores promises: a handle reads what was offered, for ever |
| `GenericStore` | the lock-free store, one step per atomic operation |
| `MCGenericStore` | its TLC instances |
| `GenericStoreProofs` | theorems about `GenericStore` |
| `Slices` | Go slices over a heap of arrays: read, copy, capacity |
| `ResultArena`, `MCResultArena`, `ResultArenaProofs` | one worker's entry nodes, DirErrs and scratch, and the batches its consumer holds |
| `StringStore`, `MCStringStore`, `StringStoreProofs` | one worker's names and paths, byte by byte |
| `ReadDir`, `MCReadDir`, `ReadDirProofs` | `readDirRaw` and `readEntries`, one system call or record at a time; implements the reading steps of `Walkman` |
| `Ancestors`, `MCAncestors`, `AncestorsProofs` | chains as pointers into a `GenericStore` that several workers share: composed of that module and the walker's use of it |
| `Cli`, `MCCli`, `CliProofs` | the command line, over any stream `TreeWalk` allows |

### Walkman

A *configuration* (`conf`, fixed by the initial state) is a file system with a
set of options. `Dir` names each directory once, however many paths lead to it;
`list[d]` are its records in the kernel's order, `to[d][n]` is what `d/n` leads
to with links followed, `id[d]` its `(ino, dev)`; directories in `faulty` fail
at `openat` or at some `getdents64`. A path is the sequence of names from the
root, so joining a name is `Append` and separators are left out.

A worker has a location `pc[w]` and a `task[w]`: its item and the locals of
`visit`/`visitSym` (entries, loop index `pos`, `keep`, errors, `sawLink`, the
spawn buffer). One step is one record read (`ReadRecord`), one entry resolved
(`Resolve`) or scanned (`Scan`), one send, one call of `spawn`. What lies in
between touches memory of that worker only, with one exception: the run of
entries that `visit` has already sent, which is why `Scan` is a step per entry
and `SortSwap` lets a consumer reorder the run. The ancestor chain of an item is
the sequence of its links, `<< >>` being nil; that nobody overwrites a link is
what `GenericStore` is about. `Resolve` has one disjunct per branch of the loop
body; `PanicOnNil` is the remaining one, where line 400 dereferences a nil
chain, and a panic in a goroutine ends the program.

The pool is a bag of items and an idle worker may take any of them: every deque
discipline and every steal is one of these choices. A send appends to `chan`
while it holds fewer than `ResultBuffSize` batches; with capacity 0 it hands
the batch to a consumer that is in its loop. `Close` happens when nothing is
queued or running. The consumer starts the walk, receives, may stop receiving
at any moment, before the first batch too (`Break`, if `MayBreak`), may sort what
it received (`SortsInPlace`), and calls `Wait` after its loop.

`Entries` is compared as a set, since no property depends on its order, and the
`DirErr`s as a set with full paths for names. d_types other than directory,
regular file and link are all `"unknown"`: the code treats them alike.

### GenericStore

`size` and `off` describe the nodes in the order they were allocated, `tail` is
the index of the node the store points at. An append goes through `loadTail`,
`loadOff` (with the test of the room left), `grow` and `claim` - the two
CompareAndSwaps, each with an action for success and one for failure - and
`write`, the copy into the claimed range. The copy is a single step because no
one else has the range, which is exactly what `Disjoint` checks. A request
longer than a node becomes a node of its own that `tail` never points at. Each
element records who appended it and when, so that a foreign or stale element is
seen by `ImplementsArena`.

### ResultArena and StringStore

Both belong to one worker, so their operations are single steps; what makes them
hard is aliasing. `Slices` has Go's view of memory: a slice is a window on an
array, and its capacity reaches to the array's end. In `ResultArena` the worker
goes through its directories - `ReadEntries` fills the scratch and takes the
mark, `StoreDirErr` any number of times, `StoreEntries`, `Send` - while the
consumer keeps all batches; in `AppendingSpec` it also appends to any of them at
any moment. A heap array is allocated for each node, each growth of `dirErrs` or of
the scratch, and each large listing. In `StringStore` a path is copied in its
three pieces at the offsets the code computes, and `openat` is represented by
`Terminated`: the bytes up to the first NUL are the path. The history variable
`asked` has the text each call was given to store or, by `Joined`, to join: what
the strings must read as, and nothing in the store depends on it.

### ReadDir

Workers take items at the depth limit, read them, send, and spawn nothing.
`files` is the process's table of open files, each with the kernel's position in
the directory; the kernel hands out the lowest free descriptor, so a number that
one worker gives back is the next one's. `GetDents` puts any number of the
records left (as many as fit) at the start of the worker's `buf` and leaves what
lies behind them. A name is a `View`: of a record in `buf`, as `nameBytes` is, or of the
string arena, as `StoreBytes` returns it. `Walker` maps this state to `Walkman`'s:
`pos` is the number of records other than `.` and `..` that the loop has been
through, and entries and sent batches are what their views show *now*, so a view
of a buffer that is overwritten would change a batch that was sent.
`openat`, each `getdents64` and the deferred `close` are separate steps.
Items have different paths, which is what `OneBatchPerDir` says of any walk, so the
batches sent are a set. `Listed` is the listing without `.` and `..`, by the number of
entries before each record; `MCReadDir` compares it with a loop over the records.

### Ancestors

The variables of `GenericStore` are shared with an instance of it, and `given`
holds the `ancestorEntry` passed to each `Append`. A worker with an item searches
(`HasCycle`, then one link per `Compare`) or pushes: `PushAncestor` starts an append,
`InAppend` are its atomic operations, and `Pushed` returns the address, which goes to
a child that any worker may take after `Spawn`. An item carries its `chain` as
`Walkman` has it, which only the properties look at. Memory nobody has written
reads as zero. Which directories link where is left open: a worker may search for and
push any identity, within the device rule of `walkman.go:400`.

### Cli

A run is a walk of `TreeWalk`: `Receive` is one of the batches it may deliver next
and what the loop's body counts. Integers have `Uint32` values; the depth flag is
cut to them, and the counters wrap. Each repetition of `--bench` starts over with the
same tree, another order, and another duration.

## Properties

For the walk:

* `TypeOK`: types, and the in-place filter never writes ahead of its read index.
* `OneBatchPerDir`: never two batches for one path.
* `ParentFirst`: a batch arrives after the one that lists its directory.
* `Complete`: when the loop has ended, every directory listed above the depth
  limit has its batch.
* `LinkHopsDistinct`: no path enters a directory twice through links.
* `ImplementsTreeWalk`: refinement of `TreeWalk`, with
  `delivered <- received` and `finished <- consumer \in {"drained", "done"}`.
  `TreeWalk` computes each batch by following the path from the root with full
  knowledge of every directory on it, so the run compares the concurrent walker
  entry by entry with a sequential one.
* `Terminates`: under fairness a walk ends unless its consumer leaves the loop.
* `BreakComesToRest`: when it does leave, at whatever batch, or calls `Wait` before
  any, the walk comes to rest with nothing dropped: either every worker blocks at its
  send, or there is no item left to take, and each directory announced has its batch
  with the consumer or in the channel, or waits in the pool or with a worker.

For the store: `TypeOK`, `Disjoint`, `WasteBounded` (a node is left only if some
request does not fit), `ImplementsArena` (refinement of `Arena`), and
`AppendsReturn` under fairness.

For the per-worker arenas: `HeldIsFrozen` (nothing a sent batch points at is
still writable by the worker), `Terminated` (a NUL ends each path, for ever), and
again `ImplementsArena`: for strings, each reads as what its own call was given
(`Stored` pairs the two, `Answer` wants them equal).

For reading: `DescriptorsBalance` (open files are exactly those of the workers that
read, one each) and `ImplementsWalker` (each step is a step of `Walkman` or leaves its
state alone). For chains: `ChainsIntact` (an item's pointers lead through the
identities of its path to nil) and `AnswersRight` (`hasCycle` agrees with the whole
chain); together they are what `Walkman`'s `PushAncestor` and `HasCycle` assume. For the
command line: `TalliesExact` (what is printed are the sizes of three sets of entries,
by d_type, and of the set of errors of the whole tree), `StatsOrdered`, and `Exits`
under fairness.

## Runs

| Run | Instance | Shows |
| --- | --- | --- |
| `walk_plain` | 3 workers, channel of 1, consumer may stop at any moment; a tree of 6 directories with depth limits 0-2, skip lists, unreadable directories, a root that is missing or empty | safety, refinement and ending of `visit` |
| `walk_links` | 3 workers, unbuffered channel, consumer may sort; cross links, links to self, upward, above the root, to files, sockets, nothing, objects with no `Stat_t`; a root that appears late | safety, refinement and ending of `visitSym` |
| `store` | 3 goroutines, 1 append each of 0 to 3 elements, nodes of 2 | all interleavings of full nodes and lost races, empty, exact and oversized requests; `AppendsReturn` |
| `ancestors` | 3 workers, 2 links each, nodes of 2, two identities that share an inode number | chains and answers, and repeated appends, under every interleaving |
| `readdir` | 2 workers, 3 paths, a listing of 5 records and one of 3, a buffer of 2 | listings, entries and descriptors, wherever a listing is cut or fails |
| `cli` | 3 trees, integers of 2 bits, depth flags 0, 1, 2, 4 and 6, links followed or not, 1 run or 3 repetitions | counters, statistics, number of runs, exit |
| `arena_held` | 4 directories of 0-5 entries and 0-2 errors, nodes of 3, room for 1 error at first | batches read right and never change, and the worker writes to no held element |
| `strings` | 4 strings or joins of 1 to 10 bytes, nodes of 6 | the contents each call asked for, separators and NULs at every boundary |
| `doc_nil_chain`, `doc_cycles`, `doc_sort`, `doc_append` | see below | the code does not keep a documented promise |

*Why the bounds are enough.* Three workers let one send, one scan and one steal
at once; no action involves more than one worker. A channel of 0 or 1 is
full whenever it matters. The trees hold every kind of record, before and after
a dropped one, links that form cycles of length one and two, and one directory
reached by several paths. With three goroutines on nodes of two elements, one
can lose each of its races to a different goroutine. That a goroutine comes back
to the store is in `ancestors`, where six links fill several nodes (and for any
number of goroutines and appends, `Disjoint` and `ImplementsArena` are proved). Two
records in the buffer are enough to leave an old one behind a new one; of the two
listings, one needs three or more calls, and one worker may read both in the
same buffer. With counters modulo 4 the trees make them wrap. On nodes of two or three elements, or six
bytes, requests end at every distance from a node's end and four of them cross
it more than once; the elements themselves are told apart by directory and
position. Workers and goroutines are
interchangeable, and `readdir` and `ancestors` use that symmetry; runs with a liveness
property do not. `MaxAppends`, `MaxDirs`, `MaxErrs` and `MaxStores` bound histories; no bound is
needed for the walk, which is finite by itself.

*Fairness.* The Go scheduler runs every goroutine that can run: weak fairness of
each worker's `Step`, of the pool's handing out items (some worker takes some
item - which one is not promised), of `Walk` and `Close`, and of the consumer's
receive. `Break` and `SortSwap` are not fair. For the store, weak fairness of a
goroutine's steps is enough although a goroutine may lose races: the bounded
number of appends makes the others stop. An unbounded run of appends by others
may starve one goroutine - the store is lock-free, not wait-free - and no
property says otherwise. In `Cli` weak fairness of `Next` stands for a walk that
goes on, which is `Terminates` of `Walkman`.

## Where the code differs from its documentation

* `doc_nil_chain`: `walkman.go:36` allows a nil ancestor for a root that could
  not be stat'ed; `walkman.go:400` dereferences it. Needs a root that appears,
  or becomes accessible, between `os.Stat` and `openat`.
* `doc_cycles`: below a mount point the chain holds inherited devices and
  covered inodes, so a link to an unrelated directory can be dropped as a cycle
  (`walkman.go:306`).
* `doc_sort`: sorting a received batch in place, while `visit` still scans the
  same slice, can make it miss a subtree (`README.md:160`, `README.md:202`).
* `doc_append`: `storeEntries` does not cap the slice it hands out, so a consumer
  that appends to one batch's `Entries` overwrites the next batch
  (`README.md:134`). `HeldIsFrozen` shows that the worker itself never does.

Not runs: `main.go:62` cuts `--max-depth N` to 32 bits, so a multiple of 2^32
lifts the limit, which `main.go:8` and `README.md:162`, `218` say of 0 alone,
and any other value beyond 2^32 sets a smaller limit than N. `Configured` makes
the same cut; no property is stated about it, as the one conversion says it
all. `README.md:205` calls a `break` "free", but workers stay blocked on the
channel, which is then never closed (`BreakComesToRest` says how the walk
stops). nil `Entries` are documented to mean an unreadable directory
(`walkman.go:97`, `README.md:132`), and `storeEntries` returns nil for an empty
one too. And, in a sentence that can be read in two ways, `README.md:132` says
that child directories are not included in `Entries`; they are
(`walkman_test.go:338` relies on it), and the model follows the code.

## Proofs

All theorems hold for every value of the constants that satisfies the named
assumptions, so for any tree, any number of workers, goroutines or directories,
any node size, and any channel capacity, unbuffered included:
`TreeAssumption` (configurations are well typed; a directory lists no name twice; a
root that was stat'ed exists), `WalkmanAssumption` (a finite non-empty set of
workers, a natural capacity), `GenericStoreAssumption` (nodes of at least one
element), and `AncestorsAssumption`, `ReadDirAssumption`, `ResultArenaAssumption`
and `StringStoreAssumption`, which say the same of those modules' sizes and bounds
(`ReadDirAssumption` also that the items queued have different paths, at the depth limit).
`CliAssumption` says what the flags are and that no run takes longer than `Forever`, the
largest `time.Duration`.

### The walk

* `WalkmanProofs!TypeCorrect`: `Spec => []TypeOK`. The invariant `TypeInv`
  strengthens `TypeOK` where it is not inductive (`Located`): a task that still
  reads has kept nothing, `visit` reaches its send at the start of a listing that
  exists, and only `visitSym` resolves and only `visit` scans.
* `WalkmanProofs!ParentsComeFirst`: `Spec => []ParentFirst`. `OrderInv`
  generalises the property from the stream to everything that is on its way:
  each batch in the channel is announced by the batches received or ahead of it
  (`StreamOrder`), each queued item by a batch already sent (`PoolOrder`), and
  each worker's children by the batch it has sent or is about to send
  (`TasksOrder`). Sends only add to what is announced and the channel keeps its
  order.
* `WalkmanProofs!LinksEndInNewPlaces`: `Spec => []LinkHopsDistinct`. `LinkInv` says
  that an item's `dir` is what its path leads to, that its chain holds the identity of
  each directory its path enters by a link, and that no two of these are one directory
  (`Linked`); and that entries which may still become children are records of their
  directory (`Links`), so that a record of type directory is not also a link. No
  hypothesis about the tree: wrong devices in the chain only make it longer.
* `WalkmanStream!PathsAreVisitedOnce`: `Spec => []OneBatchPerDir`. A path is in one
  place at a time: `VisitsOnce` (no two of queued and visited items share one),
  `Unsent` (neither is in the stream before its send), `StreamOnce` (the stream has
  each path once). For a child to be new, its worker must still have it to itself
  (`Childless`; by `ParentFirst`'s invariant any other trace of it needs the listing) and
  must make it once (`TasksOnce`): the places of the listing that are still needed
  (`Live`: during the in-place filter, those kept and those not yet read) hold
  distinct names. A concurrent sort moves directories only towards places already
  scanned or keeps them ahead, so no hypothesis about the consumer is needed.
* `WalkmanStream!NothingIsLost`: `~SortsInPlace => (Spec => []Complete)`.
  `CoverInv` accounts for each announced directory: its batch is sent, its item
  is queued, or a worker holds it (`AllCovered`) - reading it, having it in its
  spawn bag, or with the entry still to scan. Before the send the bag of a
  `visitSym` task has every directory it has kept, and depths agree with paths
  (`TasksKeep`). The pool closes only when nothing is queued or held (`Books`),
  so then all is sent. The hypothesis is needed: `doc_sort` is the counterexample.
* `WalkmanStream!WalkIsATreeWalk`:
  `~SortsInPlace => (Spec /\ Honest(conf) => ImplementsTreeWalk)`, the refinement of
  `TreeWalk`. A receive, or a send on an unbuffered channel, maps to `Deliver`, the
  end of the loop to `Finish`, and every other step is a stutter (`NextImplements`).
  That the batch is new and announced, and that none is missing at the end, follows
  from the invariants above; that it has the contents `BatchAt` gives is `ContentInv`:
  what has been read are the records so far (`Listing`); half way through the in-place
  filter, what is kept, what is reported and what is yet to be read make up the
  directory (`Resolving`); and a chain has exactly the identities of its path (`Chained`).
  The last is true only under `Honest`, which concerns walks that follow links: no
  directory is a mount point, so that inode of the record and device of the parent are its
  identity, and a root that can be opened could be stat'ed. `doc_cycles` and
  `doc_nil_chain` are what happens otherwise; `walk_links` has one configuration (a root that
  appears late) outside `Honest`, where the refinement still holds because the panic comes first.

### The stores

* `GenericStoreProofs!StoreTypeCorrect` and `RangesAreDisjoint`:
  `Spec => []TypeOK` and `Spec => []Disjoint`. The invariant says what a
  goroutine knows at each atomic operation about the node it loaded (`Knows`) and
  that each claimed range lies below its node's `off` (`Below`). A claim
  succeeds only on the `off` that was read, so it starts where all earlier
  ranges have ended; `off` never decreases.
* `GenericStoreProofs!NodesAreNotWasted`: `Spec => []WasteBounded`. A
  goroutine about to swap in a node has found the old one too full for its request
  (`Wanting`); `off` only grows, so it still is.
* `GenericStoreProofs!AppendsAreKept`: `Spec => ImplementsArena`, the refinement
  of `Arena`. `Whole` adds to the invariant that a goroutine claims all it was
  asked for and that a returned range is written in full. A write maps to
  `Arena!Store`: its cells are apart from those of every other range, so all other
  handles read what they read before; every other step is a stutter.
* `ResultArenaProofs!ArenaTypeCorrect`, `BatchesAreFrozen` and `BatchesAreKept`:
  `TypeOK`, `HeldIsFrozen` and `ImplementsArena`, the last two of the worker's
  own specification (a consumer that appends breaks them: `doc_append`). The inductive invariant
  keeps the three arrays the worker writes to apart (`Buffers`) and gives each batch
  windows that are empty, in arrays the worker has left, or behind what it still
  writes (`Frozen`): every later write goes elsewhere, and every move of a buffer
  goes to a new array. `Contents` says what the directory at hand has in the
  scratch, the arena and `dirErrs`, so that what is sent is its own.
* `StringStoreProofs!StringsTypeCorrect`, `PathsStayTerminated` and
  `StringsAreKept`: `TypeOK`, `Terminated` and `ImplementsArena`. Each call stores just the
  text it was given, or joins its parent and child (`JoinWritten`: the three copies write
  what `Joined` says), and that text is what `asked` has for it (`StoresRefines`, with
  `Tracked` for the history). A string's extent,
  NUL included, lies below `off` or in a node that was left (`Frozen`), and nothing was
  ever written above `off`, so the byte that terminates is the zero the node was made
  with.
  Both start with lemmas about `Slices`: what a copy into a window writes and what it
  leaves, when two windows are apart, and what growth preserves.

### Reading and chains

* `ReadDirProofs!ReadDirTypeCorrect` and `DescriptorsAreBalanced`: `TypeOK` and
  `DescriptorsBalance`. `DescriptorsBalance` is inductive together with the types
  (`Position`: `pos` stays within what the last call filled) and with a finite table
  of files, whose lowest free number exists and is nobody's (`LowestFree`).
* `ReadDirProofs!ReadingIsAWalkersReading`: `Spec => ImplementsWalker`, the refinement
  of `Walkman`. `SimInv` adds to that invariant what is needed to follow the walker: in
  the buffer, up to `filled`, are the records before the kernel's position (`Buffered`);
  every stored name is a view of the string arena, which only grows, so no `getdents64`
  can change it (`NamesStored`); and paths queued, in work and sent are distinct
  (`Ownership`). A record that is an entry maps to `ReadRecord`, the end to `ReadDone`,
  either failure to `ReadFails`; records of `.` and `..`, `openat`, `close` and each
  `getdents64` that returns records are stutters. That the record at hand is the next one
  of `Listed` follows from the number of entries before it.
* `AncestorsProofs!AncestorsTypeCorrect`, `ChainsStayIntact` and
  `CyclesAreFound`: `TypeOK`, `ChainsIntact` and `AnswersRight`. The steps of
  the store are steps of `GenericStore` by itself, so its invariants hold here (the
  theorems of `GenericStoreProofs` are used through an instance). What was written is
  some worker's, and stays (`Layout`); each item has a way from nil to its
  own pointer along which each link names the next identity of its path (`Chains`), and a
  search stands on that way with no match behind it (`Searching`). `ChainsIntact` reads the chain inwards by
  the recursive function `hop`, which is that way backwards.

### The command line

* `CliProofs!CliTypeCorrect` and `StatsAreOrdered`: `TypeOK` and `StatsOrdered`, for
  every tree, command line and width of the integers. `Paced` says that runs end when
  `--bench` is used up, and not before; `Timed` that `runs` times the shortest and `runs`
  times the longest run enclose the total, which the division at the end needs; `Walked`
  that each batch has finitely many entries and errors, so that counting them makes sense
  (`Counted`).

### What is only model-checked

`Cli!TalliesExact`, and the liveness properties, since TLAPS reasons about neither
fairness nor ENABLED. `TalliesExact` compares counters with the sizes of sets built from
directories that are reached level by level: it needs induction over data. The library's induction theorems take an operator as a parameter, which
the provers here cannot instantiate. Where a recursive function had to be unfolded
(`hop` along a chain, `DirAt` along a path) or a least number found, the proofs argue
from a least counterexample instead: a set of naturals that is not empty has a
least element (`LeastNat`, from `WFMin`).

## Abstractions and what is left out

The file system does not change during a walk, except for the root between
`os.Stat` and `openat`. The pool's deques are not modelled, nor the data race in
them that `README.md:306` describes. A walk is run once per `Walkman`. A
consumer that calls `Wait` before it has drained the channel breaks the contract
of `walkman.go:475`; it is modelled as one that breaks, at that batch or before the
first, and what it may still receive if `Wait` returns is left out. `spinOrYield` only yields.
`readDirRaw`'s guards against records of length 0 and names without NUL are left out
(the ABI excludes both), and so is a failing `onEntry`: `readEntries`' never fails. In
`Cli`, `--print`, `--quiet` and `--workers` are left out; a `--bench` beyond the range of
`int` or of memory is not considered. The Rust
tools and the scripts are other programs. `PROJECT.json` lists each part, and
each hazard with the properties that cover it.

## Plan

All parts listed as modelled are, and every safety property of the passing
runs is proved, `TalliesExact` of `Cli` excepted. That one waits for provers that can instantiate the
library's induction theorems.
