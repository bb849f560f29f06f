------------------------------- MODULE ReadDir -------------------------------
(***************************************************************************)
(* readDirRaw and readEntries, system call by system call: what Walkman    *)
(* takes as one record after another of a listing comes out of a buffer    *)
(* that each getdents64 overwrites and the next directory reuses, through  *)
(* descriptors that all workers draw from one table.                       *)
(*                                                                         *)
(* The workers visit unrelated directories at the depth limit: an item is  *)
(* taken, read, sent, and nothing is spawned.                              *)
(***************************************************************************)
EXTENDS Naturals, Sequences, FiniteSets, Bags, SequencesExt

CONSTANTS Worker,      \* the pool's workers
          Dir,         \* the directories
          Name,        \* names of entries other than "." and ".."
          Raw,         \* the records of each directory, "." and ".." included
          SkipSet,     \* walkConf.skipSet
          Items,       \* the items queued, of different paths at depth 1
          BufRecords   \* how many records the worker's buf has room for

Dots == {".", ".."}

DType == {"dir", "reg", "lnk", "unknown"}

ASSUME ReadDirAssumption ==
    /\ Raw \in [Dir -> Seq([name : Name \cup Dots, typ : DType, ino : Nat])]
    /\ SkipSet \subseteq Name /\ Name \cap Dots = {}
    /\ BufRecords \in Nat \ {0}
    /\ \A it \in Items : it.depth = 1
    /\ \A it, other \in Items : it.path = other.path => it = other

VARIABLES faulty,    \* the directories that cannot be read to their end
          queued,    \* the items no worker has taken yet
          pc,        \* where each worker stands
          read,      \* the locals of its readDirRaw and readEntries
          buf,       \* workerState.buf
          names,     \* what StoreBytes has copied to workerState.paths
          files,     \* the process's open files, by descriptor
          sent       \* the batches sent, one for each path at most

vars == <<faulty, queued, pc, read, buf, names, files, sent>>

\* Go's strings and slices do not hold characters: they point at a worker's buf,
\* by record, or at its string arena.
View(w, area, at) == [worker |-> w, area |-> area, at |-> at]

Chars(v) == IF v.area = "buf" THEN buf[v.worker][v.at].name ELSE names[v.worker][v.at]

NewRead(it) == [item |-> it, fd |-> 0, filled |-> 0, pos |-> 1,
                scratch |-> << >>, sawLink |-> FALSE, failed |-> FALSE]

NoRead == NewRead([path |-> << >>, dir |-> "missing", depth |-> 0, ancestor |-> << >>])

NoRecord == [name |-> ".", typ |-> "unknown", ino |-> 0]

-----------------------------------------------------------------------------
Init == /\ faulty \in SUBSET Dir
        /\ queued = Items
        /\ pc = [w \in Worker |-> "idle"]
        /\ read = [w \in Worker |-> NoRead]
        /\ buf = [w \in Worker |-> [i \in 1 .. BufRecords |-> NoRecord]]
        /\ names = [w \in Worker |-> << >>]
        /\ files = [fd \in {} |-> << >>]
        /\ sent = {}

Take(w, it) ==
    /\ pc[w] = "idle"
    /\ it \in queued
    /\ queued' = queued \ {it}
    /\ pc' = [pc EXCEPT ![w] = "open"]
    /\ read' = [read EXCEPT ![w] = NewRead(it)]
    /\ UNCHANGED <<faulty, buf, names, files, sent>>

\* The kernel hands out the lowest descriptor that is free; 0 to 2 are taken.
FreeFd == CHOOSE fd \in 3 .. 3 + Cardinality(DOMAIN files) :
              /\ fd \notin DOMAIN files
              /\ 3 .. fd - 1 \subseteq DOMAIN files

Open(w) ==
    /\ pc[w] = "open"
    /\ read[w].item.dir \in Dir
    /\ files' = [fd \in DOMAIN files \cup {FreeFd} |->
                    IF fd = FreeFd THEN [dir |-> read[w].item.dir, next |-> 1] ELSE files[fd]]
    /\ read' = [read EXCEPT ![w].fd = FreeFd]
    /\ pc' = [pc EXCEPT ![w] = "read"]
    /\ UNCHANGED <<faulty, queued, buf, names, sent>>

\* Nothing is open yet, and the deferred Close not registered.
OpenFails(w) ==
    /\ pc[w] = "open"
    /\ read[w].item.dir \notin Dir \ faulty
    /\ read' = [read EXCEPT ![w].failed = TRUE]
    /\ pc' = [pc EXCEPT ![w] = "send"]
    /\ UNCHANGED <<faulty, queued, buf, names, files, sent>>

\* Every record in buf has been parsed: the loop calls getdents64 again.
Parsed(w) == pc[w] = "read" /\ read[w].pos > read[w].filled

\* getdents64 returns some of the records that are left, from the start of buf;
\* what was behind them stays there.
Fill(w, n) ==
    LET f == files[read[w].fd]
    IN  /\ n \in 1 .. Len(Raw[f.dir]) - f.next + 1
        /\ buf' = [buf EXCEPT ![w] = [i \in 1 .. BufRecords |->
                       IF i <= n THEN Raw[f.dir][f.next + i - 1] ELSE @[i]]]
        /\ files' = [files EXCEPT ![read[w].fd].next = @ + n]

\* Faulty variant: the position in buf is not taken back to its start.
Bug_GetDents(w, n) ==
    /\ Parsed(w)
    /\ Fill(w, n)
    /\ read' = [read EXCEPT ![w].filled = n]
    /\ UNCHANGED <<faulty, queued, pc, names, sent>>

GetDents(w, n) ==
    /\ Parsed(w)
    /\ Fill(w, n)
    /\ read' = [read EXCEPT ![w].filled = n, ![w].pos = 1]
    /\ UNCHANGED <<faulty, queued, pc, names, sent>>

GetDentsEOF(w) ==
    /\ Parsed(w)
    /\ files[read[w].fd].dir \notin faulty
    /\ files[read[w].fd].next > Len(Raw[files[read[w].fd].dir])
    /\ pc' = [pc EXCEPT ![w] = "close"]
    /\ UNCHANGED <<faulty, queued, read, buf, names, files, sent>>

\* Faulty variant: Close is not deferred, and this return leaves it out.
Bug_GetDentsFails(w) ==
    /\ Parsed(w)
    /\ files[read[w].fd].dir \in faulty
    /\ read' = [read EXCEPT ![w].failed = TRUE]
    /\ pc' = [pc EXCEPT ![w] = "send"]
    /\ UNCHANGED <<faulty, queued, buf, names, files, sent>>

GetDentsFails(w) ==
    /\ Parsed(w)
    /\ files[read[w].fd].dir \in faulty
    /\ read' = [read EXCEPT ![w].failed = TRUE]
    /\ pc' = [pc EXCEPT ![w] = "close"]
    /\ UNCHANGED <<faulty, queued, buf, names, files, sent>>

\* Faulty variant: the entry keeps the view of buf instead of a copy.
Bug_OnEntry(w, name, r) ==
    /\ read' = [read EXCEPT ![w].pos = @ + 1,
                            ![w].scratch = Append(@, [name |-> name, typ |-> r.typ, ino |-> r.ino]),
                            ![w].sawLink = @ \/ r.typ = "lnk"]
    /\ UNCHANGED names

\* readEntries' callback: the name is copied by StoreBytes.
OnEntry(w, name, r) ==
    /\ names' = [names EXCEPT ![w] = Append(@, Chars(name))]
    /\ read' = [read EXCEPT ![w].pos = @ + 1,
                            ![w].scratch = Append(@, [name |-> View(w, "paths", Len(names'[w])),
                                                      typ |-> r.typ, ino |-> r.ino]),
                            ![w].sawLink = @ \/ r.typ = "lnk"]

Parse(w) ==
    LET name == View(w, "buf", read[w].pos)
    IN  /\ pc[w] = "read"
        /\ read[w].pos <= read[w].filled
        /\ \/ /\ Chars(name) \in Dots \cup SkipSet
              /\ read' = [read EXCEPT ![w].pos = @ + 1]
              /\ UNCHANGED names
           \/ /\ Chars(name) \notin Dots \cup SkipSet
              /\ OnEntry(w, name, buf[w][read[w].pos])
        /\ UNCHANGED <<faulty, queued, pc, buf, files, sent>>

\* The deferred syscall.Close(fd), on every return after the open.
Close(w) ==
    /\ pc[w] = "close"
    /\ files' = [fd \in DOMAIN files \ {read[w].fd} |-> files[fd]]
    /\ pc' = [pc EXCEPT ![w] = "send"]
    /\ UNCHANGED <<faulty, queued, read, buf, names, sent>>

\* The caller copies the entries, or reports the one error, and returns.
Send(w) ==
    /\ pc[w] = "send"
    /\ sent' = sent \cup {[dir |-> read[w].item.path, failed |-> read[w].failed,
                            entries |-> IF read[w].failed THEN << >> ELSE read[w].scratch]}
    /\ pc' = [pc EXCEPT ![w] = "idle"]
    /\ read' = [read EXCEPT ![w] = NoRead]
    /\ UNCHANGED <<faulty, queued, buf, names, files>>

Quiet == queued = {} /\ (\A w \in Worker : pc[w] = "idle") /\ UNCHANGED vars

Step(w) == \/ Open(w) \/ OpenFails(w)
           \/ \E n \in 1 .. BufRecords : GetDents(w, n)
           \/ GetDentsEOF(w) \/ GetDentsFails(w)
           \/ Parse(w) \/ Close(w) \/ Send(w)

Next == \/ \E w \in Worker : \E it \in queued : Take(w, it)
        \/ \E w \in Worker : Step(w)
        \/ Quiet

Spec == Init /\ [][Next]_vars

-----------------------------------------------------------------------------
(* Properties                                                              *)

\* Every variable has its type, and the loop never parses what lies in buf
\* behind the records of the last getdents64.
TypeOK ==
    /\ queued \subseteq Items
    /\ pc \in [Worker -> {"idle", "open", "read", "close", "send"}]
    /\ \A w \in Worker : /\ read[w].filled \in 0 .. BufRecords
                         /\ read[w].pos \in 1 .. read[w].filled + 1
                         /\ names[w] \in Seq(Name)
    /\ DOMAIN files \subseteq Nat \ (0 .. 2)

\* A worker's directory is open under its descriptor as long as it reads, no two
\* workers share one, and nothing else is open: no way out of readDirRaw leaves
\* a descriptor behind or closes one twice, under another worker's hands.
DescriptorsBalance ==
    LET Holders == {w \in Worker : pc[w] \in {"read", "close"}}
    IN  /\ DOMAIN files = {read[w].fd : w \in Holders}
        /\ \A v, w \in Holders : read[v].fd = read[w].fd => v = w
        /\ \A w \in Holders : files[read[w].fd].dir = read[w].item.dir

-----------------------------------------------------------------------------
(* The walker as Walkman has it                                            *)

NotDots(records) == {i \in DOMAIN records : records[i].name \notin Dots}

\* How many entries the first n records hold.
Count(records, n) == Cardinality({i \in NotDots(records) : i <= n})

\* The records without "." and "..", in their order.
Listed(records) ==
    [k \in 1 .. Count(records, Len(records)) |->
        records[CHOOSE i \in NotDots(records) : Count(records, i) = k]]

\* An Entry as its consumer sees it, now.
Seen(e) == [name |-> Chars(e.name), typ |-> e.typ, ino |-> e.ino]

SeenAll(entries) == [i \in DOMAIN entries |-> Seen(entries[i])]

Unreadable(path) == {[at |-> path, err |-> "unreadable"]}

WalkerConf ==
    [followLinks |-> FALSE, maxDepth |-> 1, skipSet |-> SkipSet, root |-> "missing",
     rootStat |-> FALSE, list |-> [d \in Dir |-> Listed(Raw[d])], faulty |-> faulty]

WalkerPc(w) ==
    CASE pc[w] = "idle"             -> "idle"
      [] pc[w] \in {"open", "read"} -> "read"
      [] OTHER -> IF read[w].failed THEN "sendErr" ELSE "send"

\* How many records of the listing the worker has been through.
Through(w) == files[read[w].fd].next - 1 - (read[w].filled + 1 - read[w].pos)

WalkerTask(w) ==
    LET r == read[w]
    IN  [item    |-> r.item,
         entries |-> IF r.failed THEN << >> ELSE SeenAll(r.scratch),
         pos     |-> IF pc[w] # "read" THEN 1
                     ELSE Count(Raw[r.item.dir], Through(w)) + 1,
         keep    |-> 1,
         errs    |-> IF r.failed THEN Unreadable(r.item.path) ELSE {},
         sawLink |-> r.sawLink /\ ~ r.failed,
         spawn   |-> EmptyBag]

SeenBatch(b) == [dir |-> b.dir, entries |-> Range(SeenAll(b.entries)),
                 errs |-> IF b.failed THEN Unreadable(b.dir) ELSE {}]

Walker == INSTANCE Walkman
            WITH Configs <- {}, ResultBuffSize <- 0, MayBreak <- FALSE, SortsInPlace <- FALSE,
                 conf <- WalkerConf, pc <- [w \in Worker |-> WalkerPc(w)],
                 task <- [w \in Worker |-> WalkerTask(w)], pending <- SetToBag(queued),
                 chan <- << >>, received <- SetToBag({SeenBatch(b) : b \in sent}),
                 closed <- FALSE, consumer <- "range"

\* Reading is what Walkman makes of it: every step is a step of Walkman or leaves
\* its state alone.  A listing arrives whole and in order however getdents64 cuts
\* it up, or as the one error, and no entry ever changes after it was stored,
\* although its buffer is overwritten again and again.
ImplementsWalker == [][Walker!Next]_(Walker!vars)
=============================================================================
