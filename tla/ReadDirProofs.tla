---------------------------- MODULE ReadDirProofs ----------------------------
(***************************************************************************)
(* Theorems about ReadDir, for every number of workers and directories,    *)
(* every listing and every size of buf: what is parsed is always a record  *)
(* of the listing, every descriptor that is opened is closed, once, and    *)
(* each step is a reading step of Walkman or one that the walker cannot    *)
(* see.                                                                    *)
(***************************************************************************)
EXTENDS ReadDir, SequenceTheorems, FiniteSetTheorems, WellFoundedInduction, TLAPS

Record == [name : Name \cup Dots, typ : DType, ino : Nat]

Location == {"idle", "open", "read", "close", "send"}

Views == [worker : Worker, area : {"buf", "paths"}, at : Nat]

ReadType == [item : Items \cup {NoRead.item}, fd : Nat,
             filled : 0 .. BufRecords, pos : Nat,
             scratch : Seq([name : Views, typ : DType, ino : Nat]),
             sawLink : BOOLEAN, failed : BOOLEAN]

Types ==
    /\ queued \subseteq Items
    /\ pc \in [Worker -> Location]
    /\ read \in [Worker -> ReadType]
    /\ buf \in [Worker -> [1 .. BufRecords -> Record]]
    /\ names \in [Worker -> Seq(Name)]

Position == \A w \in Worker : read[w].pos \in 1 .. read[w].filled + 1

\* An open file: the directory and the record the next getdents64 starts with.
FileType == {f \in [dir : Dir, next : Nat] : f.next >= 1}

Holders == {w \in Worker : pc[w] \in {"read", "close"}}

\* The process's table of open files.  That it is finite makes sure that there is
\* always a descriptor to hand out.
Table == /\ IsFiniteSet(DOMAIN files)
         /\ DOMAIN files \subseteq Nat \ (0 .. 2)
         /\ \A fd \in DOMAIN files : files[fd] \in FileType

Inv == Types /\ Position /\ Table /\ DescriptorsBalance

-----------------------------------------------------------------------------
(* Descriptors                                                             *)

\* However many files are open, there is a lowest free descriptor, and it is one
\* of those the kernel is looking at.
LEMMA LowestFree ==
    ASSUME NEW D, IsFiniteSet(D)
    PROVE  \E fd \in 3 .. 3 + Cardinality(D) : fd \notin D /\ 3 .. fd - 1 \subseteq D
<1> DEFINE S == 3 .. 3 + Cardinality(D)
           T == S \ D
           R == OpToRel(<, Nat)
<1>1. Cardinality(D) \in Nat
  BY FS_CardinalityType
<1>2. T # {}
  <2> SUFFICES ASSUME S \subseteq D PROVE FALSE
    OBVIOUS
  <2>1. Cardinality(S) <= Cardinality(D)
    BY FS_Subset
  <2>2. Cardinality(S) = Cardinality(D) + 1
    <3>1. Cardinality(S) = IF 3 > 3 + Cardinality(D) THEN 0 ELSE 3 + Cardinality(D) - 3 + 1
      BY <1>1, FS_Interval
    <3> QED
      BY <1>1, <3>1
  <2> QED
    BY <1>1, <2>1, <2>2
<1>3. \A i, j \in Nat : <<i, j>> \in R <=> i < j
  BY DEF OpToRel
<1>4. T \subseteq Nat
  BY <1>1
<1>5. IsWellFoundedOn(R, Nat)
  BY NatLessThanWellFounded
<1> HIDE DEF R, T
<1>6. PICK fd \in T : \A y \in T : ~ (<<y, fd>> \in R)
  BY <1>2, <1>4, <1>5, WFMin
<1>7. fd \in Nat /\ fd \in 3 .. 3 + Cardinality(D) /\ fd \notin D
  BY <1>4, <1>6 DEF T
<1>8. ASSUME NEW y \in 3 .. fd - 1 PROVE y \in D
  <2> SUFFICES ASSUME y \notin D PROVE FALSE
    OBVIOUS
  <2>1. y \in T /\ y < fd
    BY <1>1, <1>7 DEF T
  <2> QED
    BY <1>3, <1>4, <1>6, <1>7, <2>1
<1> QED
  BY <1>7, <1>8

LEMMA FreeFdIsFree ==
    ASSUME Table
    PROVE  FreeFd \in Nat \ (0 .. 2) /\ FreeFd \notin DOMAIN files
<1>1. FreeFd \in 3 .. 3 + Cardinality(DOMAIN files) /\ FreeFd \notin DOMAIN files
  BY LowestFree DEF Table, FreeFd
<1>2. Cardinality(DOMAIN files) \in Nat
  BY FS_CardinalityType DEF Table
<1> QED
  BY <1>1, <1>2

\* A worker that reads or closes finds its own file.
LEMMA OwnFile ==
    ASSUME Inv, NEW w \in Holders
    PROVE  /\ read[w].fd \in DOMAIN files /\ files[read[w].fd] \in FileType
           /\ files[read[w].fd].dir = read[w].item.dir
           /\ \A v \in Holders : v # w => read[v].fd # read[w].fd
<1>1. read[w].fd \in DOMAIN files /\ files[read[w].fd].dir = read[w].item.dir
  BY DEF Inv, DescriptorsBalance, Holders
<1>2. \A v \in Holders : v # w => read[v].fd # read[w].fd
  BY DEF Inv, DescriptorsBalance, Holders
<1> QED
  BY <1>1, <1>2 DEF Inv, Table

LEMMA BalanceByHolders ==
    DescriptorsBalance <=>
        /\ DOMAIN files = {read[w].fd : w \in Holders}
        /\ \A v, w \in Holders : read[v].fd = read[w].fd => v = w
        /\ \A w \in Holders : files[read[w].fd].dir = read[w].item.dir
BY DEF DescriptorsBalance, Holders

\* A step that opens and closes nothing.
LEMMA SameFiles ==
    ASSUME Inv, DOMAIN files' = DOMAIN files, Holders' = Holders,
           \A w \in Holders : /\ read'[w].fd = read[w].fd /\ read'[w].item = read[w].item,
           \A fd \in DOMAIN files : files'[fd] \in FileType /\ files'[fd].dir = files[fd].dir
    PROVE  Table' /\ DescriptorsBalance'
<1>1. Table'
  BY DEF Inv, Table, FileType
<1>2. DOMAIN files' = {read'[w].fd : w \in Holders'}
  BY BalanceByHolders DEF Inv
<1>3. \A v, w \in Holders' : read'[v].fd = read'[w].fd => v = w
  BY BalanceByHolders DEF Inv
<1>4. \A w \in Holders' : files'[read'[w].fd].dir = read'[w].item.dir
  BY OwnFile DEF Inv
<1>5. DescriptorsBalance'
  BY <1>2, <1>3, <1>4 DEF DescriptorsBalance, Holders
<1> QED
  BY <1>1, <1>5

-----------------------------------------------------------------------------
(* The actions                                                             *)

LEMMA NewReadType ==
    ASSUME NEW it \in Items \cup {NoRead.item}
    PROVE  NewRead(it) \in ReadType /\ NewRead(it).pos = 1 /\ NewRead(it).filled = 0
BY ReadDirAssumption DEF NewRead, ReadType

LEMMA NoReadType == NoRead \in ReadType /\ NoRead.pos = 1 /\ NoRead.filled = 0
<1>1. NoRead = NewRead(NoRead.item)
  BY DEF NoRead, NewRead
<1> QED
  BY <1>1, NewReadType

LEMMA InitInv == Init => Inv
<1> SUFFICES ASSUME Init PROVE Inv
  OBVIOUS
<1>1. Types
  <2>1. NoRecord \in Record
    BY DEF NoRecord, Record, Dots, DType
  <2> QED
    BY <2>1, NoReadType DEF Init, Types, Location
<1>2. Position
  BY NoReadType DEF Init, Position
<1>3. Holders = {} /\ DOMAIN files = {}
  BY DEF Init, Holders
<1>4. Table
  BY <1>3, FS_EmptySet DEF Table
<1>5. DescriptorsBalance
  BY <1>3, BalanceByHolders
<1> QED
  BY <1>1, <1>2, <1>4, <1>5 DEF Inv

LEMMA TakeInv ==
    ASSUME Inv, NEW w \in Worker, NEW it \in queued, Take(w, it)
    PROVE  Inv'
<1>1. /\ pc[w] = "idle" /\ pc' = [pc EXCEPT ![w] = "open"]
      /\ read' = [read EXCEPT ![w] = NewRead(it)]
      /\ queued' = queued \ {it} /\ UNCHANGED <<buf, names, files>>
  BY DEF Take
<1>2. it \in Items
  BY DEF Inv, Types
<1>3. Types'
  BY <1>1, <1>2, NewReadType DEF Inv, Types, Location
<1>4. Position'
  BY <1>1, <1>2, NewReadType DEF Inv, Types, Position
<1>5. Holders' = Holders /\ w \notin Holders
  BY <1>1 DEF Inv, Types, Holders
<1>6. Table' /\ DescriptorsBalance'
  BY <1>1, <1>5, SameFiles DEF Inv, Types, Table
<1> QED
  BY <1>3, <1>4, <1>6 DEF Inv

LEMMA OpenInv ==
    ASSUME Inv, NEW w \in Worker, Open(w)
    PROVE  Inv'
<1> DEFINE new == FreeFd
           file == [dir |-> read[w].item.dir, next |-> 1]
<1>1. /\ pc[w] = "open" /\ pc' = [pc EXCEPT ![w] = "read"]
      /\ read[w].item.dir \in Dir
      /\ files' = [fd \in DOMAIN files \cup {new} |-> IF fd = new THEN file ELSE files[fd]]
      /\ read' = [read EXCEPT ![w].fd = new]
      /\ UNCHANGED <<queued, buf, names>>
  BY DEF Open
<1>2. new \in Nat \ (0 .. 2) /\ new \notin DOMAIN files
  BY FreeFdIsFree DEF Inv
<1> HIDE DEF new
<1>3. /\ Types'
      /\ read'[w].fd = new /\ read'[w].item = read[w].item
      /\ read'[w].pos = read[w].pos /\ read'[w].filled = read[w].filled
      /\ \A v \in Worker \ {w} : read'[v] = read[v]
  <2>1. [read[w] EXCEPT !.fd = new] \in ReadType
    BY <1>2 DEF Inv, Types, ReadType
  <2>2. read' = [read EXCEPT ![w] = [read[w] EXCEPT !.fd = new]]
    BY <1>1
  <2>3. Types'
    BY <1>1, <2>1, <2>2 DEF Inv, Types, Location
  <2>4. read'[w] = [read[w] EXCEPT !.fd = new] /\ \A v \in Worker \ {w} : read'[v] = read[v]
    BY <2>2 DEF Inv, Types
  <2>5. DOMAIN read[w] = {"item", "fd", "filled", "pos", "scratch", "sawLink", "failed"}
    BY DEF Inv, Types, ReadType
  <2> QED
    BY <2>3, <2>4, <2>5
<1>4. Position'
  BY <1>3 DEF Inv, Position
<1>5. Holders' = Holders \cup {w} /\ w \notin Holders
  BY <1>1 DEF Inv, Types, Holders
<1>6. Table'
  <2>1. IsFiniteSet(DOMAIN files')
    BY <1>1, FS_AddElement DEF Inv, Table
  <2>2. file \in FileType
    BY <1>1 DEF FileType
  <2> QED
    BY <1>1, <1>2, <2>1, <2>2 DEF Inv, Table
<1>7. DescriptorsBalance'
  <2>1. \A v \in Holders : v # w /\ read'[v] = read[v] /\ read[v].fd \in DOMAIN files
    BY <1>3, <1>5, OwnFile DEF Holders
  <2>2. DOMAIN files' = {read'[v].fd : v \in Holders'}
    BY <1>1, <1>3, <1>5, <2>1, BalanceByHolders DEF Inv
  <2>3. \A u, v \in Holders' : read'[u].fd = read'[v].fd => u = v
    BY <1>2, <1>3, <1>5, <2>1, BalanceByHolders DEF Inv
  <2>4. \A v \in Holders' : files'[read'[v].fd].dir = read'[v].item.dir
    BY <1>1, <1>2, <1>3, <1>5, <2>1, OwnFile
  <2> QED
    BY <2>2, <2>3, <2>4 DEF DescriptorsBalance, Holders
<1> QED
  BY <1>3, <1>4, <1>6, <1>7 DEF Inv

LEMMA OpenFailsInv ==
    ASSUME Inv, NEW w \in Worker, OpenFails(w)
    PROVE  Inv'
<1>1. /\ pc[w] = "open" /\ pc' = [pc EXCEPT ![w] = "send"]
      /\ read' = [read EXCEPT ![w] = [read[w] EXCEPT !.failed = TRUE]]
      /\ UNCHANGED <<queued, buf, names, files>>
  BY DEF OpenFails
<1> DEFINE next == [read[w] EXCEPT !.failed = TRUE]
<1>2. Types'
  <2>1. read[w] \in ReadType /\ "send" \in Location
    BY DEF Inv, Types, Location
  <2>2. next \in ReadType
    BY <2>1 DEF ReadType
  <2> HIDE DEF next
  <2>3. read' = [read EXCEPT ![w] = next]
    BY <1>1 DEF next
  <2> QED
    BY <1>1, <2>1, <2>2, <2>3 DEF Inv, Types
<1>3. Position'
  BY <1>1 DEF Inv, Types, Position, ReadType
<1>4. Holders' = Holders /\ w \notin Holders
  BY <1>1 DEF Inv, Types, Holders
<1>5. Table' /\ DescriptorsBalance'
  BY <1>1, <1>4, SameFiles DEF Inv, Types, Table, Holders
<1> QED
  BY <1>2, <1>3, <1>5 DEF Inv

\* getdents64 puts records of the listing into buf and moves the file on.
LEMMA FillTypes ==
    ASSUME Inv, NEW w \in Holders, NEW n \in 1 .. BufRecords, Fill(w, n)
    PROVE  /\ buf' \in [Worker -> [1 .. BufRecords -> Record]]
           /\ DOMAIN files' = DOMAIN files
           /\ \A fd \in DOMAIN files : files'[fd] \in FileType /\ files'[fd].dir = files[fd].dir
<1> DEFINE fd == read[w].fd
           f == files[fd]
<1>1. /\ n \in 1 .. Len(Raw[f.dir]) - f.next + 1
      /\ buf' = [buf EXCEPT ![w] = [i \in 1 .. BufRecords |->
                     IF i <= n THEN Raw[f.dir][f.next + i - 1] ELSE buf[w][i]]]
      /\ files' = [files EXCEPT ![fd].next = @ + n]
  BY DEF Fill
<1>2. fd \in DOMAIN files /\ f \in FileType /\ w \in Worker
  BY OwnFile DEF Holders
<1>3. /\ f.dir \in Dir /\ f.next \in Nat /\ f.next >= 1
      /\ Raw[f.dir] \in Seq(Record) /\ Len(Raw[f.dir]) \in Nat /\ BufRecords \in Nat
  <2>1. f.dir \in Dir /\ f.next \in Nat /\ f.next >= 1
    BY <1>2 DEF FileType
  <2>2. Raw[f.dir] \in Seq(Record)
    BY <2>1, ReadDirAssumption DEF Record
  <2> QED
    BY <2>1, <2>2, LenProperties, ReadDirAssumption
<1> HIDE DEF f, fd
<1>4. \A i \in 1 .. BufRecords : i <= n => Raw[f.dir][f.next + i - 1] \in Record
  <2> SUFFICES ASSUME NEW i \in 1 .. BufRecords, i <= n
               PROVE  Raw[f.dir][f.next + i - 1] \in Record
    OBVIOUS
  <2>1. f.next + i - 1 \in 1 .. Len(Raw[f.dir])
    BY <1>1, <1>3
  <2> QED
    BY <1>3, <2>1, ElementOfSeq
<1>5. buf' \in [Worker -> [1 .. BufRecords -> Record]]
  <2>1. buf[w] \in [1 .. BufRecords -> Record]
    BY <1>2 DEF Inv, Types
  <2>2. [i \in 1 .. BufRecords |-> IF i <= n THEN Raw[f.dir][f.next + i - 1] ELSE buf[w][i]]
            \in [1 .. BufRecords -> Record]
    BY <1>4, <2>1
  <2> QED
    BY <1>1, <2>2 DEF Inv, Types
<1>6. DOMAIN files' = DOMAIN files
  BY <1>1
<1>7. ASSUME NEW d \in DOMAIN files
      PROVE  files'[d] \in FileType /\ files'[d].dir = files[d].dir
  <2>1. CASE d = fd
    <3>1. f = files[fd]
      BY DEF f
    <3>2. files'[d] = [f EXCEPT !.next = @ + n]
      BY <1>1, <1>2, <2>1, <3>1
    <3> QED
      BY <1>2, <2>1, <3>1, <3>2 DEF FileType
  <2>2. CASE d # fd
    BY <1>1, <2>2 DEF Inv, Table
  <2> QED
    BY <2>1, <2>2
<1> QED
  BY <1>5, <1>6, <1>7

LEMMA GetDentsInv ==
    ASSUME Inv, NEW w \in Worker, NEW n \in 1 .. BufRecords, GetDents(w, n)
    PROVE  Inv'
<1>1. /\ pc[w] = "read" /\ pc' = pc /\ Fill(w, n)
      /\ read' = [read EXCEPT ![w] = [read[w] EXCEPT !.filled = n, !.pos = 1]]
      /\ UNCHANGED <<queued, names>>
  BY DEF GetDents, Parsed
<1>2. w \in Holders
  BY <1>1 DEF Holders
<1>3. /\ buf' \in [Worker -> [1 .. BufRecords -> Record]]
      /\ DOMAIN files' = DOMAIN files
      /\ \A fd \in DOMAIN files : files'[fd] \in FileType /\ files'[fd].dir = files[fd].dir
  BY <1>1, <1>2, FillTypes
<1>4. BufRecords \in Nat
  BY ReadDirAssumption
<1>5. Types'
  <2>1. [read[w] EXCEPT !.filled = n, !.pos = 1] \in ReadType
    <3>1. read[w] \in ReadType /\ n \in 0 .. BufRecords /\ 1 \in Nat
      BY <1>4 DEF Inv, Types
    <3> QED
      BY <3>1 DEF ReadType
  <2> QED
    BY <1>1, <1>3, <2>1 DEF Inv, Types
<1>6. /\ read'[w].pos = 1 /\ read'[w].filled = n
      /\ read'[w].fd = read[w].fd /\ read'[w].item = read[w].item
      /\ \A v \in Worker \ {w} : read'[v] = read[v]
  BY <1>1 DEF Inv, Types, ReadType
<1>7. Position'
  BY <1>4, <1>6 DEF Inv, Position
<1>8. Holders' = Holders
  BY <1>1 DEF Holders
<1>9. Table' /\ DescriptorsBalance'
  BY <1>3, <1>6, <1>8, SameFiles DEF Holders
<1> QED
  BY <1>5, <1>7, <1>9 DEF Inv

LEMMA GetDentsEndInv ==
    ASSUME Inv, NEW w \in Worker, GetDentsEOF(w) \/ GetDentsFails(w)
    PROVE  Inv'
<1>1. /\ pc[w] = "read" /\ pc' = [pc EXCEPT ![w] = "close"]
      /\ UNCHANGED <<queued, buf, names, files>>
      /\ read' = read \/ read' = [read EXCEPT ![w] = [read[w] EXCEPT !.failed = TRUE]]
  BY DEF GetDentsEOF, GetDentsFails, Parsed
<1> DEFINE next == [read[w] EXCEPT !.failed = TRUE]
<1>2. Types'
  <2>1. read[w] \in ReadType /\ "close" \in Location
    BY DEF Inv, Types, Location
  <2>2. next \in ReadType
    BY <2>1 DEF ReadType
  <2> HIDE DEF next
  <2>3. read' = read \/ read' = [read EXCEPT ![w] = next]
    BY <1>1 DEF next
  <2> QED
    BY <1>1, <2>1, <2>2, <2>3 DEF Inv, Types
<1>3. \A v \in Worker : /\ read'[v].fd = read[v].fd /\ read'[v].item = read[v].item
                        /\ read'[v].pos = read[v].pos /\ read'[v].filled = read[v].filled
  <2>1. read[w] \in ReadType /\ DOMAIN read = Worker
    BY DEF Inv, Types
  <2>2. \A v \in Worker : \/ read'[v] = read[v]
                          \/ v = w /\ read'[v] = [read[w] EXCEPT !.failed = TRUE]
    BY <1>1, <2>1
  <2> QED
    BY <2>1, <2>2 DEF ReadType
<1>4. Position'
  BY <1>3 DEF Inv, Position
<1>5. Holders' = Holders
  BY <1>1 DEF Inv, Types, Holders
<1>6. Table' /\ DescriptorsBalance'
  BY <1>1, <1>3, <1>5, SameFiles DEF Inv, Table, Holders
<1> QED
  BY <1>2, <1>4, <1>6 DEF Inv

LEMMA ParseInv ==
    ASSUME Inv, NEW w \in Worker, Parse(w)
    PROVE  Inv'
<1> DEFINE r == read[w]
           rec == buf[w][r.pos]
           name == View(w, "buf", r.pos)
<1>1. /\ pc[w] = "read" /\ r.pos <= r.filled
      /\ UNCHANGED <<queued, pc, buf, files>>
  BY DEF Parse
<1>2. r \in ReadType /\ r.pos \in 1 .. BufRecords /\ r.pos + 1 \in 1 .. r.filled + 1
  <2>1. r \in ReadType /\ r.pos \in 1 .. r.filled + 1
    BY DEF Inv, Types, Position
  <2>2. r.filled \in 0 .. BufRecords /\ BufRecords \in Nat
    BY <2>1, ReadDirAssumption DEF ReadType
  <2> QED
    BY <1>1, <2>1, <2>2
<1>3. rec \in Record /\ Chars(name) = rec.name
  <2>1. rec \in Record
    BY <1>2 DEF Inv, Types
  <2> QED
    BY <2>1 DEF Chars, View
<1>4. \/ names' = names /\ read' = [read EXCEPT ![w] = [r EXCEPT !.pos = r.pos + 1]]
      \/ /\ rec.name \in Name
         /\ names' = [names EXCEPT ![w] = Append(names[w], rec.name)]
         /\ \E l \in BOOLEAN :
              read' = [read EXCEPT ![w] =
                 [r EXCEPT !.pos = r.pos + 1,
                           !.scratch = Append(r.scratch,
                               [name |-> View(w, "paths", Len(names'[w])),
                                typ |-> rec.typ, ino |-> rec.ino]),
                           !.sawLink = l]]
  <2>1. CASE Chars(name) \in Dots \cup SkipSet
    BY <2>1 DEF Parse
  <2>2. CASE Chars(name) \notin Dots \cup SkipSet
    <3>1. OnEntry(w, name, rec)
      BY <2>2 DEF Parse
    <3>2. rec.name \in Name
      BY <1>3, <2>2 DEF Record
    <3>3. (r.sawLink \/ rec.typ = "lnk") \in BOOLEAN
      OBVIOUS
    <3>4. names' = [names EXCEPT ![w] = Append(names[w], rec.name)]
      BY <1>3, <3>1 DEF OnEntry
    <3>5. read' = [read EXCEPT ![w] =
                 [r EXCEPT !.pos = r.pos + 1,
                           !.scratch = Append(r.scratch,
                               [name |-> View(w, "paths", Len(names'[w])),
                                typ |-> rec.typ, ino |-> rec.ino]),
                           !.sawLink = (r.sawLink \/ rec.typ = "lnk")]]
      <4> DEFINE e == [name |-> View(w, "paths", Len(names'[w])), typ |-> rec.typ, ino |-> rec.ino]
                 l == r.sawLink \/ rec.typ = "lnk"
      <4>1. read' = [read EXCEPT ![w].pos = @ + 1, ![w].scratch = Append(@, e),
                                 ![w].sawLink = @ \/ rec.typ = "lnk"]
        BY <3>1 DEF OnEntry
      <4>2. w \in DOMAIN read /\ {"pos", "scratch", "sawLink"} \subseteq DOMAIN r
        BY <1>2 DEF Inv, Types, ReadType
      <4> HIDE DEF e
      <4>3. read' = [read EXCEPT ![w] = [r EXCEPT !.pos = r.pos + 1, !.scratch = Append(r.scratch, e),
                                                  !.sawLink = l]]
        BY <4>1, <4>2
      <4> QED
        BY <4>3 DEF e
    <3> QED
      BY <3>2, <3>3, <3>4, <3>5
  <2> QED
    BY <2>1, <2>2
<1>5. names' \in [Worker -> Seq(Name)]
  <2>1. names \in [Worker -> Seq(Name)]
    BY DEF Inv, Types
  <2>2. rec.name \in Name => Append(names[w], rec.name) \in Seq(Name)
    BY <2>1, AppendProperties
  <2> QED
    BY <1>4, <2>1, <2>2
<1>6. /\ read'[w] \in ReadType /\ read'[w].pos = r.pos + 1 /\ read'[w].filled = r.filled
      /\ read'[w].fd = r.fd /\ read'[w].item = r.item
  <2> DEFINE next == [r EXCEPT !.pos = r.pos + 1]
  <2>1. next \in ReadType /\ next.pos = r.pos + 1 /\ next.filled = r.filled
        /\ next.fd = r.fd /\ next.item = r.item
    BY SMTT(60), <1>2 DEF ReadType
  <2>2. CASE read' = [read EXCEPT ![w] = next]
    BY <2>1, <2>2 DEF Inv, Types
  <2>3. ASSUME NEW l \in BOOLEAN,
               read' = [read EXCEPT ![w] =
                  [r EXCEPT !.pos = r.pos + 1,
                            !.scratch = Append(r.scratch,
                                [name |-> View(w, "paths", Len(names'[w])),
                                 typ |-> rec.typ, ino |-> rec.ino]),
                            !.sawLink = l]]
        PROVE  /\ read'[w] \in ReadType /\ read'[w].pos = r.pos + 1
               /\ read'[w].filled = r.filled /\ read'[w].fd = r.fd /\ read'[w].item = r.item
    <3> DEFINE e == [name |-> View(w, "paths", Len(names'[w])), typ |-> rec.typ, ino |-> rec.ino]
               more == Append(r.scratch, e)
    <3>1. e \in [name : Views, typ : DType, ino : Nat]
      <4>1. Len(names'[w]) \in Nat
        BY <1>5, LenProperties
      <4> QED
        BY <1>3, <4>1 DEF Views, View, Record
    <3>2. more \in Seq([name : Views, typ : DType, ino : Nat])
      BY <1>2, <3>1, AppendProperties DEF ReadType
    <3> HIDE DEF more
    <3>3. read'[w] = [r EXCEPT !.pos = r.pos + 1, !.scratch = more, !.sawLink = l]
      BY <2>3 DEF Inv, Types, more
    <3>4. r.pos + 1 \in Nat /\ r \in ReadType
      BY <1>2
    <3>5. [r EXCEPT !.pos = r.pos + 1, !.scratch = more, !.sawLink = l] \in ReadType
      BY <3>2, <3>4 DEF ReadType
    <3>6. /\ read'[w].pos = r.pos + 1 /\ read'[w].filled = r.filled
          /\ read'[w].fd = r.fd /\ read'[w].item = r.item
      BY <3>3, <3>4 DEF ReadType
    <3> QED
      BY <3>3, <3>5, <3>6
  <2> QED
    BY <1>4, <2>2, <2>3
<1>7. /\ read' = [v \in Worker |-> read'[v]]
      /\ \A v \in Worker \ {w} : read'[v] = read[v]
  BY <1>4 DEF Inv, Types
<1>8. Types'
  <2>1. \A v \in Worker : read'[v] \in ReadType
    BY <1>6, <1>7 DEF Inv, Types
  <2>2. read' \in [Worker -> ReadType]
    BY <1>7, <2>1
  <2> QED
    BY <1>1, <1>5, <2>2 DEF Inv, Types
<1>9. Position'
  BY <1>2, <1>6, <1>7 DEF Inv, Position
<1>10. Holders' = Holders
  BY <1>1 DEF Holders
<1>11. Table' /\ DescriptorsBalance'
  BY <1>1, <1>6, <1>7, <1>10, SameFiles DEF Inv, Table, Holders
<1> QED
  BY <1>8, <1>9, <1>11 DEF Inv

LEMMA CloseInv ==
    ASSUME Inv, NEW w \in Worker, Close(w)
    PROVE  Inv'
<1>1. /\ pc[w] = "close" /\ pc' = [pc EXCEPT ![w] = "send"]
      /\ files' = [fd \in DOMAIN files \ {read[w].fd} |-> files[fd]]
      /\ UNCHANGED <<queued, read, buf, names>>
  BY DEF Close
<1>2. Types' /\ Position'
  BY <1>1 DEF Inv, Types, Position, Location
<1>3. Holders' = Holders \ {w} /\ w \in Holders
  BY <1>1 DEF Inv, Types, Holders
<1>4. Table'
  <2>1. IsFiniteSet(DOMAIN files')
    BY <1>1, FS_RemoveElement DEF Inv, Table
  <2> QED
    BY <1>1, <2>1 DEF Inv, Table
<1>5. DescriptorsBalance'
  <2>1. \A v \in Holders' : read[v].fd \in DOMAIN files' /\ files'[read[v].fd] = files[read[v].fd]
    BY <1>1, <1>3, OwnFile
  <2>2. DOMAIN files' = {read'[v].fd : v \in Holders'}
    BY <1>1, <1>3, <2>1, BalanceByHolders DEF Inv
  <2>3. \A u, v \in Holders' : read'[u].fd = read'[v].fd => u = v
    BY <1>1, <1>3, BalanceByHolders DEF Inv
  <2>4. \A v \in Holders' : files'[read'[v].fd].dir = read'[v].item.dir
    BY <1>1, <1>3, <2>1, OwnFile
  <2> QED
    BY <2>2, <2>3, <2>4 DEF DescriptorsBalance, Holders
<1> QED
  BY <1>2, <1>4, <1>5 DEF Inv

LEMMA SendInv ==
    ASSUME Inv, NEW w \in Worker, Send(w)
    PROVE  Inv'
<1>1. /\ pc[w] = "send" /\ pc' = [pc EXCEPT ![w] = "idle"]
      /\ read' = [read EXCEPT ![w] = NoRead]
      /\ UNCHANGED <<queued, buf, names, files>>
  BY DEF Send
<1>2. Types'
  BY <1>1, NoReadType DEF Inv, Types, Location
<1>3. Position'
  BY <1>1, NoReadType DEF Inv, Types, Position
<1>4. Holders' = Holders /\ w \notin Holders
  BY <1>1 DEF Inv, Types, Holders
<1>5. Table' /\ DescriptorsBalance'
  BY <1>1, <1>4, SameFiles DEF Inv, Types, Table, Holders
<1> QED
  BY <1>2, <1>3, <1>5 DEF Inv

LEMMA NextInv == ASSUME Inv, [Next]_vars PROVE Inv'
<1>1. CASE UNCHANGED vars
  BY <1>1 DEF vars, Inv, Types, Position, Table, DescriptorsBalance
<1>2. ASSUME NEW w \in Worker, NEW it \in queued, Take(w, it) PROVE Inv'
  BY <1>2, TakeInv
<1>3. ASSUME NEW w \in Worker, Step(w) PROVE Inv'
  BY <1>3, OpenInv, OpenFailsInv, GetDentsInv, GetDentsEndInv, ParseInv, CloseInv, SendInv
     DEF Step
<1> QED
  BY <1>1, <1>2, <1>3 DEF Next, Quiet

-----------------------------------------------------------------------------
\* What is parsed is a record that the last getdents64 put into buf, and every
\* name that is stored is the name of an entry.
THEOREM ReadDirTypeCorrect == Spec => []TypeOK
<1>1. Init => Inv
  BY InitInv
<1>2. Inv /\ [Next]_vars => Inv'
  BY NextInv
<1>3. Inv => TypeOK
  BY DEF Inv, Types, Position, Table, ReadType, Location, TypeOK
<1> QED
  BY <1>1, <1>2, <1>3, PTL DEF Spec

\* Every return of readDirRaw after the open closes the descriptor, exactly once:
\* the open files are those of the workers that are reading, one each.
THEOREM DescriptorsAreBalanced == Spec => []DescriptorsBalance
<1>1. Init => Inv
  BY InitInv
<1>2. Inv /\ [Next]_vars => Inv'
  BY NextInv
<1>3. Inv => DescriptorsBalance
  BY DEF Inv
<1> QED
  BY <1>1, <1>2, <1>3, PTL DEF Spec

-----------------------------------------------------------------------------
(* The walker's reading steps                                              *)

Busy == {w \in Worker : pc[w] # "idle"}

\* Every item is queued, in one worker's hands, or sent.
Ownership ==
    /\ \A w \in Busy : read[w].item \in Items \ queued
    /\ \A v, w \in Busy : read[v].item = read[w].item => v = w
    /\ \A b \in sent : /\ \A it \in queued : it.path # b.dir
                       /\ \A w \in Busy : read[w].item.path # b.dir

\* The name of an entry is in an arena, which only grows.
Stored(v) == v.area = "paths" /\ v.worker \in Worker /\ v.at \in 1 .. Len(names[v.worker])

AllStored(entries) == \A i \in DOMAIN entries : Stored(entries[i].name)

NamesStored == /\ \A w \in Worker : AllStored(read[w].scratch)
               /\ \A b \in sent : AllStored(b.entries)

\* A worker that has not opened its directory yet has seen nothing of it.
Untouched(w) == pc[w] = "open" =>
                    /\ read[w].filled = 0 /\ read[w].pos = 1 /\ read[w].scratch = << >>
                    /\ ~ read[w].failed /\ ~ read[w].sawLink

\* What a reading worker has in buf are the records of its directory before the
\* one the file's next getdents64 starts with.
Buffered(w) ==
    pc[w] = "read" =>
        LET r == read[w]
            f == files[r.fd]
        IN  /\ ~ r.failed
            /\ f.next - 1 <= Len(Raw[r.item.dir]) /\ r.filled <= f.next - 1
            /\ \A i \in 1 .. r.filled :
                  buf[w][i] = Raw[r.item.dir][f.next - 1 - r.filled + i]

Readers == \A w \in Worker : Untouched(w) /\ Buffered(w)

SimInv == Inv /\ Ownership /\ NamesStored /\ Readers

-----------------------------------------------------------------------------
(* The listing                                                             *)

\* The entries among the first n records.
Among(s, n) == {i \in NotDots(s) : i <= n}

LEMMA AmongFinite ==
    ASSUME NEW V, NEW s \in Seq(V), NEW n
    PROVE  IsFiniteSet(Among(s, n)) /\ Cardinality(Among(s, n)) = Count(s, n) /\ Count(s, n) \in Nat
<1>1. DOMAIN s = 1 .. Len(s) /\ Len(s) \in Nat
  BY LenProperties
<1>2. IsFiniteSet(1 .. Len(s))
  BY <1>1, FS_Interval
<1>3. Among(s, n) \in SUBSET (1 .. Len(s))
  BY <1>1 DEF Among, NotDots
<1>4. IsFiniteSet(Among(s, n))
  BY <1>2, <1>3, FS_Subset
<1>5. Cardinality(Among(s, n)) = Count(s, n)
  BY DEF Among, Count
<1> QED
  BY <1>4, <1>5, FS_CardinalityType

LEMMA NothingAmongNone == ASSUME NEW V, NEW s \in Seq(V) PROVE Count(s, 0) = 0
<1>1. DOMAIN s = 1 .. Len(s) /\ Len(s) \in Nat
  BY LenProperties
<1>2. Among(s, 0) = {}
  BY <1>1 DEF Among, NotDots
<1> QED
  BY <1>2, AmongFinite, FS_EmptySet

\* A later entry has more entries up to it.
LEMMA CountGrows ==
    ASSUME NEW V, NEW s \in Seq(V), NEW m \in Nat, NEW n \in Nat, m <= n
    PROVE  Count(s, m) <= Count(s, n) /\ (m < n /\ n \in NotDots(s) => Count(s, m) < Count(s, n))
<1>1. Among(s, m) \in SUBSET Among(s, n)
  <2>1. \A i \in NotDots(s) : i \in Nat
    BY LenProperties DEF NotDots
  <2> QED
    BY <2>1 DEF Among
<1>2. Count(s, m) <= Count(s, n) /\ Count(s, m) \in Nat /\ Count(s, n) \in Nat
      /\ (Count(s, m) = Count(s, n) => Among(s, m) = Among(s, n))
  BY <1>1, AmongFinite, FS_Subset
<1>3. ASSUME m < n, n \in NotDots(s) PROVE Among(s, m) # Among(s, n)
  BY <1>3 DEF Among
<1> QED
  BY <1>2, <1>3

\* The record behind the first n is the next of the listing, unless it is a dot.
LEMMA NextListed ==
    ASSUME NEW V, NEW s \in Seq(V), NEW n \in Nat, n + 1 <= Len(s)
    PROVE  /\ s[n + 1].name \in Dots => Count(s, n + 1) = Count(s, n)
           /\ s[n + 1].name \notin Dots =>
                 /\ Count(s, n + 1) = Count(s, n) + 1
                 /\ Count(s, n) + 1 \in 1 .. Count(s, Len(s))
                 /\ Listed(s)[Count(s, n) + 1] = s[n + 1]
<1>1. DOMAIN s = 1 .. Len(s) /\ Len(s) \in Nat
  BY LenProperties
<1>2. \A i \in NotDots(s) : i \in Nat
  BY <1>1 DEF NotDots
<1>3. IsFiniteSet(Among(s, n)) /\ Cardinality(Among(s, n)) = Count(s, n) /\ Count(s, n) \in Nat
      /\ Cardinality(Among(s, n + 1)) = Count(s, n + 1)
  BY AmongFinite
<1>4. ASSUME s[n + 1].name \in Dots PROVE Count(s, n + 1) = Count(s, n)
  <2>1. Among(s, n + 1) = Among(s, n)
    BY <1>2, <1>4 DEF Among, NotDots
  <2> QED
    BY <1>3, <2>1
<1>5. ASSUME s[n + 1].name \notin Dots
      PROVE  /\ Count(s, n + 1) = Count(s, n) + 1
             /\ Count(s, n) + 1 \in 1 .. Count(s, Len(s))
             /\ Listed(s)[Count(s, n) + 1] = s[n + 1]
  <2>1. n + 1 \in NotDots(s)
    BY <1>1, <1>5 DEF NotDots
  <2>2. Among(s, n + 1) = Among(s, n) \cup {n + 1} /\ n + 1 \notin Among(s, n)
    BY <1>2, <2>1 DEF Among
  <2>3. Count(s, n + 1) = Count(s, n) + 1
    BY <1>3, <2>2, FS_AddElement
  <2>4. Count(s, n) + 1 \in 1 .. Count(s, Len(s))
    <3>1. Count(s, n + 1) <= Count(s, Len(s)) /\ Count(s, Len(s)) \in Nat
      BY <1>1, CountGrows, AmongFinite
    <3> QED
      BY <1>3, <2>3, <3>1
  <2>5. ASSUME NEW i \in NotDots(s), Count(s, i) = Count(s, n + 1) PROVE i = n + 1
    <3>1. CASE i < n + 1
      <4>1. Count(s, i) < Count(s, n + 1) /\ Count(s, i) \in Nat
        BY <1>2, <2>1, <3>1, CountGrows, AmongFinite
      <4> QED
        BY <2>5, <4>1
    <3>2. CASE i > n + 1
      <4>1. Count(s, n + 1) < Count(s, i) /\ Count(s, i) \in Nat
        BY <1>2, <3>2, CountGrows, AmongFinite
      <4> QED
        BY <2>5, <4>1
    <3> QED
      BY <1>2, <3>1, <3>2
  <2>6. (CHOOSE i \in NotDots(s) : Count(s, i) = Count(s, n) + 1) = n + 1
    BY <2>1, <2>3, <2>5
  <2>7. Listed(s)[Count(s, n) + 1] = s[CHOOSE i \in NotDots(s) : Count(s, i) = Count(s, n) + 1]
    BY <2>4 DEF Listed
  <2> QED
    BY <2>3, <2>4, <2>6, <2>7
<1> QED
  BY <1>4, <1>5

LEMMA ListedLength ==
    ASSUME NEW V, NEW s \in Seq(V)
    PROVE  Len(Listed(s)) = Count(s, Len(s)) /\ DOMAIN Listed(s) = 1 .. Count(s, Len(s))
<1> DEFINE n == Count(s, Len(s))
           image == {Listed(s)[k] : k \in 1 .. n}
<1>1. n \in Nat
  BY AmongFinite
<1>2. Listed(s) \in [1 .. n -> image] /\ DOMAIN Listed(s) = 1 .. n
  BY DEF Listed
<1> HIDE DEF n, image
<1>3. Listed(s) \in Seq(image)
  BY <1>1, <1>2, SeqDef
<1>4. Len(Listed(s)) = n
  BY <1>1, <1>2, <1>3, LenProperties
<1> QED
  BY <1>2, <1>4 DEF n

-----------------------------------------------------------------------------
(* What the actions do to a worker's read                                  *)

\* The directory a reader has open is the one of its item.
LEMMA OwnListing ==
    ASSUME Inv, NEW w \in Worker, pc[w] = "read"
    PROVE  LET r == read[w]
               f == files[r.fd]
           IN  /\ r.item.dir \in Dir /\ f.dir = r.item.dir /\ f.next \in Nat \ {0}
               /\ r \in ReadType /\ r.filled \in Nat /\ r.pos \in 1 .. r.filled + 1
               /\ Raw[r.item.dir] \in Seq(Record) /\ Len(Raw[r.item.dir]) \in Nat
<1> DEFINE r == read[w]
           f == files[r.fd]
<1>1. f \in FileType /\ f.dir = r.item.dir
  BY OwnFile DEF Holders
<1>2. f.dir \in Dir /\ f.next \in Nat \ {0}
  BY <1>1 DEF FileType
<1>3. r \in ReadType /\ r.pos \in 1 .. r.filled + 1
  BY DEF Inv, Types, Position
<1>4. r.filled \in Nat
  <2>1. r.filled \in 0 .. BufRecords
    BY <1>3 DEF ReadType
  <2> QED
    BY <2>1, ReadDirAssumption
<1>5. Raw[r.item.dir] \in Seq(Record)
  BY <1>1, <1>2, ReadDirAssumption DEF Record
<1> HIDE DEF f, r
<1> QED
  BY <1>1, <1>2, <1>3, <1>4, <1>5, LenProperties DEF f, r

\* A step of one worker leaves the reads of the others alone.
LEMMA OneReader ==
    ASSUME Readers, NEW w \in Worker, Untouched(w)', Buffered(w)',
           \A v \in Worker \ {w} :
              /\ pc'[v] = pc[v] /\ read'[v] = read[v] /\ buf'[v] = buf[v]
              /\ v \in Holders => files'[read[v].fd] = files[read[v].fd]
    PROVE  Readers'
<1> SUFFICES ASSUME NEW v \in Worker, v # w PROVE Untouched(v)' /\ Buffered(v)'
  BY DEF Readers
<1>1. Untouched(v)'
  BY DEF Readers, Untouched
<1>2. Buffered(v)'
  <2>1. /\ pc'[v] = pc[v] /\ read'[v] = read[v] /\ buf'[v] = buf[v]
        /\ pc[v] = "read" => files'[read[v].fd] = files[read[v].fd]
    BY DEF Holders
  <2>2. Buffered(v)
    BY DEF Readers
  <2>3. CASE pc[v] = "read"
    <3> DEFINE f == files[read[v].fd]
               s == read[v]
    <3>1. files'[read'[v].fd] = f /\ read'[v] = s /\ buf'[v] = buf[v]
      BY <2>1, <2>3
    <3>2. /\ ~ s.failed /\ f.next - 1 <= Len(Raw[s.item.dir]) /\ s.filled <= f.next - 1
          /\ \A i \in 1 .. s.filled : buf[v][i] = Raw[s.item.dir][f.next - 1 - s.filled + i]
      BY <2>2, <2>3 DEF Buffered
    <3> HIDE DEF f, s
    <3> QED
      BY <3>1, <3>2 DEF Buffered
  <2> QED
    BY <2>1, <2>3 DEF Buffered
<1> QED
  BY <1>1, <1>2

LEMMA TakeReaders ==
    ASSUME SimInv, NEW w \in Worker, NEW it \in queued, Take(w, it)
    PROVE  Readers'
<1>1. /\ pc' = [pc EXCEPT ![w] = "open"] /\ read' = [read EXCEPT ![w] = NewRead(it)]
      /\ UNCHANGED <<buf, files>>
  BY DEF Take
<1>2. pc'[w] = "open" /\ read'[w] = NewRead(it)
      /\ \A v \in Worker \ {w} : pc'[v] = pc[v] /\ read'[v] = read[v]
  BY <1>1 DEF SimInv, Inv, Types
<1>3. Untouched(w)' /\ Buffered(w)'
  BY <1>2 DEF Untouched, Buffered, NewRead
<1> QED
  BY <1>1, <1>2, <1>3, OneReader DEF SimInv

LEMMA OpenReaders ==
    ASSUME SimInv, NEW w \in Worker, Open(w)
    PROVE  Readers'
<1> DEFINE new == FreeFd
           file == [dir |-> read[w].item.dir, next |-> 1]
           r == read[w]
<1>1. /\ pc[w] = "open" /\ pc' = [pc EXCEPT ![w] = "read"]
      /\ read[w].item.dir \in Dir
      /\ files' = [fd \in DOMAIN files \cup {new} |-> IF fd = new THEN file ELSE files[fd]]
      /\ read' = [read EXCEPT ![w] = [r EXCEPT !.fd = new]]
      /\ UNCHANGED buf
  BY DEF Open
<1>2. new \in Nat /\ new \notin DOMAIN files
  BY FreeFdIsFree DEF SimInv, Inv
<1> HIDE DEF new
<1>3. r \in ReadType
  BY DEF SimInv, Inv, Types
<1>4. /\ pc'[w] = "read" /\ read'[w] = [r EXCEPT !.fd = new]
      /\ \A v \in Worker \ {w} : pc'[v] = pc[v] /\ read'[v] = read[v]
  BY <1>1 DEF SimInv, Inv, Types
<1>5. /\ read'[w].fd = new /\ read'[w].item = r.item /\ read'[w].filled = 0
      /\ ~ read'[w].failed /\ files'[new].next = 1
  <2>1. r.filled = 0 /\ ~ r.failed
    BY <1>1 DEF SimInv, Readers, Untouched
  <2>2. read'[w].fd = new /\ read'[w].item = r.item /\ read'[w].filled = r.filled
        /\ read'[w].failed = r.failed
    BY <1>3, <1>4 DEF ReadType
  <2> QED
    BY <1>1, <2>1, <2>2
<1>6. Len(Raw[r.item.dir]) \in Nat
  BY <1>1, ReadDirAssumption, LenProperties
<1>7. Untouched(w)' /\ Buffered(w)'
  BY <1>4, <1>5, <1>6 DEF Untouched, Buffered
<1>8. \A v \in Worker \ {w} : v \in Holders => files'[read[v].fd] = files[read[v].fd]
  <2>1. \A v \in Holders : read[v].fd \in DOMAIN files
    BY OwnFile DEF SimInv
  <2> QED
    BY <1>1, <1>2, <2>1
<1> QED
  BY <1>1, <1>4, <1>7, <1>8, OneReader DEF SimInv

\* A worker that is not reading any more.
LEMMA DoneReaders ==
    ASSUME SimInv, NEW w \in Worker,
           OpenFails(w) \/ GetDentsEOF(w) \/ GetDentsFails(w) \/ Close(w) \/ Send(w)
    PROVE  Readers'
<1>1. /\ pc'[w] \notin {"open", "read"}
      /\ \A v \in Worker \ {w} : pc'[v] = pc[v] /\ read'[v] = read[v]
      /\ UNCHANGED buf
  BY DEF SimInv, Inv, Types, OpenFails, GetDentsEOF, GetDentsFails, Close, Send
<1>2. Untouched(w)' /\ Buffered(w)'
  BY <1>1 DEF Untouched, Buffered
<1>3. \A v \in Worker \ {w} : v \in Holders => files'[read[v].fd] = files[read[v].fd]
  <2>1. CASE Close(w)
    <3>1. w \in Holders
      BY <2>1 DEF Close, Holders
    <3>2. files' = [fd \in DOMAIN files \ {read[w].fd} |-> files[fd]]
      BY <2>1 DEF Close
    <3>3. \A v \in Holders : read[v].fd \in DOMAIN files /\ (v # w => read[v].fd # read[w].fd)
      BY <3>1, OwnFile DEF SimInv
    <3> QED
      BY <3>2, <3>3
  <2>2. CASE UNCHANGED files
    BY <2>2
  <2> QED
    BY <2>1, <2>2 DEF OpenFails, GetDentsEOF, GetDentsFails, Send
<1> QED
  BY <1>1, <1>2, <1>3, OneReader DEF SimInv

\* One getdents64: the records behind those that were parsed are in buf now.
LEMMA GetDentsReads ==
    ASSUME SimInv, NEW w \in Worker, NEW n \in 1 .. BufRecords, GetDents(w, n)
    PROVE  LET r == read[w]
               f == files[r.fd]
               L == Raw[r.item.dir]
           IN  /\ pc[w] = "read" /\ r.pos = r.filled + 1 /\ UNCHANGED <<queued, pc, names, sent>>
               /\ read' = [read EXCEPT ![w] = [r EXCEPT !.filled = n, !.pos = 1]]
               /\ read'[w].pos = 1 /\ read'[w].filled = n
               /\ read'[w].fd = r.fd /\ read'[w].item = r.item /\ read'[w].failed = r.failed
               /\ read'[w].scratch = r.scratch /\ read'[w].sawLink = r.sawLink
               /\ \A v \in Worker \ {w} : read'[v] = read[v] /\ buf'[v] = buf[v]
               /\ files'[r.fd].next = f.next + n /\ f.next + n - 1 <= Len(L)
               /\ \A i \in 1 .. n : buf'[w][i] = L[f.next + i - 1]
               /\ \A v \in Worker \ {w} : v \in Holders => files'[read[v].fd] = files[read[v].fd]
<1> DEFINE r == read[w]
           f == files[r.fd]
           L == Raw[r.item.dir]
<1>1. /\ pc[w] = "read" /\ r.pos > r.filled /\ UNCHANGED <<queued, pc, names, sent>>
      /\ read' = [read EXCEPT ![w] = [r EXCEPT !.filled = n, !.pos = 1]]
      /\ n \in 1 .. Len(Raw[f.dir]) - f.next + 1
      /\ buf' = [buf EXCEPT ![w] = [i \in 1 .. BufRecords |->
                     IF i <= n THEN Raw[f.dir][f.next + i - 1] ELSE buf[w][i]]]
      /\ files' = [files EXCEPT ![r.fd] = [f EXCEPT !.next = f.next + n]]
  BY DEF GetDents, Parsed, Fill
<1>2. /\ f.dir = r.item.dir /\ f.next \in Nat \ {0} /\ Len(L) \in Nat
      /\ r \in ReadType /\ r.filled \in Nat /\ r.pos \in 1 .. r.filled + 1
  BY <1>1, OwnListing DEF SimInv
<1>3. r.fd \in DOMAIN files /\ f \in FileType
      /\ \A v \in Holders : v # w => read[v].fd # r.fd
  BY <1>1, OwnFile DEF SimInv, Holders
<1>4. DOMAIN read = Worker /\ DOMAIN buf = Worker /\ BufRecords \in Nat
  BY ReadDirAssumption DEF SimInv, Inv, Types
<1> HIDE DEF r, f
<1>5. read'[w] = [r EXCEPT !.filled = n, !.pos = 1] /\ \A v \in Worker \ {w} : read'[v] = read[v]
  BY <1>1, <1>4
<1>6. /\ read'[w].pos = 1 /\ read'[w].filled = n
      /\ read'[w].fd = r.fd /\ read'[w].item = r.item /\ read'[w].failed = r.failed
      /\ read'[w].scratch = r.scratch /\ read'[w].sawLink = r.sawLink
  BY <1>2, <1>5 DEF ReadType
<1>7. files'[r.fd].next = f.next + n
  BY <1>1, <1>3 DEF FileType
<1>8. \A v \in Worker \ {w} : v \in Holders => files'[read[v].fd] = files[read[v].fd]
  BY <1>1, <1>3
<1>9. f.next + n - 1 <= Len(L) /\ r.pos = r.filled + 1
  <2>1. Len(Raw[f.dir]) = Len(L)
    BY <1>2
  <2>2. n \in 1 .. Len(L) - f.next + 1
    BY <1>1, <2>1
  <2>3. r.pos > r.filled
    BY <1>1
  <2> HIDE DEF L
  <2>4. f.next + n - 1 <= Len(L)
    BY <1>2, <2>2
  <2>5. r.pos = r.filled + 1
    BY <1>2, <2>3
  <2> QED
    BY <2>4, <2>5
<1>10. \A v \in Worker \ {w} : buf'[v] = buf[v]
  BY <1>1, <1>4
<1>11. \A i \in 1 .. n : buf'[w][i] = L[f.next + i - 1]
  <2>1. buf'[w] = [i \in 1 .. BufRecords |->
                     IF i <= n THEN Raw[f.dir][f.next + i - 1] ELSE buf[w][i]]
    BY <1>1, <1>4
  <2>2. \A i \in 1 .. n : i \in 1 .. BufRecords /\ i <= n
    BY <1>4
  <2> QED
    BY <1>2, <2>1, <2>2
<1> QED
  BY <1>1, <1>5, <1>6, <1>7, <1>8, <1>9, <1>10, <1>11 DEF r, f

LEMMA GetDentsReaders ==
    ASSUME SimInv, NEW w \in Worker, NEW n \in 1 .. BufRecords, GetDents(w, n)
    PROVE  Readers'
<1> DEFINE r == read[w]
           f == files[r.fd]
           L == Raw[r.item.dir]
<1>1. /\ pc[w] = "read" /\ pc' = pc
      /\ read'[w].filled = n
      /\ read'[w].fd = r.fd /\ read'[w].item = r.item /\ read'[w].failed = r.failed
      /\ files'[r.fd].next = f.next + n /\ f.next + n - 1 <= Len(L)
      /\ \A i \in 1 .. n : buf'[w][i] = L[f.next + i - 1]
      /\ \A v \in Worker \ {w} : read'[v] = read[v] /\ buf'[v] = buf[v]
      /\ \A v \in Worker \ {w} : v \in Holders => files'[read[v].fd] = files[read[v].fd]
  BY GetDentsReads
<1>2. f.next \in Nat \ {0} /\ n \in Nat
  <2>1. Inv /\ pc[w] = "read"
    BY <1>1 DEF SimInv
  <2>2. f.next \in Nat \ {0}
    BY <2>1, OwnListing
  <2> QED
    BY <2>2, ReadDirAssumption
<1>3. ~ r.failed
  BY <1>1 DEF SimInv, Readers, Buffered
<1> HIDE DEF r, f, L
<1>4. /\ f.next + n - 1 <= Len(L) /\ n <= f.next + n - 1
      /\ \A i \in 1 .. n : f.next + n - 1 - n + i = f.next + i - 1
  BY <1>1, <1>2
<1>5. Buffered(w)'
  <2>1. \A i \in 1 .. n : buf'[w][i] = L[f.next + n - 1 - n + i]
    BY <1>1, <1>4
  <2>2. files'[read'[w].fd].next = f.next + n /\ Raw[read'[w].item.dir] = L
    BY <1>1 DEF L
  <2>3. ~ read'[w].failed
    BY <1>1, <1>3
  <2>4. read'[w].filled = n
    BY <1>1
  <2>5. /\ files'[read'[w].fd].next - 1 <= Len(Raw[read'[w].item.dir])
        /\ read'[w].filled <= files'[read'[w].fd].next - 1
    BY <1>2, <1>4, <2>2, <2>4
  <2>6. \A i \in 1 .. read'[w].filled :
           buf'[w][i] = Raw[read'[w].item.dir][files'[read'[w].fd].next - 1 - read'[w].filled + i]
    BY <1>2, <2>1, <2>2, <2>4
  <2> QED
    BY <2>3, <2>5, <2>6 DEF Buffered
<1>6. Untouched(w)'
  BY <1>1 DEF Untouched
<1> QED
  BY <1>1, <1>5, <1>6, OneReader DEF SimInv

\* The record that is parsed is the next one of the directory.
LEMMA ParseReads ==
    ASSUME SimInv, NEW w \in Worker, Parse(w)
    PROVE  LET r   == read[w]
               rec == Raw[r.item.dir][Through(w) + 1]
               e   == [name |-> View(w, "paths", Len(names[w]) + 1), typ |-> rec.typ,
                       ino |-> rec.ino]
           IN  /\ pc[w] = "read" /\ UNCHANGED <<queued, pc, buf, files, sent>>
               /\ Through(w) \in Nat /\ Through(w) + 1 <= Len(Raw[r.item.dir])
               /\ rec \in Record
               /\ \/ /\ rec.name \in Dots \cup SkipSet /\ names' = names
                     /\ read' = [read EXCEPT ![w] = [r EXCEPT !.pos = r.pos + 1]]
                  \/ /\ rec.name \in Name \ SkipSet
                     /\ names' = [names EXCEPT ![w] = Append(names[w], rec.name)]
                     /\ read' = [read EXCEPT ![w] =
                                    [r EXCEPT !.pos = r.pos + 1, !.scratch = Append(r.scratch, e),
                                              !.sawLink = (r.sawLink \/ rec.typ = "lnk")]]
<1> DEFINE r   == read[w]
           L   == Raw[r.item.dir]
           f   == files[r.fd]
           at  == Through(w) + 1
           rec == L[at]
           e   == [name |-> View(w, "paths", Len(names[w]) + 1), typ |-> rec.typ, ino |-> rec.ino]
<1>1. pc[w] = "read" /\ r.pos <= r.filled /\ UNCHANGED <<queued, pc, buf, files, sent>>
  BY DEF Parse
<1>2. /\ f.next \in Nat \ {0} /\ L \in Seq(Record) /\ Len(L) \in Nat
      /\ r \in ReadType /\ r.filled \in Nat /\ r.pos \in 1 .. r.filled + 1
  BY <1>1, OwnListing DEF SimInv
<1>3. /\ f.next - 1 <= Len(L) /\ r.filled <= f.next - 1
      /\ \A i \in 1 .. r.filled : buf[w][i] = L[f.next - 1 - r.filled + i]
  BY <1>1 DEF SimInv, Readers, Buffered
<1>4. Through(w) = f.next - 1 - (r.filled + 1 - r.pos)
  BY DEF Through
<1>5. names \in [Worker -> Seq(Name)] /\ DOMAIN read = Worker
  BY DEF SimInv, Inv, Types
<1> HIDE DEF r, f, L
<1>6. Through(w) \in Nat /\ at \in 1 .. Len(L) /\ at = f.next - 1 - r.filled + r.pos
      /\ r.pos \in 1 .. r.filled
  BY <1>1, <1>2, <1>3, <1>4
<1>7. buf[w][r.pos] = rec /\ rec \in Record
  BY <1>2, <1>3, <1>6, ElementOfSeq
<1>8. Chars(View(w, "buf", r.pos)) = rec.name
  BY <1>7 DEF Chars, View
<1> HIDE DEF rec
<1> DEFINE Skips  == /\ rec.name \in Dots \cup SkipSet /\ names' = names
                     /\ read' = [read EXCEPT ![w] = [r EXCEPT !.pos = r.pos + 1]]
           Stores == /\ rec.name \in Name \ SkipSet
                     /\ names' = [names EXCEPT ![w] = Append(names[w], rec.name)]
                     /\ read' = [read EXCEPT ![w] =
                                    [r EXCEPT !.pos = r.pos + 1, !.scratch = Append(r.scratch, e),
                                              !.sawLink = (r.sawLink \/ rec.typ = "lnk")]]
<1>9. ASSUME rec.name \in Dots \cup SkipSet PROVE Skips
  <2>1. read' = [read EXCEPT ![w] = [read[w] EXCEPT !.pos = read[w].pos + 1]] /\ names' = names
    BY <1>8, <1>9 DEF Parse, r
  <2> QED
    BY <1>9, <2>1 DEF r
<1>10. ASSUME rec.name \notin Dots \cup SkipSet PROVE Stores
  <2>1. OnEntry(w, View(w, "buf", r.pos), rec)
    BY <1>7, <1>8, <1>10 DEF Parse, r
  <2>2. names' = [names EXCEPT ![w] = Append(names[w], rec.name)]
    BY <1>8, <2>1 DEF OnEntry
  <2>3. rec.name \in Name \ SkipSet
    BY <1>7, <1>10 DEF Record
  <2>4. Len(names'[w]) = Len(names[w]) + 1
    BY <1>5, <2>2, <2>3, AppendProperties
  <2>5. read' = [read EXCEPT ![w].pos = @ + 1, ![w].scratch = Append(@, e),
                             ![w].sawLink = @ \/ rec.typ = "lnk"]
    BY <2>1, <2>4 DEF OnEntry
  <2>6. {"pos", "scratch", "sawLink"} \subseteq DOMAIN r
    BY <1>2 DEF ReadType
  <2> HIDE DEF e
  <2>7. read' = [read EXCEPT ![w] = [r EXCEPT !.pos = r.pos + 1, !.scratch = Append(r.scratch, e),
                                              !.sawLink = (r.sawLink \/ rec.typ = "lnk")]]
    BY <1>5, <2>5, <2>6 DEF r
  <2> QED
    BY <2>2, <2>3, <2>7
<1>11. Skips \/ Stores
  <2> HIDE DEF Skips, Stores
  <2> QED
    BY <1>9, <1>10
<1>12. Through(w) + 1 <= Len(L)
  BY <1>2, <1>6
<1> QED
  BY <1>1, <1>6, <1>7, <1>11, <1>12 DEF r, L, rec

\* What a step of the parser leaves alone, whatever the record.
LEMMA ParseRest ==
    ASSUME SimInv, NEW w \in Worker, Parse(w)
    PROVE  /\ read'[w].pos = read[w].pos + 1 /\ read'[w].filled = read[w].filled
           /\ read'[w].fd = read[w].fd /\ read'[w].item = read[w].item
           /\ read'[w].failed = read[w].failed
           /\ \A v \in Worker \ {w} : read'[v] = read[v]
           /\ \A v \in Worker : Len(names[v]) \in Nat /\ Len(names'[v]) \in Nat
                               /\ Len(names[v]) <= Len(names'[v])
                               /\ \A i \in 1 .. Len(names[v]) : names'[v][i] = names[v][i]
<1> DEFINE r    == read[w]
           rec  == Raw[r.item.dir][Through(w) + 1]
           e    == [name |-> View(w, "paths", Len(names[w]) + 1), typ |-> rec.typ, ino |-> rec.ino]
           more == Append(r.scratch, e)
           link == r.sawLink \/ rec.typ = "lnk"
<1>1. \/ names' = names /\ read' = [read EXCEPT ![w] = [r EXCEPT !.pos = r.pos + 1]]
      \/ /\ rec.name \in Name
         /\ names' = [names EXCEPT ![w] = Append(names[w], rec.name)]
         /\ read' = [read EXCEPT ![w] =
                        [r EXCEPT !.pos = r.pos + 1, !.scratch = more, !.sawLink = link]]
  BY ParseReads
<1>2. r \in ReadType /\ DOMAIN read = Worker /\ names \in [Worker -> Seq(Name)]
  BY DEF SimInv, Inv, Types
<1> HIDE DEF r, rec, more, link
<1>3. /\ \/ read'[w] = [r EXCEPT !.pos = r.pos + 1]
         \/ read'[w] = [r EXCEPT !.pos = r.pos + 1, !.scratch = more, !.sawLink = link]
      /\ \A v \in Worker \ {w} : read'[v] = read[v]
  BY <1>1, <1>2
<1>4. /\ read'[w].pos = r.pos + 1 /\ read'[w].filled = r.filled
      /\ read'[w].fd = r.fd /\ read'[w].item = r.item /\ read'[w].failed = r.failed
  BY <1>2, <1>3 DEF ReadType
<1>5. ASSUME NEW v \in Worker
      PROVE  /\ Len(names[v]) \in Nat /\ Len(names'[v]) \in Nat /\ Len(names[v]) <= Len(names'[v])
             /\ \A i \in 1 .. Len(names[v]) : names'[v][i] = names[v][i]
  <2>1. names[v] \in Seq(Name) /\ Len(names[v]) \in Nat
    BY <1>2, LenProperties
  <2>2. names'[v] = names[v] \/ \E x \in Name : names'[v] = Append(names[v], x)
    BY <1>1, <1>2
  <2> QED
    BY <2>1, <2>2, AppendProperties
<1> QED
  BY <1>3, <1>4, <1>5 DEF r

LEMMA ParseReaders ==
    ASSUME SimInv, NEW w \in Worker, Parse(w)
    PROVE  Readers'
<1>1. pc[w] = "read" /\ UNCHANGED <<pc, buf, files>>
  BY ParseReads
<1>2. /\ read'[w].filled = read[w].filled /\ read'[w].fd = read[w].fd
      /\ read'[w].item = read[w].item /\ read'[w].failed = read[w].failed
      /\ \A v \in Worker \ {w} : read'[v] = read[v]
  BY ParseRest
<1>3. Untouched(w)' /\ Buffered(w)'
  BY <1>1, <1>2 DEF SimInv, Readers, Untouched, Buffered
<1> QED
  BY <1>1, <1>2, <1>3, OneReader DEF SimInv

-----------------------------------------------------------------------------
(* Items and names                                                         *)

\* A step between a worker's Take and its Send.
LEMMA SameOwners ==
    ASSUME Ownership, Busy' = Busy, UNCHANGED <<queued, sent>>,
           \A v \in Busy : read'[v].item = read[v].item
    PROVE  Ownership'
BY DEF Ownership

LEMMA TakeOwners ==
    ASSUME SimInv, NEW w \in Worker, NEW it \in queued, Take(w, it)
    PROVE  Ownership'
<1>1. /\ pc[w] = "idle" /\ pc' = [pc EXCEPT ![w] = "open"]
      /\ read' = [read EXCEPT ![w] = NewRead(it)]
      /\ queued' = queued \ {it} /\ UNCHANGED sent
  BY DEF Take
<1>2. DOMAIN pc = Worker /\ DOMAIN read = Worker /\ queued \subseteq Items
  BY DEF SimInv, Inv, Types
<1>3. /\ Busy' = Busy \cup {w} /\ w \notin Busy
      /\ read'[w].item = it /\ \A v \in Busy : read'[v] = read[v]
  BY <1>1, <1>2 DEF Busy, NewRead
<1>4. /\ \A v \in Busy : read[v].item \in Items \ queued
      /\ \A u, v \in Busy : read[u].item = read[v].item => u = v
      /\ \A b \in sent : /\ \A i \in queued : i.path # b.dir
                         /\ \A v \in Busy : read[v].item.path # b.dir
  BY DEF SimInv, Ownership
<1>5. \A v \in Busy' : read'[v].item \in Items \ queued'
  BY <1>1, <1>2, <1>3, <1>4
<1>6. \A u, v \in Busy' : read'[u].item = read'[v].item => u = v
  BY <1>3, <1>4
<1>7. \A b \in sent' : /\ \A i \in queued' : i.path # b.dir
                       /\ \A v \in Busy' : read'[v].item.path # b.dir
  BY <1>1, <1>3, <1>4
<1> QED
  BY <1>5, <1>6, <1>7 DEF Ownership

LEMMA SendOwners ==
    ASSUME SimInv, NEW w \in Worker, Send(w)
    PROVE  Ownership'
<1> DEFINE batch == [dir |-> read[w].item.path, failed |-> read[w].failed,
                     entries |-> IF read[w].failed THEN << >> ELSE read[w].scratch]
<1>1. /\ pc[w] = "send" /\ pc' = [pc EXCEPT ![w] = "idle"]
      /\ read' = [read EXCEPT ![w] = NoRead]
      /\ sent' = sent \cup {batch} /\ UNCHANGED queued
  BY DEF Send
<1>2. DOMAIN pc = Worker /\ DOMAIN read = Worker /\ queued \subseteq Items
  BY DEF SimInv, Inv, Types
<1>3. Busy' = Busy \ {w} /\ w \in Busy /\ \A v \in Busy' : read'[v] = read[v]
  BY <1>1, <1>2 DEF Busy
<1>4. batch.dir = read[w].item.path
  OBVIOUS
<1> HIDE DEF batch
<1>5. /\ \A v \in Busy : read[v].item \in Items \ queued
      /\ \A u, v \in Busy : read[u].item = read[v].item => u = v
      /\ \A b \in sent : /\ \A i \in queued : i.path # b.dir
                         /\ \A v \in Busy : read[v].item.path # b.dir
  BY DEF SimInv, Ownership
<1>6. /\ \A i \in queued : i.path # batch.dir
      /\ \A v \in Busy \ {w} : read[v].item.path # batch.dir
  BY <1>2, <1>3, <1>4, <1>5, ReadDirAssumption
<1>7. \A b \in sent' : /\ \A i \in queued' : i.path # b.dir
                       /\ \A v \in Busy' : read'[v].item.path # b.dir
  BY <1>1, <1>3, <1>5, <1>6
<1> QED
  BY <1>1, <1>3, <1>5, <1>7 DEF Ownership

\* The arenas only grow, and what is in them stays.
Growing == \A v \in Worker : /\ Len(names[v]) \in Nat /\ Len(names'[v]) \in Nat
                             /\ Len(names[v]) <= Len(names'[v])
                             /\ \A i \in 1 .. Len(names[v]) : names'[v][i] = names[v][i]

LEMMA SameNamesGrow == ASSUME SimInv, UNCHANGED names PROVE Growing
<1>1. \A v \in Worker : Len(names[v]) \in Nat
  BY LenProperties DEF SimInv, Inv, Types
<1> QED
  BY <1>1 DEF Growing

LEMMA StoredStays ==
    ASSUME Growing
    PROVE  \A entries : AllStored(entries) =>
              AllStored(entries)' /\ SeenAll(entries)' = SeenAll(entries)
<1> SUFFICES ASSUME NEW entries, AllStored(entries)
             PROVE  AllStored(entries)' /\ SeenAll(entries)' = SeenAll(entries)
  OBVIOUS
<1>1. ASSUME NEW i \in DOMAIN entries
      PROVE  Stored(entries[i].name)' /\ Seen(entries[i])' = Seen(entries[i])
  <2> DEFINE v == entries[i].name
  <2>1. Stored(v)
    BY DEF AllStored
  <2> HIDE DEF v
  <2>2. v.area = "paths" /\ v.worker \in Worker /\ v.at \in 1 .. Len(names[v.worker])
    BY <2>1 DEF Stored
  <2>3. v.at \in 1 .. Len(names'[v.worker]) /\ names'[v.worker][v.at] = names[v.worker][v.at]
    BY <2>2 DEF Growing
  <2>4. Stored(v)' /\ Chars(v)' = Chars(v)
    BY <2>2, <2>3 DEF Stored, Chars
  <2> QED
    BY <2>4 DEF v, Seen
<1>2. AllStored(entries)'
  BY <1>1 DEF AllStored
<1>3. SeenAll(entries)' = SeenAll(entries)
  BY <1>1 DEF SeenAll
<1> QED
  BY <1>2, <1>3

LEMMA NoneStored == AllStored(<< >>)
BY DEF AllStored

\* A step that stores no name and keeps or drops what was read.
LEMMA SameNames ==
    ASSUME SimInv, UNCHANGED <<names, sent>>,
           \A v \in Worker : read'[v].scratch = read[v].scratch \/ read'[v].scratch = << >>
    PROVE  NamesStored'
<1>1. \A v \in Worker : AllStored(read'[v].scratch)
  BY NoneStored DEF SimInv, NamesStored
<1>2. \A entries : AllStored(entries)' <=> AllStored(entries)
  BY DEF AllStored, Stored
<1> QED
  BY <1>1, <1>2 DEF SimInv, NamesStored

\* The elements of a longer sequence.
LEMMA AppendIn ==
    ASSUME NEW V, NEW s \in Seq(V), NEW e
    PROVE  /\ DOMAIN Append(s, e) = 1 .. Len(s) + 1
           /\ Append(s, e)[Len(s) + 1] = e
           /\ \A i \in DOMAIN Append(s, e) : (i \in DOMAIN s /\ Append(s, e)[i] = s[i]) \/ Append(s, e)[i] = e
<1>1. s \in Seq(V \cup {e})
  BY SeqMonotonic
<1>2. /\ Len(s) \in Nat /\ DOMAIN s = 1 .. Len(s)
      /\ Append(s, e) \in Seq(V \cup {e}) /\ Len(Append(s, e)) = Len(s) + 1
      /\ \A i \in 1 .. Len(s) : Append(s, e)[i] = s[i]
      /\ Append(s, e)[Len(s) + 1] = e
  BY <1>1, LenProperties, AppendProperties
<1>3. DOMAIN Append(s, e) = 1 .. Len(s) + 1
  BY <1>2, LenProperties
<1> QED
  BY <1>2, <1>3

LEMMA SendNames ==
    ASSUME SimInv, NEW w \in Worker, Send(w)
    PROVE  NamesStored'
<1> DEFINE batch == [dir |-> read[w].item.path, failed |-> read[w].failed,
                     entries |-> IF read[w].failed THEN << >> ELSE read[w].scratch]
<1>1. read' = [read EXCEPT ![w] = NoRead] /\ sent' = sent \cup {batch} /\ UNCHANGED names
  BY DEF Send
<1>2. AllStored(batch.entries)
  BY NoneStored DEF SimInv, NamesStored
<1> HIDE DEF batch
<1>3. \A v \in Worker : AllStored(read'[v].scratch)
  BY <1>1, NoneStored DEF SimInv, NamesStored, Inv, Types, NoRead, NewRead
<1>4. \A entries : AllStored(entries)' <=> AllStored(entries)
  BY <1>1 DEF AllStored, Stored
<1> QED
  BY <1>1, <1>2, <1>3, <1>4 DEF SimInv, NamesStored

LEMMA ParseNames ==
    ASSUME SimInv, NEW w \in Worker, Parse(w)
    PROVE  NamesStored' /\ Growing
<1> DEFINE r    == read[w]
           rec  == Raw[r.item.dir][Through(w) + 1]
           e    == [name |-> View(w, "paths", Len(names[w]) + 1), typ |-> rec.typ, ino |-> rec.ino]
           more == Append(r.scratch, e)
           link == r.sawLink \/ rec.typ = "lnk"
<1>1. UNCHANGED sent
      /\ \/ names' = names /\ read' = [read EXCEPT ![w] = [r EXCEPT !.pos = r.pos + 1]]
         \/ /\ rec.name \in Name
            /\ names' = [names EXCEPT ![w] = Append(names[w], rec.name)]
            /\ read' = [read EXCEPT ![w] =
                           [r EXCEPT !.pos = r.pos + 1, !.scratch = more, !.sawLink = link]]
  BY ParseReads
<1>2. r \in ReadType /\ DOMAIN read = Worker /\ names \in [Worker -> Seq(Name)]
  BY DEF SimInv, Inv, Types
<1>3. Growing
  BY ParseRest DEF Growing
<1>4. \A entries : AllStored(entries) => AllStored(entries)'
  BY <1>3, StoredStays
<1>5. \A v \in Worker \ {w} : read'[v] = read[v]
  BY ParseRest
<1>6. ASSUME NEW v \in Worker
      PROVE  \A i \in DOMAIN read'[v].scratch :
                LET x == read'[v].scratch[i].name
                IN  x.area = "paths" /\ x.worker \in Worker /\ x.at \in 1 .. Len(names'[x.worker])
  <2>1. \A i \in DOMAIN read[v].scratch :
           LET x == read[v].scratch[i].name
           IN  x.area = "paths" /\ x.worker \in Worker /\ x.at \in 1 .. Len(names'[x.worker])
    BY <1>4 DEF SimInv, NamesStored, AllStored, Stored
  <2>2. CASE read'[v].scratch = read[v].scratch
    BY <2>1, <2>2
  <2>3. CASE /\ v = w /\ rec.name \in Name
             /\ names' = [names EXCEPT ![w] = Append(names[w], rec.name)]
             /\ read'[w].scratch = more
    <3>1. r.scratch \in Seq([name : Views, typ : DType, ino : Nat])
      BY <1>2 DEF ReadType
    <3>2. Len(names[w]) \in Nat /\ names[w] \in Seq(Name)
      BY <1>2, LenProperties
    <3>3. Len(names'[w]) = Len(names[w]) + 1
      <4>1. names'[w] = Append(names[w], rec.name) /\ rec.name \in Name
        BY <1>2, <2>3
      <4> HIDE DEF rec
      <4> QED
        BY <3>2, <4>1, AppendProperties
    <3>4. e.name.area = "paths" /\ e.name.worker = w /\ e.name.at \in 1 .. Len(names'[w])
      BY <3>2, <3>3 DEF View
    <3> HIDE DEF e
    <3>5. \A i \in DOMAIN more : (i \in DOMAIN r.scratch /\ more[i] = r.scratch[i]) \/ more[i] = e
      BY <3>1, LenProperties, AppendIn
    <3> HIDE DEF more
    <3>6. \A i \in DOMAIN more :
             LET x == more[i].name
             IN  x.area = "paths" /\ x.worker \in Worker /\ x.at \in 1 .. Len(names'[x.worker])
      <4> TAKE i \in DOMAIN more
      <4>1. CASE i \in DOMAIN r.scratch /\ more[i] = r.scratch[i]
        BY <2>1, <2>3, <4>1
      <4>2. CASE more[i] = e
        BY <3>4, <4>2
      <4> QED
        BY <3>5, <4>1, <4>2
    <3> QED
      BY <2>3, <3>6
  <2>4. CASE v # w
    BY <1>5, <2>2, <2>4
  <2>5. CASE v = w
    <3>1. \/ read'[w].scratch = r.scratch
          \/ /\ rec.name \in Name
             /\ names' = [names EXCEPT ![w] = Append(names[w], rec.name)]
             /\ read'[w].scratch = more
      <4> HIDE DEF rec, more, link, r
      <4> QED
        BY <1>1, <1>2 DEF ReadType
    <3> QED
      BY <2>2, <2>3, <2>5, <3>1
  <2> QED
    BY <2>4, <2>5
<1>7. \A b \in sent : AllStored(b.entries)'
  BY <1>4 DEF SimInv, NamesStored
<1>8. NamesStored'
  BY <1>1, <1>6, <1>7 DEF NamesStored, AllStored, Stored
<1> QED
  BY <1>3, <1>8

LEMMA SimStart == Init => SimInv
<1> SUFFICES ASSUME Init PROVE SimInv
  OBVIOUS
<1>1. pc = [w \in Worker |-> "idle"] /\ read = [w \in Worker |-> NoRead] /\ sent = {}
  BY DEF Init
<1>2. Busy = {}
  BY <1>1 DEF Busy
<1>3. Ownership
  BY <1>1, <1>2 DEF Ownership
<1>4. NamesStored
  BY <1>1 DEF NamesStored, AllStored, NoRead, NewRead
<1>5. Readers
  BY <1>1 DEF Readers, Untouched, Buffered
<1> QED
  BY <1>3, <1>4, <1>5, InitInv DEF SimInv

LEMMA SimStep == ASSUME SimInv, [Next]_vars PROVE SimInv'
<1>1. Inv'
  BY NextInv DEF SimInv
<1>2. ASSUME UNCHANGED vars PROVE SimInv'
  BY <1>1, <1>2 DEF vars, SimInv, Ownership, Busy, NamesStored, AllStored, Stored,
                    Readers, Untouched, Buffered
<1>3. ASSUME NEW w \in Worker, NEW it \in queued, Take(w, it) PROVE SimInv'
  <2>1. NamesStored'
    BY <1>3, SameNames DEF Take, SimInv, Inv, Types, NewRead
  <2> QED
    BY <1>1, <1>3, <2>1, TakeReaders, TakeOwners DEF SimInv
<1>4. ASSUME NEW w \in Worker, Open(w) \/ OpenFails(w) \/ GetDentsEOF(w) \/ GetDentsFails(w)
                               \/ Close(w)
      PROVE  SimInv'
  <2>1. /\ pc[w] # "idle" /\ pc'[w] # "idle" /\ UNCHANGED <<queued, names, sent>>
        /\ \A v \in Worker \ {w} : pc'[v] = pc[v]
    BY <1>4 DEF Open, OpenFails, GetDentsEOF, GetDentsFails, Parsed, Close, SimInv, Inv, Types
  <2>2. \A v \in Worker : read'[v].item = read[v].item /\ read'[v].scratch = read[v].scratch
    <3>1. \/ read' = read
          \/ \E fd \in {FreeFd} : read' = [read EXCEPT ![w] = [read[w] EXCEPT !.fd = fd]]
          \/ read' = [read EXCEPT ![w] = [read[w] EXCEPT !.failed = TRUE]]
      BY <1>4 DEF Open, OpenFails, GetDentsEOF, GetDentsFails, Close
    <3>2. read \in [Worker -> ReadType]
      BY DEF SimInv, Inv, Types
    <3> SUFFICES ASSUME NEW v \in Worker
                 PROVE  read'[v].item = read[v].item /\ read'[v].scratch = read[v].scratch
      OBVIOUS
    <3>3. read[w] \in ReadType
      BY <3>2
    <3>4. \/ read'[v] = read[v]
          \/ \E fd : v = w /\ read'[v] = [read[w] EXCEPT !.fd = fd]
          \/ v = w /\ read'[v] = [read[w] EXCEPT !.failed = TRUE]
      BY <3>1, <3>2
    <3> QED
      BY <3>3, <3>4 DEF ReadType
  <2>3. Busy' = Busy
    BY <2>1 DEF Busy
  <2>4. Ownership'
    BY <2>1, <2>2, <2>3, SameOwners DEF SimInv, Busy
  <2>5. NamesStored'
    BY <2>1, <2>2, SameNames
  <2>6. Readers'
    BY <1>4, OpenReaders, DoneReaders
  <2> QED
    BY <1>1, <2>4, <2>5, <2>6 DEF SimInv
<1>5. ASSUME NEW w \in Worker, NEW n \in 1 .. BufRecords, GetDents(w, n) PROVE SimInv'
  <2>1. /\ UNCHANGED <<queued, pc, names, sent>>
        /\ \A v \in Worker : read'[v].item = read[v].item /\ read'[v].scratch = read[v].scratch
    BY <1>5, GetDentsReads
  <2>2. Ownership'
    BY <2>1, SameOwners DEF SimInv, Busy
  <2> QED
    BY <1>1, <1>5, <2>1, <2>2, SameNames, GetDentsReaders DEF SimInv
<1>6. ASSUME NEW w \in Worker, Parse(w) PROVE SimInv'
  <2>1. /\ UNCHANGED <<queued, pc, sent>>
        /\ \A v \in Worker : read'[v].item = read[v].item
    BY <1>6, ParseReads, ParseRest
  <2>2. Ownership'
    BY <2>1, SameOwners DEF SimInv, Busy
  <2> QED
    BY <1>1, <1>6, <2>2, ParseNames, ParseReaders DEF SimInv
<1>7. ASSUME NEW w \in Worker, Send(w) PROVE SimInv'
  BY <1>1, <1>7, SendOwners, SendNames, DoneReaders DEF SimInv
<1> QED
  BY <1>2, <1>3, <1>4, <1>5, <1>6, <1>7 DEF Next, Step, Quiet

-----------------------------------------------------------------------------
(* What the walker sees                                                    *)

AbstractPc == [v \in Worker |-> WalkerPc(v)]

AbstractTask == [v \in Worker |-> WalkerTask(v)]

Batches == {SeenBatch(b) : b \in sent}

LEMMA NothingSeen == SeenAll(<< >>) = << >> /\ SeenAll(<< >>)' = << >>
<1>1. ASSUME NEW f, f \in [1 .. 0 -> {}] PROVE f = << >>
  <2>1. f \in Seq({}) /\ Len(f) = 0
    <3>1. f \in Seq({})
      BY <1>1, SeqDef
    <3>2. DOMAIN f = 1 .. 0
      BY <1>1
    <3> QED
      BY <3>1, <3>2, LenProperties
  <2> QED
    BY <2>1, EmptySeq
<1>2. DOMAIN << >> = 1 .. 0
  OBVIOUS
<1>3. SeenAll(<< >>) \in [1 .. 0 -> {}]
  BY <1>2 DEF SeenAll
<1>4. SeenAll(<< >>)' \in [1 .. 0 -> {}]
  BY <1>2 DEF SeenAll
<1> QED
  BY <1>1, <1>3, <1>4

LEMMA SameBatches ==
    ASSUME SimInv, Growing, UNCHANGED sent
    PROVE  Batches' = Batches
<1>1. ASSUME NEW b \in sent PROVE SeenBatch(b)' = SeenBatch(b)
  <2>1. AllStored(b.entries)
    BY DEF SimInv, NamesStored
  <2>2. SeenAll(b.entries)' = SeenAll(b.entries)
    BY <2>1, StoredStays
  <2> QED
    BY <2>2 DEF SeenBatch
<1> QED
  BY <1>1 DEF Batches

\* What the walker sees of the workers that do not take this step.
LEMMA OthersShow ==
    ASSUME SimInv, Growing, NEW w \in Worker,
           \A v \in Worker \ {w} :
              /\ pc'[v] = pc[v] /\ read'[v] = read[v]
              /\ v \in Holders => files'[read[v].fd] = files[read[v].fd]
    PROVE  \A v \in Worker \ {w} : WalkerPc(v)' = WalkerPc(v) /\ WalkerTask(v)' = WalkerTask(v)
<1> SUFFICES ASSUME NEW v \in Worker \ {w}
             PROVE  WalkerPc(v)' = WalkerPc(v) /\ WalkerTask(v)' = WalkerTask(v)
  OBVIOUS
<1>1. WalkerPc(v)' = WalkerPc(v)
  BY DEF WalkerPc
<1>2. pc[v] = "read" => Through(v)' = Through(v)
  BY DEF Through, Holders
<1>3. SeenAll(read[v].scratch)' = SeenAll(read[v].scratch)
  <2>1. AllStored(read[v].scratch)
    BY DEF SimInv, NamesStored
  <2>2. \A entries : AllStored(entries) => SeenAll(entries)' = SeenAll(entries)
    BY StoredStays
  <2> QED
    BY <2>1, <2>2 DEF SeenAll
<1>4. WalkerTask(v)' = WalkerTask(v)
  BY <1>2, <1>3 DEF WalkerTask
<1> QED
  BY <1>1, <1>4

\* A step that the walker sees of one worker only.
LEMMA OneShows ==
    ASSUME NEW w \in Worker, NEW p, NEW t, WalkerPc(w)' = p, WalkerTask(w)' = t,
           \A v \in Worker \ {w} : WalkerPc(v)' = WalkerPc(v) /\ WalkerTask(v)' = WalkerTask(v)
    PROVE  /\ AbstractPc' = [AbstractPc EXCEPT ![w] = p]
           /\ AbstractTask' = [AbstractTask EXCEPT ![w] = t]
BY DEF AbstractPc, AbstractTask

\* A step the walker does not see.
LEMMA Unseen ==
    ASSUME SimInv, Growing, UNCHANGED <<faulty, queued, sent>>, NEW w \in Worker,
           WalkerPc(w)' = WalkerPc(w), WalkerTask(w)' = WalkerTask(w),
           \A v \in Worker \ {w} :
              /\ pc'[v] = pc[v] /\ read'[v] = read[v]
              /\ v \in Holders => files'[read[v].fd] = files[read[v].fd]
    PROVE  UNCHANGED Walker!vars
<1>1. \A v \in Worker : WalkerPc(v)' = WalkerPc(v) /\ WalkerTask(v)' = WalkerTask(v)
  BY OthersShow
<1>2. AbstractPc' = AbstractPc /\ AbstractTask' = AbstractTask
  BY <1>1 DEF AbstractPc, AbstractTask
<1>3. Batches' = Batches
  BY SameBatches
<1>4. WalkerConf' = WalkerConf
  BY DEF WalkerConf
<1> QED
  BY <1>2, <1>3, <1>4 DEF Walker!vars, AbstractPc, AbstractTask, Batches

LEMMA ScratchStays ==
    ASSUME SimInv, Growing, NEW w \in Worker, read'[w].scratch = read[w].scratch
    PROVE  SeenAll(read[w].scratch)' = SeenAll(read[w].scratch)
<1>1. AllStored(read[w].scratch)
  BY DEF SimInv, NamesStored
<1>2. \A entries : AllStored(entries) => SeenAll(entries)' = SeenAll(entries)
  BY StoredStays
<1> QED
  BY <1>1, <1>2 DEF SeenAll

LEMMA NoScratch ==
    ASSUME NEW w \in Worker
    PROVE  /\ read[w].scratch = << >> => SeenAll(read[w].scratch) = << >>
           /\ read'[w].scratch = << >> => SeenAll(read[w].scratch)' = << >>
<1>1. ASSUME read'[w].scratch = << >> PROVE SeenAll(read[w].scratch)' = << >>
  BY <1>1, NothingSeen DEF SeenAll
<1> QED
  BY <1>1, NothingSeen

-----------------------------------------------------------------------------
(* A worker's read, as the walker's task                                   *)

Showing(item, pos, entries, failed, link) ==
    [item |-> item, entries |-> IF failed THEN << >> ELSE entries, pos |-> pos, keep |-> 1,
     errs |-> IF failed THEN Unreadable(item.path) ELSE {},
     sawLink |-> link /\ ~ failed, spawn |-> EmptyBag]

\* A record is compared field by field, whatever is in the other fields.
LEMMA TaskErrs ==
    ASSUME NEW item, NEW entries, NEW pos, NEW keep, NEW errs, NEW link, NEW spawn, NEW x
    PROVE  [[item |-> item, entries |-> entries, pos |-> pos, keep |-> keep,
             errs |-> errs, sawLink |-> link, spawn |-> spawn] EXCEPT !.errs = x] =
               [item |-> item, entries |-> entries, pos |-> pos, keep |-> keep,
                errs |-> x, sawLink |-> link, spawn |-> spawn]
OBVIOUS

LEMMA TaskPos ==
    ASSUME NEW item, NEW entries, NEW pos, NEW keep, NEW errs, NEW link, NEW spawn, NEW x
    PROVE  [[item |-> item, entries |-> entries, pos |-> pos, keep |-> keep,
             errs |-> errs, sawLink |-> link, spawn |-> spawn] EXCEPT !.pos = x] =
               [item |-> item, entries |-> entries, pos |-> x, keep |-> keep,
                errs |-> errs, sawLink |-> link, spawn |-> spawn]
OBVIOUS

LEMMA TaskAfter ==
    ASSUME NEW w \in Worker, NEW item, NEW pos, NEW entries, NEW failed \in BOOLEAN, NEW link,
           read'[w].item = item, read'[w].failed = failed, read'[w].sawLink = link,
           ~ failed => SeenAll(read[w].scratch)' = entries,
           pos = IF pc'[w] # "read" THEN 1 ELSE Count(Raw[item.dir], Through(w)') + 1
    PROVE  WalkerTask(w)' = Showing(item, pos, entries, failed, link)
<1>1. WalkerTask(w)' =
         [item |-> item, entries |-> IF failed THEN << >> ELSE SeenAll(read[w].scratch)',
          pos |-> IF pc'[w] # "read" THEN 1 ELSE Count(Raw[read'[w].item.dir], Through(w)') + 1,
          keep |-> 1, errs |-> IF failed THEN Unreadable(item.path) ELSE {},
          sawLink |-> link /\ ~ failed, spawn |-> EmptyBag]
  BY DEF WalkerTask, Unreadable
<1> QED
  BY <1>1 DEF Showing

LEMMA OpenIsUnseen ==
    ASSUME SimInv, NEW w \in Worker, Open(w)
    PROVE  UNCHANGED Walker!vars
<1> DEFINE new == FreeFd
           file == [dir |-> read[w].item.dir, next |-> 1]
           r == read[w]
           L == Raw[r.item.dir]
<1>1. /\ pc[w] = "open" /\ pc' = [pc EXCEPT ![w] = "read"]
      /\ r.item.dir \in Dir
      /\ files' = [fd \in DOMAIN files \cup {new} |-> IF fd = new THEN file ELSE files[fd]]
      /\ read' = [read EXCEPT ![w] = [r EXCEPT !.fd = new]]
      /\ UNCHANGED <<faulty, queued, sent, names>>
  BY DEF Open
<1>2. new \in Nat /\ new \notin DOMAIN files
  BY FreeFdIsFree DEF SimInv, Inv
<1> HIDE DEF new
<1>3. r \in ReadType
  BY DEF SimInv, Inv, Types
<1>4. r.filled = 0 /\ r.pos = 1 /\ ~ r.failed
  BY <1>1 DEF SimInv, Readers, Untouched
<1>5. /\ pc'[w] = "read" /\ read'[w] = [r EXCEPT !.fd = new]
      /\ \A v \in Worker \ {w} : pc'[v] = pc[v] /\ read'[v] = read[v]
  BY <1>1 DEF SimInv, Inv, Types
<1>6. /\ read'[w].fd = new /\ read'[w].item = r.item /\ read'[w].filled = 0 /\ read'[w].pos = 1
      /\ read'[w].failed = r.failed /\ read'[w].scratch = r.scratch
      /\ read'[w].sawLink = r.sawLink /\ files'[new].next = 1
  BY <1>1, <1>3, <1>4, <1>5 DEF ReadType
<1>7. \A v \in Worker \ {w} : v \in Holders => files'[read[v].fd] = files[read[v].fd]
  <2>1. \A v \in Holders : read[v].fd \in DOMAIN files
    BY OwnFile DEF SimInv
  <2> QED
    BY <1>1, <1>2, <2>1
<1>8. Growing
  BY <1>1, SameNamesGrow
<1>9. SeenAll(r.scratch)' = SeenAll(r.scratch)
  BY <1>6, <1>8, ScratchStays
<1>10. Count(L, Through(w)') + 1 = 1
  <2>1. L \in Seq(Record)
    BY <1>1, ReadDirAssumption DEF Record
  <2>2. Through(w)' = 0
    BY <1>6 DEF Through
  <2> QED
    BY <2>1, <2>2, NothingAmongNone
<1>11. WalkerPc(w)' = WalkerPc(w)
  BY <1>1, <1>5 DEF WalkerPc
<1>12. WalkerTask(w) = Showing(r.item, 1, SeenAll(r.scratch), r.failed, r.sawLink)
  BY <1>1 DEF WalkerTask, Showing
<1>13. WalkerTask(w)' = Showing(r.item, 1, SeenAll(r.scratch), r.failed, r.sawLink)
  <2>1. 1 = IF pc'[w] # "read" THEN 1 ELSE Count(Raw[r.item.dir], Through(w)') + 1
    BY <1>5, <1>10
  <2>2. r.failed \in BOOLEAN
    BY <1>3 DEF ReadType
  <2> QED
    BY <1>6, <1>9, <2>1, <2>2, TaskAfter
<1> QED
  BY <1>1, <1>5, <1>7, <1>8, <1>11, <1>12, <1>13, Unseen

LEMMA GetDentsIsUnseen ==
    ASSUME SimInv, NEW w \in Worker, NEW n \in 1 .. BufRecords, GetDents(w, n)
    PROVE  UNCHANGED Walker!vars
<1> DEFINE r == read[w]
           f == files[r.fd]
           L == Raw[r.item.dir]
<1>1. /\ pc[w] = "read" /\ r.pos = r.filled + 1 /\ UNCHANGED <<queued, pc, names, sent>>
      /\ read'[w].pos = 1 /\ read'[w].filled = n
      /\ read'[w].fd = r.fd /\ read'[w].item = r.item /\ read'[w].failed = r.failed
      /\ read'[w].scratch = r.scratch /\ read'[w].sawLink = r.sawLink
      /\ files'[r.fd].next = f.next + n
      /\ \A v \in Worker \ {w} : read'[v] = read[v]
      /\ \A v \in Worker \ {w} : v \in Holders => files'[read[v].fd] = files[read[v].fd]
  BY GetDentsReads
<1>2. UNCHANGED faulty
  BY DEF GetDents
<1>3. f.next \in Nat \ {0} /\ n \in Nat /\ r.filled \in Nat /\ r.failed \in BOOLEAN
  <2>1. Inv /\ pc[w] = "read"
    BY <1>1 DEF SimInv
  <2>2. f.next \in Nat \ {0} /\ r.filled \in Nat /\ r \in ReadType
    BY <2>1, OwnListing
  <2>3. r.failed \in BOOLEAN
    BY <2>2 DEF ReadType
  <2> QED
    BY <2>2, <2>3, ReadDirAssumption
<1>4. Growing
  BY <1>1, SameNamesGrow
<1>5. SeenAll(r.scratch)' = SeenAll(r.scratch)
  BY <1>1, <1>4, ScratchStays
<1>6. Through(w)' = Through(w)
  <2>1. Through(w) = f.next - 1 - (r.filled + 1 - r.pos)
    BY DEF Through
  <2>2. Through(w)' = f.next + n - 1 - (n + 1 - 1)
    <3>1. files'[read'[w].fd].next = f.next + n /\ read'[w].filled = n /\ read'[w].pos = 1
      BY <1>1
    <3>2. Through(w)' = files'[read'[w].fd].next - 1 - (read'[w].filled + 1 - read'[w].pos)
      BY DEF Through
    <3> HIDE DEF f, r
    <3> QED
      BY <1>3, <3>1, <3>2
  <2> HIDE DEF f, r
  <2> QED
    BY <1>1, <1>3, <2>1, <2>2
<1>7. WalkerPc(w)' = WalkerPc(w)
  BY <1>1 DEF WalkerPc
<1> DEFINE pos == Count(L, Through(w)) + 1
<1>8. WalkerTask(w) = Showing(r.item, pos, SeenAll(r.scratch), r.failed, r.sawLink)
  BY <1>1 DEF WalkerTask, Showing
<1>9. WalkerTask(w)' = Showing(r.item, pos, SeenAll(r.scratch), r.failed, r.sawLink)
  BY <1>1, <1>3, <1>5, <1>6, TaskAfter
<1> QED
  BY <1>1, <1>2, <1>4, <1>7, <1>8, <1>9, Unseen

LEMMA CloseIsUnseen ==
    ASSUME SimInv, NEW w \in Worker, Close(w)
    PROVE  UNCHANGED Walker!vars
<1> DEFINE r == read[w]
<1>1. /\ pc[w] = "close" /\ pc' = [pc EXCEPT ![w] = "send"]
      /\ files' = [fd \in DOMAIN files \ {r.fd} |-> files[fd]]
      /\ UNCHANGED <<faulty, queued, read, names, sent>>
  BY DEF Close
<1>2. \A v \in Worker \ {w} : v \in Holders => files'[read[v].fd] = files[read[v].fd]
  <2>1. w \in Holders
    BY <1>1 DEF Holders
  <2>2. \A v \in Holders : read[v].fd \in DOMAIN files /\ (v # w => read[v].fd # r.fd)
    BY <2>1, OwnFile DEF SimInv
  <2> QED
    BY <1>1, <2>2
<1>3. pc'[w] = "send" /\ \A v \in Worker \ {w} : pc'[v] = pc[v] /\ read'[v] = read[v]
  BY <1>1 DEF SimInv, Inv, Types
<1>4. Growing
  BY <1>1, SameNamesGrow
<1>5. SeenAll(r.scratch)' = SeenAll(r.scratch)
  BY <1>1, <1>4, ScratchStays
<1>6. WalkerPc(w)' = WalkerPc(w)
  BY <1>1, <1>3 DEF WalkerPc
<1>7. r.failed \in BOOLEAN
  BY DEF SimInv, Inv, Types, ReadType
<1>8. WalkerTask(w) = Showing(r.item, 1, SeenAll(r.scratch), r.failed, r.sawLink)
  BY <1>1 DEF WalkerTask, Showing
<1>9. WalkerTask(w)' = Showing(r.item, 1, SeenAll(r.scratch), r.failed, r.sawLink)
  BY <1>1, <1>3, <1>5, <1>7, TaskAfter
<1> QED
  BY <1>1, <1>2, <1>3, <1>4, <1>6, <1>8, <1>9, Unseen

-----------------------------------------------------------------------------
(* Steps that the walker takes too                                         *)

LEMMA SameEmptyBag == EmptyBag = Walker!EmptyBag
BY DEF EmptyBag, Walker!EmptyBag, SetToBag, Walker!SetToBag

LEMMA ConfShows ==
    /\ WalkerConf.followLinks = FALSE /\ WalkerConf.maxDepth = 1 /\ WalkerConf.skipSet = SkipSet
    /\ WalkerConf.faulty = faulty
    /\ \A d \in Dir : WalkerConf.list[d] = Listed(Raw[d])
BY DEF WalkerConf

\* What the walker sees of a step of w, which sends nothing.
LEMMA Visible ==
    ASSUME SimInv, Growing, UNCHANGED <<faulty, sent>>, NEW w \in Worker,
           NEW p, NEW t, WalkerPc(w)' = p, WalkerTask(w)' = t,
           \A v \in Worker \ {w} :
              /\ pc'[v] = pc[v] /\ read'[v] = read[v]
              /\ v \in Holders => files'[read[v].fd] = files[read[v].fd]
    PROVE  /\ AbstractPc' = [AbstractPc EXCEPT ![w] = p]
           /\ AbstractTask' = [AbstractTask EXCEPT ![w] = t]
           /\ WalkerConf' = WalkerConf /\ Batches' = Batches
<1>1. \A v \in Worker \ {w} : WalkerPc(v)' = WalkerPc(v) /\ WalkerTask(v)' = WalkerTask(v)
  BY OthersShow
<1>2. WalkerConf' = WalkerConf
  BY DEF WalkerConf
<1> QED
  BY <1>1, <1>2, OneShows, SameBatches

LEMMA FailsAsReadFails ==
    ASSUME SimInv, NEW w \in Worker, OpenFails(w) \/ GetDentsFails(w)
    PROVE  Walker!ReadFails(w)
<1> DEFINE r == read[w]
<1>1. /\ pc[w] \in {"open", "read"} /\ pc'[w] \in {"close", "send"}
      /\ \A v \in Worker \ {w} : pc'[v] = pc[v]
      /\ read' = [read EXCEPT ![w].failed = TRUE]
      /\ UNCHANGED <<faulty, queued, names, files, sent>>
  BY DEF OpenFails, GetDentsFails, Parsed, SimInv, Inv, Types
<1>2. r.item.dir \notin Dir \ faulty
  <2>1. CASE OpenFails(w)
    BY <2>1 DEF OpenFails
  <2>2. CASE GetDentsFails(w)
    <3>1. w \in Holders
      BY <2>2 DEF GetDentsFails, Parsed, Holders
    <3> QED
      BY <2>2, <3>1, OwnFile DEF GetDentsFails, SimInv
  <2> QED
    BY <2>1, <2>2
<1>3. /\ read'[w].item = r.item /\ read'[w].failed = TRUE /\ read'[w].sawLink = r.sawLink
      /\ \A v \in Worker \ {w} : read'[v] = read[v]
  <2>1. r \in ReadType /\ DOMAIN read = Worker
    BY DEF SimInv, Inv, Types
  <2>2. read'[w] = [r EXCEPT !.failed = TRUE]
    BY <1>1, <2>1
  <2> QED
    BY <1>1, <2>1, <2>2 DEF ReadType
<1>4. Growing
  BY <1>1, SameNamesGrow
<1> DEFINE it == r.item
           u  == [item |-> it, entries |-> << >>, pos |-> 1, keep |-> 1,
                  errs |-> {[at |-> it.path, err |-> "unreadable"]},
                  sawLink |-> FALSE, spawn |-> EmptyBag]
<1>5. WalkerTask(w)' = u /\ WalkerPc(w)' = "sendErr"
  BY <1>1, <1>3 DEF WalkerTask, WalkerPc, Unreadable
<1>6. /\ AbstractPc' = [AbstractPc EXCEPT ![w] = "sendErr"]
      /\ AbstractTask' = [AbstractTask EXCEPT ![w] = u]
      /\ WalkerConf' = WalkerConf /\ Batches' = Batches
  <2> HIDE DEF u
  <2> QED
    BY <1>1, <1>3, <1>4, <1>5, Visible
<1>7. AbstractPc[w] = "read" /\ AbstractTask[w].item = it
  BY <1>1 DEF AbstractPc, AbstractTask, WalkerPc, WalkerTask
<1>8. u = [Walker!NewTask(it) EXCEPT !.errs = {[at |-> it.path, err |-> "unreadable"]}]
  <2> DEFINE none == << >>
             free == {}
             no   == FALSE
             errs == {[at |-> it.path, err |-> "unreadable"]}
  <2>1. /\ Walker!NewTask(it) = [item |-> it, entries |-> none, pos |-> 1, keep |-> 1,
                                 errs |-> free, sawLink |-> no, spawn |-> EmptyBag]
        /\ u = [item |-> it, entries |-> none, pos |-> 1, keep |-> 1,
                errs |-> errs, sawLink |-> no, spawn |-> EmptyBag]
    BY SameEmptyBag DEF Walker!NewTask
  <2> HIDE DEF it, u, none, free, no, errs
  <2>2. u = [Walker!NewTask(it) EXCEPT !.errs = errs]
    BY <2>1, TaskErrs
  <2> QED
    BY <2>2 DEF errs
<1> HIDE DEF u
<1>9. AbstractTask[w].item.dir \notin Dir \ WalkerConf.faulty
  BY <1>2, <1>7, ConfShows
<1> QED
  BY <1>1, <1>6, <1>7, <1>8, <1>9 DEF Walker!ReadFails, AbstractPc, AbstractTask, Batches

LEMMA EndAsReadDone ==
    ASSUME SimInv, NEW w \in Worker, GetDentsEOF(w)
    PROVE  Walker!ReadDone(w)
<1> DEFINE r    == read[w]
           f    == files[r.fd]
           L    == Raw[r.item.dir]
           item == r.item
           seen == SeenAll(r.scratch)
           link == r.sawLink
           none == FALSE
           pos  == Len(Listed(L)) + 1
<1>1. /\ pc[w] = "read" /\ r.pos > r.filled /\ pc' = [pc EXCEPT ![w] = "close"]
      /\ f.dir \notin faulty /\ f.next > Len(Raw[f.dir])
      /\ UNCHANGED <<faulty, queued, read, names, files, sent>>
  BY DEF GetDentsEOF, Parsed
<1>2. /\ item.dir \in Dir /\ f.dir = item.dir /\ f.next \in Nat /\ L \in Seq(Record)
      /\ Len(L) \in Nat /\ r.filled \in Nat /\ r.pos \in 1 .. r.filled + 1
  BY <1>1, OwnListing DEF SimInv
<1>3. r.failed = FALSE /\ f.next - 1 <= Len(L)
  <2>1. ~ r.failed /\ r.failed \in BOOLEAN /\ f.next - 1 <= Len(L)
    BY <1>1 DEF SimInv, Inv, Types, ReadType, Readers, Buffered
  <2> QED
    BY <2>1
<1>4. pc'[w] = "close" /\ \A v \in Worker \ {w} : pc'[v] = pc[v] /\ read'[v] = read[v]
  BY <1>1 DEF SimInv, Inv, Types
<1>5. Count(L, Through(w)) + 1 = pos
  <2>1. f.next = Len(L) + 1 /\ r.pos = r.filled + 1
    <3>1. f.next > Len(L)
      BY <1>1, <1>2
    <3> HIDE DEF f, r, L
    <3> QED
      BY <1>1, <1>2, <1>3, <3>1
  <2>2. Through(w) = Len(L)
    <3>1. Through(w) = f.next - 1 - (r.filled + 1 - r.pos)
      BY DEF Through
    <3> HIDE DEF f, r, L
    <3> QED
      BY <1>2, <2>1, <3>1
  <2>3. Len(Listed(L)) = Count(L, Len(L))
    BY <1>2, ListedLength
  <2> QED
    BY <2>2, <2>3
<1>6. Growing
  BY <1>1, SameNamesGrow
<1>7. SeenAll(r.scratch)' = seen
  BY <1>1, <1>6, ScratchStays
<1>8. WalkerTask(w) = Showing(item, pos, seen, FALSE, link)
  BY <1>1, <1>3, <1>5 DEF WalkerTask, Showing
<1>9. WalkerTask(w)' = Showing(item, 1, seen, FALSE, link)
  <2>1. /\ read'[w].item = item /\ read'[w].failed = FALSE /\ read'[w].sawLink = link
        /\ 1 = IF pc'[w] # "read" THEN 1 ELSE Count(Raw[item.dir], Through(w)') + 1
    BY <1>1, <1>3, <1>4
  <2> HIDE DEF seen, link, item
  <2>2. WalkerTask(w)' = Showing(item, 1, seen, none, link)
    <3>1. none \in BOOLEAN /\ read'[w].failed = none
      BY <2>1
    <3>2. ~ none => SeenAll(read[w].scratch)' = seen
      BY <1>7
    <3> HIDE DEF none
    <3> QED
      BY <2>1, <3>1, <3>2, TaskAfter
  <2> QED
    BY <2>2
<1> DEFINE t == Showing(item, pos, seen, FALSE, link)
           u == Showing(item, 1, seen, FALSE, link)
<1>10. u = [t EXCEPT !.pos = 1] /\ t.pos = pos /\ t.item = item
  <2> DEFINE saw  == link /\ ~ FALSE
             errs == {}
  <2>1. t = [item |-> item, entries |-> seen, pos |-> pos, keep |-> 1, errs |-> errs,
             sawLink |-> saw, spawn |-> EmptyBag]
        /\ u = [item |-> item, entries |-> seen, pos |-> 1, keep |-> 1, errs |-> errs,
                sawLink |-> saw, spawn |-> EmptyBag]
    BY DEF Showing
  <2> HIDE DEF saw, errs, t, u, item, seen, link, pos
  <2> QED
    BY <2>1, TaskPos
<1>11. WalkerPc(w)' = "send"
  BY <1>1, <1>3, <1>4 DEF WalkerPc
<1> HIDE DEF t, u
<1>12. /\ AbstractPc' = [AbstractPc EXCEPT ![w] = "send"]
       /\ AbstractTask' = [AbstractTask EXCEPT ![w] = u]
       /\ WalkerConf' = WalkerConf /\ Batches' = Batches
  BY <1>1, <1>4, <1>6, <1>9, <1>11, Visible DEF u
<1>13. AbstractPc[w] = "read" /\ AbstractTask[w] = t
  BY <1>1, <1>8 DEF AbstractPc, AbstractTask, WalkerPc, t
<1>14. /\ t.item.dir \in Dir \ WalkerConf.faulty
       /\ t.pos = Len(WalkerConf.list[t.item.dir]) + 1 /\ ~ WalkerConf.followLinks
  BY <1>1, <1>2, <1>10, ConfShows
<1> QED
  BY <1>1, <1>10, <1>12, <1>13, <1>14 DEF Walker!ReadDone, AbstractPc, AbstractTask, Batches

LEMMA SetBags ==
    ASSUME NEW S, NEW x
    PROVE  /\ Walker!BagToSet(SetToBag(S)) = S
           /\ x \in S => SetToBag(S \ {x}) = Walker!(-)(SetToBag(S), Walker!SetToBag({x}))
           /\ x \notin S => SetToBag(S \cup {x}) = Walker!(+)(SetToBag(S), Walker!SetToBag({x}))
BY DEF Walker!BagToSet, SetToBag, Walker!SetToBag, Walker!(-), Walker!(+)

LEMMA TakeAsTake ==
    ASSUME SimInv, NEW w \in Worker, NEW it \in queued, Take(w, it)
    PROVE  Walker!Take(w, it)
<1>1. /\ pc[w] = "idle" /\ pc' = [pc EXCEPT ![w] = "open"]
      /\ read' = [read EXCEPT ![w] = NewRead(it)] /\ queued' = queued \ {it}
      /\ UNCHANGED <<faulty, names, files, sent>>
  BY DEF Take
<1>2. pc'[w] = "open" /\ read'[w] = NewRead(it)
      /\ \A v \in Worker \ {w} : pc'[v] = pc[v] /\ read'[v] = read[v]
  BY <1>1 DEF SimInv, Inv, Types
<1>3. Growing
  BY <1>1, SameNamesGrow
<1>4. WalkerTask(w)' = Walker!NewTask(it)
  <2>1. /\ read'[w].item = it /\ read'[w].failed = FALSE /\ read'[w].sawLink = FALSE
        /\ read'[w].scratch = << >>
    BY <1>2 DEF NewRead
  <2>2. SeenAll(read[w].scratch)' = << >>
    BY <2>1, NoScratch
  <2>3. WalkerTask(w)' = [item |-> it, entries |-> << >>, pos |-> 1, keep |-> 1, errs |-> {},
                          sawLink |-> FALSE, spawn |-> EmptyBag]
    BY <1>2, <2>1, <2>2 DEF WalkerTask
  <2> QED
    BY <2>3, SameEmptyBag DEF Walker!NewTask
<1>5. WalkerPc(w)' = "read"
  BY <1>2 DEF WalkerPc
<1>6. /\ AbstractPc' = [AbstractPc EXCEPT ![w] = "read"]
      /\ AbstractTask' = [AbstractTask EXCEPT ![w] = Walker!NewTask(it)]
      /\ WalkerConf' = WalkerConf /\ Batches' = Batches
  BY <1>1, <1>2, <1>3, <1>4, <1>5, Visible
<1>7. AbstractPc[w] = "idle"
  BY <1>1 DEF AbstractPc, WalkerPc
<1>8. /\ it \in Walker!BagToSet(SetToBag(queued))
      /\ SetToBag(queued)' = Walker!(-)(SetToBag(queued), Walker!SetToBag({it}))
  BY <1>1, SetBags
<1> QED
  BY <1>6, <1>7, <1>8 DEF Walker!Take, AbstractPc, AbstractTask, Batches

-----------------------------------------------------------------------------
(* One record                                                              *)

LEMMA ParseMoves ==
    ASSUME SimInv, NEW w \in Worker, Parse(w)
    PROVE  Through(w)' = Through(w) + 1
<1> DEFINE r == read[w]
           f == files[r.fd]
           s == read'[w]
<1>1. s.pos = r.pos + 1 /\ s.filled = r.filled /\ s.fd = r.fd
  BY ParseRest
<1>2. pc[w] = "read" /\ UNCHANGED files
  BY DEF Parse
<1>3. f.next \in Nat /\ r.filled \in Nat /\ r.pos \in Nat
  BY <1>2, OwnListing DEF SimInv
<1>4. Through(w) = f.next - 1 - (r.filled + 1 - r.pos)
  BY DEF Through
<1>5. Through(w)' = files'[s.fd].next - 1 - (s.filled + 1 - s.pos)
  BY DEF Through
<1>6. files'[s.fd].next = f.next
  BY <1>1, <1>2
<1> HIDE DEF f, r, s
<1> QED
  BY <1>1, <1>3, <1>4, <1>5, <1>6

\* What a reading worker has of its directory.
LEMMA ReadingShows ==
    ASSUME SimInv, NEW w \in Worker, pc[w] = "read"
    PROVE  LET r == read[w]
               L == Raw[r.item.dir]
           IN  /\ r.failed = FALSE /\ WalkerPc(w) = "read"
               /\ WalkerTask(w) = Showing(r.item, Count(L, Through(w)) + 1, SeenAll(r.scratch),
                                          FALSE, r.sawLink)
<1> DEFINE r == read[w]
<1>1. r.failed = FALSE
  <2>1. ~ r.failed /\ r.failed \in BOOLEAN
    BY DEF SimInv, Inv, Types, ReadType, Readers, Buffered
  <2> QED
    BY <2>1
<1>2. WalkerPc(w) = "read"
  BY DEF WalkerPc
<1>3. WalkerTask(w) = Showing(r.item, Count(Raw[r.item.dir], Through(w)) + 1, SeenAll(r.scratch),
                              FALSE, r.sawLink)
  BY <1>1 DEF WalkerTask, Showing
<1> QED
  BY <1>1, <1>2, <1>3

\* And after one more record.
LEMMA ParseShows ==
    ASSUME SimInv, NEW w \in Worker, Parse(w), NEW link, NEW entries,
           read'[w].sawLink = link, SeenAll(read[w].scratch)' = entries
    PROVE  /\ WalkerPc(w)' = "read"
           /\ WalkerTask(w)' =
                 Showing(read[w].item, Count(Raw[read[w].item.dir], Through(w) + 1) + 1, entries,
                         FALSE, link)
<1> DEFINE item == read[w].item
           none == FALSE
           pos  == Count(Raw[item.dir], Through(w) + 1) + 1
<1>1. pc[w] = "read" /\ UNCHANGED pc
  BY DEF Parse
<1>2. read'[w].item = item /\ read'[w].failed = none
  <2>1. read[w].failed = FALSE
    BY <1>1, ReadingShows
  <2> QED
    BY <2>1, ParseRest
<1>3. WalkerPc(w)' = "read"
  BY <1>1 DEF WalkerPc
<1>4. pos = IF pc'[w] # "read" THEN 1 ELSE Count(Raw[item.dir], Through(w)') + 1
  BY <1>1, ParseMoves
<1>5. none \in BOOLEAN
  OBVIOUS
<1> HIDE DEF none, pos, item
<1>6. WalkerTask(w)' = Showing(item, pos, entries, none, link)
  BY <1>2, <1>4, <1>5, TaskAfter
<1> QED
  BY <1>3, <1>6 DEF none, pos, item

LEMMA ParseAlone ==
    ASSUME SimInv, NEW w \in Worker, Parse(w)
    PROVE  /\ pc[w] = "read" /\ UNCHANGED <<faulty, queued, pc, sent>> /\ Growing
           /\ \A v \in Worker \ {w} :
                 /\ pc'[v] = pc[v] /\ read'[v] = read[v]
                 /\ v \in Holders => files'[read[v].fd] = files[read[v].fd]
<1>1. pc[w] = "read" /\ UNCHANGED <<faulty, queued, pc, files, sent>>
  BY DEF Parse
<1>2. \A v \in Worker \ {w} : read'[v] = read[v]
  BY ParseRest
<1> QED
  BY <1>1, <1>2, ParseNames

\* "." and "..", which the listing leaves out.
LEMMA DotIsUnseen ==
    ASSUME SimInv, NEW w \in Worker, Parse(w),
           Raw[read[w].item.dir][Through(w) + 1].name \in Dots
    PROVE  UNCHANGED Walker!vars
<1> DEFINE r == read[w]
           L == Raw[r.item.dir]
           n == Through(w)
<1>1. /\ pc[w] = "read" /\ UNCHANGED <<faulty, queued, sent>> /\ Growing
      /\ \A v \in Worker \ {w} :
            /\ pc'[v] = pc[v] /\ read'[v] = read[v]
            /\ v \in Holders => files'[read[v].fd] = files[read[v].fd]
  BY ParseAlone
<1>2. read' = [read EXCEPT ![w] = [r EXCEPT !.pos = r.pos + 1]] /\ n \in Nat /\ n + 1 <= Len(L)
  BY ParseReads, ReadDirAssumption
<1>3. r \in ReadType /\ DOMAIN read = Worker
  BY DEF SimInv, Inv, Types
<1>4. read'[w] = [r EXCEPT !.pos = r.pos + 1]
  BY <1>2, <1>3
<1>5. read'[w].scratch = r.scratch /\ read'[w].sawLink = r.sawLink
  BY <1>3, <1>4 DEF ReadType
<1>6. SeenAll(r.scratch)' = SeenAll(r.scratch)
  BY <1>1, <1>5, ScratchStays
<1>7. L \in Seq(Record)
  BY <1>1, OwnListing DEF SimInv
<1>8. Count(L, n + 1) = Count(L, n)
  <2> HIDE DEF L, n
  <2> QED
    BY <1>2, <1>7, NextListed DEF L, n
<1> DEFINE item == r.item
           seen == SeenAll(r.scratch)
           link == r.sawLink
<1>9. WalkerPc(w) = "read" /\ WalkerTask(w) = Showing(item, Count(L, n) + 1, seen, FALSE, link)
  BY <1>1, ReadingShows
<1>10. /\ WalkerPc(w)' = "read"
       /\ WalkerTask(w)' = Showing(item, Count(L, n + 1) + 1, seen, FALSE, link)
  <2>1. read'[w].sawLink = link /\ SeenAll(read[w].scratch)' = seen
    BY <1>5, <1>6
  <2> HIDE DEF seen, link
  <2> QED
    BY <2>1, ParseShows
<1>11. WalkerPc(w)' = WalkerPc(w) /\ WalkerTask(w)' = WalkerTask(w)
  <2> HIDE DEF seen, link, L, n, item
  <2> QED
    BY <1>8, <1>9, <1>10
<1> QED
  BY <1>1, <1>11, Unseen

LEMMA TaskAdvance ==
    ASSUME NEW item, NEW entries, NEW pos, NEW keep, NEW errs, NEW link, NEW spawn
    PROVE  Walker!Advance([item |-> item, entries |-> entries, pos |-> pos, keep |-> keep,
                           errs |-> errs, sawLink |-> link, spawn |-> spawn]) =
               [item |-> item, entries |-> entries, pos |-> pos + 1, keep |-> keep,
                errs |-> errs, sawLink |-> link, spawn |-> spawn]
BY DEF Walker!Advance

LEMMA TaskEntry ==
    ASSUME NEW item, NEW entries, NEW pos, NEW keep, NEW errs, NEW link, NEW spawn, NEW x, NEW rec,
           x = (link \/ rec.typ = "lnk")
    PROVE  Walker!OnEntry([item |-> item, entries |-> entries, pos |-> pos, keep |-> keep,
                           errs |-> errs, sawLink |-> link, spawn |-> spawn], rec) =
               [item |-> item, entries |-> Append(entries, rec), pos |-> pos + 1, keep |-> keep,
                errs |-> errs, sawLink |-> x, spawn |-> spawn]
<1> DEFINE t == [item |-> item, entries |-> entries, pos |-> pos, keep |-> keep,
                 errs |-> errs, sawLink |-> link, spawn |-> spawn]
<1>1. Walker!OnEntry(t, rec) =
         [t EXCEPT !.pos = pos + 1, !.entries = Append(entries, rec), !.sawLink = x]
  BY DEF Walker!OnEntry
<1> QED
  BY <1>1

\* The walker is at the same record of the listing.
LEMMA SameRecord ==
    ASSUME SimInv, NEW w \in Worker, Parse(w),
           Raw[read[w].item.dir][Through(w) + 1].name \notin Dots
    PROVE  LET L == Raw[read[w].item.dir]
               n == Through(w)
           IN  /\ Count(L, n + 1) = Count(L, n) + 1 /\ Count(L, n) \in Nat
               /\ read[w].item.dir \in Dir
               /\ Count(L, n) + 1 \in DOMAIN WalkerConf.list[read[w].item.dir]
               /\ WalkerConf.list[read[w].item.dir][Count(L, n) + 1] = L[n + 1]
<1> DEFINE L == Raw[read[w].item.dir]
           n == Through(w)
<1>1. n \in Nat /\ n + 1 <= Len(L) /\ pc[w] = "read"
  BY ParseReads
<1>2. L \in Seq(Record) /\ read[w].item.dir \in Dir
  BY <1>1, OwnListing DEF SimInv
<1>3. WalkerConf.list[read[w].item.dir] = Listed(L)
  BY <1>2, ConfShows
<1>4. L[n + 1].name \notin Dots
  OBVIOUS
<1> HIDE DEF L, n
<1>5. /\ Count(L, n + 1) = Count(L, n) + 1
      /\ Count(L, n) + 1 \in 1 .. Count(L, Len(L))
      /\ Listed(L)[Count(L, n) + 1] = L[n + 1]
  BY <1>1, <1>2, <1>4, NextListed
<1>6. DOMAIN Listed(L) = 1 .. Count(L, Len(L))
  BY <1>2, ListedLength
<1>7. Count(L, n) \in Nat
  BY <1>2, AmongFinite
<1> QED
  BY <1>2, <1>3, <1>5, <1>6, <1>7 DEF L, n

\* A record on the skip list.
LEMMA SkippedAsReadRecord ==
    ASSUME SimInv, NEW w \in Worker, Parse(w),
           Raw[read[w].item.dir][Through(w) + 1].name \notin Dots,
           Raw[read[w].item.dir][Through(w) + 1].name \in SkipSet
    PROVE  Walker!ReadRecord(w)
<1> DEFINE r    == read[w]
           item == r.item
           L    == Raw[r.item.dir]
           n    == Through(w)
           rec  == L[n + 1]
           pos  == Count(L, n) + 1
           seen == SeenAll(r.scratch)
           link == r.sawLink
           t    == Showing(item, pos, seen, FALSE, link)
           u    == Showing(item, pos + 1, seen, FALSE, link)
<1>1. /\ pc[w] = "read" /\ UNCHANGED <<faulty, queued, sent>> /\ Growing
      /\ \A v \in Worker \ {w} :
            /\ pc'[v] = pc[v] /\ read'[v] = read[v]
            /\ v \in Holders => files'[read[v].fd] = files[read[v].fd]
  BY ParseAlone
<1>2. /\ Count(L, n + 1) = pos /\ item.dir \in Dir /\ pos \in DOMAIN WalkerConf.list[item.dir]
      /\ WalkerConf.list[item.dir][pos] = rec
  BY SameRecord
<1>3. read'[w].scratch = r.scratch /\ read'[w].sawLink = r.sawLink
  <2>1. read' = [read EXCEPT ![w] = [r EXCEPT !.pos = r.pos + 1]]
    BY ParseReads
  <2>2. r \in ReadType /\ DOMAIN read = Worker
    BY DEF SimInv, Inv, Types
  <2>3. read'[w] = [r EXCEPT !.pos = r.pos + 1]
    BY <2>1, <2>2
  <2> QED
    BY <2>2, <2>3 DEF ReadType
<1>4. SeenAll(r.scratch)' = seen
  BY <1>1, <1>3, ScratchStays
<1>5. WalkerPc(w) = "read" /\ WalkerTask(w) = t
  BY <1>1, ReadingShows
<1>6. WalkerPc(w)' = "read" /\ WalkerTask(w)' = u
  BY <1>2, <1>3, <1>4, ParseShows
<1>7. u = Walker!Advance(t) /\ t.item = item /\ t.pos = pos
  <2> DEFINE saw  == link /\ ~ FALSE
             errs == {}
  <2>1. t = [item |-> item, entries |-> seen, pos |-> pos, keep |-> 1, errs |-> errs,
             sawLink |-> saw, spawn |-> EmptyBag]
        /\ u = [item |-> item, entries |-> seen, pos |-> pos + 1, keep |-> 1, errs |-> errs,
                sawLink |-> saw, spawn |-> EmptyBag]
    BY DEF Showing
  <2> HIDE DEF saw, errs, t, u, item, seen, link, pos
  <2> QED
    BY <2>1, TaskAdvance
<1> HIDE DEF t, u
<1>8. /\ AbstractPc' = [AbstractPc EXCEPT ![w] = "read"]
      /\ AbstractTask' = [AbstractTask EXCEPT ![w] = u]
      /\ WalkerConf' = WalkerConf /\ Batches' = Batches
  BY <1>1, <1>6, Visible
<1>9. AbstractPc[w] = "read" /\ AbstractTask[w] = t
  BY <1>5 DEF AbstractPc, AbstractTask
<1>10. AbstractPc' = AbstractPc
  BY <1>8, <1>9 DEF AbstractPc
<1>11. /\ t.item.dir \in Dir /\ t.pos \in DOMAIN WalkerConf.list[t.item.dir]
       /\ WalkerConf.list[t.item.dir][t.pos].name \in WalkerConf.skipSet
  BY <1>2, <1>7, ConfShows
<1> QED
  BY <1>1, <1>7, <1>8, <1>9, <1>10, <1>11 DEF Walker!ReadRecord, AbstractPc, AbstractTask, Batches

LEMMA AppendRuns ==
    ASSUME NEW V, NEW s \in Seq(V), NEW e
    PROVE  Append(s, e) = [i \in 1 .. Len(s) + 1 |-> IF i <= Len(s) THEN s[i] ELSE e]
<1> DEFINE W == V \cup {e}
<1>1. s \in Seq(W) /\ e \in W
  OBVIOUS
<1> HIDE DEF W
<1>2. /\ Append(s, e) \in Seq(W) /\ Len(Append(s, e)) = Len(s) + 1 /\ Len(s) \in Nat
      /\ \A i \in 1 .. Len(s) : Append(s, e)[i] = s[i]
      /\ Append(s, e)[Len(s) + 1] = e
  BY <1>1, AppendProperties
<1> DEFINE t == Append(s, e)
           k == Len(s)
<1>3. t = [i \in 1 .. k + 1 |-> t[i]]
  <2>1. t \in Seq(W) /\ Len(t) = k + 1
    BY <1>2
  <2> HIDE DEF t, k
  <2> QED
    BY <2>1
<1>4. ASSUME NEW i \in 1 .. k + 1 PROVE t[i] = IF i <= k THEN s[i] ELSE e
  <2>1. k \in Nat /\ t[k + 1] = e /\ \A j \in 1 .. k : t[j] = s[j]
    BY <1>2
  <2> HIDE DEF t, k
  <2>2. i \in 1 .. k \/ (i = k + 1 /\ ~ (i <= k))
    BY <2>1
  <2> QED
    BY <2>1, <2>2
<1> HIDE DEF t, k
<1> QED
  BY <1>3, <1>4 DEF t, k

\* What the scratch shows once a name has been stored and its entry appended.
LEMMA AppendShows ==
    ASSUME SimInv, NEW w \in Worker, Growing
    PROVE  \A rec, old, e :
              /\ old = read[w].scratch /\ e.name = View(w, "paths", Len(names[w]) + 1)
              /\ e.typ = rec.typ /\ e.ino = rec.ino /\ rec \in Record
              /\ names'[w] = Append(names[w], rec.name) /\ read'[w].scratch = Append(old, e)
              => SeenAll(read[w].scratch)' = Append(SeenAll(old), rec)
<1> SUFFICES ASSUME NEW rec, NEW old, NEW e,
           old = read[w].scratch, e.name = View(w, "paths", Len(names[w]) + 1),
           e.typ = rec.typ, e.ino = rec.ino, rec \in Record,
           names'[w] = Append(names[w], rec.name), read'[w].scratch = Append(old, e)
    PROVE  SeenAll(read[w].scratch)' = Append(SeenAll(old), rec)
  OBVIOUS
<1> DEFINE now  == Append(old, e)
           view == View(w, "paths", Len(names[w]) + 1)
<1>1. AllStored(old)
  BY DEF SimInv, NamesStored
<1>2. SeenAll(old)' = SeenAll(old)
  BY <1>1, StoredStays
<1>3. /\ old \in Seq([name : Views, typ : DType, ino : Nat]) /\ names[w] \in Seq(Name)
  BY DEF SimInv, Inv, Types, ReadType
<1>4. names'[w][Len(names[w]) + 1] = rec.name
  BY <1>3
<1>5. Chars(e.name)' = rec.name
  <2>1. view.area = "paths" /\ view.worker = w /\ view.at = Len(names[w]) + 1
    BY DEF View
  <2> HIDE DEF view
  <2>2. names'[view.worker][view.at] = rec.name
    BY <1>4, <2>1
  <2>3. e.name = view
    BY DEF view
  <2> QED
    BY <2>1, <2>2, <2>3 DEF Chars
<1>6. Seen(e)' = rec
  <2>1. Seen(e)' = [name |-> rec.name, typ |-> rec.typ, ino |-> rec.ino]
    BY <1>5 DEF Seen
  <2> QED
    BY <2>1 DEF Record
<1>7. SeenAll(read[w].scratch)' = [i \in DOMAIN now |-> Seen(now[i])']
  BY DEF SeenAll
<1>8. \A i \in DOMAIN old : Seen(old[i])' = Seen(old[i])
  BY <1>2 DEF SeenAll
<1> DEFINE before == SeenAll(old)
           k      == Len(old)
           after  == Append(before, rec)
<1>9. /\ DOMAIN old = 1 .. k /\ k \in Nat /\ DOMAIN now = 1 .. k + 1 /\ now[k + 1] = e
      /\ \A i \in 1 .. k : now[i] = old[i]
  BY <1>3
<1>10. before = [i \in 1 .. k |-> Seen(old[i])]
  BY <1>9 DEF SeenAll
<1>11. /\ after = [i \in 1 .. k + 1 |-> after[i]] /\ after[k + 1] = rec
       /\ \A i \in 1 .. k : after[i] = Seen(old[i])
  <2> DEFINE V == {Seen(old[i]) : i \in 1 .. k}
  <2> HIDE DEF k
  <2>1. before \in [1 .. k -> V]
    BY <1>10
  <2> HIDE DEF before, V
  <2>2. before \in Seq(V) /\ Len(before) = k
    BY <1>9, <2>1
  <2>3. Append(before, rec) = [i \in 1 .. k + 1 |-> IF i <= k THEN before[i] ELSE rec]
    <3>1. Append(before, rec) = [i \in 1 .. Len(before) + 1 |->
                                     IF i <= Len(before) THEN before[i] ELSE rec]
      BY <2>2, AppendRuns
    <3> QED
      BY <2>2, <3>1
  <2>4. \A i \in 1 .. k : before[i] = Seen(old[i])
    BY <1>10 DEF before
  <2> QED
    BY <1>9, <2>3, <2>4
<1>12. ASSUME NEW i \in 1 .. k + 1 PROVE Seen(now[i])' = after[i]
  <2>1. CASE i = k + 1
    BY <1>6, <1>9, <1>11, <2>1
  <2>2. CASE i # k + 1
    <3>1. i \in 1 .. k
      BY <1>9, <2>2
    <3>2. now[i] = old[i] /\ i \in DOMAIN old
      BY <1>9, <3>1
    <3> QED
      BY <1>8, <1>11, <3>1, <3>2
  <2> QED
    BY <2>1, <2>2
<1> HIDE DEF now, after, k
<1> QED
  BY <1>7, <1>9, <1>11, <1>12 DEF after, before

\* A record that is kept: the entry whose name has just been copied.
LEMMA EntryAsReadRecord ==
    ASSUME SimInv, NEW w \in Worker, Parse(w),
           Raw[read[w].item.dir][Through(w) + 1].name \notin Dots \cup SkipSet
    PROVE  Walker!ReadRecord(w)
<1> DEFINE r    == read[w]
           item == r.item
           L    == Raw[r.item.dir]
           n    == Through(w)
           rec  == L[n + 1]
           e    == [name |-> View(w, "paths", Len(names[w]) + 1), typ |-> rec.typ,
                    ino |-> rec.ino]
           old  == r.scratch
           pos  == Count(L, n) + 1
           seen == SeenAll(old)
           link == r.sawLink
           new  == (r.sawLink \/ rec.typ = "lnk")
           t    == Showing(item, pos, seen, FALSE, link)
           u    == Showing(item, pos + 1, Append(seen, rec), FALSE, new)
<1>1. /\ pc[w] = "read" /\ UNCHANGED <<faulty, queued, sent>> /\ Growing
      /\ \A v \in Worker \ {w} :
            /\ pc'[v] = pc[v] /\ read'[v] = read[v]
            /\ v \in Holders => files'[read[v].fd] = files[read[v].fd]
  BY ParseAlone
<1>2. /\ Count(L, n + 1) = pos /\ item.dir \in Dir /\ pos \in DOMAIN WalkerConf.list[item.dir]
      /\ WalkerConf.list[item.dir][pos] = rec
  BY SameRecord
<1>3. /\ read'[w].scratch = Append(old, e) /\ read'[w].sawLink = new
      /\ names'[w] = Append(names[w], rec.name) /\ rec \in Record
  <2>1. /\ names' = [names EXCEPT ![w] = Append(names[w], rec.name)] /\ rec \in Record
        /\ read' = [read EXCEPT ![w] = [r EXCEPT !.pos = r.pos + 1, !.scratch = Append(old, e),
                                                 !.sawLink = new]]
    BY ParseReads
  <2>2. r \in ReadType /\ DOMAIN read = Worker /\ DOMAIN names = Worker
    BY DEF SimInv, Inv, Types
  <2> HIDE DEF e, new, rec, old
  <2>3. read'[w] = [r EXCEPT !.pos = r.pos + 1, !.scratch = Append(old, e), !.sawLink = new]
    BY <2>1, <2>2
  <2> QED
    BY <2>1, <2>2, <2>3 DEF ReadType
<1>4. SeenAll(r.scratch)' = Append(seen, rec)
  <2>1. /\ e.name = View(w, "paths", Len(names[w]) + 1) /\ e.typ = rec.typ /\ e.ino = rec.ino
        /\ old = read[w].scratch
    OBVIOUS
  <2>2. /\ read'[w].scratch = Append(old, e) /\ rec \in Record
        /\ names'[w] = Append(names[w], rec.name)
    BY <1>3
  <2> HIDE DEF e, rec, old
  <2>3. ASSUME NEW x, NEW y, NEW z, x = rec, y = old, z = e
        PROVE  SeenAll(read[w].scratch)' = Append(SeenAll(y), x)
    <3>1. /\ y = read[w].scratch /\ z.name = View(w, "paths", Len(names[w]) + 1)
          /\ z.typ = x.typ /\ z.ino = x.ino /\ x \in Record
          /\ names'[w] = Append(names[w], x.name) /\ read'[w].scratch = Append(y, z)
      BY <2>1, <2>2, <2>3
    <3>2. SimInv /\ Growing
      BY <1>1
    <3> HIDE DEF r, item, L, n, pos, seen, link, new, t, u
    <3> QED
      BY <3>1, <3>2, AppendShows
  <2>4. SeenAll(read[w].scratch)' = Append(SeenAll(old), rec)
    BY <2>3
  <2> QED
    BY <2>4
<1>5. WalkerPc(w) = "read" /\ WalkerTask(w) = t
  BY <1>1, ReadingShows
<1>6. WalkerPc(w)' = "read" /\ WalkerTask(w)' = u
  <2> HIDE DEF new, seen, rec
  <2> DEFINE all == Append(seen, rec)
  <2>1. read'[w].sawLink = new /\ SeenAll(read[w].scratch)' = all
    BY <1>3, <1>4
  <2> HIDE DEF all
  <2>2. WalkerPc(w)' = "read" /\ WalkerTask(w)' = Showing(item, Count(L, n + 1) + 1, all, FALSE, new)
    BY <2>1, ParseShows
  <2> QED
    BY <1>2, <2>2 DEF all
<1>7. u = Walker!OnEntry(t, rec) /\ t.item = item /\ t.pos = pos
  <2> DEFINE saw  == link /\ ~ FALSE
             now  == new /\ ~ FALSE
             errs == {}
  <2>1. /\ t = [item |-> item, entries |-> seen, pos |-> pos, keep |-> 1, errs |-> errs,
                sawLink |-> saw, spawn |-> EmptyBag]
        /\ u = [item |-> item, entries |-> Append(seen, rec), pos |-> pos + 1, keep |-> 1,
                errs |-> errs, sawLink |-> now, spawn |-> EmptyBag]
    BY DEF Showing
  <2>2. now = (saw \/ rec.typ = "lnk")
    OBVIOUS
  <2> HIDE DEF saw, now, errs, t, u, item, seen, link, new, pos, rec
  <2> QED
    BY <2>1, <2>2, TaskEntry
<1> HIDE DEF t, u
<1>8. /\ AbstractPc' = [AbstractPc EXCEPT ![w] = "read"]
      /\ AbstractTask' = [AbstractTask EXCEPT ![w] = u]
      /\ WalkerConf' = WalkerConf /\ Batches' = Batches
  BY <1>1, <1>6, Visible
<1>9. AbstractPc[w] = "read" /\ AbstractTask[w] = t
  BY <1>5 DEF AbstractPc, AbstractTask
<1>10. AbstractPc' = AbstractPc
  BY <1>8, <1>9 DEF AbstractPc
<1>11. /\ t.item.dir \in Dir /\ t.pos \in DOMAIN WalkerConf.list[t.item.dir]
       /\ WalkerConf.list[t.item.dir][t.pos] = rec
       /\ WalkerConf.list[t.item.dir][t.pos].name \notin WalkerConf.skipSet
  BY <1>2, <1>7, ConfShows
<1> HIDE DEF rec
<1> QED
  BY <1>1, <1>7, <1>8, <1>9, <1>10, <1>11 DEF Walker!ReadRecord, AbstractPc, AbstractTask, Batches

-----------------------------------------------------------------------------
(* The batch                                                               *)

LEMMA BatchStays ==
    ASSUME Growing
    PROVE  \A b : AllStored(b.entries) => SeenBatch(b)' = SeenBatch(b)
<1> SUFFICES ASSUME NEW b, AllStored(b.entries) PROVE SeenBatch(b)' = SeenBatch(b)
  OBVIOUS
<1>1. SeenAll(b.entries)' = SeenAll(b.entries)
  BY StoredStays
<1> QED
  BY <1>1 DEF SeenBatch

\* The batches with one more.
LEMMA OneMoreBatch ==
    ASSUME SimInv, Growing, NEW batch, AllStored(batch.entries), sent' = sent \cup {batch}
    PROVE  Batches' = Batches \cup {SeenBatch(batch)}
<1>1. ASSUME NEW b \in sent \cup {batch} PROVE SeenBatch(b)' = SeenBatch(b)
  <2>1. AllStored(b.entries)
    BY DEF SimInv, NamesStored
  <2> QED
    BY <2>1, BatchStays
<1>2. Batches' = {SeenBatch(b)' : b \in sent \cup {batch}}
  BY DEF Batches
<1>3. Batches' = {SeenBatch(b) : b \in sent \cup {batch}}
  BY <1>1, <1>2
<1> QED
  BY <1>3 DEF Batches

\* What a worker sends, and what becomes of its task.
LEMMA SendShows ==
    ASSUME SimInv, NEW w \in Worker, Send(w)
    PROVE  /\ AbstractPc' = [AbstractPc EXCEPT ![w] = "idle"]
           /\ AbstractTask' = [AbstractTask EXCEPT ![w] = Walker!NoTask]
           /\ WalkerConf' = WalkerConf
           /\ SetToBag(Batches)' = Walker!(+)(SetToBag(Batches),
                                       Walker!SetToBag({Walker!BatchOf(WalkerTask(w))}))
<1> DEFINE r     == read[w]
           batch == [dir |-> r.item.path, failed |-> r.failed,
                     entries |-> IF r.failed THEN << >> ELSE r.scratch]
           b     == SeenBatch(batch)
<1>1. /\ pc[w] = "send" /\ pc' = [pc EXCEPT ![w] = "idle"]
      /\ sent' = sent \cup {batch} /\ read' = [read EXCEPT ![w] = NoRead]
      /\ UNCHANGED <<faulty, queued, names, files>>
  BY DEF Send
<1>2. pc'[w] = "idle" /\ read'[w] = NoRead
      /\ \A v \in Worker \ {w} : pc'[v] = pc[v] /\ read'[v] = read[v]
  BY <1>1 DEF SimInv, Inv, Types
<1>3. Growing
  BY <1>1, SameNamesGrow
<1>4. WalkerTask(w)' = Walker!NoTask
  <2>1. /\ read'[w].item = NoRead.item /\ read'[w].failed = FALSE /\ read'[w].sawLink = FALSE
        /\ read'[w].scratch = << >>
    BY <1>2 DEF NoRead, NewRead
  <2>2. SeenAll(read[w].scratch)' = << >>
    BY <2>1, NoScratch
  <2>3. WalkerTask(w)' = [item |-> NoRead.item, entries |-> << >>, pos |-> 1, keep |-> 1,
                          errs |-> {}, sawLink |-> FALSE, spawn |-> EmptyBag]
    BY <1>2, <2>1, <2>2 DEF WalkerTask
  <2>4. NoRead.item = [path |-> << >>, dir |-> "missing", depth |-> 0, ancestor |-> << >>]
    BY DEF NoRead, NewRead
  <2> QED
    BY <2>3, <2>4, SameEmptyBag DEF Walker!NoTask, Walker!NewTask
<1>5. WalkerPc(w)' = "idle"
  BY <1>2 DEF WalkerPc
<1>6. \A v \in Worker \ {w} : WalkerPc(v)' = WalkerPc(v) /\ WalkerTask(v)' = WalkerTask(v)
  BY <1>1, <1>2, <1>3, OthersShow
<1>7. /\ AbstractPc' = [AbstractPc EXCEPT ![w] = "idle"]
      /\ AbstractTask' = [AbstractTask EXCEPT ![w] = Walker!NoTask]
  BY <1>4, <1>5, <1>6, OneShows
<1>8. WalkerConf' = WalkerConf
  BY <1>1 DEF WalkerConf
<1>9. AllStored(batch.entries)
  <2>1. AllStored(r.scratch)
    BY DEF SimInv, NamesStored
  <2> QED
    BY <2>1, NoneStored
<1>10. Batches' = Batches \cup {b}
  <2> HIDE DEF batch
  <2> QED
    BY <1>1, <1>3, <1>9, OneMoreBatch
<1>11. b \notin Batches
  <2>1. \A x \in sent : x.dir # r.item.path
    BY <1>1 DEF SimInv, Ownership, Busy
  <2>2. b.dir = r.item.path /\ \A x \in sent : SeenBatch(x).dir = x.dir
    BY DEF SeenBatch
  <2> QED
    BY <2>1, <2>2 DEF Batches
<1>12. Walker!BatchOf(WalkerTask(w)) = b
  <2>1. /\ WalkerTask(w).item = r.item
        /\ WalkerTask(w).entries = (IF r.failed THEN << >> ELSE SeenAll(r.scratch))
        /\ WalkerTask(w).errs = (IF r.failed THEN Unreadable(r.item.path) ELSE {})
    BY DEF WalkerTask
  <2>2. SeenAll(batch.entries) = IF r.failed THEN << >> ELSE SeenAll(r.scratch)
    BY NothingSeen
  <2>3. \A f : Walker!Range(f) = Range(f)
    BY DEF Walker!Range, Range
  <2>4. b = [dir |-> batch.dir, entries |-> Range(SeenAll(batch.entries)),
             errs |-> IF batch.failed THEN Unreadable(batch.dir) ELSE {}]
    BY DEF SeenBatch
  <2> QED
    BY <2>1, <2>2, <2>3, <2>4 DEF Walker!BatchOf
<1> HIDE DEF b
<1>13. SetToBag(Batches)' = SetToBag(Batches \cup {b})
  BY <1>10
<1> QED
  BY <1>7, <1>8, <1>11, <1>12, <1>13, SetBags

LEMMA SendAsSend ==
    ASSUME SimInv, NEW w \in Worker, Send(w)
    PROVE  Walker!Send(w) \/ Walker!SendErr(w)
<1>1. /\ AbstractPc' = [AbstractPc EXCEPT ![w] = "idle"]
      /\ AbstractTask' = [AbstractTask EXCEPT ![w] = Walker!NoTask]
      /\ WalkerConf' = WalkerConf
      /\ SetToBag(Batches)' = Walker!(+)(SetToBag(Batches),
                                  Walker!SetToBag({Walker!BatchOf(WalkerTask(w))}))
  BY SendShows
<1>2. pc[w] = "send" /\ UNCHANGED queued
  BY DEF Send
<1>3. AbstractPc[w] = (IF read[w].failed THEN "sendErr" ELSE "send")
      /\ AbstractTask[w] = WalkerTask(w) /\ WalkerTask(w).item = read[w].item
  BY <1>2 DEF AbstractPc, AbstractTask, WalkerPc, WalkerTask
<1>4. read[w].item.depth = 1
  BY <1>2, ReadDirAssumption DEF SimInv, Ownership, Busy
<1>5. Walker!AtMaxDepth(WalkerConf, AbstractTask[w].item.depth)
  BY <1>3, <1>4, ConfShows DEF Walker!AtMaxDepth
<1>6. CASE read[w].failed
  BY <1>1, <1>2, <1>3, <1>6
     DEF Walker!SendErr, Walker!Deliver, Walker!Return, AbstractPc, AbstractTask, Batches
<1>7. CASE ~ read[w].failed
  BY <1>1, <1>2, <1>3, <1>5, <1>7, ConfShows
     DEF Walker!Send, Walker!Deliver, Walker!Return, AbstractPc, AbstractTask, Batches
<1> QED
  BY <1>6, <1>7

LEMMA StepShows == ASSUME SimInv, [Next]_vars PROVE [Walker!Next]_(Walker!vars)
<1>1. ASSUME UNCHANGED vars PROVE UNCHANGED Walker!vars
  BY <1>1 DEF vars, Walker!vars, WalkerConf, WalkerPc, WalkerTask, Through, SeenAll, Seen, Chars,
              SeenBatch
<1>2. ASSUME NEW w \in Worker, NEW it \in queued, Take(w, it) PROVE Walker!Next
  <2>1. Walker!Take(w, it)
    BY <1>2, TakeAsTake
  <2>2. it \in Walker!BagToSet(SetToBag(queued))
    BY SetBags
  <2> QED
    BY <2>1, <2>2 DEF Walker!Next
<1>3. ASSUME NEW w \in Worker, Step(w) PROVE [Walker!Next]_(Walker!vars)
  <2>1. ASSUME Walker!ReadRecord(w) \/ Walker!ReadDone(w) \/ Walker!ReadFails(w)
               \/ Walker!Send(w) \/ Walker!SendErr(w)
        PROVE  Walker!Next
    BY <2>1 DEF Walker!Next, Walker!Step
  <2>2. CASE Open(w)
    BY <2>2, OpenIsUnseen
  <2>3. CASE OpenFails(w) \/ GetDentsFails(w)
    BY <2>1, <2>3, FailsAsReadFails
  <2>4. ASSUME NEW n \in 1 .. BufRecords, GetDents(w, n) PROVE UNCHANGED Walker!vars
    BY <2>4, GetDentsIsUnseen
  <2>5. CASE GetDentsEOF(w)
    BY <2>1, <2>5, EndAsReadDone
  <2>6. CASE Parse(w)
    BY <2>1, <2>6, DotIsUnseen, SkippedAsReadRecord, EntryAsReadRecord
  <2>7. CASE Close(w)
    BY <2>7, CloseIsUnseen
  <2>8. CASE Send(w)
    BY <2>1, <2>8, SendAsSend
  <2> QED
    BY <1>3, <2>2, <2>3, <2>4, <2>5, <2>6, <2>7, <2>8 DEF Step
<1> QED
  BY <1>1, <1>2, <1>3 DEF Next, Quiet

\* readDirRaw and readEntries make of a directory what visit is written against:
\* its listing, whole and in order, or its one error.  However getdents64 cuts
\* the records up, whatever the size of buf, and however the workers interleave,
\* every step of theirs is one of the walker's reading steps, or changes nothing
\* that the walker sees.
THEOREM ReadingIsAWalkersReading == Spec => ImplementsWalker
<1>1. Spec => []SimInv
  <2>1. SimInv /\ [Next]_vars => SimInv'
    BY SimStep
  <2> QED
    BY SimStart, <2>1, PTL DEF Spec
<1>2. SimInv /\ [Next]_vars => [Walker!Next]_(Walker!vars)
  BY StepShows
<1> QED
  BY <1>1, <1>2, PTL DEF Spec, ImplementsWalker
=============================================================================
