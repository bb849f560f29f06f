--------------------------- MODULE WalkmanStream ----------------------------
(***************************************************************************)
(* Theorems about the stream of batches as a whole, for every file system, *)
(* number of workers and capacity of the channel: no path is reported      *)
(* twice, and, if the consumer leaves the order of the entries alone, none *)
(* is left out and the stream is one that TreeWalk allows.                 *)
(***************************************************************************)
EXTENDS WalkmanProofs

-----------------------------------------------------------------------------
(***************************************************************************)
(* The consumer never sees two batches for one path (OneBatchPerDir),      *)
(* whatever the tree, the links that make paths meet, the stealing, and    *)
(* the sorting of entries the consumer does while visit still reads them.  *)
(***************************************************************************)

\* Each item of a bag is in it once, and no two of them have one path.
NoTwins(B) == /\ \A x \in BagToSet(B) : B[x] = 1
              /\ \A x, y \in BagToSet(B) : x.path = y.path => x = y

Busy(at) == at \notin {"idle", "dead"}

\* A worker standing here has yet to send the batch of its item.
Owes(at) == at \in {"read", "resolve", "send", "sendErr"}

\* The directories that may still get children: queued, or being visited.
OpenPaths == {it.path : it \in BagToSet(pending)}
             \cup {task[w].item.path : w \in {v \in Worker : Busy(pc[v])}}

SentPaths == {b.dir : b \in Sent}

(***************************************************************************)
(* The places of a listing that hold an entry the task still needs.  While *)
(* visitSym filters in place those are the ones it has kept and the ones   *)
(* it has not yet read; what lies between is overwritten sooner or later.  *)
(***************************************************************************)
Live(t, at) == IF at = "resolve" THEN (1 .. t.keep - 1) \cup (t.pos .. Len(t.entries))
               ELSE 1 .. Len(t.entries)

NamesOnce(t, at) ==
    \A i, j \in Live(t, at) : t.entries[i].name = t.entries[j].name => i = j

\* Where a task standing at `at' takes its children's names from.
Sources(c, t, at) ==
    /\ at = "read" => \A i \in 1 .. Len(t.entries) : \E k \in DOMAIN c.list[t.item.dir] :
          k < t.pos /\ t.entries[i].name = c.list[t.item.dir][k].name
    /\ at \in {"read", "resolve", "scan"} \/ (at = "send" /\ ~ c.followLinks) =>
          NamesOnce(t, at)
    /\ at = "send" /\ ~ c.followLinks => BagToSet(t.spawn) = {}
    /\ at = "scan" => \A it \in BagToSet(t.spawn) : \E i \in 1 .. t.pos - 1 :
          t.entries[i].typ = "dir" /\ it.path = Offspring(t, t.entries[i])

SpawnsOnce(c, t, at) ==
    /\ NoTwins(t.spawn)
    /\ \A it \in BagToSet(t.spawn) : \E n \in Name : it.path = Append(t.item.path, n)
    /\ Sources(c, t, at)

TasksOnce == \A w \in Worker : SpawnsOnce(conf, task[w], pc[w])

StreamOnce ==
    /\ \A b \in Arrived : received[b] = 1
    /\ \A a, b \in Arrived : a.dir = b.dir => a = b
    /\ \A i, j \in 1 .. Len(chan) : chan[i].dir = chan[j].dir => i = j
    /\ \A i \in 1 .. Len(chan) : \A b \in Arrived : chan[i].dir # b.dir

\* No directory is queued twice, visited twice, or visited while it is queued.
VisitsOnce ==
    /\ NoTwins(pending)
    /\ \A it \in BagToSet(pending) : \A w \in Worker :
          Busy(pc[w]) => it.path # task[w].item.path
    /\ \A v, w \in Worker : Busy(pc[v]) /\ Busy(pc[w]) /\ v # w =>
          task[v].item.path # task[w].item.path

\* A directory that is queued or still read has no batch yet.
Unsent == /\ \A it \in BagToSet(pending) : it.path \notin SentPaths
          /\ \A w \in Worker : Owes(pc[w]) => task[w].item.path \notin SentPaths

\* While a worker has sent the batch of its directory but not spawned, the
\* directory's children are nowhere but in that worker's scratch.
Childless ==
    \A w \in Worker : pc[w] \in {"scan", "spawn"} => \A n \in Name :
        Append(task[w].item.path, n) \notin OpenPaths \cup SentPaths

Unstarted == consumer = "start" => /\ BagToSet(pending) = {} /\ Sent = {}
                                   /\ \A w \in Worker : pc[w] = "idle"

OnceInv == TasksOnce /\ StreamOnce /\ VisitsOnce /\ Unsent /\ Childless /\ Unstarted

-----------------------------------------------------------------------------
(* Bags without twins                                                      *)

LEMMA NoTwinsEmpty == ASSUME NEW B, BagToSet(B) = {} PROVE NoTwins(B)
BY DEF NoTwins

LEMMA AddNoTwin ==
    ASSUME NEW B, IsABag(B), NoTwins(B), NEW x, \A y \in BagToSet(B) : y.path # x.path
    PROVE  NoTwins(B (+) SetToBag({x}))
<1> DEFINE C == B (+) SetToBag({x})
<1>1. x \notin BagToSet(B)
  OBVIOUS
<1>2. BagToSet(C) = BagToSet(B) \cup {x}
  BY BagAdd
<1>3. C[x] = 1 /\ \A y \in BagToSet(B) : C[y] = B[y]
  BY <1>1 DEF IsABag, BagToSet, SetToBag, (+)
<1> HIDE DEF C
<1>4. NoTwins(C)
  BY <1>2, <1>3 DEF NoTwins
<1> QED
  BY <1>4 DEF C

LEMMA MergeNoTwins ==
    ASSUME NEW A, IsABag(A), NoTwins(A), NEW B, IsABag(B), NoTwins(B),
           \A x \in BagToSet(A) : \A y \in BagToSet(B) : x.path # y.path
    PROVE  NoTwins(A (+) B)
<1> DEFINE C == A (+) B
<1>1. BagToSet(C) = BagToSet(A) \cup BagToSet(B)
  BY BagMerge
<1>2. BagToSet(A) \cap BagToSet(B) = {}
  OBVIOUS
<1>3. /\ \A x \in BagToSet(A) : C[x] = A[x]
      /\ \A x \in BagToSet(B) : C[x] = B[x]
  BY <1>2 DEF IsABag, BagToSet, (+)
<1> HIDE DEF C
<1>4. NoTwins(C)
  BY <1>1, <1>3 DEF NoTwins
<1> QED
  BY <1>4 DEF C

LEMMA TakeNoTwin ==
    ASSUME NEW B, IsABag(B), NoTwins(B), NEW x \in BagToSet(B)
    PROVE  /\ NoTwins(B (-) SetToBag({x}))
           /\ BagToSet(B (-) SetToBag({x})) = BagToSet(B) \ {x}
<1> DEFINE C == B (-) SetToBag({x})
<1>1. B[x] = 1
  BY DEF NoTwins
<1>2. BagToSet(C) = BagToSet(B) \ {x} /\ \A y \in BagToSet(B) \ {x} : C[y] = B[y]
  BY <1>1 DEF IsABag, BagToSet, SetToBag, (-)
<1> HIDE DEF C
<1>3. NoTwins(C)
  BY <1>2 DEF NoTwins
<1> QED
  BY <1>2, <1>3 DEF C

-----------------------------------------------------------------------------
(* Paths                                                                   *)

\* A path is its directory's path and a name, in one way only.
LEMMA OneParent ==
    ASSUME NEW p \in Path, NEW q \in Path, NEW m \in Name, NEW n \in Name,
           Append(p, m) = Append(q, n)
    PROVE  p = q /\ m = n
BY AppendProperties, LenProperties DEF Path

LEMMA ChildIsLonger ==
    ASSUME NEW p \in Path, NEW n \in Name
    PROVE  Append(p, n) # p /\ Append(p, n) # << >> /\ Append(p, n) \in Path
<1>1. Append(p, n) \in Path /\ Len(Append(p, n)) = Len(p) + 1 /\ Len(p) \in Nat
  BY AppendProperties, LenProperties DEF Path
<1>2. Len(Append(p, n)) # Len(p) /\ Len(Append(p, n)) # 0
  BY <1>1
<1> QED
  BY <1>1, <1>2

LEMMA SentAreBatches == ASSUME TypeInv PROVE Sent \subseteq Batch
<1>1. Range(chan) \subseteq Batch
  BY ElementOfSeq, LenProperties DEF TypeInv, StreamOK, Range
<1> QED
  BY <1>1 DEF TypeInv, StreamOK, Sent, Arrived

LEMMA ItemPaths ==
    ASSUME TypeInv
    PROVE  /\ \A it \in BagToSet(pending) : it.path \in Path
           /\ \A w \in Worker : task[w].item.path \in Path
BY DEF TypeInv, PoolOK, TasksOK, TaskOK, Item

\* Every open path and every path with a batch is the root's or is listed.
LEMMA OpenListed ==
    ASSUME TypeInv, OrderInv, NEW p \in OpenPaths \cup SentPaths
    PROVE  Listed(Sent, p)
<1>1. CASE p \in OpenPaths
  BY <1>1 DEF OpenPaths, OrderInv, PoolOrder, TasksOrder, Announces
<1>2. CASE p \in SentPaths
  <2>1. PICK b \in Sent : p = b.dir
    BY <1>2 DEF SentPaths
  <2>2. CASE b \in Arrived
    BY <2>1, <2>2, ListedMore DEF OrderInv, StreamOrder, Sent
  <2>3. CASE b \in Range(chan)
    <3>1. PICK i \in 1 .. Len(chan) : b = chan[i]
      BY <2>3, LenProperties DEF TypeInv, StreamOK, Range
    <3>2. Listed(Before(i), b.dir)
      BY <3>1 DEF OrderInv, StreamOrder
    <3>3. Before(i) \subseteq Sent
      <4>1. \A k \in 1 .. i - 1 : k \in DOMAIN chan
        BY <3>1, LenProperties DEF TypeInv, StreamOK
      <4> QED
        BY <4>1 DEF Before, Sent, Range
    <3> QED
      BY <2>1, <3>2, <3>3, ListedMore
  <2> QED
    BY <2>1, <2>2, <2>3 DEF Sent
<1> QED
  BY <1>1, <1>2

\* Children come after the batch that lists them.
LEMMA NoBatchNoChildren ==
    ASSUME TypeInv, OrderInv, NEW p \in Path, p \notin SentPaths, NEW n \in Name
    PROVE  Append(p, n) \notin OpenPaths \cup SentPaths
<1> SUFFICES ASSUME Append(p, n) \in OpenPaths \cup SentPaths PROVE FALSE
  OBVIOUS
<1>1. Append(p, n) # << >>
  BY ChildIsLonger
<1>2. PICK a \in Sent : Append(p, n) \in ChildrenOf(a)
  BY <1>1, OpenListed DEF Listed
<1>3. PICK e \in a.entries : Append(p, n) = Append(a.dir, e.name)
  BY <1>2 DEF ChildrenOf
<1>4. a.dir \in Path /\ e.name \in Name
  BY <1>3, SentAreBatches DEF Batch, Dirent
<1>5. a.dir = p
  BY <1>3, <1>4, OneParent
<1> QED
  BY <1>5 DEF SentPaths

-----------------------------------------------------------------------------
(* Frames                                                                  *)

LEMMA OneSpawner ==
    ASSUME TypeInv, TasksOnce, NEW w \in Worker, NEW u, NEW at, conf' = conf,
           task' = [task EXCEPT ![w] = u], pc' = [pc EXCEPT ![w] = at],
           SpawnsOnce(conf, u, at)
    PROVE  TasksOnce'
<1> SUFFICES ASSUME NEW v \in Worker
             PROVE  SpawnsOnce(conf, task'[v], pc'[v])
  BY DEF TasksOnce
<1>1. CASE v = w
  <2>1. task'[v] = u /\ pc'[v] = at
    BY <1>1 DEF TypeInv, TasksOK
  <2> QED
    BY <2>1
<1>2. CASE v # w
  <2>1. task'[v] = task[v] /\ pc'[v] = pc[v]
    BY <1>2 DEF TypeInv, TasksOK
  <2> QED
    BY <2>1 DEF TasksOnce
<1> QED
  BY <1>1, <1>2

LEMMA Starts ==
    ASSUME Unstarted, NEW w \in Worker, pc[w] # "idle", consumer' = consumer
    PROVE  Unstarted'
BY DEF Unstarted

\* A step by which w stays busy with its item, and sends and spawns nothing.
LEMMA QuietOnce ==
    ASSUME TypeInv, OnceInv, NEW w \in Worker, Busy(pc[w]), NEW u, NEW at,
           task' = [task EXCEPT ![w] = u], pc' = [pc EXCEPT ![w] = at],
           UNCHANGED <<conf, chan, received, pending, consumer>>,
           SpawnsOnce(conf, u, at), u.item = task[w].item, Busy(at),
           Owes(at) => Owes(pc[w]),
           at \in {"scan", "spawn"} => pc[w] \in {"scan", "spawn"}
    PROVE  OnceInv'
<1>1. /\ \A v \in Worker : task'[v].item = task[v].item
      /\ \A v \in Worker : Busy(pc'[v]) <=> Busy(pc[v])
      /\ \A v \in Worker : Owes(pc'[v]) => Owes(pc[v])
      /\ \A v \in Worker : pc'[v] \in {"scan", "spawn"} => pc[v] \in {"scan", "spawn"}
  BY DEF TypeInv, TasksOK
<1>2. OpenPaths' = OpenPaths
  BY <1>1 DEF OpenPaths
<1>3. SentPaths' = SentPaths /\ StreamOnce'
  BY DEF SentPaths, Sent, Arrived, OnceInv, StreamOnce
<1>4. VisitsOnce'
  BY <1>1 DEF OnceInv, VisitsOnce
<1>5. Unsent'
  BY <1>1, <1>3 DEF OnceInv, Unsent
<1>6. Childless'
  BY <1>1, <1>2, <1>3 DEF OnceInv, Childless
<1>7. TasksOnce' /\ Unstarted'
  BY OneSpawner, Starts DEF OnceInv, Busy
<1> QED
  BY <1>3, <1>4, <1>5, <1>6, <1>7 DEF OnceInv

\* The channel and the consumer see a new directory's batch.
LEMMA DeliverOnce ==
    ASSUME TypeInv, StreamOrder, StreamOnce, NEW b \in Batch, b.dir \notin SentPaths, Deliver(b)
    PROVE  StreamOnce'
<1>1. chan \in Seq(Batch) /\ Len(chan) \in Nat /\ DOMAIN chan = 1 .. Len(chan)
  BY LenProperties DEF TypeInv, StreamOK
<1>2. /\ \A a \in Arrived : a.dir # b.dir
      /\ \A i \in 1 .. Len(chan) : chan[i].dir # b.dir
  BY <1>1 DEF SentPaths, Sent, Range
<1>3. CASE chan' = Append(chan, b) /\ UNCHANGED received
  <2>1. /\ Len(chan') = Len(chan) + 1
        /\ \A i \in 1 .. Len(chan) : chan'[i] = chan[i]
        /\ chan'[Len(chan) + 1] = b
    BY <1>1, <1>3, AppendProperties
  <2>2. \A i \in 1 .. Len(chan') : i \in 1 .. Len(chan) \/ i = Len(chan) + 1
    BY <1>1, <2>1
  <2>3. Arrived' = Arrived
    BY <1>3 DEF Arrived
  <2> QED
    BY <1>2, <1>3, <2>1, <2>2, <2>3 DEF StreamOnce
<1>4. CASE ResultBuffSize = 0 /\ received' = received (+) SetToBag({b}) /\ UNCHANGED chan
  <2>1. IsABag(received) /\ b \notin Arrived
    BY <1>2 DEF TypeInv, StreamOK
  <2>2. Arrived' = Arrived \cup {b}
    BY <1>4, <2>1, BagAdd DEF Arrived
  <2>3. received'[b] = 1 /\ \A a \in Arrived : received'[a] = received[a]
    BY <1>4, <2>1 DEF IsABag, BagToSet, SetToBag, (+), Arrived
  <2> QED
    BY <1>2, <1>4, <2>2, <2>3 DEF StreamOnce
<1> QED
  BY <1>3, <1>4 DEF Deliver

\* w sends the batch of its item, and then returns or goes on with its children.
LEMMA SendOnce ==
    ASSUME TypeInv, OrderInv, OnceInv, NEW w \in Worker, Owes(pc[w]), NEW u, NEW at,
           task' = [task EXCEPT ![w] = u], pc' = [pc EXCEPT ![w] = at],
           UNCHANGED <<conf, pending, consumer>>, Deliver(BatchOf(task[w])),
           SpawnsOnce(conf, u, at), at \in {"idle", "scan", "spawn"},
           at # "idle" => u.item = task[w].item
    PROVE  OnceInv'
<1> DEFINE b == BatchOf(task[w])
           p == task[w].item.path
<1>1. b \in Batch /\ b.dir = p /\ p \in Path
  BY BatchType, ItemPaths DEF TypeInv, TasksOK, BatchOf
<1>2. Listed(Sent, p) /\ p \notin SentPaths
  BY DEF OrderInv, TasksOrder, Announces, OnceInv, Unsent
<1>3. Deliver(b)
  OBVIOUS
<1> HIDE DEF b
<1>4. Sent' = Sent \cup {b}
  BY <1>1, <1>2, <1>3, DeliverOrder DEF OrderInv
<1>5. SentPaths' = SentPaths \cup {p}
  BY <1>1, <1>4 DEF SentPaths
<1>6. StreamOnce'
  BY <1>1, <1>2, <1>3, DeliverOnce DEF OrderInv, OnceInv
<1>7. /\ pc'[w] = at /\ task'[w] = u
      /\ \A v \in Worker : v # w => pc'[v] = pc[v] /\ task'[v] = task[v]
  BY DEF TypeInv, TasksOK
<1>8. \A v \in Worker : Busy(pc'[v]) => Busy(pc[v]) /\ task'[v].item = task[v].item
  BY <1>7 DEF Busy, Owes
<1>9. OpenPaths' \subseteq OpenPaths /\ p \in OpenPaths
  <2>1. OpenPaths' \subseteq OpenPaths
    BY <1>8 DEF OpenPaths
  <2>2. Busy(pc[w])
    BY DEF Owes, Busy
  <2> QED
    BY <2>1, <2>2 DEF OpenPaths
<1>10. VisitsOnce'
  BY <1>8 DEF OnceInv, VisitsOnce
<1>11. Unsent'
  <2>1. Busy(pc[w])
    BY DEF Owes, Busy
  <2>2. \A it \in BagToSet(pending) : it.path \notin SentPaths'
    BY <1>5, <2>1 DEF OnceInv, VisitsOnce, Unsent
  <2>3. ASSUME NEW v \in Worker, Owes(pc'[v])
        PROVE  task'[v].item.path \notin SentPaths'
    <3>1. v # w
      BY <1>7, <2>3 DEF Owes
    <3>2. Owes(pc[v]) /\ Busy(pc[v]) /\ task'[v] = task[v]
      BY <1>7, <2>3, <3>1 DEF Owes, Busy
    <3> QED
      BY <1>5, <2>1, <3>1, <3>2 DEF OnceInv, VisitsOnce, Unsent
  <2> QED
    BY <2>2, <2>3 DEF Unsent
<1>12. Childless'
  <2> SUFFICES ASSUME NEW v \in Worker, pc'[v] \in {"scan", "spawn"}, NEW n \in Name
               PROVE  Append(task'[v].item.path, n) \notin OpenPaths' \cup SentPaths'
    BY DEF Childless
  <2>1. CASE v = w
    <3>1. task'[v].item.path = p
      BY <1>7, <2>1
    <3>2. Append(p, n) \notin OpenPaths \cup SentPaths /\ Append(p, n) # p
      BY <1>1, <1>2, NoBatchNoChildren, ChildIsLonger
    <3>3. Append(p, n) \notin OpenPaths' \cup SentPaths'
      BY <1>5, <1>9, <3>2
    <3> HIDE DEF p
    <3> QED
      BY <3>1, <3>3
  <2>2. CASE v # w
    <3>1. task'[v] = task[v] /\ pc[v] \in {"scan", "spawn"}
      BY <1>7, <2>2
    <3>2. Append(task[v].item.path, n) \notin OpenPaths \cup SentPaths
      BY <3>1 DEF OnceInv, Childless
    <3>3. Append(task[v].item.path, n) \notin OpenPaths' \cup SentPaths'
      <4> HIDE DEF p
      <4> QED
        BY <1>5, <1>9, <3>2
    <3> QED
      BY <3>1, <3>3
  <2> QED
    BY <2>1, <2>2
<1>13. TasksOnce' /\ Unstarted'
  <2>1. pc[w] # "idle"
    BY DEF Owes
  <2> QED
    BY <2>1, OneSpawner, Starts DEF OnceInv
<1> QED
  BY <1>6, <1>10, <1>11, <1>12, <1>13 DEF OnceInv

\* A task without entries and children is no source of twins.
LEMMA NothingToSpawn ==
    ASSUME NEW c, NEW t, NEW at, BagToSet(t.spawn) = {}, t.entries = << >>
    PROVE  SpawnsOnce(c, t, at) \/ at = "resolve"
<1>1. Len(t.entries) = 0
  BY EmptySeq
<1>2. at # "resolve" => NamesOnce(t, at)
  BY <1>1 DEF NamesOnce, Live
<1> QED
  BY <1>1, <1>2, NoTwinsEmpty DEF SpawnsOnce, Sources

-----------------------------------------------------------------------------
(* The passes over a listing                                               *)

\* What a pass of visitSym over its entry e leaves: the entry is dropped, or
\* kept under its name at keep, with at most one child, of that name.
Passed(t, u) ==
    LET e == t.entries[t.pos]
    IN  /\ u.item = t.item /\ u.pos = t.pos + 1
        /\ \/ u.entries = t.entries /\ u.keep = t.keep /\ u.spawn = t.spawn
           \/ /\ u.keep = t.keep + 1
              /\ \E d \in Dirent : /\ d.name = e.name
                                   /\ u.entries = [t.entries EXCEPT ![t.keep] = d]
              /\ \/ u.spawn = t.spawn
                 \/ \E it : it.path = Offspring(t, e) /\ u.spawn = t.spawn (+) SetToBag({it})

LEMMA KeepPasses ==
    ASSUME NEW t, TaskOK(t), NEW d \in Dirent, d.name = t.entries[t.pos].name
    PROVE  /\ Passed(t, Keep(t, d))
           /\ \A it : it.path = Offspring(t, t.entries[t.pos]) =>
                 Passed(t, AddChild(Keep(t, d), it))
<1> DEFINE written == [t.entries EXCEPT ![t.keep] = d]
<1>1. Keep(t, d) = [item |-> t.item, entries |-> written, pos |-> t.pos + 1,
                    keep |-> t.keep + 1, errs |-> t.errs, sawLink |-> t.sawLink,
                    spawn |-> t.spawn]
  <2>1. Keep(t, d) = [t EXCEPT !.entries = written, !.keep = t.keep + 1, !.pos = t.pos + 1]
    BY DEF Keep
  <2> HIDE DEF written
  <2> QED
    BY <2>1 DEF TaskOK
<1>2. ASSUME NEW it
      PROVE  AddChild(Keep(t, d), it) =
                [item |-> t.item, entries |-> written, pos |-> t.pos + 1,
                 keep |-> t.keep + 1, errs |-> t.errs, sawLink |-> t.sawLink,
                 spawn |-> t.spawn (+) SetToBag({it})]
  <2> DEFINE k == Keep(t, d)
             more == t.spawn (+) SetToBag({it})
  <2>1. AddChild(k, it) = [k EXCEPT !.spawn = k.spawn (+) SetToBag({it})]
    BY DEF AddChild
  <2>2. k.spawn = t.spawn
    BY <1>1
  <2>3. AddChild(k, it) = [k EXCEPT !.spawn = more]
    BY <2>1, <2>2
  <2> HIDE DEF written, more
  <2>4. [k EXCEPT !.spawn = more] =
           [item |-> t.item, entries |-> written, pos |-> t.pos + 1,
            keep |-> t.keep + 1, errs |-> t.errs, sawLink |-> t.sawLink, spawn |-> more]
    BY <1>1
  <2> QED
    BY <2>3, <2>4 DEF more
<1>3. written = [t.entries EXCEPT ![t.keep] = d]
  OBVIOUS
<1> HIDE DEF written
<1>4. Passed(t, Keep(t, d))
  <2> DEFINE u == Keep(t, d)
  <2>1. /\ u.item = t.item /\ u.pos = t.pos + 1 /\ u.keep = t.keep + 1
        /\ u.entries = written /\ u.spawn = t.spawn
    BY <1>1
  <2> HIDE DEF u
  <2>2. Passed(t, u)
    BY <1>3, <2>1 DEF Passed
  <2> QED
    BY <2>2 DEF u
<1>5. ASSUME NEW it, it.path = Offspring(t, t.entries[t.pos])
      PROVE  Passed(t, AddChild(Keep(t, d), it))
  <2> DEFINE u == AddChild(Keep(t, d), it)
  <2>1. /\ u.item = t.item /\ u.pos = t.pos + 1 /\ u.keep = t.keep + 1
        /\ u.entries = written /\ u.spawn = t.spawn (+) SetToBag({it})
    BY <1>2
  <2> HIDE DEF u
  <2>2. Passed(t, u)
    BY <1>3, <1>5, <2>1 DEF Passed
  <2> QED
    BY <2>2 DEF u
<1> QED
  BY <1>4, <1>5

LEMMA AdvancePasses ==
    ASSUME NEW t, TaskOK(t), NEW e \in Dirent, NEW kind \in ErrKind
    PROVE  Passed(t, Advance(StoreDirErr(t, e, kind)))
<1> DEFINE s == StoreDirErr(t, e, kind)
           a == Advance(s)
<1>1. /\ TaskOK(s) /\ s.item = t.item /\ s.spawn = t.spawn /\ s.entries = t.entries
      /\ s.pos = t.pos /\ s.keep = t.keep
  BY StoreDirErrType
<1> HIDE DEF s
<1>2. /\ a.item = s.item /\ a.entries = s.entries /\ a.pos = s.pos + 1 /\ a.keep = s.keep
      /\ a.spawn = s.spawn
  BY <1>1, AdvanceType
<1> HIDE DEF a
<1>3. Passed(t, a)
  BY <1>1, <1>2 DEF Passed
<1> QED
  BY <1>3 DEF a, s

\* The link that was reported and kept.
LEMMA ReportPasses ==
    ASSUME NEW t, TaskOK(t), NEW e \in Dirent, NEW kind \in ErrKind, e = t.entries[t.pos]
    PROVE  Passed(t, Keep(StoreDirErr(t, e, kind), e))
<1> DEFINE s == StoreDirErr(t, e, kind)
           k == Keep(s, e)
<1>1. /\ TaskOK(s) /\ s.item = t.item /\ s.spawn = t.spawn /\ s.entries = t.entries
      /\ s.pos = t.pos /\ s.keep = t.keep
  BY StoreDirErrType
<1> HIDE DEF s
<1>2. Passed(s, k)
  BY <1>1, KeepPasses
<1> HIDE DEF k
<1>3. Passed(t, k)
  BY <1>1, <1>2 DEF Passed, Offspring
<1> QED
  BY <1>3 DEF k, s

LEMMA ResolvePasses ==
    ASSUME TypeInv, NEW w \in Worker, Resolve(w)
    PROVE  \E u : Passed(task[w], u) /\ task' = [task EXCEPT ![w] = u]
<1> DEFINE t      == task[w]
           e      == t.entries[t.pos]
           target == conf.to[t.item.dir][e.name]
<1>1. TaskOK(t) /\ t.pos \in DOMAIN t.entries
  BY DEF Resolve, TypeInv, TasksOK
<1>2. e \in Dirent
  BY <1>1, ElementOfSeq, LenProperties DEF TaskOK
<1>3. /\ Passed(t, Advance(StoreDirErr(t, e, "dangling")))
      /\ Passed(t, Advance(StoreDirErr(t, e, "cycle")))
      /\ Passed(t, Keep(StoreDirErr(t, e, "nosys"), e))
  BY <1>1, <1>2, AdvancePasses, ReportPasses DEF ErrKind
<1>4. Passed(t, KeepLinkToFile(t, e, target))
  <2> DEFINE d == [e EXCEPT !.typ = DTypeFromInfo(target)]
  <2>1. d \in Dirent /\ d.name = e.name
    BY <1>2 DEF DTypeFromInfo, Dirent, DType
  <2> HIDE DEF d
  <2>2. Passed(t, Keep(t, d))
    BY <1>1, <2>1, KeepPasses
  <2> QED
    BY <2>2 DEF KeepLinkToFile, d
<1>5. Passed(t, FollowLink(conf, t, e, target))
  <2> DEFINE d == [e EXCEPT !.typ = "dir"]
             child == Child(conf, t.item, e, PushAncestor(conf.id[target].ino,
                                              conf.id[target].dev, t.item.ancestor))
  <2>1. d \in Dirent /\ d.name = e.name
    BY <1>2 DEF Dirent, DType
  <2>2. child.path = Offspring(t, e)
    BY DEF Child, Offspring
  <2> HIDE DEF d, child
  <2>3. Passed(t, Keep(t, d)) /\ Passed(t, AddChild(Keep(t, d), child))
    BY <1>1, <2>1, <2>2, KeepPasses
  <2>4. FollowLink(conf, t, e, target) \in {Keep(t, d), AddChild(Keep(t, d), child)}
    BY DEF FollowLink, d, child
  <2> QED
    BY <2>3, <2>4
<1>6. Passed(t, KeepEntry(conf, t, e))
  <2> DEFINE up == t.item.ancestor
             child == Child(conf, t.item, e, PushAncestor(e.ino, up[Len(up)].dev, up))
  <2>1. child.path = Offspring(t, e)
    BY DEF Child, Offspring
  <2> HIDE DEF child
  <2>2. Passed(t, Keep(t, e)) /\ Passed(t, AddChild(Keep(t, e), child))
    BY <1>1, <1>2, <2>1, KeepPasses
  <2>3. KeepEntry(conf, t, e) \in {Keep(t, e), AddChild(Keep(t, e), child)}
    BY DEF KeepEntry, child
  <2> QED
    BY <2>2, <2>3
<1> HIDE DEF e, target
<1> QED
  BY <1>3, <1>4, <1>5, <1>6 DEF Resolve, e, target

\* The pass keeps the names it still needs apart: it writes at keep the name
\* that it has just read at pos, and never needs again.
LEMMA PassNames ==
    ASSUME NEW t, TaskOK(t), NEW u, Passed(t, u), t.keep <= t.pos,
           t.pos \in 1 .. Len(t.entries), NamesOnce(t, "resolve")
    PROVE  NamesOnce(u, "resolve")
<1>1. /\ t.entries \in Seq(Dirent) /\ Len(t.entries) \in Nat /\ t.keep \in Nat \ {0}
      /\ t.pos \in Nat /\ DOMAIN t.entries = 1 .. Len(t.entries) /\ t.keep \in 1 .. Len(t.entries)
  BY LenProperties DEF TaskOK
<1>2. Live(t, "resolve") = (1 .. t.keep - 1) \cup (t.pos .. Len(t.entries))
  BY DEF Live
<1>3. CASE u.entries = t.entries /\ u.keep = t.keep
  <2>1. Live(u, "resolve") = (1 .. t.keep - 1) \cup (t.pos + 1 .. Len(t.entries))
    BY <1>3 DEF Live, Passed
  <2>2. Live(u, "resolve") \subseteq Live(t, "resolve")
    BY <1>1, <1>2, <2>1
  <2> QED
    BY <1>3, <2>2 DEF NamesOnce
<1>4. ASSUME NEW d \in Dirent, d.name = t.entries[t.pos].name, u.keep = t.keep + 1,
             u.entries = [t.entries EXCEPT ![t.keep] = d]
      PROVE  NamesOnce(u, "resolve")
  <2> DEFINE src(i) == IF i = t.keep THEN t.pos ELSE i
  <2>1. Len(u.entries) = Len(t.entries)
    BY <1>1, <1>4, ExceptSeq
  <2>2. Live(u, "resolve") = (1 .. t.keep) \cup (t.pos + 1 .. Len(t.entries))
    <3>1. u.pos = t.pos + 1 /\ u.keep - 1 = t.keep
      BY <1>1, <1>4 DEF Passed
    <3> QED
      BY <2>1, <3>1 DEF Live
  <2>3. ASSUME NEW i \in Live(u, "resolve")
        PROVE  src(i) \in Live(t, "resolve") /\ u.entries[i].name = t.entries[src(i)].name
    <3>1. i \in DOMAIN t.entries
      BY <1>1, <2>2
    <3>2. i = t.keep \/ i \in 1 .. t.keep - 1 \/ i \in t.pos .. Len(t.entries)
      BY <1>1, <2>2
    <3>3. t.pos \in t.pos .. Len(t.entries)
      BY <1>1
    <3> QED
      BY <1>1, <1>2, <1>4, <3>1, <3>2, <3>3
  <2>4. ASSUME NEW i \in Live(u, "resolve"), NEW j \in Live(u, "resolve"), src(i) = src(j)
        PROVE  i = j
    BY <1>1, <2>2, <2>4
  <2> HIDE DEF src
  <2> QED
    BY <2>3, <2>4 DEF NamesOnce
<1> QED
  BY <1>3, <1>4 DEF Passed

\* The child of the entry at pos is none of those collected before it.
LEMMA PassSpawn ==
    ASSUME NEW t, TaskOK(t), NEW it, it.path = Offspring(t, t.entries[t.pos]),
           t.pos \in DOMAIN t.entries, NEW k \in Nat, k <= t.pos + 1,
           \A y \in BagToSet(t.spawn) : \E i \in 1 .. k - 1 :
              i # t.pos /\ t.entries[i].name # t.entries[t.pos].name
              /\ y.path = Offspring(t, t.entries[i]),
           NoTwins(t.spawn)
    PROVE  NoTwins(t.spawn (+) SetToBag({it}))
<1>1. /\ t.entries \in Seq(Dirent) /\ DOMAIN t.entries = 1 .. Len(t.entries)
      /\ Len(t.entries) \in Nat /\ t.item.path \in Path /\ IsABag(t.spawn)
  BY LenProperties DEF TaskOK, Item
<1>2. \A i \in DOMAIN t.entries : t.entries[i].name \in Name
  <2>1. \A i \in DOMAIN t.entries : t.entries[i] \in Dirent
    BY <1>1, ElementOfSeq
  <2> QED
    BY <2>1 DEF Dirent
<1>3. ASSUME NEW y \in BagToSet(t.spawn) PROVE y.path # it.path
  <2>1. PICK i \in 1 .. k - 1 : /\ i # t.pos /\ t.entries[i].name # t.entries[t.pos].name
                                /\ y.path = Offspring(t, t.entries[i])
    OBVIOUS
  <2>2. t.entries[i].name \in Name
    <3>1. i \in DOMAIN t.entries
      BY <1>1
    <3> QED
      BY <1>2, <3>1
  <2> QED
    BY <1>1, <1>2, <2>1, <2>2, OneParent DEF Offspring
<1> QED
  BY <1>1, <1>3, AddNoTwin

LEMMA ResolveOnce ==
    ASSUME TypeInv, OrderInv, OnceInv, NEW w \in Worker, Resolve(w)
    PROVE  OnceInv'
<1> DEFINE t == task[w]
           e == t.entries[t.pos]
<1>1. PICK u : Passed(t, u) /\ task' = [task EXCEPT ![w] = u]
  BY ResolvePasses
<1>2. /\ TaskOK(t) /\ t.keep <= t.pos /\ t.pos \in 1 .. Len(t.entries)
      /\ t.pos \in DOMAIN t.entries /\ t.keep \in Nat \ {0} /\ t.pos \in Nat
      /\ Len(t.entries) \in Nat
  <2>1. TaskOK(t) /\ t.keep <= t.pos /\ t.pos \in DOMAIN t.entries
    BY DEF Resolve, TypeInv, TasksOK, Located
  <2> QED
    BY <2>1, LenProperties DEF TaskOK
<1>3. /\ pc[w] = "resolve" /\ Collected(t) /\ NoTwins(t.spawn)
      /\ \A it \in BagToSet(t.spawn) : \E n \in Name : it.path = Append(t.item.path, n)
      /\ NamesOnce(t, "resolve")
  BY DEF Resolve, OrderInv, TasksOrder, Announces, OnceInv, TasksOnce, SpawnsOnce, Sources
<1>4. e.name \in Name
  <2>1. t.entries \in Seq(Dirent)
    BY <1>2 DEF TaskOK
  <2>2. e \in Dirent
    BY <1>2, <2>1, ElementOfSeq
  <2> QED
    BY <2>2 DEF Dirent
<1>5. NamesOnce(u, "resolve")
  BY <1>1, <1>2, <1>3, PassNames
<1>6. ASSUME NEW it, it.path = Offspring(t, e)
      PROVE  NoTwins(t.spawn (+) SetToBag({it}))
  <2>1. ASSUME NEW y \in BagToSet(t.spawn)
        PROVE  \E i \in 1 .. t.keep - 1 : /\ i # t.pos /\ t.entries[i].name # t.entries[t.pos].name
                                          /\ y.path = Offspring(t, t.entries[i])
    <3>1. PICK i \in 1 .. t.keep - 1 : y.path = Offspring(t, t.entries[i])
      BY <1>3 DEF Collected
    <3>2. i \in Live(t, "resolve") /\ t.pos \in Live(t, "resolve") /\ i # t.pos
      BY <1>2 DEF Live
    <3>3. t.entries[i].name # t.entries[t.pos].name
      BY <1>3, <3>2 DEF NamesOnce
    <3> QED
      BY <3>1, <3>2, <3>3
  <2>2. t.keep \in Nat /\ t.keep <= t.pos + 1
    BY <1>2
  <2> HIDE DEF t
  <2> QED
    BY <1>2, <1>3, <1>6, <2>1, <2>2, PassSpawn
<1>7. /\ u.item = t.item
      /\ NoTwins(u.spawn)
      /\ \A it \in BagToSet(u.spawn) : \E n \in Name : it.path = Append(t.item.path, n)
  <2>1. CASE u.spawn = t.spawn
    BY <1>1, <1>3, <2>1 DEF Passed
  <2>2. ASSUME NEW it, it.path = Offspring(t, e), u.spawn = t.spawn (+) SetToBag({it})
        PROVE  /\ NoTwins(u.spawn)
               /\ \A y \in BagToSet(u.spawn) : \E n \in Name : y.path = Append(t.item.path, n)
    <3>1. BagToSet(u.spawn) = BagToSet(t.spawn) \cup {it}
      BY <1>2, <2>2, BagAdd DEF TaskOK
    <3> QED
      BY <1>3, <1>4, <1>6, <2>2, <3>1 DEF Offspring
  <2>3. u.item = t.item
    BY <1>1 DEF Passed
  <2> QED
    BY <1>1, <2>1, <2>2, <2>3 DEF Passed
<1>8. SpawnsOnce(conf, u, "resolve")
  BY <1>5, <1>7 DEF SpawnsOnce, Sources
<1>9. pc' = [pc EXCEPT ![w] = "resolve"]
  BY DEF Resolve, TypeInv, TasksOK
<1>10. UNCHANGED <<conf, chan, received, pending, consumer>>
  BY DEF Resolve
<1> QED
  BY <1>1, <1>3, <1>7, <1>8, <1>9, <1>10, QuietOnce DEF Busy, Owes

-----------------------------------------------------------------------------
(* Each action visits once                                                 *)

LEMMA InitOnce == Init => OnceInv
<1> SUFFICES ASSUME Init PROVE OnceInv
  OBVIOUS
<1>1. BagToSet(pending) = {} /\ Arrived = {} /\ Range(chan) = {} /\ Len(chan) = 0
  BY EmptyBagIsEmpty DEF Init, Arrived, Range
<1>2. Sent = {} /\ SentPaths = {} /\ \A w \in Worker : pc[w] = "idle"
  BY <1>1 DEF Sent, SentPaths, Init
<1>3. BagToSet(NoTask.spawn) = {} /\ NoTask.entries = << >>
  BY EmptyBagIsEmpty DEF NoTask, NewTask
<1>4. TasksOnce
  BY <1>3, NothingToSpawn DEF Init, TasksOnce
<1>5. StreamOnce
  BY <1>1 DEF StreamOnce
<1>6. VisitsOnce /\ Unsent /\ Childless /\ Unstarted
  BY <1>1, <1>2, NoTwinsEmpty DEF VisitsOnce, Unsent, Childless, Unstarted, Busy, Owes
<1> QED
  BY <1>4, <1>5, <1>6 DEF OnceInv

LEMMA WalkOnce == ASSUME TypeInv, OnceInv, Walk PROVE OnceInv'
<1> DEFINE root == [path |-> << >>, dir |-> conf.root, depth |-> 1,
                    ancestor |-> IF conf.followLinks /\ conf.rootStat
                                 THEN << conf.id[conf.root] >> ELSE << >>]
<1>1. pending' = SetToBag({root})
  BY DEF Walk
<1> HIDE DEF root
<1>2. BagToSet(pending') = {root} /\ NoTwins(pending')
  <2>1. SetToBag({root})[root] = 1
    BY DEF SetToBag
  <2> QED
    BY <1>1, <2>1, BagsOfSets DEF NoTwins
<1>3. Sent = {} /\ \A w \in Worker : pc[w] = "idle"
  BY DEF Walk, OnceInv, Unstarted
<1>4. Sent' = {} /\ SentPaths' = {} /\ pc' = pc /\ task' = task
  BY <1>3 DEF Walk, Sent, SentPaths, Arrived
<1>5. TasksOnce' /\ StreamOnce'
  BY DEF Walk, OnceInv, TasksOnce, StreamOnce, Arrived
<1>6. VisitsOnce' /\ Unsent' /\ Childless'
  BY <1>2, <1>3, <1>4 DEF VisitsOnce, Unsent, Childless, Busy, Owes
<1>7. Unstarted'
  BY DEF Walk, Unstarted
<1> QED
  BY <1>5, <1>6, <1>7 DEF OnceInv

LEMMA TakeOnce ==
    ASSUME TypeInv, OnceInv, NEW w \in Worker, NEW it \in BagToSet(pending), Take(w, it)
    PROVE  OnceInv'
<1> DEFINE u == NewTask(it)
<1>1. NoTwins(pending') /\ BagToSet(pending') = BagToSet(pending) \ {it}
  BY TakeNoTwin DEF Take, TypeInv, PoolOK, OnceInv, VisitsOnce
<1>2. u.item = it /\ BagToSet(u.spawn) = {} /\ u.entries = << >>
  BY EmptyBagIsEmpty DEF NewTask
<1>3. /\ task' = [task EXCEPT ![w] = u] /\ pc' = [pc EXCEPT ![w] = "read"]
      /\ pc[w] = "idle" /\ UNCHANGED <<conf, chan, received, consumer>>
  BY DEF Take
<1> HIDE DEF u
<1>4. /\ pc'[w] = "read" /\ task'[w].item = it
      /\ \A v \in Worker : v # w => pc'[v] = pc[v] /\ task'[v] = task[v]
  BY <1>2, <1>3 DEF TypeInv, TasksOK
<1>5. \A x \in BagToSet(pending') : x \in BagToSet(pending) /\ x.path # it.path
  BY <1>1 DEF OnceInv, VisitsOnce, NoTwins
<1>6. SentPaths' = SentPaths /\ Sent' = Sent /\ StreamOnce'
  BY <1>3 DEF SentPaths, Sent, Arrived, OnceInv, StreamOnce
<1>7. OpenPaths' \subseteq OpenPaths
  <2> SUFFICES ASSUME NEW p \in OpenPaths' PROVE p \in OpenPaths
    OBVIOUS
  <2>1. CASE \E x \in BagToSet(pending') : p = x.path
    BY <1>5, <2>1 DEF OpenPaths
  <2>2. CASE \E v \in Worker : Busy(pc'[v]) /\ p = task'[v].item.path
    <3>1. PICK v \in Worker : Busy(pc'[v]) /\ p = task'[v].item.path
      BY <2>2
    <3>2. CASE v = w
      BY <1>4, <3>1, <3>2 DEF OpenPaths
    <3>3. CASE v # w
      BY <1>4, <3>1, <3>3 DEF OpenPaths
    <3> QED
      BY <3>2, <3>3
  <2> QED
    BY <2>1, <2>2 DEF OpenPaths
<1>8. VisitsOnce'
  <2>1. \A v \in Worker : Busy(pc[v]) => it.path # task[v].item.path
    BY DEF OnceInv, VisitsOnce
  <2>2. \A x \in BagToSet(pending') : \A v \in Worker :
           Busy(pc'[v]) => x.path # task'[v].item.path
    BY <1>4, <1>5 DEF OnceInv, VisitsOnce
  <2>3. \A v, z \in Worker : Busy(pc'[v]) /\ Busy(pc'[z]) /\ v # z =>
           task'[v].item.path # task'[z].item.path
    BY <1>4, <2>1 DEF OnceInv, VisitsOnce
  <2> QED
    BY <1>1, <2>2, <2>3 DEF VisitsOnce
<1>9. Unsent'
  BY <1>4, <1>5, <1>6 DEF OnceInv, Unsent
<1>10. Childless'
  BY <1>4, <1>6, <1>7 DEF OnceInv, Childless
<1>11. SpawnsOnce(conf, u, "read")
  BY <1>2, NothingToSpawn
<1>12. TasksOnce' /\ Unstarted'
  <2>1. TasksOnce'
    BY <1>3, <1>11, OneSpawner DEF OnceInv
  <2>2. consumer # "start"
    BY DEF OnceInv, Unstarted
  <2> QED
    BY <1>3, <2>1, <2>2 DEF Unstarted
<1> QED
  BY <1>1, <1>6, <1>8, <1>9, <1>10, <1>12 DEF OnceInv

\* The directory's records have distinct names, so its entries do.
LEMMA ReadRecordOnce ==
    ASSUME TypeInv, OnceInv, NEW w \in Worker, ReadRecord(w)
    PROVE  OnceInv'
<1> DEFINE t == task[w]
           list == conf.list[t.item.dir]
           r == list[t.pos]
<1>1. /\ TaskOK(t) /\ t.item.dir \in Dir /\ t.pos \in DOMAIN list /\ pc[w] = "read"
      /\ SpawnsOnce(conf, t, "read")
  BY DEF ReadRecord, TypeInv, TasksOK, OnceInv, TasksOnce
<1>2. /\ list \in Seq(Dirent) /\ DistinctNames(list) /\ t.pos \in Nat
      /\ DOMAIN list = 1 .. Len(list) /\ Len(list) \in Nat
  BY <1>1, ConfTypes, TreeAssumption, LenProperties DEF TypeInv, TaskOK
<1>3. /\ t.entries \in Seq(Dirent) /\ Len(t.entries) \in Nat
  BY <1>1, LenProperties DEF TaskOK
<1>4. /\ \A i \in 1 .. Len(t.entries) : \E k \in DOMAIN list :
            k < t.pos /\ t.entries[i].name = list[k].name
      /\ \A i, j \in 1 .. Len(t.entries) : t.entries[i].name = t.entries[j].name => i = j
  BY <1>1 DEF SpawnsOnce, Sources, NamesOnce, Live
<1> HIDE DEF list
<1>5. \A k \in DOMAIN list : k < t.pos => k < t.pos + 1 /\ list[k].name # r.name
  BY <1>1, <1>2 DEF DistinctNames
<1>6. SpawnsOnce(conf, Advance(t), "read")
  <2>1. /\ Advance(t).item = t.item /\ Advance(t).entries = t.entries
        /\ Advance(t).pos = t.pos + 1 /\ Advance(t).spawn = t.spawn
    BY <1>1, AdvanceType
  <2>2. Sources(conf, Advance(t), "read")
    <3> DEFINE u == Advance(t)
    <3>1. NamesOnce(u, "read")
      BY <1>4, <2>1 DEF NamesOnce, Live
    <3>2. ASSUME NEW i \in 1 .. Len(u.entries)
          PROVE  \E k \in DOMAIN list : k < u.pos /\ u.entries[i].name = list[k].name
      <4>1. PICK k \in DOMAIN list : k < t.pos /\ t.entries[i].name = list[k].name
        BY <1>4, <2>1
      <4>2. k < u.pos
        BY <1>5, <2>1, <4>1
      <4> QED
        BY <2>1, <4>1, <4>2
    <3> HIDE DEF u
    <3>3. u.item = t.item
      BY <2>1 DEF u
    <3> QED
      BY <3>1, <3>2, <3>3 DEF Sources, u, list
  <2> QED
    BY <1>1, <2>1, <2>2 DEF SpawnsOnce
<1>7. SpawnsOnce(conf, OnEntry(t, r), "read")
  <2> DEFINE u == OnEntry(t, r)
             q == Append(t.entries, r)
  <2>1. u.item = t.item /\ u.entries = q /\ u.pos = t.pos + 1 /\ u.spawn = t.spawn
    BY <1>1 DEF OnEntry, TaskOK
  <2>2. r \in Dirent
    BY <1>1, <1>2, ElementOfSeq
  <2>3. /\ Len(q) = Len(t.entries) + 1 /\ q[Len(t.entries) + 1] = r
        /\ \A i \in 1 .. Len(t.entries) : q[i] = t.entries[i]
    BY <1>3, <2>2, AppendProperties
  <2>4. \A i \in 1 .. Len(q) : i \in 1 .. Len(t.entries) \/ i = Len(t.entries) + 1
    BY <1>3, <2>3
  <2> HIDE DEF u, q, r
  <2>5. \A i \in 1 .. Len(t.entries) : q[i].name # q[Len(t.entries) + 1].name
    BY <1>4, <1>5, <2>3
  <2>6. \A i \in 1 .. Len(q) : \E k \in DOMAIN list :
           k < t.pos + 1 /\ q[i].name = list[k].name
    <3>1. q[Len(t.entries) + 1] = list[t.pos] /\ t.pos < t.pos + 1
      BY <1>2, <2>3 DEF r
    <3> QED
      BY <1>1, <1>4, <1>5, <2>3, <2>4, <3>1
  <2>7. \A i, j \in 1 .. Len(q) : q[i].name = q[j].name => i = j
    BY <1>4, <2>3, <2>4, <2>5
  <2>8. Sources(conf, u, "read")
    <3>1. NamesOnce(u, "read")
      BY <2>1, <2>7 DEF NamesOnce, Live
    <3> QED
      BY <2>1, <2>6, <3>1 DEF Sources, list
  <2>9. SpawnsOnce(conf, u, "read")
    BY <1>1, <2>1, <2>8 DEF SpawnsOnce
  <2> QED
    BY <2>9 DEF u
<1>8. PICK u : /\ SpawnsOnce(conf, u, "read") /\ u.item = t.item
               /\ task' = [task EXCEPT ![w] = u]
  <2>1. Advance(t).item = t.item /\ OnEntry(t, r).item = t.item
    BY <1>1 DEF Advance, OnEntry, TaskOK
  <2> QED
    BY <1>6, <1>7, <2>1 DEF ReadRecord, list
<1>9. pc' = [pc EXCEPT ![w] = "read"] /\ UNCHANGED <<conf, chan, received, pending, consumer>>
  BY DEF ReadRecord, TypeInv, TasksOK
<1> QED
  BY <1>1, <1>8, <1>9, QuietOnce DEF Busy, Owes

LEMMA ReadDoneOnce ==
    ASSUME TypeInv, OrderInv, OnceInv, NEW w \in Worker, ReadDone(w)
    PROVE  OnceInv'
<1> DEFINE t == task[w]
           s == [t EXCEPT !.pos = 1]
<1>1. /\ TaskOK(t) /\ t.keep = 1 /\ BagToSet(t.spawn) = {} /\ pc[w] = "read"
      /\ NamesOnce(t, "read")
  BY DEF ReadDone, TypeInv, TasksOK, Located, OrderInv, TasksOrder, Announces,
         OnceInv, TasksOnce, SpawnsOnce, Sources
<1>2. /\ s.item = t.item /\ s.entries = t.entries /\ s.keep = 1 /\ s.pos = 1
      /\ BagToSet(s.spawn) = {}
  BY <1>1, PosType
<1>3. task' = [task EXCEPT ![w] = s] /\ UNCHANGED <<conf, chan, received, pending, consumer>>
  BY DEF ReadDone
<1> HIDE DEF s
<1>4. NamesOnce(s, "resolve") /\ NamesOnce(s, "send")
  <2>1. Live(s, "resolve") \subseteq Live(t, "read") /\ Live(s, "send") = Live(t, "read")
    BY <1>2 DEF Live
  <2> QED
    BY <1>1, <1>2, <2>1 DEF NamesOnce
<1>5. SpawnsOnce(conf, s, "resolve") /\ SpawnsOnce(conf, s, "send")
  BY <1>2, <1>4, NoTwinsEmpty DEF SpawnsOnce, Sources
<1>6. PICK at \in {"resolve", "send"} : pc' = [pc EXCEPT ![w] = at]
  BY DEF ReadDone
<1> QED
  BY <1>1, <1>2, <1>3, <1>5, <1>6, QuietOnce DEF Busy, Owes

LEMMA ReadFailsOnce ==
    ASSUME TypeInv, OnceInv, NEW w \in Worker, ReadFails(w)
    PROVE  OnceInv'
<1> DEFINE t == task[w]
           s == [NewTask(t.item) EXCEPT !.errs = {[at |-> t.item.path, err |-> "unreadable"]}]
<1>1. s.item = t.item /\ BagToSet(s.spawn) = {} /\ s.entries = << >>
  BY EmptyBagIsEmpty DEF NewTask
<1>2. /\ task' = [task EXCEPT ![w] = s] /\ pc' = [pc EXCEPT ![w] = "sendErr"]
      /\ pc[w] = "read" /\ UNCHANGED <<conf, chan, received, pending, consumer>>
  BY DEF ReadFails
<1> HIDE DEF s
<1>3. SpawnsOnce(conf, s, "sendErr")
  BY <1>1, NothingToSpawn
<1> QED
  BY <1>1, <1>2, <1>3, QuietOnce DEF Busy, Owes

LEMMA PanicOnce ==
    ASSUME TypeInv, OnceInv, NEW w \in Worker, PanicOnNil(w)
    PROVE  OnceInv'
<1>1. /\ \A v \in Worker : pc'[v] = "dead"
      /\ UNCHANGED <<conf, task, pending, chan, received>> /\ consumer' = "dead"
  BY DEF PanicOnNil
<1>2. TasksOnce'
  BY <1>1 DEF OnceInv, TasksOnce, SpawnsOnce, Sources
<1>3. SentPaths' = SentPaths /\ StreamOnce'
  BY <1>1 DEF SentPaths, Sent, Arrived, OnceInv, StreamOnce
<1>4. VisitsOnce' /\ Unsent' /\ Childless' /\ Unstarted'
  BY <1>1, <1>3 DEF OnceInv, VisitsOnce, Unsent, Childless, Unstarted, Busy, Owes
<1> QED
  BY <1>2, <1>3, <1>4 DEF OnceInv

LEMMA ResolveDoneOnce ==
    ASSUME TypeInv, OnceInv, NEW w \in Worker, ResolveDone(w)
    PROVE  OnceInv'
<1> DEFINE t == task[w]
           s == [t EXCEPT !.entries = SubSeq(t.entries, 1, t.keep - 1)]
<1>1. TaskOK(t) /\ conf.followLinks /\ pc[w] = "resolve" /\ SpawnsOnce(conf, t, "resolve")
  BY DEF ResolveDone, TypeInv, TasksOK, Located, OnceInv, TasksOnce
<1>2. s.item = t.item /\ s.spawn = t.spawn
  BY <1>1 DEF TaskOK
<1>3. /\ task' = [task EXCEPT ![w] = s] /\ pc' = [pc EXCEPT ![w] = "send"]
      /\ UNCHANGED <<conf, chan, received, pending, consumer>>
  BY DEF ResolveDone
<1> HIDE DEF s
<1>4. SpawnsOnce(conf, s, "send")
  BY <1>1, <1>2 DEF SpawnsOnce, Sources
<1> QED
  BY <1>1, <1>2, <1>3, <1>4, QuietOnce DEF Busy, Owes

LEMMA SendsOnce ==
    ASSUME TypeInv, OrderInv, OnceInv, NEW w \in Worker,
           SendErr(w) \/ Send(w) \/ SendResolved(w)
    PROVE  OnceInv'
<1> DEFINE t == task[w]
<1>1. /\ Owes(pc[w]) /\ Deliver(BatchOf(task[w])) /\ UNCHANGED <<conf, pending, consumer>>
  BY DEF SendErr, Send, SendResolved, Owes
<1>2. task' = task => task' = [task EXCEPT ![w] = t]
  BY DEF TypeInv, TasksOK
<1>3. SpawnsOnce(conf, NoTask, "idle")
  BY EmptyBagIsEmpty, NothingToSpawn DEF NoTask, NewTask
<1>4. CASE Return(w)
  <2>1. task' = [task EXCEPT ![w] = NoTask] /\ pc' = [pc EXCEPT ![w] = "idle"]
    BY <1>4 DEF Return
  <2> HIDE DEF t
  <2> QED
    BY <1>1, <1>3, <2>1, SendOnce
<1>5. CASE pc' = [pc EXCEPT ![w] = "scan"] /\ UNCHANGED task /\ Send(w)
  <2>1. SpawnsOnce(conf, t, "send") /\ ~ conf.followLinks
    BY <1>5 DEF Send, OnceInv, TasksOnce
  <2>2. SpawnsOnce(conf, t, "scan")
    BY <2>1 DEF SpawnsOnce, Sources, NamesOnce, Live
  <2>3. task' = [task EXCEPT ![w] = t] /\ pc' = [pc EXCEPT ![w] = "scan"]
    BY <1>2, <1>5
  <2> QED
    BY <1>1, <2>2, <2>3, SendOnce
<1>6. CASE pc' = [pc EXCEPT ![w] = "spawn"] /\ UNCHANGED task /\ SendResolved(w)
  <2>1. SpawnsOnce(conf, t, "send")
    BY <1>6 DEF SendResolved, OnceInv, TasksOnce
  <2>2. SpawnsOnce(conf, t, "spawn")
    BY <2>1 DEF SpawnsOnce, Sources
  <2>3. task' = [task EXCEPT ![w] = t] /\ pc' = [pc EXCEPT ![w] = "spawn"]
    BY <1>2, <1>6
  <2> QED
    BY <1>1, <2>2, <2>3, SendOnce
<1>7. \/ Return(w)
      \/ pc' = [pc EXCEPT ![w] = "scan"] /\ UNCHANGED task /\ Send(w)
      \/ pc' = [pc EXCEPT ![w] = "spawn"] /\ UNCHANGED task /\ SendResolved(w)
  <2>1. CASE SendErr(w)
    BY <2>1 DEF SendErr
  <2>2. CASE Send(w)
    <3>1. Return(w) \/ (pc' = [pc EXCEPT ![w] = "scan"] /\ UNCHANGED task)
      BY <2>2 DEF Send
    <3> QED
      BY <2>2, <3>1
  <2>3. CASE SendResolved(w)
    <3>1. pc' = [pc EXCEPT ![w] = "spawn"] /\ UNCHANGED task
      BY <2>3 DEF SendResolved
    <3> QED
      BY <2>3, <3>1
  <2> QED
    BY <2>1, <2>2, <2>3
<1> QED
  BY <1>4, <1>5, <1>6, <1>7

\* visit's loop makes a child of each entry it passes, and passes it once: a
\* sort meanwhile moves directories only towards the front.
LEMMA ScanOnce ==
    ASSUME TypeInv, OnceInv, NEW w \in Worker, Scan(w)
    PROVE  OnceInv'
<1> DEFINE t     == task[w]
           e     == t.entries[t.pos]
           child == Child(conf, t.item, e, << >>)
           a     == Advance(t)
<1>1. /\ TaskOK(t) /\ t.pos \in DOMAIN t.entries /\ pc[w] = "scan"
      /\ SpawnsOnce(conf, t, "scan")
  BY DEF Scan, TypeInv, TasksOK, OnceInv, TasksOnce
<1>2. /\ t.entries \in Seq(Dirent) /\ Len(t.entries) \in Nat /\ t.pos \in Nat
      /\ DOMAIN t.entries = 1 .. Len(t.entries) /\ IsABag(t.spawn)
  BY <1>1, LenProperties DEF TaskOK
<1>3. e.name \in Name
  <2>1. e \in Dirent
    BY <1>1, <1>2, ElementOfSeq
  <2> QED
    BY <2>1 DEF Dirent
<1>4. /\ NoTwins(t.spawn) /\ NamesOnce(t, "scan")
      /\ \A it \in BagToSet(t.spawn) : \E n \in Name : it.path = Append(t.item.path, n)
      /\ \A it \in BagToSet(t.spawn) : \E i \in 1 .. t.pos - 1 :
            t.entries[i].typ = "dir" /\ it.path = Offspring(t, t.entries[i])
  BY <1>1 DEF SpawnsOnce, Sources
<1>5. /\ a.item = t.item /\ a.entries = t.entries /\ a.pos = t.pos + 1 /\ a.spawn = t.spawn
      /\ TaskOK(a)
  BY <1>1, AdvanceType
<1>6. child.path = Offspring(t, e)
  BY DEF Child, Offspring
<1>7. /\ task' = [task EXCEPT ![w] = IF e.typ = "dir" THEN AddChild(a, child) ELSE a]
      /\ pc' = [pc EXCEPT ![w] = "scan"]
      /\ UNCHANGED <<conf, chan, received, pending, consumer>>
  BY DEF Scan, TypeInv, TasksOK
<1> HIDE DEF child, a
<1>8. \A i \in 1 .. t.pos - 1 : i \in 1 .. a.pos - 1 /\ a.entries[i] = t.entries[i]
  BY <1>2, <1>5
<1>9. \A x : Offspring(a, x) = Offspring(t, x)
  BY <1>5 DEF Offspring
<1>10. NamesOnce(a, "scan")
  BY <1>4, <1>5 DEF NamesOnce, Live
<1>11. SpawnsOnce(conf, a, "scan")
  BY <1>4, <1>5, <1>8, <1>9, <1>10 DEF SpawnsOnce, Sources
<1>12. ASSUME e.typ = "dir"
       PROVE  SpawnsOnce(conf, AddChild(a, child), "scan") /\ AddChild(a, child).item = t.item
  <2> DEFINE u == AddChild(a, child)
  <2>1. /\ u.item = a.item /\ u.entries = a.entries /\ u.pos = a.pos
        /\ u.spawn = t.spawn (+) SetToBag({child})
    <3>1. u = [a EXCEPT !.spawn = a.spawn (+) SetToBag({child})]
      BY DEF AddChild
    <3> HIDE DEF u
    <3> QED
      BY <1>5, <3>1 DEF TaskOK
  <2> HIDE DEF u
  <2>2. BagToSet(u.spawn) = BagToSet(t.spawn) \cup {child}
    BY <1>2, <2>1, BagAdd
  <2>3. NoTwins(u.spawn)
    <3>1. ASSUME NEW y \in BagToSet(t.spawn)
          PROVE  \E i \in 1 .. t.pos - 1 : /\ i # t.pos /\ t.entries[i].name # t.entries[t.pos].name
                                           /\ y.path = Offspring(t, t.entries[i])
      <4>1. PICK i \in 1 .. t.pos - 1 : y.path = Offspring(t, t.entries[i])
        BY <1>4
      <4>2. i \in Live(t, "scan") /\ t.pos \in Live(t, "scan") /\ i # t.pos
        BY <1>1, <1>2 DEF Live
      <4>3. t.entries[i].name # t.entries[t.pos].name
        BY <1>4, <4>2 DEF NamesOnce
      <4> QED
        BY <4>1, <4>2, <4>3
    <3>2. t.pos \in Nat /\ t.pos <= t.pos + 1
      BY <1>2
    <3>3. NoTwins(t.spawn (+) SetToBag({child}))
      <4> HIDE DEF t
      <4> QED
        BY <1>1, <1>4, <1>6, <3>1, <3>2, PassSpawn
    <3> QED
      BY <2>1, <3>3
  <2>4. \A y \in BagToSet(u.spawn) : \E n \in Name : y.path = Append(u.item.path, n)
    BY <1>3, <1>4, <1>5, <1>6, <2>1, <2>2 DEF Offspring
  <2>5. ASSUME NEW y \in BagToSet(u.spawn)
        PROVE  \E i \in 1 .. u.pos - 1 :
                  u.entries[i].typ = "dir" /\ y.path = Offspring(u, u.entries[i])
    <3>1. \A x : Offspring(u, x) = Offspring(t, x)
      BY <1>9, <2>1 DEF Offspring
    <3>2. CASE y \in BagToSet(t.spawn)
      <4>1. PICK i \in 1 .. t.pos - 1 : t.entries[i].typ = "dir" /\ y.path = Offspring(t, t.entries[i])
        BY <1>4, <3>2
      <4> QED
        BY <1>8, <2>1, <3>1, <4>1
    <3>3. CASE y = child
      <4>1. t.pos \in 1 .. u.pos - 1 /\ u.entries[t.pos] = e
        BY <1>1, <1>2, <1>5, <2>1
      <4> QED
        BY <1>6, <1>12, <3>1, <3>3, <4>1
    <3> QED
      BY <2>2, <3>2, <3>3
  <2>6. NamesOnce(u, "scan")
    BY <1>10, <2>1 DEF NamesOnce, Live
  <2>7. SpawnsOnce(conf, u, "scan")
    BY <2>3, <2>4, <2>5, <2>6 DEF SpawnsOnce, Sources
  <2> QED
    BY <1>5, <2>1, <2>7 DEF u
<1>13. PICK u : /\ SpawnsOnce(conf, u, "scan") /\ u.item = t.item
                /\ task' = [task EXCEPT ![w] = u]
  BY <1>5, <1>7, <1>11, <1>12
<1> QED
  BY <1>1, <1>7, <1>13, QuietOnce DEF Busy, Owes

LEMMA ScanDoneOnce ==
    ASSUME TypeInv, OnceInv, NEW w \in Worker, ScanDone(w)
    PROVE  OnceInv'
<1>1. /\ task' = [task EXCEPT ![w] = task[w]] /\ pc' = [pc EXCEPT ![w] = "spawn"]
      /\ pc[w] = "scan" /\ UNCHANGED <<conf, chan, received, pending, consumer>>
  BY DEF ScanDone, TypeInv, TasksOK
<1>2. SpawnsOnce(conf, task[w], "spawn")
  BY <1>1 DEF OnceInv, TasksOnce, SpawnsOnce, Sources
<1> QED
  BY <1>1, <1>2, QuietOnce DEF Busy, Owes

\* The children leave the scratch for the pool, where none of them is yet.
LEMMA SpawnOnce ==
    ASSUME TypeInv, OrderInv, OnceInv, NEW w \in Worker, Spawn(w)
    PROVE  OnceInv'
<1> DEFINE p == task[w].item.path
           B == task[w].spawn
<1>1. /\ pc[w] = "spawn" /\ pending' = pending (+) B
      /\ task' = [task EXCEPT ![w] = NoTask] /\ pc' = [pc EXCEPT ![w] = "idle"]
      /\ UNCHANGED <<conf, chan, received, consumer>>
  BY DEF Spawn, Return
<1>2. /\ p \in Path /\ IsABag(B) /\ NoTwins(B) /\ IsABag(pending) /\ NoTwins(pending)
      /\ \A x \in BagToSet(B) : \E n \in Name : x.path = Append(p, n)
  BY ItemPaths DEF TypeInv, PoolOK, TasksOK, TaskOK, OnceInv, TasksOnce, SpawnsOnce, VisitsOnce
<1>3. \A x \in BagToSet(B) : x.path \notin OpenPaths /\ x.path \notin SentPaths
  BY <1>1, <1>2 DEF OnceInv, Childless
<1>4. NoTwins(pending') /\ BagToSet(pending') = BagToSet(pending) \cup BagToSet(B)
  <2>1. \A x \in BagToSet(pending) : \A y \in BagToSet(B) : x.path # y.path
    BY <1>3 DEF OpenPaths
  <2> HIDE DEF B
  <2> QED
    BY <1>1, <1>2, <2>1, MergeNoTwins, BagMerge
<1>5. /\ pc'[w] = "idle"
      /\ \A v \in Worker : v # w => pc'[v] = pc[v] /\ task'[v] = task[v]
  BY <1>1 DEF TypeInv, TasksOK
<1>6. \A v \in Worker : Busy(pc'[v]) => v # w /\ Busy(pc[v]) /\ task'[v] = task[v]
  BY <1>5 DEF Busy
<1>7. SentPaths' = SentPaths /\ Sent' = Sent /\ StreamOnce'
  BY <1>1 DEF SentPaths, Sent, Arrived, OnceInv, StreamOnce
<1>8. OpenPaths' \subseteq OpenPaths \cup {x.path : x \in BagToSet(B)}
  BY <1>4, <1>6 DEF OpenPaths
<1> HIDE DEF B
<1>9. VisitsOnce'
  <2>1. ASSUME NEW x \in BagToSet(pending'), NEW v \in Worker, Busy(pc'[v])
        PROVE  x.path # task'[v].item.path
    <3>1. Busy(pc[v]) /\ task'[v] = task[v]
      BY <1>6, <2>1
    <3>2. CASE x \in BagToSet(pending)
      BY <3>1, <3>2 DEF OnceInv, VisitsOnce
    <3>3. CASE x \in BagToSet(B)
      BY <1>3, <3>1, <3>3 DEF OpenPaths
    <3> QED
      BY <1>4, <2>1, <3>2, <3>3
  <2>2. \A v, z \in Worker : Busy(pc'[v]) /\ Busy(pc'[z]) /\ v # z =>
           task'[v].item.path # task'[z].item.path
    BY <1>6 DEF OnceInv, VisitsOnce
  <2> QED
    BY <1>4, <2>1, <2>2 DEF VisitsOnce
<1>10. Unsent'
  <2>1. \A v \in Worker : Owes(pc'[v]) => v # w
    BY <1>5 DEF Owes
  <2> QED
    BY <1>3, <1>4, <1>5, <1>7, <2>1 DEF OnceInv, Unsent
<1>11. Childless'
  <2> SUFFICES ASSUME NEW v \in Worker, pc'[v] \in {"scan", "spawn"}, NEW n \in Name
               PROVE  Append(task'[v].item.path, n) \notin OpenPaths' \cup SentPaths'
    BY DEF Childless
  <2> DEFINE q == task[v].item.path
  <2>1. v # w
    BY <1>5
  <2>2. task'[v] = task[v] /\ pc[v] = pc'[v] /\ q \in Path
    BY <1>5, <2>1, ItemPaths
  <2>3. Append(q, n) \notin OpenPaths \cup SentPaths
    BY <2>2 DEF OnceInv, Childless
  <2>4. q # p
    BY <1>1, <2>1, <2>2 DEF OnceInv, VisitsOnce, Busy
  <2>5. ASSUME NEW x \in BagToSet(B) PROVE x.path # Append(q, n)
    <3>1. PICK m \in Name : x.path = Append(p, m)
      BY <1>2
    <3> HIDE DEF p, q
    <3> QED
      BY <1>2, <2>2, <2>4, <3>1, OneParent
  <2> HIDE DEF q
  <2>6. Append(q, n) \notin OpenPaths' \cup SentPaths'
    BY <1>7, <1>8, <2>3, <2>5
  <2> QED
    BY <2>2, <2>6 DEF q
<1>12. SpawnsOnce(conf, NoTask, "idle")
  BY EmptyBagIsEmpty, NothingToSpawn DEF NoTask, NewTask
<1>13. TasksOnce' /\ Unstarted'
  <2>1. TasksOnce'
    BY <1>1, <1>12, OneSpawner DEF OnceInv
  <2>2. consumer # "start"
    BY <1>1 DEF OnceInv, Unstarted
  <2> QED
    BY <1>1, <2>1, <2>2 DEF Unstarted
<1> QED
  BY <1>7, <1>9, <1>10, <1>11, <1>13 DEF OnceInv

LEMMA ReceiveOnce ==
    ASSUME TypeInv, OrderInv, OnceInv, Receive
    PROVE  OnceInv'
<1>1. /\ chan \in Seq(Batch) /\ Len(chan) \in Nat \ {0} /\ Head(chan) = chan[1]
      /\ chan' = Tail(chan) /\ received' = received (+) SetToBag({chan[1]})
      /\ UNCHANGED <<conf, pc, task, pending>> /\ consumer' = consumer /\ consumer = "range"
  BY LenProperties, EmptySeq, HeadTailProperties DEF Receive, TypeInv, StreamOK
<1>2. /\ Len(chan') = Len(chan) - 1
      /\ \A i \in 1 .. Len(chan) - 1 : chan'[i] = chan[i + 1]
  BY <1>1, HeadTailProperties
<1>3. 1 \in 1 .. Len(chan)
  BY <1>1
<1>4. chan[1] \notin Arrived /\ \A b \in Arrived : b.dir # chan[1].dir
  BY <1>3 DEF OnceInv, StreamOnce
<1>5. /\ Arrived' = Arrived \cup {chan[1]}
      /\ received'[chan[1]] = 1 /\ \A b \in Arrived : received'[b] = received[b]
  <2>1. IsABag(received) /\ chan[1] \notin BagToSet(received)
    BY <1>4 DEF TypeInv, StreamOK, Arrived
  <2>2. BagToSet(received') = BagToSet(received) \cup {chan[1]}
    BY <1>1, <2>1, BagAdd
  <2>3. received'[chan[1]] = 1 /\ \A b \in BagToSet(received) : received'[b] = received[b]
    BY <1>1, <2>1 DEF IsABag, BagToSet, SetToBag, (+)
  <2> QED
    BY <2>2, <2>3 DEF Arrived
<1>6. StreamOnce'
  <2>1. \A i \in 1 .. Len(chan') : /\ i + 1 \in 1 .. Len(chan) /\ i + 1 # 1
                                   /\ chan'[i] = chan[i + 1]
    BY <1>1, <1>2
  <2>2. \A i, j \in 1 .. Len(chan') : chan'[i].dir = chan'[j].dir => i = j
    <3>1. \A i, j \in 1 .. Len(chan') : i + 1 = j + 1 => i = j
      OBVIOUS
    <3> QED
      BY <2>1, <3>1 DEF OnceInv, StreamOnce
  <2>3. \A i \in 1 .. Len(chan') : \A b \in Arrived' : chan'[i].dir # b.dir
    BY <1>3, <1>5, <2>1 DEF OnceInv, StreamOnce
  <2>4. \A b \in Arrived' : received'[b] = 1
    BY <1>5 DEF OnceInv, StreamOnce
  <2>5. \A a, b \in Arrived' : a.dir = b.dir => a = b
    BY <1>4, <1>5 DEF OnceInv, StreamOnce
  <2> QED
    BY <2>2, <2>3, <2>4, <2>5 DEF StreamOnce
<1>7. Sent' = Sent
  BY ReceiveOrder DEF OrderInv
<1>8. SentPaths' = SentPaths /\ OpenPaths' = OpenPaths
  BY <1>1, <1>7 DEF SentPaths, OpenPaths
<1> QED
  BY <1>1, <1>6, <1>8
     DEF OnceInv, TasksOnce, VisitsOnce, Unsent, Childless, Unstarted

LEMMA SortSwapOnce ==
    ASSUME TypeInv, OnceInv, NEW w \in Worker, NEW i, NEW j, SortSwap(w, i, j)
    PROVE  OnceInv'
<1> DEFINE t  == task[w]
           q  == [t.entries EXCEPT ![i] = t.entries[j], ![j] = t.entries[i]]
           s  == [t EXCEPT !.entries = q]
<1>1. /\ TaskOK(t) /\ i \in DOMAIN t.entries /\ j \in DOMAIN t.entries /\ i < j
      /\ t.entries[i].typ # "dir" /\ pc[w] \in {"scan", "spawn"}
      /\ SpawnsOnce(conf, t, pc[w])
  BY DEF SortSwap, TypeInv, TasksOK, OnceInv, TasksOnce
<1>2. /\ t.entries \in Seq(Dirent) /\ Len(t.entries) \in Nat /\ t.pos \in Nat
      /\ DOMAIN t.entries = 1 .. Len(t.entries)
  BY <1>1, LenProperties DEF TaskOK
<1>3. /\ Len(q) = Len(t.entries)
      /\ q[i] = t.entries[j] /\ q[j] = t.entries[i]
      /\ \A k \in 1 .. Len(t.entries) : k # i /\ k # j => q[k] = t.entries[k]
  <2>1. DOMAIN q = 1 .. Len(t.entries)
    BY <1>2
  <2>2. q \in Seq(Dirent)
    <3>1. t.entries[i] \in Dirent /\ t.entries[j] \in Dirent
      BY <1>1, <1>2, ElementOfSeq
    <3>2. [t.entries EXCEPT ![i] = t.entries[j]] \in Seq(Dirent)
          /\ Len([t.entries EXCEPT ![i] = t.entries[j]]) = Len(t.entries)
      BY <1>1, <1>2, <3>1, ExceptSeq
    <3>3. q = [[t.entries EXCEPT ![i] = t.entries[j]] EXCEPT ![j] = t.entries[i]]
      OBVIOUS
    <3> QED
      BY <1>1, <1>2, <3>1, <3>2, <3>3, ExceptSeq
  <2>3. Len(q) = Len(t.entries)
    <3> HIDE DEF q
    <3> QED
      BY <1>2, <2>1, <2>2, LenProperties
  <2> QED
    BY <1>1, <1>2, <2>3
<1>4. /\ task' = [task EXCEPT ![w] = s] /\ pc' = [pc EXCEPT ![w] = pc[w]]
      /\ UNCHANGED <<conf, chan, received, pending, consumer>>
  BY DEF SortSwap, TypeInv, TasksOK
<1> HIDE DEF q
<1>5. s.item = t.item /\ s.spawn = t.spawn /\ s.entries = q /\ s.pos = t.pos
  BY <1>1 DEF TaskOK
<1> HIDE DEF s
<1>6. pc[w] = "scan" => NamesOnce(s, "scan")
  <2> DEFINE src(k) == IF k = i THEN j ELSE IF k = j THEN i ELSE k
  <2>1. \A k \in 1 .. Len(q) : src(k) \in 1 .. Len(t.entries) /\ q[k] = t.entries[src(k)]
    BY <1>1, <1>2, <1>3
  <2>2. \A k, l \in 1 .. Len(q) : src(k) = src(l) => k = l
    OBVIOUS
  <2>3. pc[w] = "scan" => \A k, l \in 1 .. Len(t.entries) :
           t.entries[k].name = t.entries[l].name => k = l
    BY <1>1 DEF SpawnsOnce, Sources, NamesOnce, Live
  <2>4. Live(s, "scan") = 1 .. Len(q)
    BY <1>5 DEF Live
  <2> HIDE DEF src
  <2>5. ASSUME pc[w] = "scan", NEW k \in 1 .. Len(q), NEW l \in 1 .. Len(q),
               q[k].name = q[l].name
        PROVE  k = l
    BY <2>1, <2>2, <2>3, <2>5
  <2> QED
    BY <1>5, <2>4, <2>5 DEF NamesOnce
<1>7. ASSUME pc[w] = "scan", NEW it \in BagToSet(s.spawn)
      PROVE  \E k \in 1 .. s.pos - 1 :
                s.entries[k].typ = "dir" /\ it.path = Offspring(s, s.entries[k])
  <2>1. PICK k \in 1 .. t.pos - 1 : t.entries[k].typ = "dir" /\ it.path = Offspring(t, t.entries[k])
    BY <1>1, <1>5, <1>7 DEF SpawnsOnce, Sources
  <2>2. \A x : Offspring(s, x) = Offspring(t, x)
    BY <1>5 DEF Offspring
  <2>3. k # i
    BY <1>1, <2>1
  <2>4. CASE k = j
    <3>1. i \in 1 .. t.pos - 1 /\ q[i] = t.entries[k]
      BY <1>1, <1>2, <1>3, <2>4
    <3> QED
      BY <1>5, <2>1, <2>2, <3>1
  <2>5. CASE k # j
    <3>1. q[k] = t.entries[k]
      <4>1. TaskOK(t) /\ pc[w] = "scan" /\ Located(conf, t, pc[w])
        BY <1>1, <1>7 DEF TypeInv, TasksOK
      <4>2. k \in 1 .. Len(t.entries)
        BY <1>2, <4>1 DEF Located
      <4> QED
        BY <1>3, <2>3, <2>5, <4>2
    <3> QED
      BY <1>5, <2>1, <2>2, <3>1
  <2> QED
    BY <2>4, <2>5
<1>8. SpawnsOnce(conf, s, pc[w])
  BY <1>1, <1>5, <1>6, <1>7 DEF SpawnsOnce, Sources
<1>9. s.item = task[w].item /\ Busy(pc[w])
  BY <1>1, <1>5 DEF Busy
<1> HIDE DEF t
<1> QED
  BY <1>4, <1>8, <1>9, QuietOnce

LEMMA StepOnce ==
    ASSUME TypeInv, OrderInv, OnceInv, NEW w \in Worker, Step(w)
    PROVE  OnceInv'
BY ReadRecordOnce, ReadDoneOnce, ReadFailsOnce, ResolveOnce, PanicOnce, ResolveDoneOnce,
   SendsOnce, ScanOnce, ScanDoneOnce, SpawnOnce
   DEF Step

LEMMA NextOnce == ASSUME TypeInv, OrderInv, OnceInv, [Next]_vars PROVE OnceInv'
<1>1. CASE Walk
  BY <1>1, WalkOnce
<1>2. ASSUME NEW w \in Worker, NEW it \in BagToSet(pending), Take(w, it) PROVE OnceInv'
  BY <1>2, TakeOnce
<1>3. ASSUME NEW w \in Worker, Step(w) PROVE OnceInv'
  BY <1>3, StepOnce
<1>4. CASE Receive
  BY <1>4, ReceiveOnce
<1>5. CASE Close \/ RangeEnds \/ Wait \/ Break \/ Halted \/ UNCHANGED vars
  <2>1. UNCHANGED <<conf, pc, task, pending, chan, received>>
    BY <1>5 DEF Close, RangeEnds, Wait, Break, Halted, vars
  <2>2. consumer' = "start" => consumer = "start"
    BY <1>5 DEF Close, RangeEnds, Wait, Break, Halted, vars
  <2>3. Sent' = Sent /\ SentPaths' = SentPaths /\ OpenPaths' = OpenPaths /\ Arrived' = Arrived
    BY <2>1 DEF Sent, SentPaths, OpenPaths, Arrived
  <2> QED
    BY <2>1, <2>2, <2>3
       DEF OnceInv, TasksOnce, StreamOnce, VisitsOnce, Unsent, Childless, Unstarted
<1>6. ASSUME NEW w \in Worker, NEW i, NEW j, SortSwap(w, i, j) PROVE OnceInv'
  BY <1>6, SortSwapOnce
<1> QED
  BY <1>1, <1>2, <1>3, <1>4, <1>5, <1>6 DEF Next, Consume

\* The consumer never sees two batches for one path: the pool hands an item to
\* one worker, visit and visitSym make one child of each entry (walkman.go:276,
\* 381 and 393), and no two entries of a directory have one name, in-place filter
\* and concurrent sort included.
THEOREM PathsAreVisitedOnce == Spec => []OneBatchPerDir
<1>1. Init => TypeInv /\ OrderInv /\ OnceInv
  BY InitType, InitOrder, InitOnce
<1>2. TypeInv /\ OrderInv /\ OnceInv /\ [Next]_vars => (TypeInv /\ OrderInv /\ OnceInv)'
  BY NextType, NextOrder, NextOnce
<1>3. OnceInv => OneBatchPerDir
  BY DEF OnceInv, StreamOnce, Arrived, OneBatchPerDir
<1> QED
  BY <1>1, <1>2, <1>3, PTL DEF Spec

-----------------------------------------------------------------------------
(***************************************************************************)
(* When the consumer's loop ends normally it has had the batch of every    *)
(* directory that some batch lists above the depth limit (Complete), as    *)
(* long as the consumer leaves the Entries it was sent in their order.     *)
(***************************************************************************)

Leveled(it) == it.depth = Len(it.path) + 1

\* Every directory visitSym has kept is among the children it has collected.
Gathers(t) ==
    \A i \in 1 .. t.keep - 1 : t.entries[i].typ = "dir" =>
        \E it \in BagToSet(t.spawn) : it.path = Offspring(t, t.entries[i])

\* What a task standing at `at' must do with the directories of its listing.
Keeps(c, t, at) ==
    /\ at \notin {"idle", "dead"} => Leveled(t.item)
    /\ \A it \in BagToSet(t.spawn) : Leveled(it)
    /\ at = "sendErr" => t.entries = << >>
    /\ at = "resolve" /\ ~ AtMaxDepth(c, t.item.depth) => Gathers(t)
    /\ at = "send" /\ c.followLinks /\ ~ AtMaxDepth(c, t.item.depth) =>
          \A p \in ChildrenOf(BatchOf(t)) : \E it \in BagToSet(t.spawn) : it.path = p
    /\ at = "send" /\ ~ c.followLinks => t.pos = 1

\* The directories a task standing at `at' will send a batch for, or spawn.
Holds(t, at, p) ==
    \/ at \in {"read", "resolve", "send", "sendErr"} /\ p = t.item.path
    \/ at \in {"scan", "spawn"} /\ \E it \in BagToSet(t.spawn) : p = it.path
    \/ at = "scan" /\ \E i \in t.pos .. Len(t.entries) :
          t.entries[i].typ = "dir" /\ p = Offspring(t, t.entries[i])

Covered(p) ==
    \/ \E b \in Sent : p = b.dir
    \/ \E it \in BagToSet(pending) : p = it.path
    \/ \E w \in Worker : Holds(task[w], pc[w], p)

AboveLimit(a) == ~ AtMaxDepth(conf, Len(a.dir) + 1)

Idle == BagToSet(pending) = {} /\ \A w \in Worker : pc[w] = "idle"

\* The channel is closed on an idle pool, and the loop ends on a closed channel.
Books ==
    /\ consumer = "start" => Idle /\ Arrived = {} /\ chan = << >> /\ ~ closed
    /\ closed => Idle
    /\ consumer \in {"drained", "done"} => closed /\ chan = << >>

TasksKeep == \A w \in Worker : Keeps(conf, task[w], pc[w])

PoolLeveled == \A it \in BagToSet(pending) : Leveled(it)

AllCovered ==
    consumer \notin {"start", "dead"} =>
        /\ Covered(<< >>)
        /\ \A a \in Sent : AboveLimit(a) => \A p \in ChildrenOf(a) : Covered(p)

CoverInv == Books /\ TasksKeep /\ PoolLeveled /\ AllCovered

\* Both inductive invariants the proof stands on.
FullInv == TypeInv /\ OrderInv /\ CoverInv

-----------------------------------------------------------------------------
(* Frames                                                                  *)

LEMMA CoverImpliesComplete == CoverInv => Complete
<1> SUFFICES ASSUME CoverInv, consumer \in {"drained", "done"}
             PROVE  /\ \E b \in Arrived : b.dir = << >>
                    /\ \A a \in Arrived : AboveLimit(a) =>
                           \A p \in ChildrenOf(a) : \E b \in Arrived : b.dir = p
  BY DEF Complete, AboveLimit, Arrived
<1>1. Idle /\ chan = << >>
  BY DEF CoverInv, Books
<1>2. Sent = Arrived
  BY <1>1 DEF Sent, Range
<1>3. \A p : Covered(p) => \E b \in Arrived : b.dir = p
  BY <1>1, <1>2 DEF Covered, Holds, Idle
<1> QED
  BY <1>2, <1>3 DEF CoverInv, AllCovered

\* While some worker is busy the channel is open and the loop has not ended.
LEMMA BusyBooks ==
    ASSUME Books, NEW w \in Worker, pc[w] # "idle", UNCHANGED <<closed, consumer>>
    PROVE  Books'
BY DEF Books, Idle

LEMMA OneKeeper ==
    ASSUME TypeInv, TasksKeep, NEW w \in Worker, NEW u, NEW at, conf' = conf,
           task' = [task EXCEPT ![w] = u], pc' = [pc EXCEPT ![w] = at],
           Keeps(conf, u, at)
    PROVE  TasksKeep'
<1> SUFFICES ASSUME NEW v \in Worker
             PROVE  Keeps(conf, task'[v], pc'[v])
  BY DEF TasksKeep
<1>1. CASE v = w
  <2>1. task'[v] = u /\ pc'[v] = at
    BY <1>1 DEF TypeInv, TasksOK
  <2> QED
    BY <2>1
<1>2. CASE v # w
  <2>1. task'[v] = task[v] /\ pc'[v] = pc[v]
    BY <1>2 DEF TypeInv, TasksOK
  <2> QED
    BY <2>1 DEF TasksKeep
<1> QED
  BY <1>1, <1>2

\* A step of one worker uncovers nothing if it accounts for what that worker held.
LEMMA OneHolder ==
    ASSUME TypeInv, NEW w \in Worker, NEW u, NEW at,
           task' = [task EXCEPT ![w] = u], pc' = [pc EXCEPT ![w] = at],
           Sent \subseteq Sent', BagToSet(pending) \subseteq BagToSet(pending'),
           NEW p, Covered(p), Holds(task[w], pc[w], p) => Covered(p)'
    PROVE  Covered(p)'
<1>1. CASE \E b \in Sent : p = b.dir
  BY <1>1 DEF Covered
<1>2. CASE \E it \in BagToSet(pending) : p = it.path
  BY <1>2 DEF Covered
<1>3. ASSUME NEW v \in Worker, v # w, Holds(task[v], pc[v], p)
      PROVE  Covered(p)'
  <2>1. task'[v] = task[v] /\ pc'[v] = pc[v]
    BY <1>3 DEF TypeInv, TasksOK
  <2> QED
    BY <1>3, <2>1 DEF Covered
<1> QED
  BY <1>1, <1>2, <1>3 DEF Covered

\* What w holds after its step is covered.
LEMMA HolderCovers ==
    ASSUME TypeInv, NEW w \in Worker, NEW u, NEW at,
           task' = [task EXCEPT ![w] = u], pc' = [pc EXCEPT ![w] = at],
           NEW p, Holds(u, at, p)
    PROVE  Covered(p)'
<1>1. task'[w] = u /\ pc'[w] = at
  BY DEF TypeInv, TasksOK
<1> QED
  BY <1>1 DEF Covered

\* A step by which busy worker w sends and spawns nothing.
LEMMA QuietCover ==
    ASSUME TypeInv, CoverInv, NEW w \in Worker, pc[w] # "idle", NEW u, NEW at,
           task' = [task EXCEPT ![w] = u], pc' = [pc EXCEPT ![w] = at],
           UNCHANGED <<conf, chan, received, pending, closed, consumer>>,
           Keeps(conf, u, at), \A p : Holds(task[w], pc[w], p) => Holds(u, at, p)
    PROVE  CoverInv'
<1>1. Sent' = Sent
  BY DEF Sent, Arrived
<1>2. \A p : Covered(p) => Covered(p)'
  <2> SUFFICES ASSUME NEW p, Covered(p) PROVE Covered(p)'
    OBVIOUS
  <2>1. Holds(task[w], pc[w], p) => Covered(p)'
    BY HolderCovers
  <2> QED
    BY <1>1, <2>1, OneHolder
<1>3. AllCovered'
  BY <1>1, <1>2 DEF CoverInv, AllCovered, AboveLimit
<1>4. Books' /\ TasksKeep' /\ PoolLeveled'
  BY BusyBooks, OneKeeper DEF CoverInv, PoolLeveled
<1> QED
  BY <1>3, <1>4 DEF CoverInv

\* A step by which busy worker w sends batch b.
LEMMA SendCover ==
    ASSUME TypeInv, CoverInv, NEW w \in Worker, pc[w] # "idle", NEW u, NEW at, NEW b,
           task' = [task EXCEPT ![w] = u], pc' = [pc EXCEPT ![w] = at],
           UNCHANGED <<conf, pending, closed, consumer>>,
           Sent' = Sent \cup {b}, Keeps(conf, u, at),
           \A p : Holds(task[w], pc[w], p) => p = b.dir \/ Holds(u, at, p),
           AboveLimit(b) => \A p \in ChildrenOf(b) : Holds(u, at, p)
    PROVE  CoverInv'
<1>1. \A p : Covered(p) => Covered(p)'
  <2> SUFFICES ASSUME NEW p, Covered(p) PROVE Covered(p)'
    OBVIOUS
  <2>1. p = b.dir => Covered(p)'
    BY DEF Covered
  <2>2. Holds(task[w], pc[w], p) => Covered(p)'
    BY <2>1, HolderCovers
  <2> QED
    BY <2>2, OneHolder
<1>2. AboveLimit(b) => \A p \in ChildrenOf(b) : Covered(p)'
  BY HolderCovers
<1>3. AllCovered'
  BY <1>1, <1>2 DEF CoverInv, AllCovered, AboveLimit
<1>4. Books' /\ TasksKeep' /\ PoolLeveled'
  BY BusyBooks, OneKeeper DEF CoverInv, PoolLeveled
<1> QED
  BY <1>3, <1>4 DEF CoverInv

-----------------------------------------------------------------------------
(* Walk, Take, and the read                                                *)

LEMMA InitCover == Init => CoverInv
<1> SUFFICES ASSUME Init PROVE CoverInv
  OBVIOUS
<1>1. BagToSet(pending) = {} /\ Arrived = {}
  BY EmptyBagIsEmpty DEF Init, Arrived
<1>2. BagToSet(NoTask.spawn) = {}
  BY EmptyBagIsEmpty DEF NoTask, NewTask
<1>3. Books /\ PoolLeveled /\ AllCovered
  BY <1>1 DEF Init, Books, Idle, PoolLeveled, AllCovered
<1>4. TasksKeep
  BY <1>2 DEF Init, TasksKeep, Keeps
<1> QED
  BY <1>3, <1>4 DEF CoverInv

LEMMA WalkCover == ASSUME TypeInv, CoverInv, Walk PROVE CoverInv'
<1> DEFINE chain == IF conf.followLinks /\ conf.rootStat
                    THEN << conf.id[conf.root] >> ELSE << >>
           root  == [path |-> << >>, dir |-> conf.root, depth |-> 1, ancestor |-> chain]
<1>1. BagToSet(pending') = {root}
  BY BagsOfSets DEF Walk
<1>2. root.path = << >> /\ Leveled(root)
  BY DEF Leveled
<1> HIDE DEF root
<1>3. Sent' = {}
  BY DEF Walk, CoverInv, Books, Sent, Arrived, Range
<1>4. Covered(<< >>)'
  BY <1>1, <1>2 DEF Covered
<1>5. AllCovered'
  BY <1>3, <1>4 DEF AllCovered
<1>6. Books' /\ TasksKeep' /\ PoolLeveled'
  BY <1>1, <1>2 DEF Walk, CoverInv, Books, TasksKeep, PoolLeveled
<1> QED
  BY <1>5, <1>6 DEF CoverInv

LEMMA TakeCover ==
    ASSUME TypeInv, CoverInv, NEW w \in Worker, NEW it \in BagToSet(pending), Take(w, it)
    PROVE  CoverInv'
<1> DEFINE u == NewTask(it)
<1>1. /\ BagToSet(pending') \subseteq BagToSet(pending)
      /\ BagToSet(pending) \subseteq BagToSet(pending') \cup {it}
  BY BagTake DEF Take, TypeInv, PoolOK
<1>2. u.item = it /\ BagToSet(u.spawn) = {}
  BY EmptyBagIsEmpty DEF NewTask
<1>3. Sent' = Sent /\ task' = [task EXCEPT ![w] = u] /\ pc' = [pc EXCEPT ![w] = "read"]
  BY DEF Take, Sent, Arrived
<1> HIDE DEF u
<1>4. Covered(it.path)'
  BY <1>2, <1>3, HolderCovers DEF Holds
<1>5. \A p : Covered(p) => Covered(p)'
  <2> SUFFICES ASSUME NEW p, Covered(p) PROVE Covered(p)'
    OBVIOUS
  <2>1. CASE \E b \in Sent : p = b.dir
    BY <1>3, <2>1 DEF Covered
  <2>2. CASE \E x \in BagToSet(pending) : p = x.path
    BY <1>1, <1>4, <2>2 DEF Covered
  <2>3. ASSUME NEW v \in Worker, Holds(task[v], pc[v], p)
        PROVE  Covered(p)'
    <3>1. v # w
      BY <2>3 DEF Take, Holds
    <3>2. task'[v] = task[v] /\ pc'[v] = pc[v]
      BY <1>3, <3>1 DEF TypeInv, TasksOK
    <3> QED
      BY <2>3, <3>2 DEF Covered
  <2> QED
    BY <2>1, <2>2, <2>3 DEF Covered
<1>6. AllCovered'
  BY <1>3, <1>5 DEF Take, CoverInv, AllCovered, AboveLimit
<1>7. Books'
  BY <1>1 DEF Take, CoverInv, Books, Idle
<1>8. PoolLeveled' /\ Leveled(it)
  BY <1>1 DEF CoverInv, PoolLeveled
<1>9. Keeps(conf, u, "read")
  BY <1>2, <1>8 DEF Keeps
<1>10. TasksKeep'
  BY <1>3, <1>9, OneKeeper DEF Take, CoverInv
<1> QED
  BY <1>6, <1>7, <1>8, <1>10 DEF CoverInv

LEMMA ReadRecordCover ==
    ASSUME TypeInv, CoverInv, NEW w \in Worker, ReadRecord(w)
    PROVE  CoverInv'
<1> DEFINE t == task[w]
           r == conf.list[t.item.dir][t.pos]
<1>1. TaskOK(t) /\ Keeps(conf, t, "read") /\ pc[w] = "read"
  BY DEF ReadRecord, TypeInv, TasksOK, CoverInv, TasksKeep
<1>2. Advance(t).item = t.item /\ Advance(t).spawn = t.spawn
  BY <1>1 DEF Advance, TaskOK
<1>3. OnEntry(t, r).item = t.item /\ OnEntry(t, r).spawn = t.spawn
  BY <1>1 DEF OnEntry, TaskOK
<1>4. PICK u : u.item = t.item /\ u.spawn = t.spawn /\ task' = [task EXCEPT ![w] = u]
  BY <1>2, <1>3 DEF ReadRecord
<1>5. Keeps(conf, u, "read")
  BY <1>1, <1>4 DEF Keeps
<1>6. \A p : Holds(t, "read", p) => Holds(u, "read", p)
  BY <1>4 DEF Holds
<1>7. pc' = [pc EXCEPT ![w] = "read"]
  BY DEF ReadRecord, TypeInv, TasksOK
<1>8. UNCHANGED <<conf, chan, received, pending, closed, consumer>>
  BY DEF ReadRecord
<1>9. pc[w] # "idle" /\ \A p : Holds(task[w], pc[w], p) => Holds(u, "read", p)
  BY <1>1, <1>6
<1> HIDE DEF t
<1> QED
  BY <1>4, <1>5, <1>7, <1>8, <1>9, QuietCover

LEMMA ReadDoneCover ==
    ASSUME TypeInv, CoverInv, NEW w \in Worker, ReadDone(w)
    PROVE  CoverInv'
<1> DEFINE t == task[w]
           s == [t EXCEPT !.pos = 1]
<1>1. TaskOK(t) /\ t.keep = 1 /\ Keeps(conf, t, "read") /\ pc[w] = "read"
  BY DEF ReadDone, TypeInv, TasksOK, Located, CoverInv, TasksKeep
<1>2. s.item = t.item /\ s.spawn = t.spawn /\ s.keep = 1 /\ s.pos = 1
  BY <1>1, PosType
<1>3. task' = [task EXCEPT ![w] = s]
  BY DEF ReadDone
<1> HIDE DEF s
<1>4. Leveled(s.item) /\ \A it \in BagToSet(s.spawn) : Leveled(it)
  BY <1>1, <1>2 DEF Keeps
<1>5. Gathers(s)
  BY <1>2 DEF Gathers
<1>6. \A p : Holds(t, "read", p) => Holds(s, "resolve", p) /\ Holds(s, "send", p)
  BY <1>2 DEF Holds
<1>7. UNCHANGED <<conf, chan, received, pending, closed, consumer>>
  BY DEF ReadDone
<1>8. pc[w] # "idle" /\ \A p : Holds(task[w], pc[w], p) =>
                                  Holds(s, "resolve", p) /\ Holds(s, "send", p)
  BY <1>1, <1>6
<1> HIDE DEF t
<1>9. CASE conf.followLinks
  <2>1. Keeps(conf, s, "resolve")
    BY <1>4, <1>5 DEF Keeps
  <2>2. pc' = [pc EXCEPT ![w] = "resolve"]
    BY <1>9 DEF ReadDone
  <2> QED
    BY <1>3, <1>7, <1>8, <2>1, <2>2, QuietCover
<1>10. CASE ~ conf.followLinks
  <2>1. Keeps(conf, s, "send")
    BY <1>2, <1>4, <1>10 DEF Keeps
  <2>2. pc' = [pc EXCEPT ![w] = "send"]
    BY <1>10 DEF ReadDone
  <2> QED
    BY <1>3, <1>7, <1>8, <2>1, <2>2, QuietCover
<1> QED
  BY <1>9, <1>10

LEMMA ReadFailsCover ==
    ASSUME TypeInv, CoverInv, NEW w \in Worker, ReadFails(w)
    PROVE  CoverInv'
<1> DEFINE t == task[w]
           s == [NewTask(t.item) EXCEPT !.errs = {[at |-> t.item.path, err |-> "unreadable"]}]
<1>1. Keeps(conf, t, "read") /\ pc[w] = "read"
  BY DEF ReadFails, CoverInv, TasksKeep
<1>2. s.item = t.item /\ s.entries = << >> /\ BagToSet(s.spawn) = {}
  BY EmptyBagIsEmpty DEF NewTask
<1>3. task' = [task EXCEPT ![w] = s] /\ pc' = [pc EXCEPT ![w] = "sendErr"]
  BY DEF ReadFails
<1> HIDE DEF s
<1>4. Keeps(conf, s, "sendErr")
  BY <1>1, <1>2 DEF Keeps
<1>5. \A p : Holds(t, "read", p) => Holds(s, "sendErr", p)
  BY <1>2 DEF Holds
<1> QED
  BY <1>1, <1>3, <1>4, <1>5, QuietCover DEF ReadFails

-----------------------------------------------------------------------------
(* visitSym's pass                                                         *)

\* What one write of the in-place filter leaves of the entries kept so far.
LEMMA KeepWrites ==
    ASSUME NEW t, TaskOK(t), NEW e \in Dirent, t.keep <= t.pos, t.pos <= Len(t.entries)
    PROVE  LET k == Keep(t, e)
           IN  /\ TaskOK(k) /\ k.item = t.item /\ k.spawn = t.spawn
               /\ k.keep - 1 = t.keep
               /\ k.entries[t.keep] = e
               /\ \A i \in 1 .. t.keep - 1 : k.entries[i] = t.entries[i]
<1> DEFINE k == Keep(t, e)
<1>1. /\ TaskOK(k) /\ k.item = t.item /\ k.spawn = t.spawn /\ k.keep = t.keep + 1
      /\ k.entries = [t.entries EXCEPT ![t.keep] = e]
  BY KeepType
<1>2. t.keep \in Nat \ {0} /\ t.keep \in DOMAIN t.entries
  <2>1. /\ t.keep \in Nat \ {0} /\ t.pos \in Nat
        /\ Len(t.entries) \in Nat /\ DOMAIN t.entries = 1 .. Len(t.entries)
    BY LenProperties DEF TaskOK
  <2> QED
    BY <2>1
<1> HIDE DEF k
<1>3. k.keep - 1 = t.keep
  BY <1>1, <1>2
<1>4. k.entries[t.keep] = e /\ \A i \in 1 .. t.keep - 1 : k.entries[i] = t.entries[i]
  BY <1>1, <1>2
<1> QED
  BY <1>1, <1>3, <1>4 DEF k

LEMMA KeepGathers ==
    ASSUME NEW t, TaskOK(t), NEW e \in Dirent, t.keep <= t.pos, t.pos <= Len(t.entries),
           Gathers(t), e.typ # "dir"
    PROVE  Gathers(Keep(t, e))
<1> DEFINE k == Keep(t, e)
<1>1. /\ k.item = t.item /\ k.spawn = t.spawn /\ k.keep - 1 = t.keep
      /\ k.entries[t.keep] = e
      /\ \A i \in 1 .. t.keep - 1 : k.entries[i] = t.entries[i]
  BY KeepWrites
<1>2. t.keep \in Nat
  BY DEF TaskOK
<1> HIDE DEF k
<1>3. \A x : Offspring(k, x) = Offspring(t, x)
  BY <1>1 DEF Offspring
<1>4. ASSUME NEW i \in 1 .. t.keep, k.entries[i].typ = "dir"
      PROVE  \E it \in BagToSet(k.spawn) : it.path = Offspring(k, k.entries[i])
  <2>1. i \in 1 .. t.keep - 1
    BY <1>1, <1>2, <1>4
  <2> QED
    BY <1>1, <1>3, <1>4, <2>1 DEF Gathers
<1>5. Gathers(k)
  BY <1>1, <1>4 DEF Gathers
<1> QED
  BY <1>5 DEF k

LEMMA KeepAndGather ==
    ASSUME NEW t, TaskOK(t), NEW e \in Dirent, t.keep <= t.pos, t.pos <= Len(t.entries),
           Gathers(t), NEW it \in Item, it.path = Offspring(t, e)
    PROVE  Gathers(AddChild(Keep(t, e), it))
<1> DEFINE k == Keep(t, e)
           u == AddChild(k, it)
<1>1. /\ TaskOK(k) /\ k.item = t.item /\ k.spawn = t.spawn /\ k.keep - 1 = t.keep
      /\ k.entries[t.keep] = e
      /\ \A i \in 1 .. t.keep - 1 : k.entries[i] = t.entries[i]
  BY KeepWrites
<1>2. t.keep \in Nat
  BY DEF TaskOK
<1> HIDE DEF k
<1>3. /\ u.item = k.item /\ u.entries = k.entries /\ u.keep = k.keep
      /\ BagToSet(u.spawn) = BagToSet(k.spawn) \cup {it}
  BY <1>1, AddChildType
<1> HIDE DEF u
<1>4. \A x : Offspring(u, x) = Offspring(t, x)
  BY <1>1, <1>3 DEF Offspring
<1>5. ASSUME NEW i \in 1 .. t.keep, u.entries[i].typ = "dir"
      PROVE  \E x \in BagToSet(u.spawn) : x.path = Offspring(u, u.entries[i])
  <2>1. CASE i = t.keep
    BY <1>1, <1>3, <1>4, <2>1
  <2>2. CASE i \in 1 .. t.keep - 1
    BY <1>1, <1>3, <1>4, <1>5, <2>2 DEF Gathers
  <2> QED
    BY <1>2, <2>1, <2>2
<1>6. Gathers(u)
  BY <1>1, <1>3, <1>5 DEF Gathers
<1> QED
  BY <1>6 DEF u, k

\* Keeps of a task in visitSym's pass, without its item.
Gathered(c, t) == /\ \A it \in BagToSet(t.spawn) : Leveled(it)
                  /\ ~ AtMaxDepth(c, t.item.depth) => Gathers(t)

LEMMA KeepGathered ==
    ASSUME NEW c, NEW t, TaskOK(t), NEW e \in Dirent, t.keep <= t.pos, t.pos <= Len(t.entries),
           Gathered(c, t), e.typ # "dir" \/ AtMaxDepth(c, t.item.depth)
    PROVE  Gathered(c, Keep(t, e))
<1>1. Keep(t, e).item = t.item /\ Keep(t, e).spawn = t.spawn
  BY KeepType
<1>2. ~ AtMaxDepth(c, t.item.depth) => Gathers(Keep(t, e))
  BY KeepGathers DEF Gathered
<1> QED
  BY <1>1, <1>2 DEF Gathered

\* A child is one level below its parent.
LEMMA ChildLeveled ==
    ASSUME NEW c, NEW it \in Item, Leveled(it), NEW e \in Dirent, NEW chain
    PROVE  Leveled(Child(c, it, e, chain))
<1>1. Len(Append(it.path, e.name)) = Len(it.path) + 1
  BY AppendProperties DEF Item, Path, Dirent
<1>2. Len(it.path) \in Nat
  BY LenProperties DEF Item, Path
<1> QED
  BY <1>1, <1>2 DEF Leveled, Child

LEMMA CollectGathered ==
    ASSUME NEW c, NEW t, TaskOK(t), NEW e \in Dirent, t.keep <= t.pos, t.pos <= Len(t.entries),
           Gathered(c, t), ~ AtMaxDepth(c, t.item.depth), Leveled(t.item),
           NEW chain, Child(c, t.item, e, chain) \in Item
    PROVE  Gathered(c, AddChild(Keep(t, e), Child(c, t.item, e, chain)))
<1> DEFINE it == Child(c, t.item, e, chain)
           k  == Keep(t, e)
           u  == AddChild(k, it)
<1>1. it.path = Offspring(t, e)
  BY DEF Child, Offspring
<1>2. Leveled(it)
  BY ChildLeveled DEF TaskOK
<1>3. TaskOK(k) /\ k.item = t.item /\ k.spawn = t.spawn
  BY KeepType
<1> HIDE DEF it
<1>4. Gathers(u)
  BY <1>1, KeepAndGather DEF Gathered, it
<1> HIDE DEF k
<1>5. u.item = k.item /\ BagToSet(u.spawn) = BagToSet(k.spawn) \cup {it}
  BY <1>3, AddChildType DEF it
<1> HIDE DEF u
<1>6. Gathered(c, u)
  BY <1>2, <1>3, <1>4, <1>5 DEF Gathered
<1> QED
  BY <1>6 DEF u, k, it

\* A dropped entry, or an error about it, changes nothing that was gathered.
LEMMA SameGathered ==
    ASSUME NEW c, NEW t, NEW u, Gathered(c, t), u.item = t.item, u.spawn = t.spawn,
           u.keep = t.keep, u.entries = t.entries
    PROVE  Gathered(c, u)
BY DEF Gathered, Gathers, Offspring

LEMMA DropGathered ==
    ASSUME NEW c, NEW t, TaskOK(t), NEW e \in Dirent, NEW kind \in ErrKind, Gathered(c, t)
    PROVE  Gathered(c, Advance(StoreDirErr(t, e, kind)))
<1> DEFINE s == StoreDirErr(t, e, kind)
<1>1. /\ TaskOK(s) /\ s.item = t.item /\ s.spawn = t.spawn /\ s.entries = t.entries
      /\ s.keep = t.keep
  BY StoreDirErrType
<1> HIDE DEF s
<1>2. /\ Advance(s).item = s.item /\ Advance(s).spawn = s.spawn
      /\ Advance(s).entries = s.entries /\ Advance(s).keep = s.keep
  BY <1>1, AdvanceType
<1>3. Gathered(c, Advance(s))
  BY <1>1, <1>2, SameGathered
<1> QED
  BY <1>3 DEF s

LEMMA ReportAndKeepGathered ==
    ASSUME NEW c, NEW t, TaskOK(t), NEW e \in Dirent, NEW kind \in ErrKind, Gathered(c, t),
           t.keep <= t.pos, t.pos <= Len(t.entries), e.typ # "dir"
    PROVE  Gathered(c, Keep(StoreDirErr(t, e, kind), e))
<1> DEFINE s == StoreDirErr(t, e, kind)
<1>1. /\ TaskOK(s) /\ s.item = t.item /\ s.spawn = t.spawn /\ s.entries = t.entries
      /\ s.keep = t.keep /\ s.pos = t.pos
  BY StoreDirErrType
<1> HIDE DEF s
<1>2. Gathered(c, s)
  BY <1>1, SameGathered
<1>3. Gathered(c, Keep(s, e))
  BY <1>1, <1>2, KeepGathered
<1> QED
  BY <1>3 DEF s

LEMMA FollowLinkGathered ==
    ASSUME NEW c \in Configs, NEW t, TaskOK(t), t.item.dir \in Dir, Gathered(c, t),
           Leveled(t.item), NEW e \in Dirent, NEW target \in Dir,
           t.keep <= t.pos, t.pos <= Len(t.entries)
    PROVE  Gathered(c, FollowLink(c, t, e, target))
<1> DEFINE d     == [e EXCEPT !.typ = "dir"]
           chain == PushAncestor(c.id[target].ino, c.id[target].dev, t.item.ancestor)
<1>1. d \in Dirent /\ d.name = e.name
  BY DEF Dirent, DType
<1>2. chain \in Seq(Identity)
  <2>1. c.id[target] \in Identity
    BY ConfTypes
  <2>2. [ino |-> c.id[target].ino, dev |-> c.id[target].dev] \in Identity
    BY <2>1 DEF Identity
  <2> QED
    BY <2>2, AppendProperties DEF PushAncestor, TaskOK, Item
<1> HIDE DEF chain
<1>3. Child(c, t.item, e, chain) \in Item
  BY <1>2, ChildType DEF TaskOK
<1>4. Child(c, t.item, d, chain) = Child(c, t.item, e, chain)
  BY <1>1 DEF Child
<1> HIDE DEF d
<1>5. CASE AtMaxDepth(c, t.item.depth)
  <2>1. Gathered(c, Keep(t, d))
    BY <1>1, <1>5, KeepGathered
  <2> QED
    BY <1>5, <2>1 DEF FollowLink, d
<1>6. CASE ~ AtMaxDepth(c, t.item.depth)
  <2>1. Gathered(c, AddChild(Keep(t, d), Child(c, t.item, d, chain)))
    BY <1>1, <1>3, <1>4, <1>6, CollectGathered
  <2> QED
    BY <1>4, <1>6, <2>1 DEF FollowLink, d, chain
<1> QED
  BY <1>5, <1>6

LEMMA KeepEntryGathered ==
    ASSUME NEW c \in Configs, NEW t, TaskOK(t), t.item.dir \in Dir, Gathered(c, t),
           Leveled(t.item), NEW e \in Dirent, ~ DerefsNil(c, t, e),
           t.keep <= t.pos, t.pos <= Len(t.entries)
    PROVE  Gathered(c, KeepEntry(c, t, e))
<1> DEFINE up    == t.item.ancestor
           chain == PushAncestor(e.ino, up[Len(up)].dev, up)
<1>1. CASE e.typ # "dir" \/ AtMaxDepth(c, t.item.depth)
  BY <1>1, KeepGathered DEF KeepEntry
<1>2. CASE e.typ = "dir" /\ ~ AtMaxDepth(c, t.item.depth)
  <2>1. up \in Seq(Identity) /\ up # << >>
    BY <1>2 DEF DerefsNil, TaskOK, Item
  <2>2. up[Len(up)] \in Identity
    BY <2>1, EmptySeq, ElementOfSeq
  <2>3. [ino |-> e.ino, dev |-> up[Len(up)].dev] \in Identity
    BY <2>2 DEF Identity, Dirent
  <2>4. chain \in Seq(Identity)
    BY <2>1, <2>3, AppendProperties DEF PushAncestor
  <2> HIDE DEF chain
  <2>5. Child(c, t.item, e, chain) \in Item
    BY <2>4, ChildType DEF TaskOK
  <2>6. Gathered(c, AddChild(Keep(t, e), Child(c, t.item, e, chain)))
    BY <1>2, <2>5, CollectGathered
  <2> QED
    BY <1>2, <2>6 DEF KeepEntry, chain
<1> QED
  BY <1>1, <1>2

LEMMA ResolveCover ==
    ASSUME TypeInv, CoverInv, NEW w \in Worker, Resolve(w)
    PROVE  CoverInv'
<1> DEFINE t      == task[w]
           e      == t.entries[t.pos]
           target == conf.to[t.item.dir][e.name]
<1>1. /\ TaskOK(t) /\ t.item.dir \in Dir
      /\ t.keep <= t.pos /\ t.pos \in 1 .. Len(t.entries) /\ t.pos <= Len(t.entries)
  <2>1. /\ TaskOK(t) /\ t.item.dir \in Dir /\ t.keep <= t.pos
        /\ t.pos \in DOMAIN t.entries
    BY DEF Resolve, TypeInv, TasksOK, Located
  <2>2. Len(t.entries) \in Nat /\ DOMAIN t.entries = 1 .. Len(t.entries)
    BY <2>1, LenProperties DEF TaskOK
  <2> QED
    BY <2>1, <2>2
<1>2. e \in Dirent /\ conf \in Configs
  BY <1>1, ElementOfSeq DEF TaskOK, TypeInv
<1>3. Leveled(t.item) /\ Gathered(conf, t) /\ pc[w] = "resolve"
  BY DEF Resolve, CoverInv, TasksKeep, Keeps, Gathered
<1>4. PICK u : Resolved(t, u) /\ Gathered(conf, u) /\ task' = [task EXCEPT ![w] = u]
  <2>1. CASE task' = [task EXCEPT ![w] = Advance(StoreDirErr(t, e, "dangling"))]
    <3>1. /\ Resolved(t, Advance(StoreDirErr(t, e, "dangling")))
          /\ Gathered(conf, Advance(StoreDirErr(t, e, "dangling")))
      BY <1>1, <1>2, <1>3, DropType, DropGathered DEF ErrKind
    <3> QED
      BY <2>1, <3>1
  <2>2. CASE e.typ = "lnk" /\ task' = [task EXCEPT ![w] = Keep(StoreDirErr(t, e, "nosys"), e)]
    <3>1. /\ Resolved(t, Keep(StoreDirErr(t, e, "nosys"), e))
          /\ Gathered(conf, Keep(StoreDirErr(t, e, "nosys"), e))
      BY <1>1, <1>2, <1>3, <2>2, ReportAndKeepType, ReportAndKeepGathered DEF ErrKind
    <3> QED
      BY <2>2, <3>1
  <2>3. CASE task' = [task EXCEPT ![w] = KeepLinkToFile(t, e, target)]
    <3> DEFINE d == [e EXCEPT !.typ = DTypeFromInfo(target)]
    <3>1. d \in Dirent /\ d.typ # "dir"
      BY <1>2 DEF DTypeFromInfo, Dirent, DType
    <3> HIDE DEF d
    <3>2. Resolved(t, Keep(t, d)) /\ Gathered(conf, Keep(t, d))
      BY <1>1, <1>3, <3>1, KeepResolves, KeepGathered
    <3> QED
      BY <2>3, <3>2 DEF KeepLinkToFile, d
  <2>4. CASE task' = [task EXCEPT ![w] = Advance(StoreDirErr(t, e, "cycle"))]
    <3>1. /\ Resolved(t, Advance(StoreDirErr(t, e, "cycle")))
          /\ Gathered(conf, Advance(StoreDirErr(t, e, "cycle")))
      BY <1>1, <1>2, <1>3, DropType, DropGathered DEF ErrKind
    <3> QED
      BY <2>4, <3>1
  <2>5. CASE target \in Dir /\ task' = [task EXCEPT ![w] = FollowLink(conf, t, e, target)]
    <3>1. Resolved(t, FollowLink(conf, t, e, target))
      BY <1>1, <1>2, <2>5, FollowLinkType
    <3>2. Gathered(conf, FollowLink(conf, t, e, target))
      BY <1>1, <1>2, <1>3, <2>5, FollowLinkGathered
    <3> QED
      BY <2>5, <3>1, <3>2
  <2>6. CASE ~ DerefsNil(conf, t, e) /\ task' = [task EXCEPT ![w] = KeepEntry(conf, t, e)]
    <3>1. Resolved(t, KeepEntry(conf, t, e))
      BY <1>1, <1>2, <2>6, KeepEntryType
    <3>2. Gathered(conf, KeepEntry(conf, t, e))
      BY <1>1, <1>2, <1>3, <2>6, KeepEntryGathered
    <3> QED
      BY <2>6, <3>1, <3>2
  <2> QED
    BY <2>1, <2>2, <2>3, <2>4, <2>5, <2>6 DEF Resolve
<1>5. Keeps(conf, u, "resolve")
  BY <1>3, <1>4 DEF Keeps, Gathered, Resolved
<1>6. \A p : Holds(t, "resolve", p) => Holds(u, "resolve", p)
  BY <1>4 DEF Holds, Resolved
<1>7. pc' = [pc EXCEPT ![w] = "resolve"]
  BY DEF Resolve, TypeInv, TasksOK
<1> QED
  BY <1>3, <1>4, <1>5, <1>6, <1>7, QuietCover DEF Resolve

LEMMA PanicCover ==
    ASSUME TypeInv, CoverInv, NEW w \in Worker, PanicOnNil(w)
    PROVE  CoverInv'
<1>1. pc[w] = "resolve" /\ Worker # {}
  BY DEF PanicOnNil
<1>2. Books'
  BY <1>1 DEF PanicOnNil, CoverInv, Books, Idle
<1>3. TasksKeep'
  BY DEF PanicOnNil, CoverInv, TasksKeep, Keeps
<1> QED
  BY <1>2, <1>3 DEF PanicOnNil, CoverInv, PoolLeveled, AllCovered

LEMMA ResolveDoneCover ==
    ASSUME TypeInv, CoverInv, NEW w \in Worker, ResolveDone(w)
    PROVE  CoverInv'
<1> DEFINE t == task[w]
           q == SubSeq(t.entries, 1, t.keep - 1)
           s == [t EXCEPT !.entries = q]
<1>1. /\ TaskOK(t) /\ t.keep \in Nat \ {0} /\ t.keep <= Len(t.entries) + 1
      /\ t.entries \in Seq(Dirent) /\ Len(t.entries) \in Nat
  <2>1. TaskOK(t) /\ t.keep <= t.pos /\ t.pos = Len(t.entries) + 1
    BY DEF ResolveDone, TypeInv, TasksOK, Located
  <2> QED
    BY <2>1, LenProperties DEF TaskOK
<1>2. /\ q \in Seq(Dirent) /\ DOMAIN q = 1 .. t.keep - 1
      /\ \A i \in 1 .. t.keep - 1 : q[i] = t.entries[i]
  <2>1. \A i \in 1 .. t.keep - 1 : t.entries[i] \in Dirent
    BY <1>1, ElementOfSeq
  <2>2. /\ q \in Seq(Dirent) /\ Len(q) = t.keep - 1
        /\ \A i \in 1 .. t.keep - 1 : q[i] = t.entries[1 + i - 1]
    BY <1>1, <2>1, SubSeqProperties
  <2> QED
    BY <1>1, <2>2, LenProperties
<1>3. task' = [task EXCEPT ![w] = s] /\ pc' = [pc EXCEPT ![w] = "send"]
  BY DEF ResolveDone
<1> HIDE DEF q
<1>4. s.entries = q /\ s.item = t.item /\ s.spawn = t.spawn
  BY <1>1, <1>2, EntriesType
<1> HIDE DEF s
<1>5. Leveled(t.item) /\ Gathered(conf, t) /\ pc[w] = "resolve" /\ conf.followLinks
  BY DEF ResolveDone, TypeInv, TasksOK, Located, CoverInv, TasksKeep, Keeps, Gathered
<1>6. ASSUME ~ AtMaxDepth(conf, s.item.depth), NEW p \in ChildrenOf(BatchOf(s))
      PROVE  \E it \in BagToSet(s.spawn) : it.path = p
  <2>1. PICK x \in Range(q) : x.typ = "dir" /\ p = Append(t.item.path, x.name)
    BY <1>4 DEF ChildrenOf, BatchOf
  <2>2. PICK i \in 1 .. t.keep - 1 : x = t.entries[i]
    BY <1>2 DEF Range
  <2>3. Gathers(t)
    BY <1>4, <1>5, <1>6 DEF Gathered
  <2> QED
    BY <1>4, <2>1, <2>2, <2>3 DEF Gathers, Offspring
<1>7. Keeps(conf, s, "send")
  BY <1>4, <1>5, <1>6 DEF Keeps, Gathered
<1>8. \A p : Holds(t, "resolve", p) => Holds(s, "send", p)
  BY <1>4 DEF Holds
<1> QED
  BY <1>3, <1>5, <1>7, <1>8, QuietCover DEF ResolveDone

-----------------------------------------------------------------------------
(* Sending, spawning, and the consumer                                     *)

LEMMA NoTaskKeeps == Keeps(conf, NoTask, "idle")
BY EmptyBagIsEmpty DEF Keeps, NoTask, NewTask

\* The batch a task sends is one more batch sent.
LEMMA Sends ==
    ASSUME TypeInv, OrderInv, NEW w \in Worker, pc[w] # "dead", Deliver(BatchOf(task[w]))
    PROVE  Sent' = Sent \cup {BatchOf(task[w])}
<1>1. BatchOf(task[w]) \in Batch
  BY BatchType DEF TypeInv, TasksOK
<1>2. Listed(Sent, BatchOf(task[w]).dir)
  BY DEF OrderInv, TasksOrder, Announces, BatchOf
<1> QED
  BY <1>1, <1>2, DeliverOrder DEF OrderInv

LEMMA SendErrCover ==
    ASSUME TypeInv, OrderInv, CoverInv, NEW w \in Worker, SendErr(w)
    PROVE  CoverInv'
<1> DEFINE t == task[w]
           b == BatchOf(t)
<1>1. Keeps(conf, t, "sendErr") /\ pc[w] = "sendErr"
  BY DEF SendErr, CoverInv, TasksKeep
<1>2. b.dir = t.item.path /\ ChildrenOf(b) = {}
  BY <1>1 DEF Keeps, BatchOf, ChildrenOf, Range
<1>3. Sent' = Sent \cup {b}
  BY <1>1, Sends DEF SendErr
<1> HIDE DEF b
<1>4. \A p : Holds(t, "sendErr", p) => p = b.dir
  BY <1>2 DEF Holds
<1>5. task' = [task EXCEPT ![w] = NoTask] /\ pc' = [pc EXCEPT ![w] = "idle"]
  BY DEF SendErr, Return
<1> QED
  BY <1>1, <1>2, <1>3, <1>4, <1>5, NoTaskKeeps, SendCover DEF SendErr

\* Above the depth limit visit's loop, at its start, has every child before it.
LEMMA SendCovers ==
    ASSUME TypeInv, OrderInv, CoverInv, NEW w \in Worker, Send(w)
    PROVE  CoverInv'
<1> DEFINE t == task[w]
           b == BatchOf(t)
<1>1. TaskOK(t) /\ Keeps(conf, t, "send") /\ pc[w] = "send" /\ ~ conf.followLinks
  BY DEF Send, TypeInv, TasksOK, CoverInv, TasksKeep
<1>2. t.pos = 1 /\ Leveled(t.item)
  BY <1>1 DEF Keeps
<1>3. b.dir = t.item.path /\ b.entries = Range(t.entries)
  BY DEF BatchOf
<1>4. Sent' = Sent \cup {b}
  BY <1>1, Sends DEF Send
<1>5. AboveLimit(b) <=> ~ AtMaxDepth(conf, t.item.depth)
  BY <1>2, <1>3 DEF AboveLimit, Leveled
<1> HIDE DEF b
<1>6. \A p : Holds(t, "send", p) => p = b.dir
  BY <1>3 DEF Holds
<1>7. CASE AtMaxDepth(conf, t.item.depth)
  <2>1. task' = [task EXCEPT ![w] = NoTask] /\ pc' = [pc EXCEPT ![w] = "idle"]
    BY <1>7 DEF Send, Return
  <2> QED
    BY <1>1, <1>4, <1>5, <1>6, <1>7, <2>1, NoTaskKeeps, SendCover DEF Send
<1>8. CASE ~ AtMaxDepth(conf, t.item.depth)
  <2>1. task' = [task EXCEPT ![w] = t] /\ pc' = [pc EXCEPT ![w] = "scan"]
    BY <1>8 DEF Send, TypeInv, TasksOK
  <2>2. ASSUME NEW p \in ChildrenOf(b) PROVE Holds(t, "scan", p)
    <3>1. PICK x \in Range(t.entries) : x.typ = "dir" /\ p = Append(t.item.path, x.name)
      BY <1>3 DEF ChildrenOf
    <3>2. DOMAIN t.entries = 1 .. Len(t.entries)
      BY <1>1, LenProperties DEF TaskOK
    <3>3. PICK i \in 1 .. Len(t.entries) : x = t.entries[i]
      BY <3>1, <3>2 DEF Range
    <3> QED
      BY <1>2, <3>1, <3>3 DEF Holds, Offspring
  <2>3. Keeps(conf, t, "scan")
    BY <1>1 DEF Keeps
  <2> QED
    BY <1>1, <1>4, <1>6, <2>1, <2>2, <2>3, SendCover DEF Send
<1> QED
  BY <1>7, <1>8

LEMMA SendResolvedCover ==
    ASSUME TypeInv, OrderInv, CoverInv, NEW w \in Worker, SendResolved(w)
    PROVE  CoverInv'
<1> DEFINE t == task[w]
           b == BatchOf(t)
<1>1. Keeps(conf, t, "send") /\ pc[w] = "send" /\ conf.followLinks
  BY DEF SendResolved, CoverInv, TasksKeep
<1>2. b.dir = t.item.path
  BY DEF BatchOf
<1>3. Sent' = Sent \cup {b}
  BY <1>1, Sends DEF SendResolved
<1>4. AboveLimit(b) => \A p \in ChildrenOf(b) : Holds(t, "spawn", p)
  <2>1. AboveLimit(b) <=> ~ AtMaxDepth(conf, t.item.depth)
    BY <1>1, <1>2 DEF AboveLimit, Keeps, Leveled
  <2> QED
    BY <1>1, <2>1 DEF Keeps, Holds
<1> HIDE DEF b
<1>5. \A p : Holds(t, "send", p) => p = b.dir
  BY <1>2 DEF Holds
<1>6. task' = [task EXCEPT ![w] = t] /\ pc' = [pc EXCEPT ![w] = "spawn"]
  BY DEF SendResolved, TypeInv, TasksOK
<1>7. Keeps(conf, t, "spawn")
  BY <1>1 DEF Keeps
<1> QED
  BY <1>1, <1>3, <1>4, <1>5, <1>6, <1>7, SendCover DEF SendResolved

LEMMA ScanCover ==
    ASSUME TypeInv, CoverInv, NEW w \in Worker, Scan(w)
    PROVE  CoverInv'
<1> DEFINE t     == task[w]
           e     == t.entries[t.pos]
           child == Child(conf, t.item, e, << >>)
           a     == Advance(t)
<1>1. /\ TaskOK(t) /\ t.item.dir \in Dir /\ t.pos \in DOMAIN t.entries
      /\ Keeps(conf, t, "scan") /\ pc[w] = "scan"
  BY DEF Scan, TypeInv, TasksOK, Located, CoverInv, TasksKeep
<1>2. /\ e \in Dirent /\ Len(t.entries) \in Nat /\ t.pos \in Nat
  BY <1>1, LenProperties, ElementOfSeq DEF TaskOK
<1>3. child \in Item
  <2>1. conf \in Configs /\ t.item \in Item /\ << >> \in Seq(Identity)
    BY <1>1 DEF TypeInv, TaskOK
  <2> QED
    BY <1>1, <1>2, <2>1, ChildType
<1>4. child.path = Offspring(t, e)
  BY DEF Child, Offspring
<1>5. Leveled(child)
  <2>1. Leveled(t.item) /\ t.item \in Item
    BY <1>1 DEF Keeps, TaskOK
  <2> QED
    BY <1>2, <2>1, ChildLeveled
<1>6. /\ TaskOK(a) /\ a.item = t.item /\ a.entries = t.entries /\ a.spawn = t.spawn
      /\ a.pos = t.pos + 1
  BY <1>1, AdvanceType
<1>7. task' = [task EXCEPT ![w] = IF e.typ = "dir" THEN AddChild(a, child) ELSE a]
  BY DEF Scan
<1>8. pc' = [pc EXCEPT ![w] = "scan"]
  BY DEF Scan, TypeInv, TasksOK
<1> HIDE DEF child, a
<1>9. PICK u : /\ task' = [task EXCEPT ![w] = u]
               /\ u.item = t.item /\ u.entries = t.entries /\ u.pos = t.pos + 1
               /\ BagToSet(t.spawn) \subseteq BagToSet(u.spawn)
               /\ BagToSet(u.spawn) \subseteq BagToSet(t.spawn) \cup {child}
               /\ e.typ = "dir" => child \in BagToSet(u.spawn)
  <2>1. CASE e.typ = "dir"
    <3> DEFINE u == AddChild(a, child)
    <3>1. /\ u.item = t.item /\ u.entries = t.entries /\ u.pos = t.pos + 1
          /\ BagToSet(u.spawn) = BagToSet(t.spawn) \cup {child}
      BY <1>3, <1>6, AddChildType
    <3>2. task' = [task EXCEPT ![w] = u]
      BY <1>7, <2>1
    <3> HIDE DEF u
    <3> QED
      BY <3>1, <3>2
  <2>2. CASE e.typ # "dir"
    BY <1>6, <1>7, <2>2
  <2> QED
    BY <2>1, <2>2
<1>10. Keeps(conf, u, "scan")
  BY <1>1, <1>5, <1>9 DEF Keeps
<1>11. ASSUME NEW p, Holds(t, "scan", p) PROVE Holds(u, "scan", p)
  <2>1. CASE \E it \in BagToSet(t.spawn) : p = it.path
    BY <1>9, <2>1 DEF Holds
  <2>2. ASSUME NEW i \in t.pos .. Len(t.entries), t.entries[i].typ = "dir",
               p = Offspring(t, t.entries[i])
        PROVE  Holds(u, "scan", p)
    <3>1. CASE i = t.pos
      BY <1>4, <1>9, <2>2, <3>1 DEF Holds
    <3>2. CASE i # t.pos
      <4>1. i \in u.pos .. Len(u.entries)
        BY <1>2, <1>9, <3>2
      <4>2. Offspring(u, u.entries[i]) = p
        BY <1>9, <2>2 DEF Offspring
      <4> QED
        BY <1>9, <2>2, <4>1, <4>2 DEF Holds
    <3> QED
      BY <3>1, <3>2
  <2> QED
    BY <1>11, <2>1, <2>2 DEF Holds
<1> QED
  BY <1>1, <1>8, <1>9, <1>10, <1>11, QuietCover DEF Scan

LEMMA ScanDoneCover ==
    ASSUME TypeInv, CoverInv, NEW w \in Worker, ScanDone(w)
    PROVE  CoverInv'
<1> DEFINE t == task[w]
<1>1. /\ task' = [task EXCEPT ![w] = t] /\ pc' = [pc EXCEPT ![w] = "spawn"]
      /\ TaskOK(t) /\ Keeps(conf, t, "scan") /\ pc[w] = "scan"
      /\ t.pos = Len(t.entries) + 1
  BY DEF ScanDone, TypeInv, TasksOK, CoverInv, TasksKeep
<1>2. t.pos .. Len(t.entries) = {}
  BY <1>1, LenProperties DEF TaskOK
<1>3. \A p : Holds(t, "scan", p) => Holds(t, "spawn", p)
  BY <1>2 DEF Holds
<1>4. Keeps(conf, t, "spawn")
  BY <1>1 DEF Keeps
<1> QED
  BY <1>1, <1>3, <1>4, QuietCover DEF ScanDone

LEMMA SpawnCover ==
    ASSUME TypeInv, CoverInv, NEW w \in Worker, Spawn(w)
    PROVE  CoverInv'
<1> DEFINE t == task[w]
<1>1. /\ task' = [task EXCEPT ![w] = NoTask] /\ pc' = [pc EXCEPT ![w] = "idle"]
      /\ Keeps(conf, t, "spawn") /\ pc[w] = "spawn"
  BY DEF Spawn, Return, CoverInv, TasksKeep
<1>2. Sent' = Sent
  BY DEF Spawn, Sent, Arrived
<1>3. BagToSet(pending') = BagToSet(pending) \cup BagToSet(t.spawn)
  BY BagMerge DEF Spawn, TypeInv, PoolOK, TasksOK, TaskOK
<1>4. \A p : Holds(t, "spawn", p) => Covered(p)'
  BY <1>3 DEF Holds, Covered
<1>5. \A p : Covered(p) => Covered(p)'
  BY <1>1, <1>2, <1>3, <1>4, OneHolder
<1>6. AllCovered'
  BY <1>2, <1>5 DEF Spawn, CoverInv, AllCovered, AboveLimit
<1>7. PoolLeveled'
  BY <1>1, <1>3 DEF CoverInv, PoolLeveled, Keeps
<1>8. Books' /\ TasksKeep'
  BY <1>1, NoTaskKeeps, BusyBooks, OneKeeper DEF Spawn, CoverInv
<1> QED
  BY <1>6, <1>7, <1>8 DEF CoverInv

LEMMA StepCover ==
    ASSUME TypeInv, OrderInv, CoverInv, NEW w \in Worker, Step(w)
    PROVE  CoverInv'
BY ReadRecordCover, ReadDoneCover, ReadFailsCover, ResolveCover, PanicCover,
   ResolveDoneCover, SendErrCover, SendCovers, SendResolvedCover, ScanCover,
   ScanDoneCover, SpawnCover
   DEF Step

\* Steps of the pool and the consumer move no work.
LEMMA RestCover ==
    ASSUME TypeInv, OrderInv, CoverInv,
           Receive \/ Close \/ RangeEnds \/ Wait \/ Break \/ Halted \/ UNCHANGED vars
    PROVE  CoverInv'
<1>1. Sent' = Sent
  <2>1. CASE Receive
    BY <2>1, ReceiveOrder DEF OrderInv
  <2>2. CASE Close \/ RangeEnds \/ Wait \/ Break \/ Halted \/ UNCHANGED vars
    BY <2>2 DEF Close, RangeEnds, Wait, Break, Halted, vars, Sent, Arrived
  <2> QED
    BY <2>1, <2>2
<1>2. UNCHANGED <<conf, pc, task, pending>>
  BY DEF Receive, Close, RangeEnds, Wait, Break, Halted, vars
<1>3. \A p : Covered(p)' <=> Covered(p)
  BY <1>1, <1>2 DEF Covered
<1>4. consumer' \in {"start", "dead"} => consumer' = consumer
  BY DEF Receive, Close, RangeEnds, Wait, Break, Halted, vars
<1>5. consumer \in {"start", "dead"} => consumer' = consumer
  BY DEF Receive, Close, RangeEnds, Wait, Break, Halted, vars
<1>6. AllCovered'
  BY <1>1, <1>2, <1>3, <1>4, <1>5 DEF CoverInv, AllCovered, AboveLimit
<1>7. TasksKeep' /\ PoolLeveled'
  BY <1>2 DEF CoverInv, TasksKeep, PoolLeveled
<1>8. Books'
  <2>1. CASE Receive
    BY <1>2, <2>1 DEF Receive, CoverInv, Books, Idle
  <2>2. CASE Close
    BY <2>2, EmptyBagIsEmpty DEF Close, CoverInv, Books, Idle
  <2>3. CASE RangeEnds \/ Wait
    BY <2>3 DEF RangeEnds, Wait, CoverInv, Books, Idle
  <2>4. CASE Break \/ Halted \/ UNCHANGED vars
    BY <2>4 DEF Break, Halted, vars, CoverInv, Books, Idle, Arrived
  <2> QED
    BY <2>1, <2>2, <2>3, <2>4
<1> QED
  BY <1>6, <1>7, <1>8 DEF CoverInv

LEMMA NextCover ==
    ASSUME ~ SortsInPlace, TypeInv, OrderInv, CoverInv, [Next]_vars
    PROVE  CoverInv'
<1>1. CASE Walk
  BY <1>1, WalkCover
<1>2. ASSUME NEW w \in Worker, NEW it \in BagToSet(pending), Take(w, it) PROVE CoverInv'
  BY <1>2, TakeCover
<1>3. ASSUME NEW w \in Worker, Step(w) PROVE CoverInv'
  BY <1>3, StepCover
<1>4. CASE Consume \/ Close \/ Break \/ Halted \/ UNCHANGED vars
  BY <1>4, RestCover DEF Consume
<1>5. ASSUME NEW w \in Worker, NEW i, NEW j, SortSwap(w, i, j) PROVE FALSE
  BY <1>5 DEF SortSwap
<1> QED
  BY <1>1, <1>2, <1>3, <1>4, <1>5 DEF Next

\* A range loop that ended normally has seen a batch for the root and for every
\* directory listed above the depth limit: no item is lost between a listing,
\* the batch sent for it and the pool (walkman.go:265-283 and 414-421).  The
\* consumer must not reorder Entries in place; DocSort shows why.
THEOREM NothingIsLost ==
    ASSUME ~ SortsInPlace
    PROVE  Spec => []Complete
<1>1. Init => FullInv
  BY InitType, InitOrder, InitCover DEF FullInv
<1>2. FullInv /\ [Next]_vars => FullInv'
  BY NextType, NextOrder, NextCover DEF FullInv
<1>3. FullInv => Complete
  BY CoverImpliesComplete DEF FullInv
<1> QED
  BY <1>1, <1>2, <1>3, PTL DEF Spec
-----------------------------------------------------------------------------

(***************************************************************************)
(* The stream is a walk of TreeWalk (ImplementsTreeWalk): each batch is    *)
(* the one that a walk by one thread, which knows every directory on its   *)
(* path, would send.  Two things are asked of the world.  The consumer     *)
(* leaves the entries in their order, as for Complete; and if links are    *)
(* followed, the identities that the code puts together are the            *)
(* directories' own: no mount point below the root, and no root that is    *)
(* there for openat but was not for os.Stat.                               *)
(***************************************************************************)
Honest(c) ==
    c.followLinks =>
        /\ c.root \in Dir => c.rootStat
        /\ \A d \in Dir : \A r \in Range(c.list[d]) :
              r.typ = "dir" /\ c.to[d][r.name] \in Dir =>
                  c.id[c.to[d][r.name]] = [ino |-> r.ino, dev |-> c.id[d].dev]

\* The records of a directory that are not skipped.
Records(c, d) == {r \in Range(c.list[d]) : r.name \notin c.skipSet}

\* The entry that a kept record becomes.
Shown(c, p, r) ==
    [r EXCEPT !.typ = IF Promise!Outcome(c, p, r) = "nosys" THEN "lnk"
                      ELSE Promise!Outcome(c, p, r)]

\* The entries, and the errors, that the records in S of the directory at p give.
KeptOf(c, p, S) ==
    {Shown(c, p, r) : r \in {x \in S : Promise!Outcome(c, p, x) \notin {"dangling", "cycle"}}}

ErrsOf(c, p, S) ==
    {[at |-> Append(p, r.name), err |-> Promise!Outcome(c, p, r)] :
        r \in {x \in S : Promise!Outcome(c, p, x) \in {"dangling", "cycle", "nosys"}}}

\* What one more record e adds to the two.
KeptFor(c, p, e) == IF Promise!Outcome(c, p, e) \in {"dangling", "cycle"} THEN {}
                    ELSE {Shown(c, p, e)}

ErrsFor(c, p, e) ==
    IF Promise!Outcome(c, p, e) \in {"dangling", "cycle", "nosys"}
    THEN {[at |-> Append(p, e.name), err |-> Promise!Outcome(c, p, e)]} ELSE {}

\* While links are followed, a directory's chain has the identities of its
\* path, and its own is the last.
Chained(c, it) ==
    c.followLinks /\ it.dir \in Dir =>
        /\ Range(it.ancestor) = Promise!Ancestry(c, it.path)
        /\ it.ancestor # << >>
        /\ it.ancestor[Len(it.ancestor)] = c.id[it.dir]

\* The directory that lists p lies above the depth limit.
Shallow(c, p) == p # << >> => ~ AtMaxDepth(c, Len(p))

Sound(c, it) == Chained(c, it) /\ Shallow(c, it.path)

\* visitSym resolves links only if it has seen one.
SawLinks(t, from) ==
    \A i \in from .. Len(t.entries) : t.entries[i].typ = "lnk" => t.sawLink

\* What has been read: every record so far that is not skipped.
Listing(c, t) ==
    /\ t.errs = {}
    /\ SawLinks(t, 1)
    /\ t.item.dir \in Dir =>
          Range(t.entries) = {c.list[t.item.dir][k] :
              k \in {j \in 1 .. t.pos - 1 : c.list[t.item.dir][j].name \notin c.skipSet}}

\* Half way through visitSym's pass: done are the records it has been through.
Resolving(c, t) ==
    /\ t.item.dir \notin c.faulty
    /\ SawLinks(t, t.pos)
    /\ \E done \in SUBSET Records(c, t.item.dir) :
          /\ done \cup {t.entries[i] : i \in t.pos .. Len(t.entries)} = Records(c, t.item.dir)
          /\ {t.entries[i] : i \in 1 .. t.keep - 1} = KeptOf(c, t.item.path, done)
          /\ t.errs = ErrsOf(c, t.item.path, done)

Shows(c, t, at) ==
    /\ at \notin {"idle", "dead"} => Sound(c, t.item)
    /\ \A it \in BagToSet(t.spawn) : Sound(c, it)
    /\ at = "read" => Listing(c, t)
    /\ at = "resolve" => Resolving(c, t)
    /\ at \in {"send", "sendErr"} => BatchOf(t) = Promise!BatchAt(c, t.item.path)
    /\ at = "scan" => ~ AtMaxDepth(c, t.item.depth)

TasksShow == \A w \in Worker : Shows(conf, task[w], pc[w])

PoolSound == \A it \in BagToSet(pending) : Sound(conf, it)

StreamShows == \A b \in Sent : b = Promise!BatchAt(conf, b.dir) /\ Shallow(conf, b.dir)

ContentInv == Honest(conf) /\ TasksShow /\ PoolSound /\ StreamShows

-----------------------------------------------------------------------------
(* Contents of a batch                                                     *)

LEMMA UnreadableBatch ==
    ASSUME NEW c, NEW p, ~ Promise!Readable(c, Promise!DirAt(c, p))
    PROVE  Promise!BatchAt(c, p) =
              [dir |-> p, entries |-> {}, errs |-> {[at |-> p, err |-> "unreadable"]}]
  BY DEF Promise!BatchAt

LEMMA ReadableBatch ==
    ASSUME NEW c, NEW p, Promise!Readable(c, Promise!DirAt(c, p))
    PROVE  Promise!BatchAt(c, p) =
              [dir |-> p,
               entries |-> KeptOf(c, p, Records(c, Promise!DirAt(c, p))),
               errs |-> ErrsOf(c, p, Records(c, Promise!DirAt(c, p)))]
<1> DEFINE R == {r \in Range(c.list[Promise!DirAt(c, p)]) : r.name \notin c.skipSet}
           Out(r) == Promise!Outcome(c, p, r)
<1>1. KeptOf(c, p, R) = {[r EXCEPT !.typ = IF Out(r) = "nosys" THEN "lnk" ELSE Out(r)] :
                             r \in {x \in R : Out(x) \notin {"dangling", "cycle"}}}
  BY DEF KeptOf, Shown
<1>2. ErrsOf(c, p, R) = {[at |-> Append(p, r.name), err |-> Out(r)] :
                             r \in {x \in R : Out(x) \in {"dangling", "cycle", "nosys"}}}
  BY DEF ErrsOf
<1>3. Records(c, Promise!DirAt(c, p)) = R
  BY DEF Records
<1> QED
  BY <1>1, <1>2, <1>3 DEF Promise!BatchAt, Range, Promise!Range

LEMMA NothingDone == \A c, p : KeptOf(c, p, {}) = {} /\ ErrsOf(c, p, {}) = {}
  BY DEF KeptOf, ErrsOf

LEMMA OneMoreDone ==
    ASSUME NEW c, NEW p, NEW S, NEW e
    PROVE  /\ KeptOf(c, p, S \cup {e}) = KeptOf(c, p, S) \cup KeptFor(c, p, e)
           /\ ErrsOf(c, p, S \cup {e}) = ErrsOf(c, p, S) \cup ErrsFor(c, p, e)
<1>1. KeptOf(c, p, S \cup {e}) = KeptOf(c, p, S) \cup KeptFor(c, p, e)
  BY DEF KeptOf, KeptFor
<1>2. ErrsOf(c, p, S \cup {e}) = ErrsOf(c, p, S) \cup ErrsFor(c, p, e)
  BY DEF ErrsOf, ErrsFor
<1> QED
  BY <1>1, <1>2

\* A record whose type stands.
LEMMA PlainOutcome ==
    ASSUME NEW c, NEW p, NEW e \in Dirent, ~ (c.followLinks /\ e.typ = "lnk")
    PROVE  /\ Promise!Outcome(c, p, e) = e.typ
           /\ e.typ \notin {"dangling", "cycle", "nosys"}
           /\ Shown(c, p, e) = e
<1>1. Promise!Outcome(c, p, e) = e.typ
  BY DEF Promise!Outcome
<1>2. e.typ \in {"dir", "reg", "lnk", "unknown"}
  BY DEF Dirent, DType
<1>3. [e EXCEPT !.typ = e.typ] = e
  BY DEF Dirent
<1> QED
  BY <1>1, <1>2, <1>3 DEF Shown

\* Without links to follow a directory shows its records, and no errors.
LEMMA PlainContents ==
    ASSUME NEW c, ~ c.followLinks, NEW p, NEW S \in SUBSET Dirent
    PROVE  KeptOf(c, p, S) = S /\ ErrsOf(c, p, S) = {}
<1>1. \A e \in S : /\ Promise!Outcome(c, p, e) = e.typ
                   /\ e.typ \notin {"dangling", "cycle", "nosys"}
                   /\ Shown(c, p, e) = e
  BY PlainOutcome
<1>2. KeptOf(c, p, S) = S
  BY <1>1 DEF KeptOf
<1>3. ErrsOf(c, p, S) = {}
  BY <1>1 DEF ErrsOf
<1> QED
  BY <1>2, <1>3

\* What becomes of a link that is followed.
LEMMA LinkOutcome ==
    ASSUME NEW c \in Configs, c.followLinks, NEW p, NEW e \in Dirent, e.typ = "lnk",
           Promise!DirAt(c, p) \in Dir, NEW target,
           target = c.to[Promise!DirAt(c, p)][e.name]
    PROVE  /\ target = "missing" => Promise!Outcome(c, p, e) = "dangling"
           /\ target = "nosys" => Promise!Outcome(c, p, e) = "nosys"
           /\ target = "reg" => Promise!Outcome(c, p, e) = "reg"
           /\ target = "other" => Promise!Outcome(c, p, e) = "unknown"
           /\ target \in Dir => Promise!Outcome(c, p, e) =
                 IF c.id[target] \in Promise!Ancestry(c, p) THEN "cycle" ELSE "dir"
<1>1. target \in Dir => target \notin {"missing", "reg", "other", "nosys"}
  BY TreeAssumption DEF NonDir
<1> QED
  BY <1>1 DEF Promise!Outcome

-----------------------------------------------------------------------------
(* Chains and depths of children                                           *)

LEMMA RootAncestry == ASSUME NEW c PROVE Promise!Ancestry(c, << >>) = {c.id[c.root]}
<1>1. 0 .. Len(<< >>) = {0}
  BY EmptySeq
<1>2. Promise!DirAt(c, SubSeq(<< >>, 1, 0)) = c.root
  <2>1. SubSeq(<< >>, 1, 0) = << >>
    BY SubSeqEmpty
  <2> QED
    BY <2>1, DirAtRoot
<1> QED
  BY <1>1, <1>2 DEF Promise!Ancestry

LEMMA ChildAncestry ==
    ASSUME NEW c, NEW p \in Path, NEW n \in Name
    PROVE  Promise!Ancestry(c, Append(p, n)) =
              Promise!Ancestry(c, p) \cup {c.id[Promise!DirAt(c, Append(p, n))]}
<1> DEFINE q == Append(p, n)
           At(k) == c.id[Promise!DirAt(c, SubSeq(q, 1, k))]
<1>1. /\ Len(q) = Len(p) + 1 /\ Len(p) \in Nat
      /\ \A k \in 0 .. Len(p) : SubSeq(q, 1, k) = SubSeq(p, 1, k)
      /\ SubSeq(q, 1, Len(p) + 1) = q
  BY ChildPrefixes
<1>2. Promise!Ancestry(c, q) = {At(k) : k \in 0 .. Len(p) + 1}
  BY <1>1 DEF Promise!Ancestry
<1>3. Promise!Ancestry(c, p) = {At(k) : k \in 0 .. Len(p)}
  BY <1>1 DEF Promise!Ancestry
<1>4. At(Len(p) + 1) = c.id[Promise!DirAt(c, q)]
  BY <1>1
<1> HIDE DEF q, At
<1>5. {At(k) : k \in 0 .. Len(p) + 1} = {At(k) : k \in 0 .. Len(p)} \cup {At(Len(p) + 1)}
  BY <1>1
<1> QED
  BY <1>2, <1>3, <1>4, <1>5 DEF q

\* A child is sound if its chain is its parent's and its own identity.
LEMMA ChildSound ==
    ASSUME NEW c \in Configs, NEW it \in Item, it.dir \in Dir,
           it.dir = Promise!DirAt(c, it.path), Sound(c, it), Leveled(it),
           ~ AtMaxDepth(c, it.depth), NEW e \in Dirent, NEW chain,
           c.followLinks /\ c.to[it.dir][e.name] \in Dir =>
              /\ Range(chain) = Range(it.ancestor) \cup {c.id[c.to[it.dir][e.name]]}
              /\ chain # << >> /\ chain[Len(chain)] = c.id[c.to[it.dir][e.name]]
    PROVE  Sound(c, Child(c, it, e, chain))
<1> DEFINE child == Child(c, it, e, chain)
           q     == Append(it.path, e.name)
           d     == c.to[it.dir][e.name]
<1>1. it.path \in Path /\ e.name \in Name
  BY DEF Item, Dirent
<1>2. child.path = q /\ child.dir = d /\ child.ancestor = chain
  BY DEF Child
<1>3. Promise!DirAt(c, q) = d
  BY <1>1, DirAtChild DEF Entered
<1>4. Promise!Ancestry(c, q) = Promise!Ancestry(c, it.path) \cup {c.id[d]}
  <2>1. Promise!Ancestry(c, q) =
           Promise!Ancestry(c, it.path) \cup {c.id[Promise!DirAt(c, q)]}
    BY <1>1, ChildAncestry
  <2> HIDE DEF q, d
  <2> QED
    BY <1>3, <2>1
<1>5. Len(q) = it.depth
  BY <1>1, ChildPrefixes DEF Leveled
<1> HIDE DEF child, q, d
<1>6. Chained(c, child)
  <2> SUFFICES ASSUME c.followLinks, d \in Dir
               PROVE  /\ Range(chain) = Promise!Ancestry(c, q)
                      /\ chain # << >> /\ chain[Len(chain)] = c.id[d]
    BY <1>2 DEF Chained
  <2>1. Range(it.ancestor) = Promise!Ancestry(c, it.path)
    BY DEF Sound, Chained
  <2> QED
    BY <1>4, <2>1 DEF d
<1>7. Shallow(c, child.path)
  BY <1>2, <1>5 DEF Shallow
<1> QED
  BY <1>6, <1>7 DEF Sound, child

-----------------------------------------------------------------------------
(* visitSym's pass                                                         *)

\* What a branch of the pass leaves of the rest of the listing, which it has
\* yet to read, and of the flag that tells that there are links in it.
SameRest(t, u) ==
    /\ u.item = t.item /\ u.pos = t.pos + 1 /\ Len(u.entries) = Len(t.entries)
    /\ \A i \in t.pos + 1 .. Len(t.entries) : u.entries[i] = t.entries[i]
    /\ u.sawLink = t.sawLink

Firsts(t) == {t.entries[i] : i \in 1 .. t.keep - 1}

\* What a branch of the pass must make of the record e.
PassShows(c, t, u, e) ==
    /\ SameRest(t, u)
    /\ Firsts(u) = Firsts(t) \cup KeptFor(c, t.item.path, e)
    /\ u.errs = t.errs \cup ErrsFor(c, t.item.path, e)
    /\ \A it \in BagToSet(u.spawn) : it \in BagToSet(t.spawn) \/ Sound(c, it)

LEMMA PassResolves ==
    ASSUME NEW c, NEW t, TaskOK(t), t.pos \in 1 .. Len(t.entries), Resolving(c, t),
           NEW u, PassShows(c, t, u, t.entries[t.pos])
    PROVE  Resolving(c, u)
<1> DEFINE e == t.entries[t.pos]
           p == t.item.path
           R == Records(c, t.item.dir)
           Rest(x) == {x.entries[i] : i \in x.pos .. Len(x.entries)}
<1>1. t.pos \in Nat /\ Len(t.entries) \in Nat /\ t.pos <= Len(t.entries)
  BY LenProperties DEF TaskOK
<1>2. PICK done \in SUBSET R :
         done \cup Rest(t) = R /\ Firsts(t) = KeptOf(c, p, done) /\ t.errs = ErrsOf(c, p, done)
  BY DEF Resolving, Firsts
<1>3. Rest(t) = {e} \cup Rest(u)
  <2>1. u.pos = t.pos + 1 /\ Len(u.entries) = Len(t.entries)
    BY DEF PassShows, SameRest
  <2>2. Rest(u) = {t.entries[i] : i \in t.pos + 1 .. Len(t.entries)}
    BY <2>1 DEF PassShows, SameRest
  <2>3. t.pos .. Len(t.entries) = {t.pos} \cup (t.pos + 1 .. Len(t.entries))
    BY <1>1
  <2> QED
    BY <2>2, <2>3
<1>4. u.item = t.item /\ SawLinks(u, u.pos)
  BY <1>1 DEF PassShows, SameRest, SawLinks, Resolving
<1> HIDE DEF Rest, e, R, p
<1>5. done \cup {e} \in SUBSET R /\ (done \cup {e}) \cup Rest(u) = R
  BY <1>2, <1>3
<1>6. Firsts(u) = KeptOf(c, p, done \cup {e}) /\ u.errs = ErrsOf(c, p, done \cup {e})
  <2>1. \A at, r : /\ KeptOf(c, at, done \cup {r}) = KeptOf(c, at, done) \cup KeptFor(c, at, r)
                   /\ ErrsOf(c, at, done \cup {r}) = ErrsOf(c, at, done) \cup ErrsFor(c, at, r)
    BY OneMoreDone
  <2> QED
    BY <1>2, <2>1 DEF PassShows, e, p
<1> QED
  BY <1>4, <1>5, <1>6 DEF Resolving, Firsts, Rest, R, p

\* The write at keep adds e to the entries kept, before any that is still read.
LEMMA KeepShows ==
    ASSUME NEW t, TaskOK(t), NEW e \in Dirent, t.keep <= t.pos, t.pos \in 1 .. Len(t.entries)
    PROVE  LET u == Keep(t, e)
           IN  /\ SameRest(t, u) /\ Firsts(u) = Firsts(t) \cup {e}
               /\ u.errs = t.errs /\ u.spawn = t.spawn
<1> DEFINE u == Keep(t, e)
<1>1. /\ t.pos \in Nat /\ t.keep \in Nat \ {0} /\ Len(t.entries) \in Nat
      /\ t.pos <= Len(t.entries)
  BY LenProperties DEF TaskOK
<1>2. /\ u.item = t.item /\ u.spawn = t.spawn /\ u.pos = t.pos + 1 /\ u.keep = t.keep + 1
      /\ Len(u.entries) = Len(t.entries)
  BY <1>1, KeepType
<1>3. u.entries[t.keep] = e /\ \A i \in 1 .. t.keep - 1 : u.entries[i] = t.entries[i]
  BY <1>1, KeepWrites
<1>4. u.errs = t.errs /\ u.sawLink = t.sawLink
  BY DEF Keep, TaskOK
<1>5. \A i \in t.pos + 1 .. Len(t.entries) : u.entries[i] = t.entries[i]
  BY <1>1, KeepLinks DEF LinksPass
<1> HIDE DEF u
<1>6. SameRest(t, u)
  BY <1>2, <1>4, <1>5 DEF SameRest
<1>7. 1 .. u.keep - 1 = (1 .. t.keep - 1) \cup {t.keep}
  BY <1>1, <1>2
<1>8. Firsts(u) = Firsts(t) \cup {e}
  <2>1. Firsts(u) = {u.entries[i] : i \in 1 .. t.keep - 1} \cup {u.entries[t.keep]}
    BY <1>7 DEF Firsts
  <2>2. {u.entries[i] : i \in 1 .. t.keep - 1} = Firsts(t)
    BY <1>3 DEF Firsts
  <2> QED
    BY <1>3, <2>1, <2>2
<1> QED
  BY <1>2, <1>4, <1>6, <1>8 DEF u

\* Where the pass stands at the record e of a directory whose chain is sound.
Passing(c, t, e) ==
    /\ c \in Configs /\ c.followLinks /\ Honest(c)
    /\ TaskOK(t) /\ t.keep <= t.pos /\ t.pos \in 1 .. Len(t.entries)
    /\ t.item.dir \in Dir /\ t.item.dir = Promise!DirAt(c, t.item.path)
    /\ Sound(c, t.item) /\ Leveled(t.item)
    /\ e \in Dirent /\ e \in Range(c.list[t.item.dir])

\* hasCycle searches the identities of all the directories on the path.
LEMMA ChainTells ==
    ASSUME NEW c, NEW t, NEW e, Passing(c, t, e), NEW id
    PROVE  HasCycle(t.item.ancestor, id) <=> id \in Promise!Ancestry(c, t.item.path)
<1>1. Range(t.item.ancestor) = Promise!Ancestry(c, t.item.path)
  BY DEF Passing, Sound, Chained
<1> QED
  BY <1>1 DEF HasCycle, Range

LEMMA StoredErr ==
    ASSUME NEW t, TaskOK(t), NEW e \in Dirent, NEW kind \in ErrKind
    PROVE  LET s == StoreDirErr(t, e, kind)
           IN  /\ TaskOK(s) /\ s.item = t.item /\ s.spawn = t.spawn /\ s.entries = t.entries
               /\ s.pos = t.pos /\ s.keep = t.keep /\ s.sawLink = t.sawLink
               /\ s.errs = t.errs \cup {[at |-> Append(t.item.path, e.name), err |-> kind]}
<1>1. LET s == StoreDirErr(t, e, kind)
      IN  /\ TaskOK(s) /\ s.item = t.item /\ s.spawn = t.spawn /\ s.entries = t.entries
          /\ s.pos = t.pos /\ s.keep = t.keep
  BY StoreDirErrType
<1>2. LET s == StoreDirErr(t, e, kind)
      IN  /\ s.sawLink = t.sawLink
          /\ s.errs = t.errs \cup {[at |-> Append(t.item.path, e.name), err |-> kind]}
  BY DEF StoreDirErr, TaskOK
<1> QED
  BY <1>1, <1>2

LEMMA DropShows ==
    ASSUME NEW c, NEW t, NEW e, Passing(c, t, e), NEW kind \in {"dangling", "cycle"},
           Promise!Outcome(c, t.item.path, e) = kind
    PROVE  PassShows(c, t, Advance(StoreDirErr(t, e, kind)), e)
<1> DEFINE s == StoreDirErr(t, e, kind)
           u == Advance(s)
<1>1. TaskOK(t) /\ e \in Dirent /\ kind \in ErrKind
  BY DEF Passing, ErrKind
<1>2. /\ TaskOK(s) /\ s.item = t.item /\ s.spawn = t.spawn /\ s.entries = t.entries
      /\ s.pos = t.pos /\ s.keep = t.keep /\ s.sawLink = t.sawLink
      /\ s.errs = t.errs \cup {[at |-> Append(t.item.path, e.name), err |-> kind]}
  BY <1>1, StoredErr
<1> HIDE DEF s
<1>3. /\ u.item = t.item /\ u.spawn = t.spawn /\ u.entries = t.entries
      /\ u.pos = t.pos + 1 /\ u.keep = t.keep /\ u.sawLink = t.sawLink /\ u.errs = s.errs
  BY <1>2, AdvanceType
<1> HIDE DEF u
<1>4. KeptFor(c, t.item.path, e) = {}
  BY DEF KeptFor
<1>5. u.errs = t.errs \cup ErrsFor(c, t.item.path, e)
  BY <1>2, <1>3 DEF ErrsFor
<1>6. SameRest(t, u) /\ Firsts(u) = Firsts(t)
  BY <1>3 DEF SameRest, Firsts
<1> QED
  BY <1>3, <1>4, <1>5, <1>6 DEF PassShows, u, s

LEMMA ReportShows ==
    ASSUME NEW c, NEW t, NEW e, Passing(c, t, e), e.typ = "lnk",
           Promise!Outcome(c, t.item.path, e) = "nosys"
    PROVE  PassShows(c, t, Keep(StoreDirErr(t, e, "nosys"), e), e)
<1> DEFINE s == StoreDirErr(t, e, "nosys")
           u == Keep(s, e)
<1>1. TaskOK(t) /\ e \in Dirent /\ "nosys" \in ErrKind
      /\ t.keep <= t.pos /\ t.pos \in 1 .. Len(t.entries)
  BY DEF Passing, ErrKind
<1>2. /\ TaskOK(s) /\ s.item = t.item /\ s.spawn = t.spawn /\ s.entries = t.entries
      /\ s.pos = t.pos /\ s.keep = t.keep /\ s.sawLink = t.sawLink
      /\ s.errs = t.errs \cup {[at |-> Append(t.item.path, e.name), err |-> "nosys"]}
  BY <1>1, StoredErr
<1> HIDE DEF s
<1>3. /\ SameRest(s, u) /\ Firsts(u) = Firsts(s) \cup {e}
      /\ u.errs = s.errs /\ u.spawn = s.spawn
  BY <1>1, <1>2, KeepShows
<1> HIDE DEF u
<1>4. KeptFor(c, t.item.path, e) = {e}
  BY <1>1 DEF KeptFor, Shown, Dirent
<1>5. u.errs = t.errs \cup ErrsFor(c, t.item.path, e)
  BY <1>2, <1>3 DEF ErrsFor
<1>6. SameRest(t, u) /\ Firsts(s) = Firsts(t)
  BY <1>2, <1>3 DEF SameRest, Firsts
<1> QED
  BY <1>2, <1>3, <1>4, <1>5, <1>6 DEF PassShows, u, s

\* An entry that is kept as d, with or without a child.
LEMMA KeptShows ==
    ASSUME NEW c, NEW t, NEW e, Passing(c, t, e), NEW d \in Dirent,
           KeptFor(c, t.item.path, e) = {d}, ErrsFor(c, t.item.path, e) = {}
    PROVE  /\ PassShows(c, t, Keep(t, d), e)
           /\ \A it \in Item : Sound(c, it) => PassShows(c, t, AddChild(Keep(t, d), it), e)
<1> DEFINE u == Keep(t, d)
<1>1. TaskOK(t) /\ t.keep <= t.pos /\ t.pos \in 1 .. Len(t.entries)
      /\ t.pos <= Len(t.entries)
  BY LenProperties DEF Passing, TaskOK
<1>2. /\ SameRest(t, u) /\ Firsts(u) = Firsts(t) \cup {d}
      /\ u.errs = t.errs /\ u.spawn = t.spawn
  BY <1>1, KeepShows
<1>3. TaskOK(u)
  BY <1>1, KeepType
<1> HIDE DEF u
<1>4. PassShows(c, t, u, e)
  BY <1>2 DEF PassShows
<1>5. ASSUME NEW it \in Item, Sound(c, it) PROVE PassShows(c, t, AddChild(u, it), e)
  <2> DEFINE v == AddChild(u, it)
  <2>1. /\ v.item = u.item /\ v.entries = u.entries /\ v.errs = u.errs
        /\ v.pos = u.pos /\ v.keep = u.keep
        /\ BagToSet(v.spawn) = BagToSet(u.spawn) \cup {it}
    BY <1>3, AddChildType
  <2>2. v.sawLink = u.sawLink
    BY <1>3 DEF AddChild, TaskOK
  <2> HIDE DEF v
  <2>3. SameRest(t, v) /\ Firsts(v) = Firsts(u)
    BY <1>2, <2>1, <2>2 DEF SameRest, Firsts
  <2> QED
    BY <1>4, <1>5, <2>1, <2>3 DEF PassShows, v
<1> QED
  BY <1>4, <1>5 DEF u

LEMMA ChainEnds ==
    ASSUME NEW chain \in Seq(Identity), NEW ino \in Nat, NEW dev \in Nat
    PROVE  LET longer == PushAncestor(ino, dev, chain)
           IN  longer # << >> /\ longer[Len(longer)] = [ino |-> ino, dev |-> dev]
<1> DEFINE id == [ino |-> ino, dev |-> dev]
           longer == Append(chain, id)
<1>1. id \in Identity
  BY DEF Identity
<1> HIDE DEF id
<1>2. Len(longer) = Len(chain) + 1 /\ Len(chain) \in Nat /\ longer[Len(chain) + 1] = id
  BY <1>1, AppendProperties, LenProperties
<1>3. longer # << >>
  BY <1>2, EmptySeq
<1> QED
  BY <1>2, <1>3 DEF PushAncestor, id

LEMMA FileShows ==
    ASSUME NEW c, NEW t, NEW e, Passing(c, t, e), e.typ = "lnk",
           NEW target \in {"reg", "other"}, target = c.to[t.item.dir][e.name]
    PROVE  PassShows(c, t, KeepLinkToFile(t, e, target), e)
<1> DEFINE d == [e EXCEPT !.typ = DTypeFromInfo(target)]
<1>1. /\ c \in Configs /\ c.followLinks /\ e \in Dirent
      /\ target = c.to[Promise!DirAt(c, t.item.path)][e.name]
      /\ Promise!DirAt(c, t.item.path) \in Dir
  BY DEF Passing
<1>2. Promise!Outcome(c, t.item.path, e) = DTypeFromInfo(target)
  BY <1>1, LinkOutcome DEF DTypeFromInfo
<1>3. DTypeFromInfo(target) \in {"reg", "unknown"}
  BY DEF DTypeFromInfo
<1>4. d \in Dirent
  BY <1>1, <1>3 DEF Dirent, DType
<1>5. KeptFor(c, t.item.path, e) = {d} /\ ErrsFor(c, t.item.path, e) = {}
  BY <1>2, <1>3 DEF KeptFor, ErrsFor, Shown
<1> HIDE DEF d
<1>6. PassShows(c, t, Keep(t, d), e)
  BY <1>4, <1>5, KeptShows
<1> QED
  BY <1>6 DEF KeepLinkToFile, d

\* The child of a link carries the identity that os.Stat gave of the target.
LEMMA FollowShows ==
    ASSUME NEW c, NEW t, NEW e, Passing(c, t, e), e.typ = "lnk",
           NEW target \in Dir, target = c.to[t.item.dir][e.name],
           ~ HasCycle(t.item.ancestor, c.id[target])
    PROVE  PassShows(c, t, FollowLink(c, t, e, target), e)
<1> DEFINE d     == [e EXCEPT !.typ = "dir"]
           id    == c.id[target]
           chain == PushAncestor(id.ino, id.dev, t.item.ancestor)
           child == Child(c, t.item, e, chain)
<1>1. /\ c \in Configs /\ c.followLinks /\ e \in Dirent /\ TaskOK(t)
      /\ target = c.to[Promise!DirAt(c, t.item.path)][e.name]
      /\ Promise!DirAt(c, t.item.path) \in Dir
      /\ t.item.dir \in Dir /\ t.item.dir = Promise!DirAt(c, t.item.path)
      /\ Sound(c, t.item) /\ Leveled(t.item)
  BY DEF Passing
<1>2. Promise!Outcome(c, t.item.path, e) = "dir"
  BY <1>1, LinkOutcome, ChainTells
<1>3. d \in Dirent
  BY <1>1 DEF Dirent, DType
<1>4. KeptFor(c, t.item.path, e) = {d} /\ ErrsFor(c, t.item.path, e) = {}
  BY <1>2 DEF KeptFor, ErrsFor, Shown
<1>5. t.item \in Item /\ t.item.ancestor \in Seq(Identity)
  BY <1>1 DEF TaskOK, Item
<1>6. id.ino \in Nat /\ id.dev \in Nat /\ [ino |-> id.ino, dev |-> id.dev] = id
  BY <1>1, ConfTypes DEF Identity
<1> HIDE DEF id
<1>7. chain \in Seq(Identity) /\ Range(chain) = Range(t.item.ancestor) \cup {id}
  <2> DEFINE up == t.item.ancestor
  <2> HIDE DEF up
  <2>1. up \in Seq(Identity)
    BY <1>5 DEF up
  <2>2. /\ PushAncestor(id.ino, id.dev, up) \in Seq(Identity)
        /\ Range(PushAncestor(id.ino, id.dev, up)) =
              Range(up) \cup {[ino |-> id.ino, dev |-> id.dev]}
    BY <1>6, <2>1, ChainGrows
  <2> QED
    BY <1>6, <2>2 DEF up
<1>8. chain # << >> /\ chain[Len(chain)] = id
  <2> DEFINE up == t.item.ancestor
             longer == PushAncestor(id.ino, id.dev, up)
  <2>1. up \in Seq(Identity)
    BY <1>5
  <2> HIDE DEF up
  <2>2. longer # << >> /\ longer[Len(longer)] = [ino |-> id.ino, dev |-> id.dev]
    BY <1>6, <2>1, ChainEnds
  <2> QED
    BY <1>6, <2>2 DEF up
<1> HIDE DEF chain
<1>9. child \in Item
  BY <1>1, <1>5, <1>7, ChildType
<1>10. CASE AtMaxDepth(c, t.item.depth)
  BY <1>3, <1>4, <1>10, KeptShows DEF FollowLink
<1>11. CASE ~ AtMaxDepth(c, t.item.depth)
  <2>1. Sound(c, child)
    BY <1>1, <1>5, <1>7, <1>8, <1>11, ChildSound DEF id
  <2> HIDE DEF child, d
  <2>2. PassShows(c, t, AddChild(Keep(t, d), child), e)
    BY <1>3, <1>4, <1>9, <2>1, KeptShows
  <2>3. FollowLink(c, t, e, target) = AddChild(Keep(t, d), child)
    BY <1>11 DEF FollowLink, child, chain, d, id
  <2> QED
    BY <2>2, <2>3
<1> QED
  BY <1>10, <1>11

\* The child of a directory carries the inode of its record and the device of
\* its parent, which are its identity as no file system is mounted there.
LEMMA EntryShows ==
    ASSUME NEW c, NEW t, NEW e, Passing(c, t, e), e.typ # "lnk", ~ DerefsNil(c, t, e)
    PROVE  PassShows(c, t, KeepEntry(c, t, e), e)
<1> DEFINE up    == t.item.ancestor
           chain == PushAncestor(e.ino, up[Len(up)].dev, up)
           child == Child(c, t.item, e, chain)
<1>1. /\ c \in Configs /\ c.followLinks /\ e \in Dirent /\ TaskOK(t) /\ Honest(c)
      /\ t.item.dir \in Dir /\ t.item.dir = Promise!DirAt(c, t.item.path)
      /\ Sound(c, t.item) /\ Leveled(t.item) /\ e \in Range(c.list[t.item.dir])
  BY DEF Passing
<1>2. /\ Promise!Outcome(c, t.item.path, e) = e.typ
      /\ e.typ \notin {"dangling", "cycle", "nosys"}
      /\ Shown(c, t.item.path, e) = e
  BY <1>1, PlainOutcome
<1>3. KeptFor(c, t.item.path, e) = {e} /\ ErrsFor(c, t.item.path, e) = {}
  BY <1>2 DEF KeptFor, ErrsFor
<1>4. CASE e.typ # "dir" \/ AtMaxDepth(c, t.item.depth)
  BY <1>1, <1>3, <1>4, KeptShows DEF KeepEntry
<1>5. CASE e.typ = "dir" /\ ~ AtMaxDepth(c, t.item.depth)
  <2>1. t.item \in Item /\ up \in Seq(Identity) /\ up # << >> /\ e.ino \in Nat
    BY <1>1, <1>5 DEF DerefsNil, TaskOK, Item, Dirent
  <2>2. up[Len(up)] = c.id[t.item.dir] /\ c.id[t.item.dir].dev \in Nat
    BY <1>1, ConfTypes DEF Sound, Chained, Identity
  <2> DEFINE id == [ino |-> e.ino, dev |-> up[Len(up)].dev]
  <2>3. chain \in Seq(Identity) /\ Range(chain) = Range(up) \cup {id}
    BY <2>1, <2>2, ChainGrows
  <2>4. chain # << >> /\ chain[Len(chain)] = id
    BY <2>1, <2>2, ChainEnds
  <2>5. c.to[t.item.dir][e.name] \in Dir => c.id[c.to[t.item.dir][e.name]] = id
    <3> SUFFICES ASSUME c.to[t.item.dir][e.name] \in Dir
                 PROVE  c.id[c.to[t.item.dir][e.name]] = id
      OBVIOUS
    <3>1. c.id[c.to[t.item.dir][e.name]] = [ino |-> e.ino, dev |-> c.id[t.item.dir].dev]
      BY <1>1, <1>5 DEF Honest
    <3> QED
      BY <2>2, <3>1
  <2> HIDE DEF chain, id
  <2>6. child \in Item
    BY <1>1, <2>1, <2>3, ChildType
  <2>7. Sound(c, child)
    BY <1>1, <1>5, <2>1, <2>3, <2>4, <2>5, ChildSound
  <2> HIDE DEF child
  <2>8. PassShows(c, t, AddChild(Keep(t, e), child), e)
    BY <1>1, <1>3, <2>6, <2>7, KeptShows
  <2>9. KeepEntry(c, t, e) = AddChild(Keep(t, e), child)
    BY <1>5 DEF KeepEntry, child, chain
  <2> QED
    BY <2>8, <2>9
<1> QED
  BY <1>4, <1>5

-----------------------------------------------------------------------------
(* Each action keeps the contents                                          *)

\* What the contents rest on: items are where their paths lead (LinkInv), and
\* their depths are the lengths of their paths (CoverInv).
WalkInv == TypeInv /\ OrderInv /\ LinkInv /\ OnceInv /\ CoverInv

LEMMA OneShows ==
    ASSUME TypeInv, TasksShow, NEW w \in Worker, NEW u, NEW at, conf' = conf,
           task' = [task EXCEPT ![w] = u], pc' = [pc EXCEPT ![w] = at],
           Shows(conf, u, at)
    PROVE  TasksShow'
<1> SUFFICES ASSUME NEW v \in Worker PROVE Shows(conf, task'[v], pc'[v])
  BY DEF TasksShow
<1>1. CASE v = w
  BY <1>1 DEF TypeInv, TasksOK
<1>2. CASE v # w
  BY <1>2 DEF TypeInv, TasksOK, TasksShow
<1> QED
  BY <1>1, <1>2

\* A step by which worker w sends and spawns nothing and goes on to u at `at'.
LEMMA QuietShows ==
    ASSUME TypeInv, ContentInv, NEW w \in Worker, NEW u, NEW at,
           task' = [task EXCEPT ![w] = u], pc' = [pc EXCEPT ![w] = at],
           UNCHANGED <<conf, chan, received, pending>>, Shows(conf, u, at)
    PROVE  ContentInv'
<1>1. TasksShow'
  BY OneShows DEF ContentInv
<1>2. PoolSound' /\ StreamShows'
  BY DEF ContentInv, PoolSound, StreamShows, Sent, Arrived
<1> QED
  BY <1>1, <1>2 DEF ContentInv

\* Worker w sends the batch of its item, and goes on to u at `at'.
LEMMA SendShows ==
    ASSUME WalkInv, ContentInv, NEW w \in Worker, pc[w] \in {"send", "sendErr"},
           NEW u, NEW at, task' = [task EXCEPT ![w] = u], pc' = [pc EXCEPT ![w] = at],
           UNCHANGED <<conf, pending>>, Deliver(BatchOf(task[w])), Shows(conf, u, at)
    PROVE  ContentInv'
<1> DEFINE b == BatchOf(task[w])
<1>1. b = Promise!BatchAt(conf, b.dir) /\ Shallow(conf, b.dir)
  BY DEF BatchOf, ContentInv, TasksShow, Shows, Sound
<1>2. Sent' = Sent \cup {b}
  BY Sends DEF WalkInv
<1> HIDE DEF b
<1>3. StreamShows'
  BY <1>1, <1>2 DEF StreamShows, ContentInv
<1>4. TasksShow'
  BY OneShows DEF ContentInv, WalkInv
<1>5. PoolSound'
  BY DEF ContentInv, PoolSound
<1> QED
  BY <1>3, <1>4, <1>5 DEF ContentInv

LEMMA NoTaskShows == \A c : Shows(c, NoTask, "idle")
  BY EmptyBagIsEmpty DEF Shows, NoTask, NewTask

LEMMA InitShows == ASSUME Init, Honest(conf) PROVE ContentInv
  BY BagsOfSets, EmptyBagIsEmpty, NoTaskShows
     DEF Init, ContentInv, TasksShow, PoolSound, StreamShows, Sent, Arrived, Range

LEMMA WalkShows == ASSUME TypeInv, ContentInv, Walk PROVE ContentInv'
<1>1. TasksShow' /\ StreamShows' /\ Honest(conf')
  BY DEF Walk, ContentInv, TasksShow, StreamShows, Sent, Arrived
<1>2. ASSUME NEW it \in BagToSet(pending') PROVE Sound(conf, it)
  <2>1. /\ it.path = << >> /\ it.dir = conf.root
        /\ conf.followLinks /\ conf.rootStat => it.ancestor = << conf.id[conf.root] >>
    BY BagsOfSets DEF Walk
  <2>2. ASSUME conf.followLinks, it.dir \in Dir
        PROVE  /\ Range(it.ancestor) = {conf.id[conf.root]}
               /\ it.ancestor # << >> /\ it.ancestor[Len(it.ancestor)] = conf.id[conf.root]
    <3>1. it.ancestor = << conf.id[conf.root] >>
      BY <2>1, <2>2 DEF Honest, ContentInv
    <3>2. \A x : Range(<< x >>) = {x} /\ << x >> # << >> /\ << x >>[Len(<< x >>)] = x
      BY DEF Range
    <3> QED
      BY <3>1, <3>2
  <2> QED
    BY <2>1, <2>2, RootAncestry DEF Sound, Chained, Shallow
<1>3. PoolSound'
  BY <1>2 DEF PoolSound, Walk
<1> QED
  BY <1>1, <1>3 DEF ContentInv

LEMMA TakeShows ==
    ASSUME TypeInv, ContentInv, NEW w \in Worker, NEW it \in BagToSet(pending), Take(w, it)
    PROVE  ContentInv'
<1>1. BagToSet(pending') \subseteq BagToSet(pending)
  BY BagTake DEF Take, TypeInv, PoolOK
<1>2. PoolSound' /\ StreamShows' /\ Honest(conf')
  BY <1>1 DEF ContentInv, PoolSound, StreamShows, Sent, Arrived, Take
<1> DEFINE t == NewTask(it)
<1>3. /\ t.item = it /\ BagToSet(t.spawn) = {} /\ t.entries = << >>
      /\ t.pos = 1 /\ t.errs = {} /\ Len(t.entries) = 0
  BY EmptyBagIsEmpty, EmptySeq DEF NewTask
<1> HIDE DEF t
<1>4. Listing(conf, t)
  BY <1>3 DEF Listing, SawLinks, Range
<1>5. Shows(conf, t, "read")
  BY <1>3, <1>4 DEF Shows, ContentInv, PoolSound
<1>6. TasksShow'
  BY <1>5, OneShows DEF Take, ContentInv, t
<1> QED
  BY <1>2, <1>6 DEF ContentInv

LEMMA ReadRecordShows ==
    ASSUME TypeInv, ContentInv, NEW w \in Worker, ReadRecord(w)
    PROVE  ContentInv'
<1> DEFINE t == task[w]
           list == conf.list[t.item.dir]
           r == list[t.pos]
           q == Append(t.entries, r)
           Until(n) == {list[k] : k \in {j \in 1 .. n : list[j].name \notin conf.skipSet}}
<1>1. /\ TaskOK(t) /\ t.item.dir \in Dir /\ t.pos \in DOMAIN list
      /\ Shows(conf, t, "read") /\ t.pos \in Nat \ {0}
  BY DEF ReadRecord, TypeInv, TasksOK, ContentInv, TasksShow, TaskOK
<1>2. list \in Seq(Dirent) /\ t.entries \in Seq(Dirent) /\ Len(t.entries) \in Nat
  BY <1>1, ConfTypes, LenProperties DEF TypeInv, TaskOK
<1>3. r \in Dirent
  BY <1>1, <1>2, LenProperties, ElementOfSeq
<1>4. /\ t.errs = {} /\ SawLinks(t, 1) /\ Range(t.entries) = Until(t.pos - 1)
  BY <1>1 DEF Shows, Listing
<1>5. Until(t.pos) = Until(t.pos - 1) \cup (IF r.name \in conf.skipSet THEN {} ELSE {r})
  <2>1. 1 .. t.pos = (1 .. t.pos - 1) \cup {t.pos}
    BY <1>1
  <2> HIDE DEF list
  <2> QED
    BY <2>1
<1> HIDE DEF Until, list, r
<1>6. r.name \in conf.skipSet => Shows(conf, Advance(t), "read")
  <2> DEFINE u == Advance(t)
  <2>1. /\ u.item = t.item /\ u.entries = t.entries /\ u.pos = t.pos + 1
        /\ u.errs = t.errs /\ u.sawLink = t.sawLink /\ u.spawn = t.spawn
        /\ u.pos - 1 = t.pos
    BY <1>1, AdvanceType
  <2> HIDE DEF u
  <2>2. SawLinks(u, 1)
    BY <1>4, <2>1 DEF SawLinks
  <2>3. r.name \in conf.skipSet => Range(u.entries) = Until(u.pos - 1)
    BY <1>4, <1>5, <2>1
  <2>4. r.name \in conf.skipSet => Listing(conf, u)
    BY <1>4, <2>1, <2>2, <2>3 DEF Listing, Until, list
  <2> QED
    BY <1>1, <2>1, <2>4 DEF Shows, u
<1>7. r.name \notin conf.skipSet => Shows(conf, OnEntry(t, r), "read")
  <2> DEFINE u == OnEntry(t, r)
  <2>1. /\ u.item = t.item /\ u.entries = q /\ u.spawn = t.spawn /\ u.pos - 1 = t.pos
        /\ u.errs = t.errs /\ u.sawLink = (t.sawLink \/ r.typ = "lnk")
    BY <1>1 DEF OnEntry, TaskOK
  <2>2. /\ Len(q) = Len(t.entries) + 1 /\ q[Len(t.entries) + 1] = r
        /\ \A i \in 1 .. Len(t.entries) : q[i] = t.entries[i]
        /\ DOMAIN q = 1 .. Len(t.entries) + 1 /\ DOMAIN t.entries = 1 .. Len(t.entries)
    BY <1>2, <1>3, AppendProperties, LenProperties
  <2>3. 1 .. Len(t.entries) + 1 = (1 .. Len(t.entries)) \cup {Len(t.entries) + 1}
    BY <1>2
  <2> HIDE DEF u, q
  <2>4. Range(q) = Range(t.entries) \cup {r}
    BY <2>2, <2>3 DEF Range
  <2>5. SawLinks(u, 1)
    <3> SUFFICES ASSUME NEW i \in 1 .. Len(q), q[i].typ = "lnk" PROVE u.sawLink
      BY <2>1 DEF SawLinks
    <3>1. CASE i \in 1 .. Len(t.entries)
      BY <1>4, <2>1, <2>2, <3>1 DEF SawLinks
    <3>2. CASE i = Len(t.entries) + 1
      BY <2>1, <2>2, <3>2
    <3> QED
      BY <2>2, <2>3, <3>1, <3>2
  <2>6. r.name \notin conf.skipSet => Listing(conf, u)
    <3>1. r.name \notin conf.skipSet => Range(u.entries) = Until(u.pos - 1)
      BY <1>4, <1>5, <2>1, <2>4
    <3> QED
      BY <1>4, <2>1, <2>5, <3>1 DEF Listing, Until, list
  <2> QED
    BY <1>1, <2>1, <2>6 DEF Shows, u
<1>8. PICK u : Shows(conf, u, "read") /\ task' = [task EXCEPT ![w] = u]
  BY <1>6, <1>7 DEF ReadRecord, r, list
<1>9. pc' = [pc EXCEPT ![w] = "read"] /\ UNCHANGED <<conf, chan, received, pending>>
  BY DEF ReadRecord, TypeInv, TasksOK
<1> QED
  BY <1>8, <1>9, QuietShows

LEMMA ReadDoneShows ==
    ASSUME TypeInv, LinkInv, ContentInv, NEW w \in Worker, ReadDone(w)
    PROVE  ContentInv'
<1> DEFINE t    == task[w]
           s    == [t EXCEPT !.pos = 1]
           p    == t.item.path
           list == conf.list[t.item.dir]
           R    == Records(conf, t.item.dir)
<1>1. /\ TaskOK(t) /\ Shows(conf, t, "read") /\ t.keep = 1 /\ conf \in Configs
      /\ t.item.dir \in Dir \ conf.faulty /\ t.item.dir = Promise!DirAt(conf, p)
      /\ t.pos = Len(list) + 1
  BY DEF ReadDone, TypeInv, TasksOK, Located, ContentInv, TasksShow, LinkInv, TasksLinked,
         Links, Linked
<1>2. /\ s.item = t.item /\ s.entries = t.entries /\ s.pos = 1 /\ s.keep = 1
      /\ s.spawn = t.spawn /\ s.errs = t.errs /\ s.sawLink = t.sawLink
  <2>1. s.sawLink = t.sawLink
    BY <1>1 DEF TaskOK
  <2> QED
    BY <1>1, <2>1, PosType
<1>3. task' = [task EXCEPT ![w] = s] /\ UNCHANGED <<conf, chan, received, pending>>
  BY DEF ReadDone
<1> HIDE DEF s
<1>4. Range(t.entries) = R
  <2>1. list \in Seq(Dirent) /\ Len(list) \in Nat /\ DOMAIN list = 1 .. Len(list)
    BY <1>1, ConfTypes, LenProperties
  <2>2. 1 .. t.pos - 1 = DOMAIN list
    BY <1>1, <2>1
  <2>3. Range(t.entries) =
           {list[k] : k \in {j \in DOMAIN list : list[j].name \notin conf.skipSet}}
    BY <1>1, <2>2 DEF Shows, Listing
  <2> HIDE DEF list
  <2>4. Records(conf, t.item.dir) = {r \in Range(list) : r.name \notin conf.skipSet}
    BY DEF Records, list
  <2> QED
    BY <2>3, <2>4 DEF Range
<1>5. R \in SUBSET Dirent
  BY <1>1, <1>4, RangeOfSeq DEF TaskOK
<1>6. t.errs = {} /\ SawLinks(s, 1)
  BY <1>1, <1>2 DEF Shows, Listing, SawLinks
<1>7. Resolving(conf, s)
  <2>1. {s.entries[i] : i \in s.pos .. Len(s.entries)} = R
    <3>1. DOMAIN t.entries = 1 .. Len(t.entries)
      BY <1>1, LenProperties DEF TaskOK
    <3> HIDE DEF R
    <3> QED
      BY <1>2, <1>4, <3>1 DEF Range
  <2>2. {s.entries[i] : i \in 1 .. s.keep - 1} = {}
    BY <1>2
  <2>3. /\ {} \in SUBSET R
        /\ {} \cup {s.entries[i] : i \in s.pos .. Len(s.entries)} = R
        /\ {s.entries[i] : i \in 1 .. s.keep - 1} = KeptOf(conf, s.item.path, {})
        /\ s.errs = ErrsOf(conf, s.item.path, {})
    BY <1>2, <1>6, <2>1, <2>2, NothingDone
  <2>4. s.item.dir \notin conf.faulty /\ SawLinks(s, s.pos)
    BY <1>1, <1>2, <1>6
  <2> QED
    BY <1>2, <2>3, <2>4 DEF Resolving
<1>8. ~ conf.followLinks => BatchOf(s) = Promise!BatchAt(conf, s.item.path)
  <2> SUFFICES ASSUME ~ conf.followLinks PROVE BatchOf(s) = Promise!BatchAt(conf, p)
    BY <1>2
  <2>1. BatchOf(s) = [dir |-> p, entries |-> R, errs |-> {}]
    BY <1>2, <1>4, <1>6 DEF BatchOf
  <2>2. KeptOf(conf, p, R) = R /\ ErrsOf(conf, p, R) = {}
    BY <1>5, PlainContents
  <2>3. Promise!BatchAt(conf, p) =
           [dir |-> p, entries |-> KeptOf(conf, p, R), errs |-> ErrsOf(conf, p, R)]
    BY <1>1, ReadableBatch DEF Promise!Readable
  <2> QED
    BY <2>1, <2>2, <2>3
<1>9. PICK at \in {"resolve", "send"} : /\ pc' = [pc EXCEPT ![w] = at]
                                        /\ at = "send" => ~ conf.followLinks
  BY DEF ReadDone
<1>10. Shows(conf, s, at)
  BY <1>1, <1>2, <1>7, <1>8, <1>9 DEF Shows
<1> QED
  BY <1>3, <1>9, <1>10, QuietShows

LEMMA ReadFailsShows ==
    ASSUME TypeInv, LinkInv, ContentInv, NEW w \in Worker, ReadFails(w)
    PROVE  ContentInv'
<1> DEFINE t == task[w]
           p == t.item.path
           s == [NewTask(t.item) EXCEPT !.errs = {[at |-> p, err |-> "unreadable"]}]
<1>1. /\ t.item.dir \notin Dir \ conf.faulty /\ t.item.dir = Promise!DirAt(conf, p)
      /\ Shows(conf, t, "read")
  BY DEF ReadFails, ContentInv, TasksShow, LinkInv, TasksLinked, Links, Linked
<1>2. /\ s.item = t.item /\ BagToSet(s.spawn) = {} /\ s.entries = << >>
      /\ s.errs = {[at |-> p, err |-> "unreadable"]}
  BY EmptyBagIsEmpty DEF NewTask
<1>3. /\ task' = [task EXCEPT ![w] = s] /\ pc' = [pc EXCEPT ![w] = "sendErr"]
      /\ UNCHANGED <<conf, chan, received, pending>>
  BY DEF ReadFails
<1> HIDE DEF s
<1>4. BatchOf(s) = Promise!BatchAt(conf, p)
  <2>1. Range(s.entries) = {}
    BY <1>2 DEF Range
  <2>2. BatchOf(s) = [dir |-> p, entries |-> {}, errs |-> {[at |-> p, err |-> "unreadable"]}]
    BY <1>2, <2>1 DEF BatchOf
  <2>3. ~ Promise!Readable(conf, Promise!DirAt(conf, p))
    BY <1>1 DEF Promise!Readable
  <2> HIDE DEF p
  <2> QED
    BY <2>2, <2>3, UnreadableBatch
<1>5. Shows(conf, s, "sendErr")
  BY <1>1, <1>2, <1>4 DEF Shows
<1> QED
  BY <1>3, <1>5, QuietShows

LEMMA ResolveShows ==
    ASSUME WalkInv, ContentInv, NEW w \in Worker, Resolve(w)
    PROVE  ContentInv'
<1> DEFINE t      == task[w]
           e      == t.entries[t.pos]
           target == conf.to[t.item.dir][e.name]
<1>1. /\ TaskOK(t) /\ t.item.dir \in Dir /\ conf \in Configs /\ conf.followLinks
      /\ t.keep <= t.pos /\ t.pos \in 1 .. Len(t.entries)
      /\ t.pos \in Nat /\ Len(t.entries) \in Nat
  <2>1. /\ TaskOK(t) /\ t.item.dir \in Dir /\ t.keep <= t.pos
        /\ t.pos \in DOMAIN t.entries /\ conf.followLinks /\ conf \in Configs
    BY DEF Resolve, WalkInv, TypeInv, TasksOK, Located
  <2>2. Len(t.entries) \in Nat /\ DOMAIN t.entries = 1 .. Len(t.entries)
    BY <2>1, LenProperties DEF TaskOK
  <2> QED
    BY <2>1, <2>2 DEF TaskOK
<1>2. t.item.dir = Promise!DirAt(conf, t.item.path) /\ Links(conf, t, "resolve")
  BY DEF Resolve, WalkInv, LinkInv, TasksLinked, Links, Linked
<1>3. Leveled(t.item)
  BY DEF Resolve, WalkInv, CoverInv, TasksKeep, Keeps
<1>4. Shows(conf, t, "resolve") /\ Honest(conf)
  BY DEF Resolve, ContentInv, TasksShow
<1>5. t.pos \in t.pos .. Len(t.entries)
  BY <1>1
<1>6. e \in Dirent /\ e \in Range(conf.list[t.item.dir]) /\ (e.typ = "lnk" => t.sawLink)
  BY <1>1, <1>2, <1>4, <1>5, ElementOfSeq DEF TaskOK, Links, Shows, Resolving, SawLinks
<1>7. Passing(conf, t, e)
  BY <1>1, <1>2, <1>3, <1>4, <1>6 DEF Passing, Shows
<1>8. target \in Target
  BY <1>1, <1>6, ConfTypes DEF Dirent
<1>9. PICK u : PassShows(conf, t, u, e) /\ task' = [task EXCEPT ![w] = u]
  <2> DEFINE outcome == Promise!Outcome(conf, t.item.path, e)
  <2>0. e.typ = "lnk" =>
            /\ target = "missing" => outcome = "dangling"
            /\ target = "nosys" => outcome = "nosys"
    <3> DEFINE p == t.item.path
    <3>1. conf \in Configs /\ conf.followLinks /\ e \in Dirent /\ Promise!DirAt(conf, p) \in Dir
          /\ target = conf.to[Promise!DirAt(conf, p)][e.name]
      BY <1>1, <1>2, <1>6
    <3> HIDE DEF p, e, target
    <3> QED
      BY <3>1, LinkOutcome DEF p
  <2>1. CASE e.typ = "lnk" /\ target = "missing"
             /\ task' = [task EXCEPT ![w] = Advance(StoreDirErr(t, e, "dangling"))]
    <3>1. Promise!Outcome(conf, t.item.path, e) = "dangling"
      BY <2>0, <2>1
    <3> QED
      BY <1>7, <2>1, <3>1, DropShows
  <2>2. CASE e.typ = "lnk" /\ target = "nosys"
             /\ task' = [task EXCEPT ![w] = Keep(StoreDirErr(t, e, "nosys"), e)]
    <3>1. Promise!Outcome(conf, t.item.path, e) = "nosys"
      BY <2>0, <2>2
    <3> QED
      BY <1>7, <2>2, <3>1, ReportShows
  <2>3. CASE e.typ = "lnk" /\ target \in {"reg", "other"}
             /\ task' = [task EXCEPT ![w] = KeepLinkToFile(t, e, target)]
    BY <1>7, <2>3, FileShows
  <2>4. CASE e.typ = "lnk" /\ target \in Dir /\ HasCycle(t.item.ancestor, conf.id[target])
             /\ task' = [task EXCEPT ![w] = Advance(StoreDirErr(t, e, "cycle"))]
    <3>1. Promise!Outcome(conf, t.item.path, e) = "cycle"
      BY <1>1, <1>2, <1>6, <1>7, <2>4, LinkOutcome, ChainTells
    <3> QED
      BY <1>7, <2>4, <3>1, DropShows
  <2>5. CASE e.typ = "lnk" /\ target \in Dir /\ ~ HasCycle(t.item.ancestor, conf.id[target])
             /\ task' = [task EXCEPT ![w] = FollowLink(conf, t, e, target)]
    BY <1>7, <2>5, FollowShows
  <2>6. CASE e.typ # "lnk" /\ ~ DerefsNil(conf, t, e)
             /\ task' = [task EXCEPT ![w] = KeepEntry(conf, t, e)]
    BY <1>7, <2>6, EntryShows
  <2> QED
    BY <1>6, <2>1, <2>2, <2>3, <2>4, <2>5, <2>6 DEF Resolve
<1> HIDE DEF target
<1>10. Resolving(conf, u)
  BY <1>1, <1>4, <1>9, PassResolves DEF Shows
<1>11. u.item = t.item /\ \A it \in BagToSet(u.spawn) : Sound(conf, it)
  BY <1>4, <1>9 DEF PassShows, SameRest, Shows
<1>12. Shows(conf, u, "resolve")
  BY <1>4, <1>10, <1>11 DEF Shows
<1>13. pc' = [pc EXCEPT ![w] = "resolve"] /\ UNCHANGED <<conf, chan, received, pending>>
  BY DEF Resolve, WalkInv, TypeInv, TasksOK
<1> QED
  BY <1>9, <1>12, <1>13, QuietShows DEF WalkInv

LEMMA PanicShows ==
    ASSUME TypeInv, ContentInv, NEW w \in Worker, PanicOnNil(w)
    PROVE  ContentInv'
<1>1. TasksShow'
  BY DEF PanicOnNil, ContentInv, TasksShow, Shows
<1> QED
  BY <1>1 DEF PanicOnNil, ContentInv, PoolSound, StreamShows, Sent, Arrived

\* Every record has been through the pass: what is kept is what the directory shows.
LEMMA ResolveDoneShows ==
    ASSUME TypeInv, LinkInv, ContentInv, NEW w \in Worker, ResolveDone(w)
    PROVE  ContentInv'
<1> DEFINE t == task[w]
           p == t.item.path
           q == SubSeq(t.entries, 1, t.keep - 1)
           s == [t EXCEPT !.entries = q]
           R == Records(conf, t.item.dir)
<1>1. /\ TaskOK(t) /\ t.item.dir \in Dir /\ Shows(conf, t, "resolve")
      /\ t.pos = Len(t.entries) + 1 /\ t.keep <= t.pos
      /\ t.item.dir = Promise!DirAt(conf, p)
  BY DEF ResolveDone, TypeInv, TasksOK, Located, ContentInv, TasksShow, LinkInv, TasksLinked,
         Links, Linked
<1>2. t.entries \in Seq(Dirent) /\ Len(t.entries) \in Nat /\ t.keep \in Nat \ {0}
  BY <1>1, LenProperties DEF TaskOK
<1>3. Range(q) = {t.entries[i] : i \in 1 .. t.keep - 1}
  <2>1. \A i \in 1 .. t.keep - 1 : t.entries[i] \in Dirent
    BY <1>1, <1>2, ElementOfSeq
  <2>2. /\ q \in Seq(Dirent) /\ Len(q) = t.keep - 1
        /\ \A i \in 1 .. t.keep - 1 : q[i] = t.entries[i]
    BY <1>2, <2>1, SubSeqProperties
  <2>3. DOMAIN q = 1 .. t.keep - 1
    BY <2>2, LenProperties
  <2> HIDE DEF q
  <2> QED
    BY <2>2, <2>3 DEF Range
<1> HIDE DEF q
<1>4. /\ s.item = t.item /\ s.spawn = t.spawn /\ s.entries = q /\ s.errs = t.errs
  BY <1>1 DEF TaskOK
<1>5. /\ task' = [task EXCEPT ![w] = s] /\ pc' = [pc EXCEPT ![w] = "send"]
      /\ UNCHANGED <<conf, chan, received, pending>>
  BY DEF ResolveDone, q
<1> HIDE DEF s
<1>6. PICK done \in SUBSET R :
         /\ done \cup {t.entries[i] : i \in t.pos .. Len(t.entries)} = R
         /\ {t.entries[i] : i \in 1 .. t.keep - 1} = KeptOf(conf, p, done)
         /\ t.errs = ErrsOf(conf, p, done)
  BY <1>1 DEF Shows, Resolving
<1>7. done = R
  <2>1. t.pos .. Len(t.entries) = {}
    BY <1>1, <1>2
  <2> HIDE DEF R
  <2> QED
    BY <1>6, <2>1
<1>8. BatchOf(s) = Promise!BatchAt(conf, p)
  <2>1. Promise!Readable(conf, Promise!DirAt(conf, p))
    BY <1>1 DEF Promise!Readable, Shows, Resolving
  <2>2. Promise!BatchAt(conf, p) =
           [dir |-> p, entries |-> KeptOf(conf, p, R), errs |-> ErrsOf(conf, p, R)]
    BY <1>1, <2>1, ReadableBatch
  <2> HIDE DEF R, p
  <2>3. BatchOf(s) = [dir |-> p, entries |-> Range(q), errs |-> t.errs]
    BY <1>4 DEF BatchOf, p
  <2> QED
    BY <1>3, <1>6, <1>7, <2>2, <2>3
<1>9. Shows(conf, s, "send")
  BY <1>1, <1>4, <1>8 DEF Shows
<1> QED
  BY <1>5, <1>9, QuietShows

LEMMA SendsShow ==
    ASSUME WalkInv, ContentInv, NEW w \in Worker,
           SendErr(w) \/ Send(w) \/ SendResolved(w)
    PROVE  ContentInv'
<1>1. /\ pc[w] \in {"send", "sendErr"} /\ UNCHANGED <<conf, pending>>
      /\ Deliver(BatchOf(task[w])) /\ Shows(conf, task[w], pc[w])
  BY DEF SendErr, Send, SendResolved, ContentInv, TasksShow
<1>2. task = [task EXCEPT ![w] = task[w]]
  BY DEF WalkInv, TypeInv, TasksOK
<1>3. CASE Return(w)
  BY <1>1, <1>3, NoTaskShows, SendShows DEF Return
<1>4. CASE task' = task /\ pc' = [pc EXCEPT ![w] = "scan"] /\ ~ AtMaxDepth(conf, task[w].item.depth)
  <2>1. Shows(conf, task[w], "scan")
    BY <1>1, <1>4 DEF Shows
  <2> QED
    BY <1>1, <1>2, <1>4, <2>1, SendShows
<1>5. CASE task' = task /\ pc' = [pc EXCEPT ![w] = "spawn"]
  <2>1. Shows(conf, task[w], "spawn")
    BY <1>1 DEF Shows
  <2> QED
    BY <1>1, <1>2, <1>5, <2>1, SendShows
<1> QED
  BY <1>3, <1>4, <1>5 DEF SendErr, Send, SendResolved

LEMMA ScanShows ==
    ASSUME WalkInv, ContentInv, NEW w \in Worker, Scan(w)
    PROVE  ContentInv'
<1> DEFINE t     == task[w]
           e     == t.entries[t.pos]
           child == Child(conf, t.item, e, << >>)
           a     == Advance(t)
<1>1. /\ TaskOK(t) /\ t.item.dir \in Dir /\ t.pos \in DOMAIN t.entries
      /\ ~ conf.followLinks /\ conf \in Configs
  BY DEF Scan, WalkInv, TypeInv, TasksOK, Located
<1>2. /\ Shows(conf, t, "scan") /\ Leveled(t.item)
      /\ t.item.dir = Promise!DirAt(conf, t.item.path)
  BY DEF Scan, ContentInv, TasksShow, WalkInv, CoverInv, TasksKeep, Keeps, LinkInv,
         TasksLinked, Links, Linked
<1>3. e \in Dirent /\ t.item \in Item /\ << >> \in Seq(Identity)
  BY <1>1, LenProperties, ElementOfSeq DEF TaskOK
<1>4. child \in Item
  BY <1>1, <1>3, ChildType
<1>5. Sound(conf, child)
  BY <1>1, <1>2, <1>3, ChildSound DEF Shows
<1>6. TaskOK(a) /\ a.item = t.item /\ a.spawn = t.spawn
  BY <1>1, AdvanceType
<1>7. /\ task' = [task EXCEPT ![w] = IF e.typ = "dir" THEN AddChild(a, child) ELSE a]
      /\ pc' = [pc EXCEPT ![w] = "scan"] /\ UNCHANGED <<conf, chan, received, pending>>
  BY DEF Scan, WalkInv, TypeInv, TasksOK
<1> HIDE DEF child, a
<1>8. Shows(conf, a, "scan")
  BY <1>2, <1>6 DEF Shows
<1>9. Shows(conf, AddChild(a, child), "scan")
  <2>1. LET u == AddChild(a, child)
        IN  u.item = a.item /\ BagToSet(u.spawn) = BagToSet(a.spawn) \cup {child}
    BY <1>4, <1>6, AddChildType
  <2> QED
    BY <1>5, <1>8, <2>1 DEF Shows
<1>10. PICK u : Shows(conf, u, "scan") /\ task' = [task EXCEPT ![w] = u]
  BY <1>7, <1>8, <1>9
<1> QED
  BY <1>7, <1>10, QuietShows DEF WalkInv

LEMMA ScanDoneShows ==
    ASSUME TypeInv, ContentInv, NEW w \in Worker, ScanDone(w)
    PROVE  ContentInv'
<1>1. task' = [task EXCEPT ![w] = task[w]]
  BY DEF ScanDone, TypeInv, TasksOK
<1>2. Shows(conf, task[w], "spawn")
  BY DEF ScanDone, ContentInv, TasksShow, Shows
<1> QED
  BY <1>1, <1>2, QuietShows DEF ScanDone

LEMMA SpawnShows ==
    ASSUME TypeInv, ContentInv, NEW w \in Worker, Spawn(w)
    PROVE  ContentInv'
<1>1. \A it \in BagToSet(task[w].spawn) : Sound(conf, it)
  BY DEF ContentInv, TasksShow, Shows
<1>2. BagToSet(pending') = BagToSet(pending) \cup BagToSet(task[w].spawn)
  BY BagMerge DEF Spawn, TypeInv, PoolOK, TasksOK, TaskOK
<1>3. PoolSound' /\ StreamShows' /\ Honest(conf')
  BY <1>1, <1>2 DEF ContentInv, PoolSound, StreamShows, Sent, Arrived, Spawn
<1>4. TasksShow'
  BY NoTaskShows, OneShows DEF ContentInv, Spawn, Return
<1> QED
  BY <1>3, <1>4 DEF ContentInv

LEMMA NextShows ==
    ASSUME ~ SortsInPlace, WalkInv, ContentInv, [Next]_vars
    PROVE  ContentInv'
<1> USE DEF WalkInv
<1>1. CASE Walk
  BY <1>1, WalkShows
<1>2. ASSUME NEW w \in Worker, NEW it \in BagToSet(pending), Take(w, it) PROVE ContentInv'
  BY <1>2, TakeShows
<1>3. ASSUME NEW w \in Worker, Step(w) PROVE ContentInv'
  BY <1>3, ReadRecordShows, ReadDoneShows, ReadFailsShows, ResolveShows, PanicShows,
     ResolveDoneShows, SendsShow, ScanShows, ScanDoneShows, SpawnShows
     DEF Step
<1>4. CASE Receive
  <2>1. Sent' = Sent
    BY <1>4, ReceiveOrder DEF OrderInv
  <2> QED
    BY <1>4, <2>1 DEF ContentInv, PoolSound, TasksShow, StreamShows, Receive
<1>5. CASE Close \/ RangeEnds \/ Wait \/ Break \/ Halted \/ UNCHANGED vars
  <2>1. UNCHANGED <<conf, pc, task, pending, chan, received>>
    BY <1>5 DEF Close, RangeEnds, Wait, Break, Halted, vars
  <2> QED
    BY <2>1 DEF ContentInv, PoolSound, TasksShow, StreamShows, Sent, Arrived
<1>6. ASSUME NEW w \in Worker, NEW i, NEW j, SortSwap(w, i, j) PROVE ContentInv'
  BY <1>6 DEF SortSwap
<1> QED
  BY <1>1, <1>2, <1>3, <1>4, <1>5, <1>6 DEF Next, Consume

-----------------------------------------------------------------------------
(***************************************************************************)
(* Step by step: a batch that reaches the consumer is a Deliver of         *)
(* TreeWalk, the end of the loop is its Finish, and the rest is a stutter. *)
(***************************************************************************)
\* TreeWalk's terms are those of the walker.
LEMMA SameTerms ==
    /\ Promise!BagToSet(received) = Arrived
    /\ Promise!EmptyBag = EmptyBag
    /\ \A b : Promise!ChildrenOf(b) = ChildrenOf(b)
    /\ \A c, depth : Promise!AtMaxDepth(c, depth) = AtMaxDepth(c, depth)
    /\ \A b : received (+) SetToBag({b}) = Promise!(+)(received, Promise!SetToBag({b}))
<1>1. Promise!BagToSet(received) = Arrived
  BY DEF Promise!BagToSet, BagToSet, Arrived
<1>2. Promise!EmptyBag = EmptyBag
  BY DEF Promise!EmptyBag, EmptyBag, Promise!SetToBag, SetToBag
<1>3. \A b : Promise!ChildrenOf(b) = ChildrenOf(b)
  BY DEF Promise!ChildrenOf, ChildrenOf
<1>4. \A c, depth : Promise!AtMaxDepth(c, depth) = AtMaxDepth(c, depth)
  BY DEF Promise!AtMaxDepth, AtMaxDepth
<1>5. \A b : received (+) SetToBag({b}) = Promise!(+)(received, Promise!SetToBag({b}))
  BY DEF Promise!(+), (+), Promise!SetToBag, SetToBag
<1> QED
  BY <1>1, <1>2, <1>3, <1>4, <1>5

LEMMA ListedIsAnnounced ==
    ASSUME TypeInv, NEW p, Listed(Arrived, p), Shallow(conf, p)
    PROVE  p \in Promise!Announced
<1>1. CASE p = << >>
  BY <1>1 DEF Promise!Announced
<1>2. CASE p # << >>
  <2>1. PICK a \in Arrived : p \in ChildrenOf(a)
    BY <1>2 DEF Listed
  <2>2. a.dir \in Path /\ a.entries \subseteq Dirent
    BY DEF Arrived, TypeInv, StreamOK, Batch
  <2>3. PICK e \in a.entries : p = Append(a.dir, e.name)
    BY <2>1 DEF ChildrenOf
  <2>4. Len(p) = Len(a.dir) + 1
    BY <2>2, <2>3, ChildPrefixes DEF Dirent
  <2>5. ~ AtMaxDepth(conf, Len(a.dir) + 1)
    BY <1>2, <2>4 DEF Shallow
  <2> QED
    BY <2>1, <2>5, SameTerms DEF Promise!Announced
<1> QED
  BY <1>1, <1>2

\* The consumer takes the batch of a directory it has none of.
LEMMA Delivers ==
    ASSUME TypeInv, consumer = "range", UNCHANGED <<conf, consumer>>,
           NEW b, received' = received (+) SetToBag({b}),
           b = Promise!BatchAt(conf, b.dir), Shallow(conf, b.dir),
           Listed(Arrived, b.dir), \A a \in Arrived : a.dir # b.dir
    PROVE  Promise!Deliver
<1>1. b.dir \in Promise!Announced
  BY ListedIsAnnounced
<1>2. b.dir \notin Promise!Visited
  BY SameTerms DEF Promise!Visited
<1>3. received' = Promise!(+)(received, Promise!SetToBag({Promise!BatchAt(conf, b.dir)}))
  BY SameTerms
<1> QED
  BY <1>1, <1>2, <1>3 DEF Promise!Deliver

\* What the consumer does not see.
LEMMA Stutters ==
    ASSUME UNCHANGED <<conf, received>>,
           consumer' \in {"drained", "done"} <=> consumer \in {"drained", "done"}
    PROVE  UNCHANGED Promise!vars
  BY DEF Promise!vars

LEMMA ReceiveDelivers ==
    ASSUME WalkInv, ContentInv, Receive
    PROVE  Promise!Deliver
<1> DEFINE b == Head(chan)
<1>1. chan \in Seq(Batch) /\ chan # << >> /\ Len(chan) \in Nat /\ Len(chan) # 0
  BY LenProperties, EmptySeq DEF Receive, WalkInv, TypeInv, StreamOK
<1>2. 1 \in 1 .. Len(chan) /\ b = chan[1]
  BY <1>1
<1>3. b \in Sent
  BY <1>1, <1>2, LenProperties DEF Sent, Range
<1>4. b = Promise!BatchAt(conf, b.dir) /\ Shallow(conf, b.dir)
  BY <1>3 DEF ContentInv, StreamShows
<1>5. Listed(Arrived, b.dir)
  <2>1. Before(1) = Arrived
    BY DEF Before
  <2> QED
    BY <1>2, <2>1 DEF WalkInv, OrderInv, StreamOrder
<1>6. \A a \in Arrived : a.dir # b.dir
  BY <1>2 DEF WalkInv, OnceInv, StreamOnce
<1> HIDE DEF b
<1> QED
  BY <1>4, <1>5, <1>6, Delivers DEF Receive, WalkInv, b

LEMMA SendDelivers ==
    ASSUME WalkInv, ContentInv, NEW w \in Worker, pc[w] \in {"send", "sendErr"},
           Deliver(BatchOf(task[w])), UNCHANGED <<conf, consumer>>
    PROVE  Promise!Deliver \/ UNCHANGED Promise!vars
<1> DEFINE b == BatchOf(task[w])
<1>1. CASE UNCHANGED received
  BY <1>1, Stutters
<1>2. CASE ResultBuffSize = 0 /\ consumer = "range" /\ received' = received (+) SetToBag({b})
  <2>1. b.dir = task[w].item.path
    BY DEF BatchOf
  <2>2. b = Promise!BatchAt(conf, b.dir) /\ Shallow(conf, b.dir)
    BY <2>1 DEF ContentInv, TasksShow, Shows, Sound
  <2>3. Sent = Arrived
    <3>1. Len(chan) = 0
      BY <1>2, LenProperties DEF WalkInv, OrderInv, StreamOrder, TypeInv, StreamOK
    <3>2. Range(chan) = {}
      BY <3>1, LenProperties DEF Range, WalkInv, TypeInv, StreamOK
    <3> QED
      BY <3>2 DEF Sent
  <2>4. Listed(Arrived, b.dir)
    BY <2>1, <2>3 DEF WalkInv, OrderInv, TasksOrder, Announces
  <2>5. \A a \in Arrived : a.dir # b.dir
    BY <2>1, <2>3 DEF WalkInv, OnceInv, Unsent, Owes, SentPaths
  <2> HIDE DEF b
  <2> QED
    BY <1>2, <2>2, <2>4, <2>5, Delivers DEF WalkInv
<1> QED
  BY <1>1, <1>2 DEF Deliver

\* The loop ends on a closed channel: nothing is covered but by its batch.
LEMMA RangeEndsFinishes ==
    ASSUME WalkInv, ContentInv, RangeEnds
    PROVE  Promise!Finish
<1>1. consumer = "range" /\ closed /\ chan = << >> /\ consumer' = "drained"
      /\ UNCHANGED <<conf, received>>
  BY DEF RangeEnds
<1>2. Sent = Arrived
  BY <1>1 DEF Sent, Range
<1>3. ASSUME NEW p, Covered(p) PROVE p \in Promise!Visited
  BY <1>1, <1>2, <1>3, SameTerms
     DEF WalkInv, CoverInv, Books, Idle, Covered, Holds, Promise!Visited
<1>4. Promise!Announced \subseteq Promise!Visited
  <2> SUFFICES ASSUME NEW p \in Promise!Announced PROVE Covered(p)
    BY <1>3
  <2>1. CASE p = << >>
    BY <1>1, <2>1 DEF WalkInv, CoverInv, AllCovered
  <2>2. CASE \E a \in Arrived : AboveLimit(a) /\ p \in ChildrenOf(a)
    BY <1>1, <1>2, <2>2 DEF WalkInv, CoverInv, AllCovered
  <2> QED
    BY <2>1, <2>2, SameTerms DEF Promise!Announced, AboveLimit
<1>5. Promise!Visited \subseteq Promise!Announced
  <2> SUFFICES ASSUME NEW b \in Arrived PROVE b.dir \in Promise!Announced
    BY SameTerms DEF Promise!Visited
  <2>1. Listed(Arrived, b.dir)
    BY DEF WalkInv, OrderInv, StreamOrder
  <2>2. Shallow(conf, b.dir)
    BY <1>2 DEF ContentInv, StreamShows
  <2> QED
    BY <2>1, <2>2, ListedIsAnnounced DEF WalkInv
<1> QED
  BY <1>1, <1>4, <1>5 DEF Promise!Finish

LEMMA NextImplements ==
    ASSUME WalkInv, ContentInv, [Next]_vars
    PROVE  [Promise!Next]_(Promise!vars)
<1>1. CASE Receive
  BY <1>1, ReceiveDelivers DEF Promise!Next
<1>2. CASE RangeEnds
  BY <1>2, RangeEndsFinishes DEF Promise!Next
<1>3. ASSUME NEW w \in Worker, SendErr(w) \/ Send(w) \/ SendResolved(w)
      PROVE  [Promise!Next]_(Promise!vars)
  <2>1. /\ pc[w] \in {"send", "sendErr"} /\ Deliver(BatchOf(task[w]))
        /\ UNCHANGED <<conf, consumer>>
    BY <1>3 DEF SendErr, Send, SendResolved
  <2> QED
    BY <2>1, SendDelivers DEF Promise!Next
<1>4. ASSUME NEW w \in Worker, PanicOnNil(w) PROVE UNCHANGED Promise!vars
  <2>1. consumer \notin {"drained", "done"}
    BY <1>4 DEF PanicOnNil, WalkInv, CoverInv, Books, Idle
  <2> QED
    BY <1>4, <2>1, Stutters DEF PanicOnNil
<1>5. CASE Walk \/ Wait \/ Break
  BY <1>5, Stutters DEF Walk, Wait, Break
<1>6. CASE Close \/ Halted \/ UNCHANGED vars
  BY <1>6, Stutters DEF Close, Halted, vars
<1>7. ASSUME NEW w \in Worker, NEW it, Take(w, it) PROVE UNCHANGED Promise!vars
  BY <1>7, Stutters DEF Take
<1>8. ASSUME NEW w \in Worker,
             \/ ReadRecord(w) \/ ReadDone(w) \/ ReadFails(w) \/ Resolve(w) \/ ResolveDone(w)
             \/ Scan(w) \/ ScanDone(w) \/ Spawn(w)
      PROVE  UNCHANGED Promise!vars
  <2>1. UNCHANGED <<conf, received, consumer>>
    BY <1>8 DEF ReadRecord, ReadDone, ReadFails, Resolve, ResolveDone, Scan, ScanDone, Spawn
  <2> QED
    BY <2>1, Stutters
<1>9. ASSUME NEW w \in Worker, NEW i, NEW j, SortSwap(w, i, j) PROVE UNCHANGED Promise!vars
  BY <1>9, Stutters DEF SortSwap
<1> QED
  BY <1>1, <1>2, <1>3, <1>4, <1>5, <1>6, <1>7, <1>8, <1>9 DEF Next, Step, Consume

\* What the consumer sees of the walk, its workers, pool and channel is a walk
\* by one thread (TreeWalk): the batches of readDirRaw, visit and visitSym have
\* the contents of their directories, and arrive in such an order.  The consumer
\* must leave the entries alone, and the world be Honest if links are followed.
THEOREM WalkIsATreeWalk ==
    ASSUME ~ SortsInPlace
    PROVE  Spec /\ Honest(conf) => ImplementsTreeWalk
<1>1. Init /\ Honest(conf) => WalkInv /\ ContentInv
  BY InitType, InitOrder, InitLinks, InitOnce, InitCover, InitShows DEF WalkInv
<1>2. WalkInv /\ ContentInv /\ [Next]_vars => (WalkInv /\ ContentInv)'
  <2> SUFFICES ASSUME WalkInv, ContentInv, [Next]_vars PROVE WalkInv' /\ ContentInv'
    OBVIOUS
  <2>1. ContentInv'
    BY NextShows
  <2> QED
    BY <2>1, NextType, NextOrder, NextLinks, NextOnce, NextCover DEF WalkInv
<1>3. WalkInv /\ ContentInv /\ [Next]_vars => [Promise!Next]_(Promise!vars)
  BY NextImplements
<1>4. Init => Promise!Init
  BY SameTerms DEF Init, Promise!Init
<1> QED
  BY <1>1, <1>2, <1>3, <1>4, PTL DEF Spec, ImplementsTreeWalk, Promise!SafeSpec
=============================================================================
