--------------------------- MODULE WalkmanProofs ----------------------------
(***************************************************************************)
(* Theorems about the walker, for every file system, number of workers and *)
(* capacity of the channel: its type invariant, that the consumer sees the *)
(* batch that lists a directory before the batch of that directory, and    *)
(* that no path enters a directory by two links.                           *)
(***************************************************************************)
EXTENDS Walkman, SequenceTheorems, WellFoundedInduction, TLAPS

-----------------------------------------------------------------------------
(* Bags of items and of batches                                            *)

\* Putting one element into a bag, as spawnBuf's append and a receive do.
LEMMA BagAdd ==
    ASSUME NEW B, IsABag(B), NEW x
    PROVE  /\ IsABag(B (+) SetToBag({x}))
           /\ BagToSet(B (+) SetToBag({x})) = BagToSet(B) \cup {x}
BY DEF IsABag, BagToSet, SetToBag, (+)

\* Putting one bag into another, as spawn does.
LEMMA BagMerge ==
    ASSUME NEW A, IsABag(A), NEW B, IsABag(B)
    PROVE  /\ IsABag(A (+) B)
           /\ BagToSet(A (+) B) = BagToSet(A) \cup BagToSet(B)
BY DEF IsABag, BagToSet, (+)

\* Taking one copy out of a bag loses at most that element.
LEMMA BagTake ==
    ASSUME NEW B, IsABag(B), NEW x
    PROVE  /\ IsABag(B (-) SetToBag({x}))
           /\ BagToSet(B (-) SetToBag({x})) \subseteq BagToSet(B)
           /\ BagToSet(B) \subseteq BagToSet(B (-) SetToBag({x})) \cup {x}
BY DEF IsABag, BagToSet, SetToBag, (-)

\* The bags the walk starts with.
LEMMA BagsOfSets ==
    ASSUME NEW S
    PROVE  IsABag(SetToBag(S)) /\ BagToSet(SetToBag(S)) = S
BY DEF IsABag, BagToSet, SetToBag

LEMMA EmptyBagIsEmpty == IsABag(EmptyBag) /\ BagToSet(EmptyBag) = {}
BY BagsOfSets DEF EmptyBag

-----------------------------------------------------------------------------
(* Types of what the actions build                                         *)

\* The fields of a configuration, as the actions read them.
LEMMA ConfTypes ==
    ASSUME NEW c \in Configs
    PROVE  /\ c.followLinks \in BOOLEAN
           /\ c.maxDepth \in Nat
           /\ c.root \in Target
           /\ c.rootStat => c.root \in Dir
           /\ \A d \in Dir : c.id[d] \in Identity
           /\ \A d \in Dir : c.list[d] \in Seq(Dirent)
           /\ \A d \in Dir : \A n \in Name : c.to[d][n] \in Target
<1>1. c \in WalkConf
  BY TreeAssumption
<1>2. c.rootStat => c.root \in Dir
  BY TreeAssumption
<1>3. c.id \in [Dir -> Identity] /\ c.list \in [Dir -> Seq(Dirent)]
      /\ c.to \in [Dir -> [Name -> Target]]
  BY <1>1 DEF WalkConf
<1>4. c.followLinks \in BOOLEAN /\ c.maxDepth \in Nat /\ c.root \in Dir \cup {"missing"}
  BY <1>1 DEF WalkConf
<1> QED
  BY <1>2, <1>3, <1>4 DEF Target, NonDir

\* What it takes for a task in the middle of a listing to be well typed.
LEMMA ChildType ==
    ASSUME NEW c \in Configs, NEW it \in Item, it.dir \in Dir,
           NEW e \in Dirent, NEW chain \in Seq(Identity)
    PROVE  Child(c, it, e, chain) \in Item
<1>1. c.to[it.dir][e.name] \in Target
  BY ConfTypes DEF Dirent
<1>2. Append(it.path, e.name) \in Path
  BY AppendProperties DEF Item, Path, Dirent
<1> QED
  BY <1>1, <1>2 DEF Child, Item

LEMMA NewTaskType ==
    ASSUME NEW it \in Item
    PROVE  TaskOK(NewTask(it))
BY EmptyBagIsEmpty DEF TaskOK, NewTask

LEMMA NoTaskType == TaskOK(NoTask)
<1>1. [path |-> << >>, dir |-> "missing", depth |-> 0, ancestor |-> << >>] \in Item
  BY DEF Item, Path, Target, NonDir
<1> QED
  BY <1>1, NewTaskType DEF NoTask

LEMMA AddChildType ==
    ASSUME NEW t, TaskOK(t), NEW it \in Item
    PROVE  LET s == AddChild(t, it)
           IN  /\ TaskOK(s)
               /\ s.item = t.item /\ s.entries = t.entries /\ s.errs = t.errs
               /\ s.pos = t.pos /\ s.keep = t.keep
               /\ BagToSet(s.spawn) = BagToSet(t.spawn) \cup {it}
<1> DEFINE more == t.spawn (+) SetToBag({it})
<1>1. IsABag(more) /\ BagToSet(more) = BagToSet(t.spawn) \cup {it}
  BY BagAdd DEF TaskOK
<1>2. AddChild(t, it) = [t EXCEPT !.spawn = more]
  BY DEF AddChild
<1> HIDE DEF more
<1>3. [t EXCEPT !.spawn = more] =
         [item |-> t.item, entries |-> t.entries, pos |-> t.pos, keep |-> t.keep,
          errs |-> t.errs, sawLink |-> t.sawLink, spawn |-> more]
  BY DEF TaskOK
<1> QED
  BY <1>1, <1>2, <1>3 DEF TaskOK

LEMMA StoreDirErrType ==
    ASSUME NEW t, TaskOK(t), NEW e \in Dirent, NEW kind \in ErrKind
    PROVE  LET s == StoreDirErr(t, e, kind)
           IN  /\ TaskOK(s)
               /\ s.item = t.item /\ s.spawn = t.spawn /\ s.entries = t.entries
               /\ s.pos = t.pos /\ s.keep = t.keep
<1> DEFINE more == t.errs \cup {[at |-> Append(t.item.path, e.name), err |-> kind]}
<1>1. Append(t.item.path, e.name) \in Path
  BY AppendProperties DEF TaskOK, Item, Path, Dirent
<1>2. more \subseteq [at : Path, err : ErrKind]
  <2>1. [at |-> Append(t.item.path, e.name), err |-> kind] \in [at : Path, err : ErrKind]
    BY <1>1
  <2>2. t.errs \subseteq [at : Path, err : ErrKind]
    BY DEF TaskOK
  <2> QED
    BY <2>1, <2>2
<1>3. StoreDirErr(t, e, kind) = [t EXCEPT !.errs = more]
  BY DEF StoreDirErr
<1> HIDE DEF more
<1>4. [t EXCEPT !.errs = more] =
         [item |-> t.item, entries |-> t.entries, pos |-> t.pos, keep |-> t.keep,
          errs |-> more, sawLink |-> t.sawLink, spawn |-> t.spawn]
  BY DEF TaskOK
<1> QED
  BY <1>2, <1>3, <1>4 DEF TaskOK

\* The in-place write of visitSym's pass stays within the listing.
LEMMA KeepType ==
    ASSUME NEW t, TaskOK(t), NEW e \in Dirent, t.keep <= t.pos, t.pos <= Len(t.entries)
    PROVE  /\ TaskOK(Keep(t, e))
           /\ Keep(t, e).item = t.item /\ Keep(t, e).spawn = t.spawn
           /\ Keep(t, e).pos = t.pos + 1 /\ Keep(t, e).keep = t.keep + 1
           /\ Len(Keep(t, e).entries) = Len(t.entries)
           /\ Keep(t, e).entries = [t.entries EXCEPT ![t.keep] = e]
<1>1. t.keep \in 1 .. Len(t.entries)
  BY LenProperties DEF TaskOK
<1>2. /\ [t.entries EXCEPT ![t.keep] = e] \in Seq(Dirent)
      /\ Len([t.entries EXCEPT ![t.keep] = e]) = Len(t.entries)
  <2>1. t.entries \in Seq(Dirent)
    BY DEF TaskOK
  <2> QED
    BY <1>1, <2>1, ExceptSeq
<1> DEFINE written == [t.entries EXCEPT ![t.keep] = e]
<1>3. Keep(t, e) = [t EXCEPT !.entries = written, !.keep = t.keep + 1, !.pos = t.pos + 1]
  BY DEF Keep
<1>4. written = [t.entries EXCEPT ![t.keep] = e]
  OBVIOUS
<1> HIDE DEF written
<1>5. Keep(t, e) = [item |-> t.item, entries |-> written,
                    pos |-> t.pos + 1, keep |-> t.keep + 1, errs |-> t.errs,
                    sawLink |-> t.sawLink, spawn |-> t.spawn]
  BY <1>3 DEF TaskOK
<1>6. t.pos + 1 \in Nat \ {0} /\ t.keep + 1 \in Nat \ {0}
  BY DEF TaskOK
<1> QED
  BY <1>2, <1>4, <1>6, <1>5 DEF TaskOK

LEMMA AdvanceType ==
    ASSUME NEW t, TaskOK(t)
    PROVE  /\ TaskOK(Advance(t))
           /\ Advance(t) = [item |-> t.item, entries |-> t.entries, pos |-> t.pos + 1,
                         keep |-> t.keep, errs |-> t.errs, sawLink |-> t.sawLink,
                         spawn |-> t.spawn]
<1>1. Advance(t) = [item |-> t.item, entries |-> t.entries, pos |-> t.pos + 1,
                 keep |-> t.keep, errs |-> t.errs, sawLink |-> t.sawLink,
                 spawn |-> t.spawn]
  BY DEF Advance, TaskOK
<1> QED
  BY <1>1 DEF TaskOK

LEMMA OnEntryType ==
    ASSUME NEW t, TaskOK(t), NEW r \in Dirent
    PROVE  TaskOK(OnEntry(t, r)) /\ OnEntry(t, r).keep = t.keep
<1> DEFINE listed == Append(t.entries, r)
           link   == t.sawLink \/ r.typ = "lnk"
<1>1. listed \in Seq(Dirent)
  BY AppendProperties DEF TaskOK
<1>2. link \in BOOLEAN /\ t.pos + 1 \in Nat \ {0}
  BY DEF TaskOK
<1>3. OnEntry(t, r) = [t EXCEPT !.pos = t.pos + 1, !.entries = listed, !.sawLink = link]
  BY DEF OnEntry
<1> HIDE DEF listed, link
<1>4. OnEntry(t, r) = [item |-> t.item, entries |-> listed, pos |-> t.pos + 1,
                       keep |-> t.keep, errs |-> t.errs, sawLink |-> link,
                       spawn |-> t.spawn]
  BY <1>3 DEF TaskOK
<1> QED
  BY <1>1, <1>2, <1>4 DEF TaskOK

\* Replacing one field of a task leaves a task.
LEMMA PosType ==
    ASSUME NEW t, TaskOK(t), NEW z \in Nat \ {0}
    PROVE  LET s == [t EXCEPT !.pos = z]
           IN  /\ TaskOK(s) /\ s.pos = z
               /\ s.item = t.item /\ s.entries = t.entries /\ s.keep = t.keep
               /\ s.errs = t.errs /\ s.spawn = t.spawn
<1>1. [t EXCEPT !.pos = z] =
         [item |-> t.item, entries |-> t.entries, pos |-> z, keep |-> t.keep,
          errs |-> t.errs, sawLink |-> t.sawLink, spawn |-> t.spawn]
  BY DEF TaskOK
<1> QED
  BY <1>1 DEF TaskOK

LEMMA EntriesType ==
    ASSUME NEW t, TaskOK(t), NEW z \in Seq(Dirent)
    PROVE  LET s == [t EXCEPT !.entries = z]
           IN  /\ TaskOK(s) /\ s.entries = z
               /\ s.item = t.item /\ s.pos = t.pos /\ s.keep = t.keep
               /\ s.errs = t.errs /\ s.spawn = t.spawn
<1>1. [t EXCEPT !.entries = z] =
         [item |-> t.item, entries |-> z, pos |-> t.pos, keep |-> t.keep,
          errs |-> t.errs, sawLink |-> t.sawLink, spawn |-> t.spawn]
  BY DEF TaskOK
<1> QED
  BY <1>1 DEF TaskOK

LEMMA ErrsType ==
    ASSUME NEW t, TaskOK(t), NEW z \in SUBSET [at : Path, err : ErrKind]
    PROVE  LET s == [t EXCEPT !.errs = z]
           IN  /\ TaskOK(s) /\ s.errs = z
               /\ s.item = t.item /\ s.entries = t.entries /\ s.pos = t.pos
               /\ s.keep = t.keep /\ s.spawn = t.spawn
<1>1. [t EXCEPT !.errs = z] =
         [item |-> t.item, entries |-> t.entries, pos |-> t.pos, keep |-> t.keep,
          errs |-> z, sawLink |-> t.sawLink, spawn |-> t.spawn]
  BY DEF TaskOK
<1> QED
  BY <1>1 DEF TaskOK

-----------------------------------------------------------------------------
(***************************************************************************)
(* The type invariant, strengthened by what the loops rely on: a task that *)
(* still reads has kept nothing, and visit's send leaves its loop at the   *)
(* start of a readable directory's listing.                                *)
(***************************************************************************)
Located(c, t, at) ==
    /\ at = "read" => t.keep = 1
    /\ at = "resolve" => c.followLinks
    /\ at = "scan" => ~ c.followLinks
    /\ (at \in {"resolve", "scan"} \/ (at = "send" /\ ~ c.followLinks)) =>
          t.item.dir \in Dir /\ t.keep <= t.pos /\ t.pos <= Len(t.entries) + 1

TasksOK ==
    /\ pc \in [Worker -> Location]
    /\ task = [w \in Worker |-> task[w]]
    /\ \A w \in Worker : TaskOK(task[w]) /\ Located(conf, task[w], pc[w])

PoolOK == IsABag(pending) /\ BagToSet(pending) \subseteq Item

StreamOK == /\ chan \in Seq(Batch)
            /\ IsABag(received) /\ BagToSet(received) \subseteq Batch

TypeInv ==
    /\ conf \in Configs
    /\ TasksOK
    /\ PoolOK
    /\ StreamOK
    /\ closed \in BOOLEAN
    /\ consumer \in {"start", "range", "drained", "done", "broke", "dead"}

LEMMA TypeInvImpliesTypeOK == TypeInv => TypeOK
BY DEF TypeInv, TypeOK, TasksOK, PoolOK, StreamOK, Located, InListing

\* A step of one worker keeps the tasks in order if it does so for its own.
LEMMA OneTask ==
    ASSUME TasksOK, NEW w \in Worker, NEW t, NEW at \in Location,
           task' = [task EXCEPT ![w] = t], pc' = [pc EXCEPT ![w] = at], conf' = conf,
           TaskOK(t), Located(conf, t, at)
    PROVE  TasksOK'
<1>1. pc' \in [Worker -> Location] /\ task' = [v \in Worker |-> task'[v]]
  BY DEF TasksOK
<1>2. ASSUME NEW v \in Worker
      PROVE  TaskOK(task'[v]) /\ Located(conf', task'[v], pc'[v])
  <2>1. CASE v = w
    <3>1. task'[v] = t /\ pc'[v] = at
      BY <2>1 DEF TasksOK
    <3> QED
      BY <3>1
  <2>2. CASE v # w
    <3>1. task'[v] = task[v] /\ pc'[v] = pc[v]
      BY <2>2 DEF TasksOK
    <3> QED
      BY <3>1 DEF TasksOK
  <2> QED
    BY <2>1, <2>2
<1> QED
  BY <1>1, <1>2 DEF TasksOK

\* A task's batch is one, and sending it keeps the channel well typed.
LEMMA BatchType ==
    ASSUME NEW t, TaskOK(t)
    PROVE  BatchOf(t) \in Batch
<1>1. Range(t.entries) \subseteq Dirent
  BY ElementOfSeq, LenProperties DEF TaskOK, Range
<1>2. t.item.path \in Path /\ t.errs \subseteq [at : Path, err : ErrKind]
  BY DEF TaskOK, Item
<1> QED
  BY <1>1, <1>2 DEF BatchOf, Batch

LEMMA DeliverType ==
    ASSUME StreamOK, NEW b \in Batch, Deliver(b)
    PROVE  StreamOK'
<1>1. CASE chan' = Append(chan, b) /\ UNCHANGED received
  BY <1>1, AppendProperties DEF StreamOK
<1>2. CASE received' = received (+) SetToBag({b}) /\ UNCHANGED chan
  <2>1. IsABag(received') /\ BagToSet(received') = BagToSet(received) \cup {b}
    BY <1>2, BagAdd DEF StreamOK
  <2> QED
    BY <1>2, <2>1 DEF StreamOK
<1> QED
  BY <1>1, <1>2 DEF Deliver

-----------------------------------------------------------------------------
(* Each action keeps the type invariant                                    *)

LEMMA InitType == Init => TypeInv
<1> SUFFICES ASSUME Init PROVE TypeInv
  OBVIOUS
<1>1. TasksOK
  BY NoTaskType DEF Init, TasksOK, Location, Located
<1>2. PoolOK /\ StreamOK
  BY EmptyBagIsEmpty DEF Init, PoolOK, StreamOK
<1> QED
  BY <1>1, <1>2 DEF Init, TypeInv

LEMMA WalkType == ASSUME TypeInv, Walk PROVE TypeInv'
<1> DEFINE chain == IF conf.followLinks /\ conf.rootStat
                    THEN << conf.id[conf.root] >> ELSE << >>
           root  == [path |-> << >>, dir |-> conf.root, depth |-> 1, ancestor |-> chain]
<1>1. chain \in Seq(Identity)
  BY ConfTypes DEF TypeInv
<1>2. root \in Item
  BY <1>1, ConfTypes DEF TypeInv, Item, Path
<1>3. PoolOK'
  BY <1>2, BagsOfSets DEF Walk, PoolOK
<1>4. TasksOK' /\ StreamOK'
  BY DEF Walk, TypeInv, TasksOK, StreamOK
<1> QED
  BY <1>3, <1>4 DEF Walk, TypeInv

LEMMA TakeType ==
    ASSUME TypeInv, NEW w \in Worker, NEW it \in BagToSet(pending), Take(w, it)
    PROVE  TypeInv'
<1>1. it \in Item
  BY DEF TypeInv, PoolOK
<1>2. TaskOK(NewTask(it)) /\ NewTask(it).keep = 1
  BY <1>1, NewTaskType DEF NewTask
<1>3. TasksOK'
  BY <1>2, OneTask DEF Take, TypeInv, Location, Located
<1>4. PoolOK'
  BY BagTake DEF Take, TypeInv, PoolOK
<1> QED
  BY <1>3, <1>4 DEF Take, TypeInv, StreamOK

LEMMA ReadRecordType ==
    ASSUME TypeInv, NEW w \in Worker, ReadRecord(w)
    PROVE  TypeInv'
<1> DEFINE t == task[w]
           r == conf.list[t.item.dir][t.pos]
<1>1. TaskOK(t) /\ t.keep = 1
  BY DEF ReadRecord, TypeInv, TasksOK, Located
<1>2. r \in Dirent
  BY ConfTypes, ElementOfSeq, LenProperties DEF ReadRecord, TypeInv
<1>3. TaskOK(Advance(t)) /\ Advance(t).keep = 1
  BY <1>1, AdvanceType
<1>4. TaskOK(OnEntry(t, r)) /\ OnEntry(t, r).keep = 1
  BY <1>1, <1>2, OnEntryType
<1>5. PICK u : TaskOK(u) /\ u.keep = 1 /\ task' = [task EXCEPT ![w] = u]
  BY <1>3, <1>4 DEF ReadRecord
<1>6. pc' = [pc EXCEPT ![w] = "read"]
  BY DEF ReadRecord, TypeInv, TasksOK
<1>7. TasksOK'
  BY <1>5, <1>6, OneTask DEF ReadRecord, TypeInv, Location, Located
<1> QED
  BY <1>7 DEF ReadRecord, TypeInv, PoolOK, StreamOK

LEMMA ReadDoneType ==
    ASSUME TypeInv, NEW w \in Worker, ReadDone(w)
    PROVE  TypeInv'
<1> DEFINE t == task[w]
           s == [t EXCEPT !.pos = 1]
<1>1. TaskOK(t) /\ t.keep = 1 /\ t.item.dir \in Dir
  BY DEF ReadDone, TypeInv, TasksOK, Located
<1>2. TaskOK(s) /\ s.pos = 1 /\ s.keep = 1 /\ s.item = t.item /\ s.entries = t.entries
  BY <1>1, PosType
<1>3. s.pos <= Len(s.entries) + 1
  BY <1>2, LenProperties DEF TaskOK
<1>4. task' = [task EXCEPT ![w] = s]
  BY DEF ReadDone
<1> HIDE DEF s
<1>5. conf' = conf
  BY DEF ReadDone
<1>6. CASE conf.followLinks
  <2>1. pc' = [pc EXCEPT ![w] = "resolve"]
    BY <1>6 DEF ReadDone
  <2>2. Located(conf, s, "resolve")
    BY <1>1, <1>2, <1>3, <1>6 DEF Located
  <2>3. TasksOK'
    BY <1>2, <1>4, <1>5, <2>1, <2>2, OneTask DEF TypeInv, Location
  <2> QED
    BY <2>3 DEF ReadDone, TypeInv, PoolOK, StreamOK
<1>7. CASE ~ conf.followLinks
  <2>1. pc' = [pc EXCEPT ![w] = "send"]
    BY <1>7 DEF ReadDone
  <2>2. Located(conf, s, "send")
    BY <1>1, <1>2, <1>3, <1>7 DEF Located
  <2>3. TasksOK'
    BY <1>2, <1>4, <1>5, <2>1, <2>2, OneTask DEF TypeInv, Location
  <2> QED
    BY <2>3 DEF ReadDone, TypeInv, PoolOK, StreamOK
<1> QED
  BY <1>6, <1>7

LEMMA ReadFailsType ==
    ASSUME TypeInv, NEW w \in Worker, ReadFails(w)
    PROVE  TypeInv'
<1> DEFINE t == task[w]
           x == {[at |-> t.item.path, err |-> "unreadable"]}
           s == [NewTask(t.item) EXCEPT !.errs = x]
<1>1. t.item \in Item
  BY DEF TypeInv, TasksOK, TaskOK
<1>2. x \in SUBSET [at : Path, err : ErrKind]
  BY <1>1 DEF Item, ErrKind
<1>3. TaskOK(s)
  BY <1>1, <1>2, NewTaskType, ErrsType
<1>4. task' = [task EXCEPT ![w] = s] /\ pc' = [pc EXCEPT ![w] = "sendErr"]
  BY DEF ReadFails
<1>5. TasksOK'
  BY <1>3, <1>4, OneTask DEF ReadFails, TypeInv, Location, Located
<1> QED
  BY <1>5 DEF ReadFails, TypeInv, PoolOK, StreamOK

\* What each branch of visitSym's pass makes of a task: one entry further, and
\* at most one more kept.
Resolved(t, u) == /\ TaskOK(u)
                  /\ u.item = t.item
                  /\ u.pos = t.pos + 1
                  /\ u.keep \in {t.keep, t.keep + 1}
                  /\ Len(u.entries) = Len(t.entries)

LEMMA KeepResolves ==
    ASSUME NEW t, TaskOK(t), NEW e \in Dirent, t.keep <= t.pos, t.pos <= Len(t.entries)
    PROVE  Resolved(t, Keep(t, e))
<1>1. /\ TaskOK(Keep(t, e)) /\ Keep(t, e).item = t.item /\ Keep(t, e).pos = t.pos + 1
      /\ Keep(t, e).keep = t.keep + 1 /\ Len(Keep(t, e).entries) = Len(t.entries)
  BY KeepType
<1> QED
  BY <1>1 DEF Resolved

LEMMA FollowLinkType ==
    ASSUME NEW c \in Configs, NEW t, TaskOK(t), t.item.dir \in Dir,
           NEW e \in Dirent, NEW target \in Dir,
           t.keep <= t.pos, t.pos <= Len(t.entries)
    PROVE  Resolved(t, FollowLink(c, t, e, target))
<1> DEFINE d     == [e EXCEPT !.typ = "dir"]
           chain == PushAncestor(c.id[target].ino, c.id[target].dev, t.item.ancestor)
           child == Child(c, t.item, e, chain)
<1>1. d \in Dirent
  BY DEF Dirent, DType
<1>2. TaskOK(Keep(t, d)) /\ Resolved(t, Keep(t, d))
  BY <1>1, KeepType DEF Resolved
<1>3. chain \in Seq(Identity)
  <2>1. c.id[target] \in Identity
    BY ConfTypes
  <2>2. [ino |-> c.id[target].ino, dev |-> c.id[target].dev] \in Identity
    BY <2>1 DEF Identity
  <2> QED
    BY <2>2, AppendProperties DEF PushAncestor, TaskOK, Item
<1> HIDE DEF chain
<1>4. child \in Item
  BY <1>3, ChildType DEF TaskOK
<1> HIDE DEF child, d
<1>5. Resolved(t, AddChild(Keep(t, d), child))
  BY <1>2, <1>4, AddChildType DEF Resolved
<1>6. FollowLink(c, t, e, target) \in {Keep(t, d), AddChild(Keep(t, d), child)}
  BY DEF FollowLink, child, chain, d
<1> QED
  BY <1>2, <1>5, <1>6

LEMMA KeepEntryType ==
    ASSUME NEW c \in Configs, NEW t, TaskOK(t), t.item.dir \in Dir,
           NEW e \in Dirent, ~ DerefsNil(c, t, e),
           t.keep <= t.pos, t.pos <= Len(t.entries)
    PROVE  Resolved(t, KeepEntry(c, t, e))
<1> DEFINE up    == t.item.ancestor
           chain == PushAncestor(e.ino, up[Len(up)].dev, up)
           child == Child(c, t.item, e, chain)
<1>1. Resolved(t, Keep(t, e))
  BY KeepType DEF Resolved
<1>2. CASE e.typ # "dir" \/ AtMaxDepth(c, t.item.depth)
  BY <1>1, <1>2 DEF KeepEntry
<1>3. CASE e.typ = "dir" /\ ~ AtMaxDepth(c, t.item.depth)
  <2>1. up \in Seq(Identity) /\ up # << >>
    BY <1>3 DEF DerefsNil, TaskOK, Item
  <2>2. up[Len(up)] \in Identity
    BY <2>1, EmptySeq, ElementOfSeq
  <2>3. [ino |-> e.ino, dev |-> up[Len(up)].dev] \in Identity
    BY <2>2 DEF Identity, Dirent
  <2>4. chain \in Seq(Identity)
    BY <2>1, <2>3, AppendProperties DEF PushAncestor
  <2> HIDE DEF chain
  <2>5. child \in Item
    BY <2>4, ChildType DEF TaskOK
  <2> HIDE DEF child
  <2>6. Resolved(t, AddChild(Keep(t, e), child))
    BY <1>1, <2>5, AddChildType DEF Resolved
  <2>7. KeepEntry(c, t, e) = AddChild(Keep(t, e), child)
    BY <1>3 DEF KeepEntry, child, chain
  <2> QED
    BY <2>6, <2>7
<1> QED
  BY <1>2, <1>3

LEMMA DropType ==
    ASSUME NEW t, TaskOK(t), NEW e \in Dirent, NEW kind \in ErrKind
    PROVE  Resolved(t, Advance(StoreDirErr(t, e, kind)))
<1> DEFINE s == StoreDirErr(t, e, kind)
<1>1. /\ TaskOK(s) /\ s.item = t.item /\ s.entries = t.entries
      /\ s.pos = t.pos /\ s.keep = t.keep
  BY StoreDirErrType
<1> HIDE DEF s
<1>2. Resolved(t, Advance(s))
  BY <1>1, AdvanceType DEF Resolved
<1> QED
  BY <1>2 DEF s

LEMMA ReportAndKeepType ==
    ASSUME NEW t, TaskOK(t), NEW e \in Dirent, NEW kind \in ErrKind,
           t.keep <= t.pos, t.pos <= Len(t.entries)
    PROVE  Resolved(t, Keep(StoreDirErr(t, e, kind), e))
<1> DEFINE s == StoreDirErr(t, e, kind)
<1>1. /\ TaskOK(s) /\ s.item = t.item /\ s.entries = t.entries
      /\ s.pos = t.pos /\ s.keep = t.keep
  BY StoreDirErrType
<1> HIDE DEF s
<1>2. /\ TaskOK(Keep(s, e)) /\ Keep(s, e).item = s.item /\ Keep(s, e).pos = s.pos + 1
      /\ Keep(s, e).keep = s.keep + 1 /\ Len(Keep(s, e).entries) = Len(s.entries)
  BY <1>1, KeepType
<1>3. Resolved(t, Keep(s, e))
  BY <1>1, <1>2 DEF Resolved
<1> QED
  BY <1>3 DEF s

LEMMA ResolveType ==
    ASSUME TypeInv, NEW w \in Worker, Resolve(w)
    PROVE  TypeInv'
<1> DEFINE t      == task[w]
           e      == t.entries[t.pos]
           target == conf.to[t.item.dir][e.name]
<1>1. /\ TaskOK(t) /\ t.item.dir \in Dir
      /\ t.keep <= t.pos /\ t.pos \in 1 .. Len(t.entries) /\ t.pos <= Len(t.entries)
  <2>1. /\ TaskOK(t) /\ t.item.dir \in Dir /\ t.keep <= t.pos
        /\ t.pos \in DOMAIN t.entries
    BY DEF Resolve, TypeInv, TasksOK, Located
  <2>2. Len(t.entries) \in Nat /\ DOMAIN t.entries = 1 .. Len(t.entries)
    BY <2>1, LenProperties DEF TaskOK
  <2> QED
    BY <2>1, <2>2
<1>2. e \in Dirent
  BY <1>1, ElementOfSeq DEF TaskOK
<1>3. PICK u : Resolved(t, u) /\ task' = [task EXCEPT ![w] = u]
  <2>1. CASE task' = [task EXCEPT ![w] = Advance(StoreDirErr(t, e, "dangling"))]
    <3>1. Resolved(t, Advance(StoreDirErr(t, e, "dangling")))
      BY <1>1, <1>2, DropType DEF ErrKind
    <3> QED
      BY <2>1, <3>1
  <2>2. CASE task' = [task EXCEPT ![w] = Keep(StoreDirErr(t, e, "nosys"), e)]
    <3>1. Resolved(t, Keep(StoreDirErr(t, e, "nosys"), e))
      BY <1>1, <1>2, ReportAndKeepType DEF ErrKind
    <3> QED
      BY <2>2, <3>1
  <2>3. CASE task' = [task EXCEPT ![w] = KeepLinkToFile(t, e, target)]
    <3>1. [e EXCEPT !.typ = DTypeFromInfo(target)] \in Dirent
      BY <1>2 DEF DTypeFromInfo, Dirent, DType
    <3> DEFINE d == [e EXCEPT !.typ = DTypeFromInfo(target)]
    <3> HIDE DEF d
    <3>2. Resolved(t, Keep(t, d))
      <4>1. d \in Dirent
        BY <3>1 DEF d
      <4> QED
        BY <1>1, <4>1, KeepResolves
    <3> QED
      BY <2>3, <3>2 DEF KeepLinkToFile, d
  <2>4. CASE task' = [task EXCEPT ![w] = Advance(StoreDirErr(t, e, "cycle"))]
    <3>1. Resolved(t, Advance(StoreDirErr(t, e, "cycle")))
      BY <1>1, <1>2, DropType DEF ErrKind
    <3> QED
      BY <2>4, <3>1
  <2>5. CASE target \in Dir /\ task' = [task EXCEPT ![w] = FollowLink(conf, t, e, target)]
    <3>1. Resolved(t, FollowLink(conf, t, e, target))
      BY <1>1, <1>2, <2>5, FollowLinkType DEF TypeInv
    <3> QED
      BY <2>5, <3>1
  <2>6. CASE ~ DerefsNil(conf, t, e) /\ task' = [task EXCEPT ![w] = KeepEntry(conf, t, e)]
    <3>1. Resolved(t, KeepEntry(conf, t, e))
      BY <1>1, <1>2, <2>6, KeepEntryType DEF TypeInv
    <3> QED
      BY <2>6, <3>1
  <2> QED
    BY <2>1, <2>2, <2>3, <2>4, <2>5, <2>6 DEF Resolve
<1>4. pc' = [pc EXCEPT ![w] = "resolve"]
  BY DEF Resolve, TypeInv, TasksOK
<1>5. Located(conf, u, "resolve")
  <2>1. conf.followLinks
    BY DEF Resolve, TypeInv, TasksOK, Located
  <2> QED
    BY <1>1, <1>3, <2>1 DEF Resolved, Located, TaskOK
<1>6. TasksOK'
  BY <1>3, <1>4, <1>5, OneTask DEF Resolve, TypeInv, Location, Resolved
<1> QED
  BY <1>6 DEF Resolve, TypeInv, PoolOK, StreamOK

LEMMA PanicType ==
    ASSUME TypeInv, NEW w \in Worker, PanicOnNil(w)
    PROVE  TypeInv'
<1>1. TasksOK'
  BY DEF PanicOnNil, TypeInv, TasksOK, Location, Located
<1> QED
  BY <1>1 DEF PanicOnNil, TypeInv, PoolOK, StreamOK

LEMMA ResolveDoneType ==
    ASSUME TypeInv, NEW w \in Worker, ResolveDone(w)
    PROVE  TypeInv'
<1> DEFINE t == task[w]
           q == SubSeq(t.entries, 1, t.keep - 1)
           s == [t EXCEPT !.entries = q]
<1>1. /\ TaskOK(t) /\ t.keep \in Nat \ {0} /\ t.keep <= Len(t.entries) + 1
      /\ t.entries \in Seq(Dirent) /\ Len(t.entries) \in Nat
  <2>1. TaskOK(t) /\ t.keep <= t.pos /\ t.pos = Len(t.entries) + 1
    BY DEF ResolveDone, TypeInv, TasksOK, Located
  <2> QED
    BY <2>1, LenProperties DEF TaskOK
<1>2. q \in Seq(Dirent)
  <2>1. \A i \in 1 .. t.keep - 1 : t.entries[i] \in Dirent
    BY <1>1, ElementOfSeq
  <2> QED
    BY <1>1, <2>1, SubSeqProperties
<1>3. task' = [task EXCEPT ![w] = s]
  BY DEF ResolveDone
<1> HIDE DEF q
<1>4. TaskOK(s)
  BY <1>1, <1>2, EntriesType
<1>5. pc' = [pc EXCEPT ![w] = "send"] /\ conf' = conf
  BY DEF ResolveDone
<1>6. conf.followLinks
  BY DEF ResolveDone, TypeInv, TasksOK, Located
<1>7. TasksOK'
  BY <1>3, <1>4, <1>5, <1>6, OneTask DEF TypeInv, Location, Located
<1> QED
  BY <1>7 DEF ResolveDone, TypeInv, PoolOK, StreamOK

LEMMA ReturnKeepsTasks ==
    ASSUME TypeInv, NEW w \in Worker, Return(w), conf' = conf
    PROVE  TasksOK'
BY NoTaskType, OneTask DEF TypeInv, Return, Location, Located

LEMMA SendErrType ==
    ASSUME TypeInv, NEW w \in Worker, SendErr(w)
    PROVE  TypeInv'
<1>1. TaskOK(task[w])
  BY DEF TypeInv, TasksOK
<1>2. StreamOK'
  BY <1>1, BatchType, DeliverType DEF SendErr, TypeInv
<1>3. TasksOK'
  BY ReturnKeepsTasks DEF SendErr
<1> QED
  BY <1>2, <1>3 DEF SendErr, TypeInv, PoolOK

LEMMA SendType ==
    ASSUME TypeInv, NEW w \in Worker, Send(w)
    PROVE  TypeInv'
<1>1. TaskOK(task[w]) /\ Located(conf, task[w], "send") /\ ~ conf.followLinks
  BY DEF Send, TypeInv, TasksOK
<1>2. StreamOK'
  BY <1>1, BatchType, DeliverType DEF Send, TypeInv
<1>3. CASE Return(w)
  <2>1. TasksOK'
    BY <1>3, ReturnKeepsTasks DEF Send
  <2> QED
    BY <1>2, <2>1 DEF Send, TypeInv, PoolOK
<1>4. CASE pc' = [pc EXCEPT ![w] = "scan"] /\ UNCHANGED task
  <2>1. task' = [task EXCEPT ![w] = task[w]]
    BY <1>4 DEF TypeInv, TasksOK
  <2>2. Located(conf, task[w], "scan")
    BY <1>1 DEF Located
  <2>3. TasksOK'
    BY <1>1, <1>4, <2>1, <2>2, OneTask DEF Send, TypeInv, Location
  <2> QED
    BY <1>2, <2>3 DEF Send, TypeInv, PoolOK
<1> QED
  BY <1>3, <1>4 DEF Send

LEMMA SendResolvedType ==
    ASSUME TypeInv, NEW w \in Worker, SendResolved(w)
    PROVE  TypeInv'
<1>1. TaskOK(task[w])
  BY DEF TypeInv, TasksOK
<1>2. StreamOK'
  BY <1>1, BatchType, DeliverType DEF SendResolved, TypeInv
<1>3. TasksOK'
  BY DEF SendResolved, TypeInv, TasksOK, Location, Located
<1> QED
  BY <1>2, <1>3 DEF SendResolved, TypeInv, PoolOK

LEMMA ScanType ==
    ASSUME TypeInv, NEW w \in Worker, Scan(w)
    PROVE  TypeInv'
<1> DEFINE t     == task[w]
           e     == t.entries[t.pos]
           child == Child(conf, t.item, e, << >>)
           a     == Advance(t)
<1>1. /\ TaskOK(t) /\ t.item.dir \in Dir /\ t.keep <= t.pos
      /\ t.pos \in DOMAIN t.entries /\ ~ conf.followLinks
  BY DEF Scan, TypeInv, TasksOK, Located
<1>2. Len(t.entries) \in Nat /\ DOMAIN t.entries = 1 .. Len(t.entries)
  BY <1>1, LenProperties DEF TaskOK
<1>3. e \in Dirent
  BY <1>1, <1>2, ElementOfSeq DEF TaskOK
<1>4. child \in Item
  <2>1. conf \in Configs /\ t.item \in Item /\ << >> \in Seq(Identity)
    BY <1>1 DEF TypeInv, TaskOK
  <2> QED
    BY <1>1, <1>3, <2>1, ChildType
<1>5. TaskOK(a) /\ a.item = t.item /\ a.entries = t.entries /\ a.pos = t.pos + 1
      /\ a.keep = t.keep
  BY <1>1, AdvanceType
<1> HIDE DEF child, a
<1>6. PICK u : /\ task' = [task EXCEPT ![w] = u]
               /\ u \in {a, AddChild(a, child)}
  BY DEF Scan, child, a
<1>7. TaskOK(u) /\ u.item = t.item /\ u.entries = t.entries /\ u.pos = t.pos + 1
      /\ u.keep = t.keep
  BY <1>4, <1>5, <1>6, AddChildType
<1>8. Located(conf, u, "scan")
  BY <1>1, <1>2, <1>7 DEF Located, TaskOK
<1>9. pc' = [pc EXCEPT ![w] = "scan"]
  BY DEF Scan, TypeInv, TasksOK
<1>10. TasksOK'
  BY <1>6, <1>7, <1>8, <1>9, OneTask DEF Scan, TypeInv, Location
<1> QED
  BY <1>10 DEF Scan, TypeInv, PoolOK, StreamOK

LEMMA ScanDoneType ==
    ASSUME TypeInv, NEW w \in Worker, ScanDone(w)
    PROVE  TypeInv'
<1>1. TasksOK'
  BY DEF ScanDone, TypeInv, TasksOK, Location, Located
<1> QED
  BY <1>1 DEF ScanDone, TypeInv, PoolOK, StreamOK

LEMMA SpawnType ==
    ASSUME TypeInv, NEW w \in Worker, Spawn(w)
    PROVE  TypeInv'
<1>1. IsABag(task[w].spawn) /\ BagToSet(task[w].spawn) \subseteq Item
  BY DEF TypeInv, TasksOK, TaskOK
<1>2. PoolOK'
  BY <1>1, BagMerge DEF Spawn, TypeInv, PoolOK
<1>3. TasksOK'
  BY ReturnKeepsTasks DEF Spawn
<1> QED
  BY <1>2, <1>3 DEF Spawn, TypeInv, StreamOK

LEMMA ReceiveType == ASSUME TypeInv, Receive PROVE TypeInv'
<1>1. Head(chan) \in Batch /\ Tail(chan) \in Seq(Batch)
  BY HeadTailProperties DEF Receive, TypeInv, StreamOK
<1>2. StreamOK'
  <2>1. /\ IsABag(received (+) SetToBag({Head(chan)}))
        /\ BagToSet(received (+) SetToBag({Head(chan)})) = BagToSet(received) \cup {Head(chan)}
    BY BagAdd DEF TypeInv, StreamOK
  <2> QED
    BY <1>1, <2>1 DEF Receive, TypeInv, StreamOK
<1> QED
  BY <1>2 DEF Receive, TypeInv, TasksOK, PoolOK

LEMMA SortSwapType ==
    ASSUME TypeInv, NEW w \in Worker, NEW i, NEW j, SortSwap(w, i, j)
    PROVE  TypeInv'
<1> DEFINE t  == task[w]
           q  == [t.entries EXCEPT ![i] = t.entries[j]]
           q2 == [q EXCEPT ![j] = t.entries[i]]
<1>1. TaskOK(t) /\ t.entries \in Seq(Dirent) /\ i \in DOMAIN t.entries /\ j \in DOMAIN t.entries
  BY DEF SortSwap, TypeInv, TasksOK, TaskOK
<1>2. Len(t.entries) \in Nat /\ i \in 1 .. Len(t.entries) /\ j \in 1 .. Len(t.entries)
  BY <1>1, LenProperties
<1>3. t.entries[i] \in Dirent /\ t.entries[j] \in Dirent
  BY <1>1, <1>2, ElementOfSeq
<1>4. q \in Seq(Dirent) /\ Len(q) = Len(t.entries)
  BY <1>1, <1>2, <1>3, ExceptSeq
<1> HIDE DEF q
<1>5. q2 \in Seq(Dirent) /\ Len(q2) = Len(t.entries)
  BY <1>2, <1>3, <1>4, ExceptSeq
<1>6. task' = [task EXCEPT ![w] = [t EXCEPT !.entries = q2]] /\ conf' = conf
  BY DEF SortSwap, q
<1> HIDE DEF q2
<1> DEFINE s == [t EXCEPT !.entries = q2]
<1>7. /\ TaskOK(s) /\ s.entries = q2 /\ s.item = t.item
      /\ s.pos = t.pos /\ s.keep = t.keep
  BY <1>1, <1>5, EntriesType
<1> HIDE DEF s
<1>8. pc[w] \in Location /\ Located(conf, t, pc[w])
  BY DEF TypeInv, TasksOK
<1>9. Located(conf, s, pc[w])
  BY <1>5, <1>7, <1>8 DEF Located
<1>10. pc' = [pc EXCEPT ![w] = pc[w]]
  BY DEF SortSwap, TypeInv, TasksOK
<1>11. TasksOK'
  BY <1>6, <1>7, <1>8, <1>9, <1>10, OneTask DEF TypeInv, s
<1> QED
  BY <1>11 DEF SortSwap, TypeInv, PoolOK, StreamOK

LEMMA StepType ==
    ASSUME TypeInv, NEW w \in Worker, Step(w)
    PROVE  TypeInv'
BY ReadRecordType, ReadDoneType, ReadFailsType, ResolveType, PanicType,
   ResolveDoneType, SendErrType, SendType, SendResolvedType, ScanType,
   ScanDoneType, SpawnType
   DEF Step

LEMMA NextType == ASSUME TypeInv, [Next]_vars PROVE TypeInv'
<1>1. CASE Walk
  BY <1>1, WalkType
<1>2. ASSUME NEW w \in Worker, NEW it \in BagToSet(pending), Take(w, it) PROVE TypeInv'
  BY <1>2, TakeType
<1>3. ASSUME NEW w \in Worker, Step(w) PROVE TypeInv'
  BY <1>3, StepType
<1>4. CASE Close
  BY <1>4 DEF Close, TypeInv, TasksOK, PoolOK, StreamOK
<1>5. CASE Receive
  BY <1>5, ReceiveType
<1>6. CASE RangeEnds \/ Wait
  BY <1>6 DEF RangeEnds, Wait, TypeInv, TasksOK, PoolOK, StreamOK
<1>7. CASE Break
  BY <1>7 DEF Break, TypeInv, TasksOK, PoolOK, StreamOK
<1>8. ASSUME NEW w \in Worker, NEW i, NEW j, SortSwap(w, i, j) PROVE TypeInv'
  BY <1>8, SortSwapType
<1>9. CASE Halted \/ UNCHANGED vars
  BY <1>9 DEF Halted, vars, TypeInv, TasksOK, PoolOK, StreamOK
<1> QED
  BY <1>1, <1>2, <1>3, <1>4, <1>5, <1>6, <1>7, <1>8, <1>9 DEF Next, Consume

\* Every state of the walker is well typed, and the two indices of visitSym's
\* in-place filter (walkman.go:311-403) never leave the listing or cross.
THEOREM TypeCorrect == Spec => []TypeOK
<1>1. Init => TypeInv
  BY InitType
<1>2. TypeInv /\ [Next]_vars => TypeInv'
  BY NextType
<1>3. TypeInv => TypeOK
  BY TypeInvImpliesTypeOK
<1> QED
  BY <1>1, <1>2, <1>3, PTL DEF Spec

-----------------------------------------------------------------------------
(***************************************************************************)
(* The consumer sees the batch that lists a directory before the batch of  *)
(* that directory (ParentFirst), whatever the tree, the number of workers, *)
(* the capacity of the channel, the stealing, and the sorting of entries   *)
(* the consumer does while visit still reads them.                         *)
(***************************************************************************)

Arrived == BagToSet(received)

\* The batches some worker has sent, whether or not the consumer has them.
Sent == Arrived \cup Range(chan)

\* One of the batches S lists the directory p, or p is the walk's root.
Listed(S, p) == p = << >> \/ \E a \in S : p \in ChildrenOf(a)

\* What precedes the i-th buffered batch on its way to the consumer.
Before(i) == Arrived \cup {chan[k] : k \in 1 .. i - 1}

Offspring(t, e) == Append(t.item.path, e.name)

\* The children visitSym has collected are directories it has kept.
Collected(t) ==
    \A it \in BagToSet(t.spawn) : \E i \in 1 .. t.keep - 1 :
        t.entries[i].typ = "dir" /\ it.path = Offspring(t, t.entries[i])

(***************************************************************************)
(* What a task standing at `at' owes the batches S sent so far.  Before a  *)
(* send the children are in the batch about to be sent; after it they are  *)
(* in one that was.  A consumer's sort moves entries about in visit's run, *)
(* but every entry is still one of those it sent.                          *)
(***************************************************************************)
Announces(S, t, at) ==
    /\ Listed(S, t.item.path)
    /\ at \in {"idle", "read", "sendErr"} => BagToSet(t.spawn) = {}
    /\ at = "resolve" => Collected(t)
    /\ at = "send" => \A it \in BagToSet(t.spawn) : it.path \in ChildrenOf(BatchOf(t))
    /\ at \in {"scan", "spawn"} => \A it \in BagToSet(t.spawn) : Listed(S, it.path)
    /\ at = "scan" => \E b \in S : b.dir = t.item.path /\ Range(t.entries) \subseteq b.entries

StreamOrder ==
    /\ Len(chan) <= ResultBuffSize
    /\ \A b \in Arrived : Listed(Arrived, b.dir)
    /\ \A i \in 1 .. Len(chan) : Listed(Before(i), chan[i].dir)

PoolOrder == \A it \in BagToSet(pending) : Listed(Sent, it.path)

TasksOrder == \A w \in Worker : Announces(Sent, task[w], pc[w])

OrderInv == StreamOrder /\ PoolOrder /\ TasksOrder

-----------------------------------------------------------------------------
(* Sending and receiving                                                   *)

LEMMA ListedMore ==
    ASSUME NEW S, NEW T, S \subseteq T, NEW p, Listed(S, p)
    PROVE  Listed(T, p)
BY DEF Listed

LEMMA AnnouncesMore ==
    ASSUME NEW S, NEW T, S \subseteq T, NEW t, NEW at, Announces(S, t, at)
    PROVE  Announces(T, t, at)
BY ListedMore DEF Announces

LEMMA PoolMore ==
    ASSUME PoolOrder, Sent \subseteq Sent', pending' = pending
    PROVE  PoolOrder'
BY ListedMore DEF PoolOrder

\* A step of one worker, which may have sent a batch, changes only its own debts.
LEMMA OneDebt ==
    ASSUME TypeInv, TasksOrder, NEW w \in Worker, NEW t, NEW at,
           task' = [task EXCEPT ![w] = t], pc' = [pc EXCEPT ![w] = at],
           Sent \subseteq Sent', Announces(Sent', t, at)
    PROVE  TasksOrder'
<1> SUFFICES ASSUME NEW v \in Worker
             PROVE  Announces(Sent', task'[v], pc'[v])
  BY DEF TasksOrder
<1>1. CASE v = w
  <2>1. task'[v] = t /\ pc'[v] = at
    BY <1>1 DEF TypeInv, TasksOK
  <2> QED
    BY <2>1
<1>2. CASE v # w
  <2>1. task'[v] = task[v] /\ pc'[v] = pc[v]
    BY <1>2 DEF TypeInv, TasksOK
  <2>2. Announces(Sent, task[v], pc[v])
    BY DEF TasksOrder
  <2> QED
    BY <2>1, <2>2, AnnouncesMore
<1> QED
  BY <1>1, <1>2

\* A batch whose directory is listed can be sent.
LEMMA DeliverOrder ==
    ASSUME TypeInv, StreamOrder, NEW b \in Batch, Listed(Sent, b.dir), Deliver(b)
    PROVE  StreamOrder' /\ Sent' = Sent \cup {b}
<1>1. chan \in Seq(Batch) /\ Len(chan) \in Nat /\ DOMAIN chan = 1 .. Len(chan)
  BY LenProperties DEF TypeInv, StreamOK
<1>2. CASE /\ Len(chan) < ResultBuffSize
           /\ chan' = Append(chan, b)
           /\ UNCHANGED received
  <2>1. /\ Len(chan') = Len(chan) + 1
        /\ \A i \in 1 .. Len(chan) : chan'[i] = chan[i]
        /\ chan'[Len(chan) + 1] = b
        /\ DOMAIN chan' = 1 .. Len(chan) + 1
    BY <1>1, <1>2, AppendProperties, LenProperties
  <2>2. Arrived' = Arrived
    BY <1>2 DEF Arrived
  <2>3. Sent' = Sent \cup {b}
    BY <1>1, <2>1, <2>2 DEF Sent, Range
  <2>4. ASSUME NEW i \in 1 .. Len(chan')
        PROVE  Listed(Before(i)', chan'[i].dir)
    <3>1. CASE i = Len(chan) + 1
      <4>1. Sent \subseteq Before(i)'
        BY <1>1, <2>1, <2>2, <3>1 DEF Before, Sent, Range
      <4> QED
        BY <2>1, <3>1, <4>1, ListedMore
    <3>2. CASE i \in 1 .. Len(chan)
      <4>1. Before(i) \subseteq Before(i)'
        BY <1>1, <2>1, <2>2, <3>2 DEF Before
      <4>2. Listed(Before(i), chan[i].dir)
        BY <3>2 DEF StreamOrder
      <4> QED
        BY <2>1, <3>2, <4>1, <4>2, ListedMore
    <3> QED
      BY <1>1, <2>1, <3>1, <3>2
  <2>5. Len(chan') <= ResultBuffSize
    BY <1>1, <1>2, <2>1, WalkmanAssumption
  <2> QED
    BY <2>2, <2>3, <2>4, <2>5 DEF StreamOrder
<1>3. CASE /\ ResultBuffSize = 0
           /\ received' = received (+) SetToBag({b})
           /\ UNCHANGED chan
  <2>1. Arrived' = Arrived \cup {b}
    BY <1>3, BagAdd DEF Arrived, TypeInv, StreamOK
  <2>2. Len(chan) = 0 /\ DOMAIN chan = {}
    BY <1>1, <1>3 DEF StreamOrder
  <2>3. Sent = Arrived /\ Sent' = Sent \cup {b}
    BY <1>3, <2>1, <2>2 DEF Sent, Range
  <2>4. \A a \in Arrived' : Listed(Arrived', a.dir)
    BY <2>1, <2>3, ListedMore DEF StreamOrder
  <2> QED
    BY <1>3, <2>2, <2>3, <2>4 DEF StreamOrder
<1> QED
  BY <1>2, <1>3 DEF Deliver

\* The channel is first in, first out.
LEMMA ReceiveOrder ==
    ASSUME TypeInv, StreamOrder, Receive
    PROVE  StreamOrder' /\ Sent' = Sent
<1>1. /\ chan \in Seq(Batch) /\ Len(chan) \in Nat \ {0} /\ DOMAIN chan = 1 .. Len(chan)
      /\ chan' = Tail(chan) /\ Head(chan) = chan[1]
  BY LenProperties, EmptySeq, HeadTailProperties DEF Receive, TypeInv, StreamOK
<1>2. /\ Len(chan') = Len(chan) - 1 /\ DOMAIN chan' = 1 .. Len(chan) - 1
      /\ \A i \in 1 .. Len(chan) - 1 : chan'[i] = chan[i + 1]
  BY <1>1, HeadTailProperties, LenProperties
<1>3. Arrived' = Arrived \cup {chan[1]}
  BY <1>1, BagAdd DEF Receive, Arrived, TypeInv, StreamOK
<1>4. Sent' = Sent
  <2>1. Range(chan) = {chan[1]} \cup Range(chan')
    <3>1. \A k \in 1 .. Len(chan) : k = 1 \/ (k - 1 \in 1 .. Len(chan) - 1 /\ chan[k] = chan'[k - 1])
      BY <1>1, <1>2
    <3>2. ASSUME NEW k \in 1 .. Len(chan) PROVE chan[k] \in {chan[1]} \cup Range(chan')
      BY <1>2, <3>1 DEF Range
    <3>3. Range(chan') \subseteq Range(chan)
      BY <1>1, <1>2 DEF Range
    <3>4. Range(chan) \subseteq {chan[1]} \cup Range(chan')
      BY <1>1, <3>2 DEF Range
    <3>5. chan[1] \in Range(chan)
      BY <1>1 DEF Range
    <3> QED
      BY <3>3, <3>4, <3>5
  <2> QED
    BY <1>3, <2>1 DEF Sent
<1>5. Listed(Arrived', chan[1].dir)
  <2>1. 1 \in 1 .. Len(chan)
    BY <1>1
  <2>2. Listed(Before(1), chan[1].dir)
    BY <2>1 DEF StreamOrder
  <2>3. Before(1) \subseteq Arrived'
    <3>1. 1 .. 1 - 1 = {}
      OBVIOUS
    <3> QED
      BY <1>3, <3>1 DEF Before
  <2> QED
    BY <2>2, <2>3, ListedMore
<1>6. \A b \in Arrived' : Listed(Arrived', b.dir)
  BY <1>3, <1>5, ListedMore DEF StreamOrder
<1>7. ASSUME NEW i \in 1 .. Len(chan')
      PROVE  Listed(Before(i)', chan'[i].dir)
  <2>1. i + 1 \in 1 .. Len(chan) /\ chan'[i] = chan[i + 1]
    BY <1>1, <1>2
  <2>2. Before(i + 1) \subseteq Before(i)'
    <3>1. ASSUME NEW k \in 1 .. i PROVE chan[k] \in Before(i)'
      <4>1. CASE k = 1
        BY <1>3, <4>1 DEF Before
      <4>2. CASE k # 1
        <5>1. k - 1 \in 1 .. i - 1 /\ chan'[k - 1] = chan[k]
          BY <1>1, <1>2, <4>2
        <5> QED
          BY <5>1 DEF Before
      <4> QED
        BY <4>1, <4>2
    <3> QED
      BY <1>3, <3>1 DEF Before
  <2>3. Listed(Before(i + 1), chan[i + 1].dir)
    BY <2>1 DEF StreamOrder
  <2> QED
    BY <2>1, <2>2, <2>3, ListedMore
<1>8. Len(chan') <= ResultBuffSize
  BY <1>1, <1>2, WalkmanAssumption DEF StreamOrder
<1> QED
  BY <1>4, <1>6, <1>7, <1>8 DEF StreamOrder

-----------------------------------------------------------------------------
(* What visitSym's pass collects                                           *)

\* The write at keep leaves the entries kept before it alone.
LEMMA KeepCollects ==
    ASSUME NEW t, TaskOK(t), NEW e \in Dirent, Collected(t),
           t.keep <= t.pos, t.pos <= Len(t.entries)
    PROVE  Collected(Keep(t, e))
<1> DEFINE u == Keep(t, e)
<1>1. /\ u.item = t.item /\ u.spawn = t.spawn /\ u.keep = t.keep + 1
      /\ u.entries = [t.entries EXCEPT ![t.keep] = e]
  BY KeepType
<1>2. t.keep \in Nat \ {0} /\ Len(t.entries) \in Nat /\ DOMAIN t.entries = 1 .. Len(t.entries)
  BY LenProperties DEF TaskOK
<1> HIDE DEF u
<1>3. ASSUME NEW it \in BagToSet(t.spawn)
      PROVE  \E i \in 1 .. t.keep : u.entries[i].typ = "dir" /\ it.path = Offspring(t, u.entries[i])
  <2>1. PICK i \in 1 .. t.keep - 1 : t.entries[i].typ = "dir" /\ it.path = Offspring(t, t.entries[i])
    BY DEF Collected
  <2>2. i \in 1 .. t.keep /\ u.entries[i] = t.entries[i]
    BY <1>1, <1>2
  <2> QED
    BY <2>1, <2>2
<1>4. u.keep - 1 = t.keep
  BY <1>1, <1>2
<1>5. \A x : Offspring(u, x) = Offspring(t, x)
  BY <1>1 DEF Offspring
<1>6. Collected(u)
  BY <1>1, <1>3, <1>4, <1>5 DEF Collected
<1> QED
  BY <1>6 DEF u

LEMMA KeepAndCollect ==
    ASSUME NEW t, TaskOK(t), NEW e \in Dirent, Collected(t), e.typ = "dir",
           t.keep <= t.pos, t.pos <= Len(t.entries),
           NEW it \in Item, it.path = Offspring(t, e)
    PROVE  Collected(AddChild(Keep(t, e), it))
<1> DEFINE k == Keep(t, e)
           u == AddChild(k, it)
<1>1. /\ TaskOK(k) /\ k.item = t.item /\ k.keep = t.keep + 1
      /\ k.entries = [t.entries EXCEPT ![t.keep] = e]
  BY KeepType
<1>2. Collected(k)
  BY KeepCollects
<1>3. t.keep \in Nat \ {0} /\ t.keep \in DOMAIN t.entries
  <2>1. /\ t.keep \in Nat \ {0} /\ t.pos \in Nat
        /\ Len(t.entries) \in Nat /\ DOMAIN t.entries = 1 .. Len(t.entries)
    BY LenProperties DEF TaskOK
  <2> QED
    BY <2>1
<1> HIDE DEF k
<1>4. /\ u.item = k.item /\ u.entries = k.entries /\ u.keep = k.keep
      /\ BagToSet(u.spawn) = BagToSet(k.spawn) \cup {it}
  BY <1>1, AddChildType
<1> HIDE DEF u
<1>5. t.keep \in 1 .. k.keep - 1
  BY <1>1, <1>3
<1>6. k.entries[t.keep] = e
  BY <1>1, <1>3
<1>7. \A x : Offspring(u, x) = Offspring(t, x) /\ Offspring(k, x) = Offspring(t, x)
  BY <1>1, <1>4 DEF Offspring
<1>8. ASSUME NEW x \in BagToSet(u.spawn)
      PROVE  \E i \in 1 .. u.keep - 1 : u.entries[i].typ = "dir" /\ x.path = Offspring(u, u.entries[i])
  <2>1. CASE x \in BagToSet(k.spawn)
    BY <1>2, <1>4, <1>7, <2>1 DEF Collected
  <2>2. CASE x = it
    <3>1. t.keep \in 1 .. u.keep - 1 /\ u.entries[t.keep] = e
      BY <1>4, <1>5, <1>6
    <3> QED
      BY <1>7, <2>2, <3>1
  <2> QED
    BY <1>4, <2>1, <2>2
<1>9. Collected(u)
  BY <1>8 DEF Collected
<1> QED
  BY <1>9 DEF u, k

\* A dropped entry, or an error about it, changes neither the kept nor the spawn.
LEMMA SameCollects ==
    ASSUME NEW t, NEW u, Collected(t), u.item = t.item, u.spawn = t.spawn,
           u.keep = t.keep, u.entries = t.entries
    PROVE  Collected(u)
BY DEF Collected, Offspring

LEMMA DropCollects ==
    ASSUME NEW t, TaskOK(t), NEW e \in Dirent, NEW kind \in ErrKind, Collected(t)
    PROVE  Collected(Advance(StoreDirErr(t, e, kind)))
<1> DEFINE s == StoreDirErr(t, e, kind)
<1>1. /\ TaskOK(s) /\ s.item = t.item /\ s.spawn = t.spawn /\ s.entries = t.entries
      /\ s.keep = t.keep
  BY StoreDirErrType
<1> HIDE DEF s
<1>2. /\ Advance(s).item = s.item /\ Advance(s).spawn = s.spawn
      /\ Advance(s).entries = s.entries /\ Advance(s).keep = s.keep
  BY <1>1, AdvanceType
<1>3. Collected(Advance(s))
  BY <1>1, <1>2, SameCollects
<1> QED
  BY <1>3 DEF s

LEMMA ReportAndKeepCollects ==
    ASSUME NEW t, TaskOK(t), NEW e \in Dirent, NEW kind \in ErrKind, Collected(t),
           t.keep <= t.pos, t.pos <= Len(t.entries)
    PROVE  Collected(Keep(StoreDirErr(t, e, kind), e))
<1> DEFINE s == StoreDirErr(t, e, kind)
<1>1. /\ TaskOK(s) /\ s.item = t.item /\ s.spawn = t.spawn /\ s.entries = t.entries
      /\ s.keep = t.keep /\ s.pos = t.pos
  BY StoreDirErrType
<1> HIDE DEF s
<1>2. Collected(s)
  BY <1>1, SameCollects
<1>3. Collected(Keep(s, e))
  BY <1>1, <1>2, KeepCollects
<1> QED
  BY <1>3 DEF s

LEMMA FollowLinkCollects ==
    ASSUME NEW c \in Configs, NEW t, TaskOK(t), t.item.dir \in Dir, Collected(t),
           NEW e \in Dirent, NEW target \in Dir,
           t.keep <= t.pos, t.pos <= Len(t.entries)
    PROVE  Collected(FollowLink(c, t, e, target))
<1> DEFINE d     == [e EXCEPT !.typ = "dir"]
           chain == PushAncestor(c.id[target].ino, c.id[target].dev, t.item.ancestor)
           child == Child(c, t.item, e, chain)
<1>1. d \in Dirent /\ d.typ = "dir" /\ d.name = e.name
  BY DEF Dirent, DType
<1>2. chain \in Seq(Identity)
  <2>1. c.id[target] \in Identity
    BY ConfTypes
  <2>2. [ino |-> c.id[target].ino, dev |-> c.id[target].dev] \in Identity
    BY <2>1 DEF Identity
  <2> QED
    BY <2>2, AppendProperties DEF PushAncestor, TaskOK, Item
<1> HIDE DEF chain
<1>3. child \in Item
  BY <1>2, ChildType DEF TaskOK
<1>4. child.path = Offspring(t, d)
  BY <1>1 DEF Child, Offspring
<1> HIDE DEF child, d
<1>5. Collected(Keep(t, d)) /\ Collected(AddChild(Keep(t, d), child))
  BY <1>1, <1>3, <1>4, KeepCollects, KeepAndCollect
<1>6. FollowLink(c, t, e, target) \in {Keep(t, d), AddChild(Keep(t, d), child)}
  BY DEF FollowLink, child, chain, d
<1> QED
  BY <1>5, <1>6

LEMMA KeepEntryCollects ==
    ASSUME NEW c \in Configs, NEW t, TaskOK(t), t.item.dir \in Dir, Collected(t),
           NEW e \in Dirent, ~ DerefsNil(c, t, e),
           t.keep <= t.pos, t.pos <= Len(t.entries)
    PROVE  Collected(KeepEntry(c, t, e))
<1> DEFINE up    == t.item.ancestor
           chain == PushAncestor(e.ino, up[Len(up)].dev, up)
           child == Child(c, t.item, e, chain)
<1>1. CASE e.typ # "dir" \/ AtMaxDepth(c, t.item.depth)
  BY <1>1, KeepCollects DEF KeepEntry
<1>2. CASE e.typ = "dir" /\ ~ AtMaxDepth(c, t.item.depth)
  <2>1. up \in Seq(Identity) /\ up # << >>
    BY <1>2 DEF DerefsNil, TaskOK, Item
  <2>2. up[Len(up)] \in Identity
    BY <2>1, EmptySeq, ElementOfSeq
  <2>3. [ino |-> e.ino, dev |-> up[Len(up)].dev] \in Identity
    BY <2>2 DEF Identity, Dirent
  <2>4. chain \in Seq(Identity)
    BY <2>1, <2>3, AppendProperties DEF PushAncestor
  <2> HIDE DEF chain
  <2>5. child \in Item
    BY <2>4, ChildType DEF TaskOK
  <2>6. child.path = Offspring(t, e)
    BY DEF Child, Offspring
  <2> HIDE DEF child
  <2>7. Collected(AddChild(Keep(t, e), child))
    BY <1>2, <2>5, <2>6, KeepAndCollect
  <2>8. KeepEntry(c, t, e) = AddChild(Keep(t, e), child)
    BY <1>2 DEF KeepEntry, child, chain
  <2> QED
    BY <2>7, <2>8
<1> QED
  BY <1>1, <1>2

-----------------------------------------------------------------------------
(* Each action keeps the order                                             *)

LEMMA InitOrder == Init => OrderInv
<1> SUFFICES ASSUME Init PROVE OrderInv
  OBVIOUS
<1>1. Arrived = {} /\ Len(chan) = 0 /\ DOMAIN chan = {}
  BY EmptyBagIsEmpty DEF Init, Arrived
<1>2. StreamOrder
  BY <1>1, WalkmanAssumption DEF StreamOrder
<1>3. PoolOrder
  BY EmptyBagIsEmpty DEF Init, PoolOrder
<1>4. NoTask.item.path = << >> /\ BagToSet(NoTask.spawn) = {}
  BY EmptyBagIsEmpty DEF NoTask, NewTask
<1>5. TasksOrder
  BY <1>4 DEF Init, TasksOrder, Announces, Listed
<1> QED
  BY <1>2, <1>3, <1>5 DEF OrderInv

\* Neither stream changes, so what was sent and in which order does not either.
LEMMA SameStream ==
    ASSUME StreamOrder, UNCHANGED <<chan, received>>
    PROVE  StreamOrder' /\ Sent' = Sent
BY DEF StreamOrder, Sent, Arrived, Before

LEMMA WalkOrder == ASSUME TypeInv, OrderInv, Walk PROVE OrderInv'
<1>1. StreamOrder' /\ Sent' = Sent
  BY SameStream DEF OrderInv, Walk
<1>2. \A it \in BagToSet(pending') : it.path = << >>
  BY BagsOfSets DEF Walk
<1>3. PoolOrder'
  BY <1>2 DEF PoolOrder, Listed
<1>4. TasksOrder'
  BY <1>1 DEF OrderInv, TasksOrder, Walk
<1> QED
  BY <1>1, <1>3, <1>4 DEF OrderInv

LEMMA TakeOrder ==
    ASSUME TypeInv, OrderInv, NEW w \in Worker, NEW it \in BagToSet(pending), Take(w, it)
    PROVE  OrderInv'
<1>1. StreamOrder' /\ Sent' = Sent
  BY SameStream DEF OrderInv, Take
<1>2. BagToSet(pending') \subseteq BagToSet(pending)
  BY BagTake DEF Take, TypeInv, PoolOK
<1>3. PoolOrder'
  BY <1>1, <1>2 DEF OrderInv, PoolOrder
<1>4. NewTask(it).item = it /\ BagToSet(NewTask(it).spawn) = {}
  BY EmptyBagIsEmpty DEF NewTask
<1>5. Announces(Sent, NewTask(it), "read")
  BY <1>4 DEF Announces, OrderInv, PoolOrder
<1>6. TasksOrder'
  BY <1>1, <1>5, OneDebt DEF Take, OrderInv
<1> QED
  BY <1>1, <1>3, <1>6 DEF OrderInv

\* A step by which worker w sends and spawns nothing and goes on to u at `at'.
LEMMA QuietOrder ==
    ASSUME TypeInv, OrderInv, NEW w \in Worker, NEW u, NEW at,
           task' = [task EXCEPT ![w] = u], pc' = [pc EXCEPT ![w] = at],
           UNCHANGED <<chan, received, pending>>, Announces(Sent, u, at)
    PROVE  OrderInv'
<1>1. StreamOrder' /\ Sent' = Sent
  BY SameStream DEF OrderInv
<1>2. PoolOrder'
  BY <1>1, PoolMore DEF OrderInv
<1>3. TasksOrder'
  BY <1>1, OneDebt DEF OrderInv
<1> QED
  BY <1>1, <1>2, <1>3 DEF OrderInv

LEMMA ReadRecordOrder ==
    ASSUME TypeInv, OrderInv, NEW w \in Worker, ReadRecord(w)
    PROVE  OrderInv'
<1> DEFINE t == task[w]
           r == conf.list[t.item.dir][t.pos]
<1>1. TaskOK(t) /\ Announces(Sent, t, "read")
  BY DEF ReadRecord, TypeInv, TasksOK, OrderInv, TasksOrder
<1>2. Advance(t).item = t.item /\ Advance(t).spawn = t.spawn
  BY <1>1 DEF Advance, TaskOK
<1>3. OnEntry(t, r).item = t.item /\ OnEntry(t, r).spawn = t.spawn
  BY <1>1 DEF OnEntry, TaskOK
<1>4. PICK u : u.item = t.item /\ u.spawn = t.spawn /\ task' = [task EXCEPT ![w] = u]
  BY <1>2, <1>3 DEF ReadRecord
<1>5. Announces(Sent, u, "read")
  BY <1>1, <1>4 DEF Announces
<1>6. pc' = [pc EXCEPT ![w] = "read"]
  BY DEF ReadRecord, TypeInv, TasksOK
<1> QED
  BY <1>4, <1>5, <1>6, QuietOrder DEF ReadRecord

LEMMA ReadDoneOrder ==
    ASSUME TypeInv, OrderInv, NEW w \in Worker, ReadDone(w)
    PROVE  OrderInv'
<1> DEFINE t == task[w]
           s == [t EXCEPT !.pos = 1]
<1>1. TaskOK(t) /\ Announces(Sent, t, "read")
  BY DEF ReadDone, TypeInv, TasksOK, OrderInv, TasksOrder
<1>2. s.item = t.item /\ s.spawn = t.spawn
  BY <1>1, PosType
<1>3. task' = [task EXCEPT ![w] = s] /\ UNCHANGED <<chan, received, pending>>
  BY DEF ReadDone
<1> HIDE DEF s
<1>4. Listed(Sent, s.item.path) /\ BagToSet(s.spawn) = {}
  BY <1>1, <1>2 DEF Announces
<1>5. Announces(Sent, s, "resolve") /\ Announces(Sent, s, "send")
  BY <1>4 DEF Announces, Collected
<1>6. CASE conf.followLinks
  BY <1>3, <1>5, <1>6, QuietOrder DEF ReadDone
<1>7. CASE ~ conf.followLinks
  BY <1>3, <1>5, <1>7, QuietOrder DEF ReadDone
<1> QED
  BY <1>6, <1>7

LEMMA ReadFailsOrder ==
    ASSUME TypeInv, OrderInv, NEW w \in Worker, ReadFails(w)
    PROVE  OrderInv'
<1> DEFINE t == task[w]
           s == [NewTask(t.item) EXCEPT !.errs = {[at |-> t.item.path, err |-> "unreadable"]}]
<1>1. Announces(Sent, t, "read")
  BY DEF ReadFails, OrderInv, TasksOrder
<1>2. s.item = t.item /\ BagToSet(s.spawn) = {}
  BY EmptyBagIsEmpty DEF NewTask
<1>3. task' = [task EXCEPT ![w] = s] /\ pc' = [pc EXCEPT ![w] = "sendErr"]
  BY DEF ReadFails
<1> HIDE DEF s
<1>4. Announces(Sent, s, "sendErr")
  BY <1>1, <1>2 DEF Announces
<1> QED
  BY <1>3, <1>4, QuietOrder DEF ReadFails

LEMMA ResolveOrder ==
    ASSUME TypeInv, OrderInv, NEW w \in Worker, Resolve(w)
    PROVE  OrderInv'
<1> DEFINE t      == task[w]
           e      == t.entries[t.pos]
           target == conf.to[t.item.dir][e.name]
<1>1. /\ TaskOK(t) /\ t.item.dir \in Dir
      /\ t.keep <= t.pos /\ t.pos \in 1 .. Len(t.entries) /\ t.pos <= Len(t.entries)
  <2>1. /\ TaskOK(t) /\ t.item.dir \in Dir /\ t.keep <= t.pos
        /\ t.pos \in DOMAIN t.entries
    BY DEF Resolve, TypeInv, TasksOK, Located
  <2>2. Len(t.entries) \in Nat /\ DOMAIN t.entries = 1 .. Len(t.entries)
    BY <2>1, LenProperties DEF TaskOK
  <2> QED
    BY <2>1, <2>2
<1>2. e \in Dirent /\ conf \in Configs
  BY <1>1, ElementOfSeq DEF TaskOK, TypeInv
<1>3. Listed(Sent, t.item.path) /\ Collected(t)
  BY DEF Resolve, OrderInv, TasksOrder, Announces
<1>4. PICK u : Resolved(t, u) /\ Collected(u) /\ task' = [task EXCEPT ![w] = u]
  <2>1. CASE task' = [task EXCEPT ![w] = Advance(StoreDirErr(t, e, "dangling"))]
    <3>1. /\ Resolved(t, Advance(StoreDirErr(t, e, "dangling")))
          /\ Collected(Advance(StoreDirErr(t, e, "dangling")))
      BY <1>1, <1>2, <1>3, DropType, DropCollects DEF ErrKind
    <3> QED
      BY <2>1, <3>1
  <2>2. CASE task' = [task EXCEPT ![w] = Keep(StoreDirErr(t, e, "nosys"), e)]
    <3>1. /\ Resolved(t, Keep(StoreDirErr(t, e, "nosys"), e))
          /\ Collected(Keep(StoreDirErr(t, e, "nosys"), e))
      BY <1>1, <1>2, <1>3, ReportAndKeepType, ReportAndKeepCollects DEF ErrKind
    <3> QED
      BY <2>2, <3>1
  <2>3. CASE task' = [task EXCEPT ![w] = KeepLinkToFile(t, e, target)]
    <3> DEFINE d == [e EXCEPT !.typ = DTypeFromInfo(target)]
    <3>1. d \in Dirent
      BY <1>2 DEF DTypeFromInfo, Dirent, DType
    <3> HIDE DEF d
    <3>2. Resolved(t, Keep(t, d)) /\ Collected(Keep(t, d))
      BY <1>1, <1>3, <3>1, KeepResolves, KeepCollects
    <3> QED
      BY <2>3, <3>2 DEF KeepLinkToFile, d
  <2>4. CASE task' = [task EXCEPT ![w] = Advance(StoreDirErr(t, e, "cycle"))]
    <3>1. /\ Resolved(t, Advance(StoreDirErr(t, e, "cycle")))
          /\ Collected(Advance(StoreDirErr(t, e, "cycle")))
      BY <1>1, <1>2, <1>3, DropType, DropCollects DEF ErrKind
    <3> QED
      BY <2>4, <3>1
  <2>5. CASE target \in Dir /\ task' = [task EXCEPT ![w] = FollowLink(conf, t, e, target)]
    <3>1. Resolved(t, FollowLink(conf, t, e, target))
      BY <1>1, <1>2, <2>5, FollowLinkType
    <3>2. Collected(FollowLink(conf, t, e, target))
      BY <1>1, <1>2, <1>3, <2>5, FollowLinkCollects
    <3> QED
      BY <2>5, <3>1, <3>2
  <2>6. CASE ~ DerefsNil(conf, t, e) /\ task' = [task EXCEPT ![w] = KeepEntry(conf, t, e)]
    <3>1. Resolved(t, KeepEntry(conf, t, e))
      BY <1>1, <1>2, <2>6, KeepEntryType
    <3>2. Collected(KeepEntry(conf, t, e))
      BY <1>1, <1>2, <1>3, <2>6, KeepEntryCollects
    <3> QED
      BY <2>6, <3>1, <3>2
  <2> QED
    BY <2>1, <2>2, <2>3, <2>4, <2>5, <2>6 DEF Resolve
<1>5. Announces(Sent, u, "resolve")
  BY <1>3, <1>4 DEF Announces, Resolved
<1>6. pc' = [pc EXCEPT ![w] = "resolve"]
  BY DEF Resolve, TypeInv, TasksOK
<1> QED
  BY <1>4, <1>5, <1>6, QuietOrder DEF Resolve

LEMMA PanicOrder ==
    ASSUME TypeInv, OrderInv, NEW w \in Worker, PanicOnNil(w)
    PROVE  OrderInv'
<1>1. StreamOrder' /\ Sent' = Sent
  BY SameStream DEF OrderInv, PanicOnNil
<1>2. PoolOrder'
  BY <1>1, PoolMore DEF OrderInv, PanicOnNil
<1>3. TasksOrder'
  BY <1>1 DEF PanicOnNil, OrderInv, TasksOrder, Announces
<1> QED
  BY <1>1, <1>2, <1>3 DEF OrderInv

\* The entries the filter keeps are those of the batch about to be sent.
LEMMA ResolveDoneOrder ==
    ASSUME TypeInv, OrderInv, NEW w \in Worker, ResolveDone(w)
    PROVE  OrderInv'
<1> DEFINE t == task[w]
           q == SubSeq(t.entries, 1, t.keep - 1)
           s == [t EXCEPT !.entries = q]
<1>1. /\ TaskOK(t) /\ t.keep \in Nat \ {0} /\ t.keep <= Len(t.entries) + 1
      /\ t.entries \in Seq(Dirent) /\ Len(t.entries) \in Nat
  <2>1. TaskOK(t) /\ t.keep <= t.pos /\ t.pos = Len(t.entries) + 1
    BY DEF ResolveDone, TypeInv, TasksOK, Located
  <2> QED
    BY <2>1, LenProperties DEF TaskOK
<1>2. /\ q \in Seq(Dirent) /\ DOMAIN q = 1 .. t.keep - 1
      /\ \A i \in 1 .. t.keep - 1 : q[i] = t.entries[i]
  <2>1. \A i \in 1 .. t.keep - 1 : t.entries[i] \in Dirent
    BY <1>1, ElementOfSeq
  <2>2. /\ q \in Seq(Dirent) /\ Len(q) = t.keep - 1
        /\ \A i \in 1 .. t.keep - 1 : q[i] = t.entries[1 + i - 1]
    BY <1>1, <2>1, SubSeqProperties
  <2> QED
    BY <1>1, <2>2, LenProperties
<1>3. task' = [task EXCEPT ![w] = s] /\ pc' = [pc EXCEPT ![w] = "send"]
  BY DEF ResolveDone
<1> HIDE DEF q
<1>4. s.entries = q /\ s.item = t.item /\ s.spawn = t.spawn
  BY <1>1, <1>2, EntriesType
<1> HIDE DEF s
<1>5. Listed(Sent, t.item.path) /\ Collected(t)
  BY DEF ResolveDone, OrderInv, TasksOrder, Announces
<1>6. ASSUME NEW it \in BagToSet(s.spawn) PROVE it.path \in ChildrenOf(BatchOf(s))
  <2>1. PICK i \in 1 .. t.keep - 1 : t.entries[i].typ = "dir" /\ it.path = Offspring(t, t.entries[i])
    BY <1>4, <1>5 DEF Collected
  <2>2. t.entries[i] \in Range(s.entries)
    BY <1>2, <1>4 DEF Range
  <2> QED
    BY <1>4, <2>1, <2>2 DEF BatchOf, ChildrenOf, Offspring
<1>7. Announces(Sent, s, "send")
  BY <1>4, <1>5, <1>6 DEF Announces
<1> QED
  BY <1>3, <1>7, QuietOrder DEF ResolveDone

\* A return leaves no debt.
LEMMA ReturnOrder ==
    ASSUME TypeInv, TasksOrder, NEW w \in Worker, Return(w), Sent \subseteq Sent'
    PROVE  TasksOrder'
<1>1. Announces(Sent', NoTask, "idle")
  BY EmptyBagIsEmpty DEF Announces, NoTask, NewTask, Listed
<1> QED
  BY <1>1, OneDebt DEF Return

LEMMA SendErrOrder ==
    ASSUME TypeInv, OrderInv, NEW w \in Worker, SendErr(w)
    PROVE  OrderInv'
<1> DEFINE b == BatchOf(task[w])
<1>1. b \in Batch
  BY BatchType DEF TypeInv, TasksOK
<1>2. Listed(Sent, b.dir)
  BY DEF OrderInv, TasksOrder, Announces, BatchOf
<1>3. Deliver(b)
  BY DEF SendErr
<1> HIDE DEF b
<1>4. StreamOrder' /\ Sent \subseteq Sent'
  BY <1>1, <1>2, <1>3, DeliverOrder DEF OrderInv
<1>5. PoolOrder'
  BY <1>4, PoolMore DEF OrderInv, SendErr
<1>6. TasksOrder'
  BY <1>4, ReturnOrder DEF OrderInv, SendErr
<1> QED
  BY <1>4, <1>5, <1>6 DEF OrderInv

LEMMA SendOrder ==
    ASSUME TypeInv, OrderInv, NEW w \in Worker, Send(w)
    PROVE  OrderInv'
<1> DEFINE t == task[w]
           b == BatchOf(t)
<1>1. b \in Batch
  BY BatchType DEF TypeInv, TasksOK
<1>2. /\ b.dir = t.item.path /\ b.entries = Range(t.entries)
  BY DEF BatchOf
<1>3. /\ Listed(Sent, t.item.path)
      /\ \A it \in BagToSet(t.spawn) : it.path \in ChildrenOf(b)
  BY DEF Send, OrderInv, TasksOrder, Announces
<1>4. Deliver(b)
  BY DEF Send
<1> HIDE DEF b
<1>5. StreamOrder' /\ Sent' = Sent \cup {b}
  BY <1>1, <1>2, <1>3, <1>4, DeliverOrder DEF OrderInv
<1>6. PoolOrder'
  BY <1>5, PoolMore DEF OrderInv, Send
<1>7. CASE Return(w)
  <2>1. TasksOrder'
    BY <1>5, <1>7, ReturnOrder DEF OrderInv
  <2> QED
    BY <1>5, <1>6, <2>1 DEF OrderInv
<1>8. CASE pc' = [pc EXCEPT ![w] = "scan"] /\ UNCHANGED task
  <2>1. task' = [task EXCEPT ![w] = t]
    BY <1>8 DEF TypeInv, TasksOK
  <2>2. \A it \in BagToSet(t.spawn) : Listed(Sent', it.path)
    BY <1>3, <1>5 DEF Listed
  <2>3. Announces(Sent', t, "scan")
    BY <1>2, <1>3, <1>5, <2>2, ListedMore DEF Announces
  <2>4. TasksOrder'
    BY <1>5, <1>8, <2>1, <2>3, OneDebt DEF OrderInv
  <2> QED
    BY <1>5, <1>6, <2>4 DEF OrderInv
<1> QED
  BY <1>7, <1>8 DEF Send

LEMMA SendResolvedOrder ==
    ASSUME TypeInv, OrderInv, NEW w \in Worker, SendResolved(w)
    PROVE  OrderInv'
<1> DEFINE t == task[w]
           b == BatchOf(t)
<1>1. b \in Batch
  BY BatchType DEF TypeInv, TasksOK
<1>2. b.dir = t.item.path
  BY DEF BatchOf
<1>3. /\ Listed(Sent, t.item.path)
      /\ \A it \in BagToSet(t.spawn) : it.path \in ChildrenOf(b)
  BY DEF SendResolved, OrderInv, TasksOrder, Announces
<1>4. Deliver(b)
  BY DEF SendResolved
<1> HIDE DEF b
<1>5. StreamOrder' /\ Sent' = Sent \cup {b}
  BY <1>1, <1>2, <1>3, <1>4, DeliverOrder DEF OrderInv
<1>6. PoolOrder'
  BY <1>5, PoolMore DEF OrderInv, SendResolved
<1>7. task' = [task EXCEPT ![w] = t]
  BY DEF SendResolved, TypeInv, TasksOK
<1>8. \A it \in BagToSet(t.spawn) : Listed(Sent', it.path)
  BY <1>3, <1>5 DEF Listed
<1>9. Announces(Sent', t, "spawn")
  BY <1>3, <1>5, <1>8, ListedMore DEF Announces
<1>10. TasksOrder'
  BY <1>5, <1>7, <1>9, OneDebt DEF OrderInv, SendResolved
<1> QED
  BY <1>5, <1>6, <1>10 DEF OrderInv

\* visit's loop finds its children in a batch that has been sent.
LEMMA ScanOrder ==
    ASSUME TypeInv, OrderInv, NEW w \in Worker, Scan(w)
    PROVE  OrderInv'
<1> DEFINE t     == task[w]
           e     == t.entries[t.pos]
           child == Child(conf, t.item, e, << >>)
           a     == Advance(t)
<1>1. /\ TaskOK(t) /\ t.item.dir \in Dir /\ t.pos \in DOMAIN t.entries
  BY DEF Scan, TypeInv, TasksOK, Located
<1>2. e \in Dirent /\ e \in Range(t.entries)
  BY <1>1, LenProperties, ElementOfSeq DEF TaskOK, Range
<1>3. child \in Item
  <2>1. conf \in Configs /\ t.item \in Item /\ << >> \in Seq(Identity)
    BY <1>1 DEF TypeInv, TaskOK
  <2> QED
    BY <1>1, <1>2, <2>1, ChildType
<1>4. Announces(Sent, t, "scan")
  BY DEF Scan, OrderInv, TasksOrder
<1>5. e.typ = "dir" => Listed(Sent, child.path)
  <2>1. PICK b \in Sent : b.dir = t.item.path /\ Range(t.entries) \subseteq b.entries
    BY <1>4 DEF Announces
  <2> QED
    BY <1>2, <2>1 DEF Listed, ChildrenOf, Child
<1>6. TaskOK(a) /\ a.item = t.item /\ a.entries = t.entries /\ a.spawn = t.spawn
  BY <1>1, AdvanceType
<1>7. task' = [task EXCEPT ![w] = IF e.typ = "dir" THEN AddChild(a, child) ELSE a]
  BY DEF Scan
<1>8. pc' = [pc EXCEPT ![w] = "scan"]
  BY DEF Scan, TypeInv, TasksOK
<1> HIDE DEF child, a
<1>9. CASE e.typ = "dir"
  <2> DEFINE u == AddChild(a, child)
  <2>1. /\ u.item = t.item /\ u.entries = t.entries
        /\ BagToSet(u.spawn) = BagToSet(t.spawn) \cup {child}
    BY <1>3, <1>6, AddChildType
  <2>2. task' = [task EXCEPT ![w] = u]
    BY <1>7, <1>9
  <2> HIDE DEF u
  <2>3. Announces(Sent, u, "scan")
    BY <1>4, <1>5, <1>9, <2>1 DEF Announces
  <2> QED
    BY <1>8, <2>2, <2>3, QuietOrder DEF Scan
<1>10. CASE e.typ # "dir"
  <2>1. Announces(Sent, a, "scan")
    BY <1>4, <1>6 DEF Announces
  <2> QED
    BY <1>7, <1>8, <1>10, <2>1, QuietOrder DEF Scan
<1> QED
  BY <1>9, <1>10

LEMMA ScanDoneOrder ==
    ASSUME TypeInv, OrderInv, NEW w \in Worker, ScanDone(w)
    PROVE  OrderInv'
<1>1. task' = [task EXCEPT ![w] = task[w]]
  BY DEF ScanDone, TypeInv, TasksOK
<1>2. Announces(Sent, task[w], "spawn")
  BY DEF ScanDone, OrderInv, TasksOrder, Announces
<1> QED
  BY <1>1, <1>2, QuietOrder DEF ScanDone

LEMMA SpawnOrder ==
    ASSUME TypeInv, OrderInv, NEW w \in Worker, Spawn(w)
    PROVE  OrderInv'
<1>1. StreamOrder' /\ Sent' = Sent
  BY SameStream DEF OrderInv, Spawn
<1>2. \A it \in BagToSet(task[w].spawn) : Listed(Sent, it.path)
  BY DEF Spawn, OrderInv, TasksOrder, Announces
<1>3. BagToSet(pending') = BagToSet(pending) \cup BagToSet(task[w].spawn)
  BY BagMerge DEF Spawn, TypeInv, PoolOK, TasksOK, TaskOK
<1>4. PoolOrder'
  BY <1>1, <1>2, <1>3 DEF OrderInv, PoolOrder
<1>5. TasksOrder'
  BY <1>1, ReturnOrder DEF OrderInv, Spawn
<1> QED
  BY <1>1, <1>4, <1>5 DEF OrderInv

\* Sorting the run visit still scans moves entries about and adds none.
LEMMA SortSwapOrder ==
    ASSUME TypeInv, OrderInv, NEW w \in Worker, NEW i, NEW j, SortSwap(w, i, j)
    PROVE  OrderInv'
<1> DEFINE t  == task[w]
           q  == [t.entries EXCEPT ![i] = t.entries[j], ![j] = t.entries[i]]
           s  == [t EXCEPT !.entries = q]
<1>1. TaskOK(t) /\ i \in DOMAIN t.entries /\ j \in DOMAIN t.entries
  BY DEF SortSwap, TypeInv, TasksOK
<1>2. Range(q) \subseteq Range(t.entries)
  BY <1>1 DEF Range
<1>3. task' = [task EXCEPT ![w] = s]
  BY DEF SortSwap
<1> HIDE DEF q
<1>4. s.item = t.item /\ s.spawn = t.spawn /\ s.entries = q
  BY <1>1 DEF TaskOK
<1> HIDE DEF s
<1>5. Announces(Sent, t, pc[w]) /\ pc[w] \in {"scan", "spawn"}
  BY DEF SortSwap, OrderInv, TasksOrder
<1>6. Announces(Sent, s, pc[w])
  BY <1>2, <1>4, <1>5 DEF Announces
<1>7. pc' = [pc EXCEPT ![w] = pc[w]]
  BY DEF SortSwap, TypeInv, TasksOK
<1> QED
  BY <1>3, <1>6, <1>7, QuietOrder DEF SortSwap

LEMMA StepOrder ==
    ASSUME TypeInv, OrderInv, NEW w \in Worker, Step(w)
    PROVE  OrderInv'
BY ReadRecordOrder, ReadDoneOrder, ReadFailsOrder, ResolveOrder, PanicOrder,
   ResolveDoneOrder, SendErrOrder, SendOrder, SendResolvedOrder, ScanOrder,
   ScanDoneOrder, SpawnOrder
   DEF Step

LEMMA NextOrder == ASSUME TypeInv, OrderInv, [Next]_vars PROVE OrderInv'
<1>1. CASE Walk
  BY <1>1, WalkOrder
<1>2. ASSUME NEW w \in Worker, NEW it \in BagToSet(pending), Take(w, it) PROVE OrderInv'
  BY <1>2, TakeOrder
<1>3. ASSUME NEW w \in Worker, Step(w) PROVE OrderInv'
  BY <1>3, StepOrder
<1>4. CASE Receive
  <2>1. StreamOrder' /\ Sent' = Sent
    BY <1>4, ReceiveOrder DEF OrderInv
  <2> QED
    BY <1>4, <2>1 DEF OrderInv, PoolOrder, TasksOrder, Receive
<1>5. CASE Close \/ RangeEnds \/ Wait \/ Break \/ Halted \/ UNCHANGED vars
  <2>1. UNCHANGED <<pc, task, pending, chan, received>>
    BY <1>5 DEF Close, RangeEnds, Wait, Break, Halted, vars
  <2>2. StreamOrder' /\ Sent' = Sent
    BY <2>1, SameStream DEF OrderInv
  <2> QED
    BY <2>1, <2>2 DEF OrderInv, PoolOrder, TasksOrder
<1>6. ASSUME NEW w \in Worker, NEW i, NEW j, SortSwap(w, i, j) PROVE OrderInv'
  BY <1>6, SortSwapOrder
<1> QED
  BY <1>1, <1>2, <1>3, <1>4, <1>5, <1>6 DEF Next, Consume

\* A directory's batch reaches the consumer only after the batch that lists it
\* (README.md:160): visit and visitSym send before they spawn (walkman.go:265
\* and 283, 414 and 421), and the channel keeps the order of the sends.
THEOREM ParentsComeFirst == Spec => []ParentFirst
<1>1. Init => TypeInv /\ OrderInv
  BY InitType, InitOrder
<1>2. TypeInv /\ OrderInv /\ [Next]_vars => (TypeInv /\ OrderInv)'
  BY NextType, NextOrder
<1>3. OrderInv => ParentFirst
  BY DEF OrderInv, StreamOrder, Arrived, Listed, ParentFirst
<1> QED
  BY <1>1, <1>2, <1>3, PTL DEF Spec

-----------------------------------------------------------------------------
(***************************************************************************)
(* What a path leads to.  DirAt follows a path by a recursive function;    *)
(* that this function exists, and is the only one, is shown by a least     *)
(* counterexample, and what DirAt says of a child's path follows.          *)
(***************************************************************************)

\* A set of natural numbers has a least one.
LEMMA LeastNat ==
    ASSUME NEW T \in SUBSET Nat, T # {}
    PROVE  \E x \in T : \A y \in T : x <= y
<1> DEFINE R == OpToRel(<, Nat)
<1>1. IsWellFoundedOn(R, Nat)
  BY NatLessThanWellFounded
<1>2. \A i, j \in Nat : <<i, j>> \in R <=> i < j
  BY DEF OpToRel
<1> HIDE DEF R
<1>3. PICK x \in T : \A y \in T : ~ (<<y, x>> \in R)
  BY <1>1, WFMin
<1>4. ASSUME NEW y \in T PROVE x <= y
  <2>1. x \in Nat /\ y \in Nat
    OBVIOUS
  <2>2. ~ (y < x)
    BY <1>2, <1>3, <2>1
  <2> QED
    BY <2>1, <2>2
<1> QED
  BY <1>4

\* One name further, from object d.
Entered(c, d, n) == IF d \in Dir THEN c.to[d][n] ELSE "missing"

\* f goes along the first n names of p, object by object.
Trail(c, p, n, f) ==
    f = [k \in 0 .. n |-> IF k = 0 THEN c.root ELSE Entered(c, f[k - 1], p[k])]

LEMMA TrailExists ==
    ASSUME NEW c, NEW p, NEW m \in Nat
    PROVE  \E f : Trail(c, p, m, f)
<1> DEFINE T == {n \in Nat : ~ \E f : Trail(c, p, n, f)}
<1> SUFFICES ASSUME T # {} PROVE FALSE
  OBVIOUS
<1>1. PICK n \in T : \A y \in T : n <= y
  BY LeastNat
<1>2. n \in Nat /\ ~ \E f : Trail(c, p, n, f)
  OBVIOUS
<1>3. CASE n = 0
  <2> DEFINE f == [k \in 0 .. 0 |-> c.root]
  <2>1. f = [k \in 0 .. 0 |-> IF k = 0 THEN c.root ELSE Entered(c, f[k - 1], p[k])]
    OBVIOUS
  <2> QED
    BY <1>2, <1>3, <2>1 DEF Trail
<1>4. CASE n # 0
  <2>1. n - 1 \in Nat /\ n - 1 \notin T
    BY <1>1, <1>2, <1>4
  <2>2. PICK g : Trail(c, p, n - 1, g)
    BY <2>1
  <2> DEFINE f == [k \in 0 .. n |-> IF k = n THEN Entered(c, g[n - 1], p[n]) ELSE g[k]]
             turn(k) == IF k = 0 THEN c.root ELSE Entered(c, f[k - 1], p[k])
  <2>3. ASSUME NEW k \in 0 .. n PROVE f[k] = turn(k)
    <3>1. CASE k = n
      BY <1>2, <1>4, <3>1
    <3>2. CASE k # n
      <4>1. k \in 0 .. n - 1 /\ f[k] = g[k] /\ (k # 0 => f[k - 1] = g[k - 1])
        BY <1>2, <3>2
      <4>2. g[k] = IF k = 0 THEN c.root ELSE Entered(c, g[k - 1], p[k])
        BY <2>2, <4>1 DEF Trail
      <4> QED
        BY <4>1, <4>2
    <3> QED
      BY <3>1, <3>2
  <2>4. f = [k \in 0 .. n |-> turn(k)]
    BY <2>3
  <2> QED
    BY <1>2, <2>4 DEF Trail
<1> QED
  BY <1>3, <1>4

\* Two trails agree as far as their paths do.
LEMMA TrailsAgree ==
    ASSUME NEW c, NEW p, NEW q, NEW m \in Nat, NEW n \in Nat,
           NEW f, Trail(c, p, m, f), NEW g, Trail(c, q, n, g),
           NEW k \in Nat, k <= m, k <= n, \A j \in 1 .. k : p[j] = q[j]
    PROVE  f[k] = g[k]
<1> DEFINE T == {j \in 0 .. k : f[j] # g[j]}
<1> SUFFICES ASSUME T # {} PROVE FALSE
  OBVIOUS
<1>1. T \in SUBSET Nat
  OBVIOUS
<1>2. PICK j \in T : \A y \in T : j <= y
  BY <1>1, LeastNat
<1>3. j \in 0 .. k /\ j \in 0 .. m /\ j \in 0 .. n /\ f[j] # g[j]
  OBVIOUS
<1>4. /\ f[j] = IF j = 0 THEN c.root ELSE Entered(c, f[j - 1], p[j])
      /\ g[j] = IF j = 0 THEN c.root ELSE Entered(c, g[j - 1], q[j])
  BY <1>3 DEF Trail
<1>5. j # 0 /\ j \in 1 .. k /\ j - 1 \in 0 .. k
  BY <1>3, <1>4
<1>6. f[j - 1] = g[j - 1]
  <2>1. j - 1 \notin T
    BY <1>2, <1>5
  <2> QED
    BY <1>5, <2>1
<1> QED
  BY <1>3, <1>4, <1>5, <1>6

LEMMA DirAtEnds ==
    ASSUME NEW c, NEW p \in Path, NEW f, Trail(c, p, Len(p), f)
    PROVE  Promise!DirAt(c, p) = f[Len(p)]
<1>1. Len(p) \in Nat
  BY LenProperties DEF Path
<1>2. ASSUME NEW g, Trail(c, p, Len(p), g) PROVE g[Len(p)] = f[Len(p)]
  BY <1>1, <1>2, TrailsAgree
<1>3. \E g : Trail(c, p, Len(p), g)
  OBVIOUS
<1> QED
  BY <1>2, <1>3 DEF Promise!DirAt, Trail, Entered

LEMMA DirAtRoot == ASSUME NEW c PROVE Promise!DirAt(c, << >>) = c.root
<1>1. << >> \in Path /\ Len(<< >>) = 0
  BY EmptySeq DEF Path
<1>2. PICK f : Trail(c, << >>, 0, f)
  BY TrailExists
<1>3. f[0] = c.root
  BY <1>2 DEF Trail
<1> QED
  BY <1>1, <1>2, <1>3, DirAtEnds

LEMMA DirAtChild ==
    ASSUME NEW c, NEW p \in Path, NEW n \in Name
    PROVE  Promise!DirAt(c, Append(p, n)) = Entered(c, Promise!DirAt(c, p), n)
<1> DEFINE q == Append(p, n)
           m == Len(p)
<1>1. m \in Nat /\ q \in Path /\ Len(q) = m + 1 /\ q[m + 1] = n /\ \A j \in 1 .. m : q[j] = p[j]
  BY AppendProperties, LenProperties DEF Path
<1> HIDE DEF q, m
<1>2. PICK f : Trail(c, p, m, f)
  BY <1>1, TrailExists
<1>3. PICK g : Trail(c, q, m + 1, g)
  BY <1>1, TrailExists
<1>4. f[m] = g[m]
  <2>1. m + 1 \in Nat /\ m <= m /\ m <= m + 1 /\ \A j \in 1 .. m : p[j] = q[j]
    BY <1>1
  <2> QED
    BY <1>1, <1>2, <1>3, <2>1, TrailsAgree, Z3
<1>5. g[m + 1] = Entered(c, g[m], n)
  <2>1. m + 1 \in 0 .. m + 1 /\ m + 1 # 0 /\ (m + 1) - 1 = m
    BY <1>1
  <2>2. g[m + 1] = Entered(c, g[(m + 1) - 1], q[m + 1])
    BY <1>3, <2>1 DEF Trail
  <2> QED
    BY <1>1, <2>1, <2>2
<1>6. Promise!DirAt(c, p) = f[m] /\ Promise!DirAt(c, q) = g[m + 1]
  BY <1>1, <1>2, <1>3, DirAtEnds DEF m
<1> QED
  BY <1>4, <1>5, <1>6 DEF q

(***************************************************************************)
(* No path enters a directory twice through links (LinkHopsDistinct).  In  *)
(* TreeWalk's terms: an item's dir is what its path leads to, its chain    *)
(* has the identity of each directory its path enters by a link, and no    *)
(* two of those are one directory.  It makes no difference that the other  *)
(* links of a chain may carry a device that is not the directory's own.    *)
(***************************************************************************)
Reached(c, p, k) == Promise!DirAt(c, SubSeq(p, 1, k))

ByLink(c, p, k) ==
    \E r \in Range(c.list[Reached(c, p, k - 1)]) : r.name = p[k] /\ r.typ = "lnk"

HopsDistinct(c, p) ==
    \A j, k \in 1 .. Len(p) :
        ByLink(c, p, j) /\ ByLink(c, p, k) /\ Reached(c, p, j) = Reached(c, p, k) => j = k

Linked(c, it) ==
    /\ it.dir = Promise!DirAt(c, it.path)
    /\ HopsDistinct(c, it.path)
    /\ \A k \in 1 .. Len(it.path) : ByLink(c, it.path, k) =>
          c.followLinks /\ c.id[Reached(c, it.path, k)] \in Range(it.ancestor)

\* The entries that may yet become children are records of the directory, and
\* the children there are have been linked.
Links(c, t, at) ==
    /\ at \notin {"idle", "dead"} => Linked(c, t.item)
    /\ \A it \in BagToSet(t.spawn) : Linked(c, it)
    /\ at \in {"read", "scan"} \/ (at = "send" /\ ~ c.followLinks) =>
          \A i \in 1 .. Len(t.entries) : t.entries[i] \in Range(c.list[t.item.dir])
    /\ at = "resolve" => \A i \in t.pos .. Len(t.entries) :
          t.entries[i] \in Range(c.list[t.item.dir])

TasksLinked == \A w \in Worker : Links(conf, task[w], pc[w])

PoolLinked == \A it \in BagToSet(pending) : Linked(conf, it)

StreamLinked == \A b \in Sent : HopsDistinct(conf, b.dir)

LinkInv == TasksLinked /\ PoolLinked /\ StreamLinked

-----------------------------------------------------------------------------
(* What a child's path leads to                                            *)

LEMMA ChildPrefixes ==
    ASSUME NEW p \in Path, NEW n \in Name
    PROVE  /\ Append(p, n) \in Path /\ Len(Append(p, n)) = Len(p) + 1 /\ Len(p) \in Nat
           /\ Append(p, n)[Len(p) + 1] = n
           /\ \A k \in 1 .. Len(p) : Append(p, n)[k] = p[k]
           /\ \A k \in 0 .. Len(p) : SubSeq(Append(p, n), 1, k) = SubSeq(p, 1, k)
           /\ SubSeq(Append(p, n), 1, Len(p) + 1) = Append(p, n)
           /\ SubSeq(p, 1, Len(p)) = p
<1> DEFINE q == Append(p, n)
<1>1. /\ q \in Path /\ Len(q) = Len(p) + 1 /\ Len(p) \in Nat
      /\ q[Len(p) + 1] = n /\ \A k \in 1 .. Len(p) : q[k] = p[k]
  BY AppendProperties, LenProperties DEF Path
<1>2. /\ \A k \in 1 .. Len(p) : p[k] \in Name
      /\ \A k \in 1 .. Len(q) : q[k] \in Name
  BY <1>1, ElementOfSeq DEF Path
<1> HIDE DEF q
<1>3. ASSUME NEW k \in 0 .. Len(p) PROVE SubSeq(q, 1, k) = SubSeq(p, 1, k)
  <2>1. k \in Nat /\ k <= Len(p) /\ 1 .. k \subseteq 1 .. Len(p) /\ 1 .. k \subseteq 1 .. Len(q)
    BY <1>1
  <2>2. /\ SubSeq(q, 1, k) = [i \in 1 .. k |-> q[i]]
        /\ SubSeq(p, 1, k) = [i \in 1 .. k |-> p[i]]
    BY <1>1, <2>1 DEF Path
  <2> QED
    BY <1>1, <2>1, <2>2
<1>4. ASSUME NEW s \in Path PROVE SubSeq(s, 1, Len(s)) = s
  <2>1. Len(s) \in Nat /\ s = [i \in 1 .. Len(s) |-> s[i]]
    BY LenProperties, SeqDef DEF Path
  <2>2. SubSeq(s, 1, Len(s)) = [i \in 1 .. Len(s) |-> s[i]]
    BY <2>1 DEF Path
  <2> QED
    BY <2>1, <2>2
<1>5. SubSeq(q, 1, Len(p) + 1) = q
  BY <1>1, <1>4
<1> QED
  BY <1>1, <1>3, <1>4, <1>5 DEF q

\* Along a child's path the same directories are reached as along its
\* parent's, and then the child.
LEMMA ChildReaches ==
    ASSUME NEW c, NEW p \in Path, NEW n \in Name
    PROVE  LET q == Append(p, n)
           IN  /\ Len(q) = Len(p) + 1 /\ Len(p) \in Nat
               /\ \A k \in 1 .. Len(p) : Reached(c, q, k) = Reached(c, p, k)
               /\ \A k \in 1 .. Len(p) : ByLink(c, q, k) <=> ByLink(c, p, k)
               /\ Reached(c, q, Len(p) + 1) = Promise!DirAt(c, q)
               /\ ByLink(c, q, Len(p) + 1) <=>
                     \E r \in Range(c.list[Promise!DirAt(c, p)]) : r.name = n /\ r.typ = "lnk"
<1> DEFINE q == Append(p, n)
<1>1. /\ Len(q) = Len(p) + 1 /\ Len(p) \in Nat
      /\ q[Len(p) + 1] = n
      /\ \A k \in 1 .. Len(p) : q[k] = p[k]
      /\ \A k \in 0 .. Len(p) : SubSeq(q, 1, k) = SubSeq(p, 1, k)
      /\ SubSeq(q, 1, Len(p) + 1) = q
      /\ SubSeq(p, 1, Len(p)) = p
  BY ChildPrefixes
<1> HIDE DEF q
<1>2. \A k \in 0 .. Len(p) : Reached(c, q, k) = Reached(c, p, k)
  BY <1>1 DEF Reached
<1>3. ASSUME NEW k \in 1 .. Len(p) PROVE ByLink(c, q, k) <=> ByLink(c, p, k)
  <2>1. k - 1 \in 0 .. Len(p)
    BY <1>1
  <2>2. Reached(c, q, k - 1) = Reached(c, p, k - 1) /\ q[k] = p[k]
    BY <1>1, <1>2, <2>1
  <2> QED
    BY <2>2 DEF ByLink
<1>4. Reached(c, q, Len(p) + 1) = Promise!DirAt(c, q)
  BY <1>1 DEF Reached
<1>5. ByLink(c, q, Len(p) + 1) <=>
         \E r \in Range(c.list[Promise!DirAt(c, p)]) : r.name = n /\ r.typ = "lnk"
  <2>1. (Len(p) + 1) - 1 = Len(p) /\ Len(p) \in 0 .. Len(p)
    BY <1>1
  <2>2. Reached(c, q, Len(p)) = Promise!DirAt(c, p)
    BY <1>1, <2>1 DEF Reached
  <2> QED
    BY <1>1, <2>1, <2>2 DEF ByLink
<1>6. \A k \in 1 .. Len(p) : Reached(c, q, k) = Reached(c, p, k)
  BY <1>1, <1>2
<1> QED
  BY <1>1, <1>3, <1>4, <1>5, <1>6 DEF q

\* A child is linked if its name is no link's, or if it is and the chain does
\* not have the target's identity yet.
LEMMA ChildLinked ==
    ASSUME NEW c \in Configs, NEW it \in Item, it.dir \in Dir, Linked(c, it),
           NEW e \in Range(c.list[it.dir]), NEW chain \in Seq(Identity),
           Range(it.ancestor) \subseteq Range(chain),
           \/ e.typ = "dir"
           \/ /\ c.followLinks
              /\ c.id[c.to[it.dir][e.name]] \in Range(chain) \ Range(it.ancestor)
    PROVE  Linked(c, Child(c, it, e, chain))
<1> DEFINE p == it.path
           q == Append(p, e.name)
           m == Len(p)
           target == c.to[it.dir][e.name]
<1>1. e \in Dirent /\ e.name \in Name /\ p \in Path
  <2>1. c.list[it.dir] \in Seq(Dirent)
    BY ConfTypes
  <2>2. PICK i \in DOMAIN c.list[it.dir] : e = c.list[it.dir][i]
    BY DEF Range
  <2>3. e \in Dirent
    BY <2>1, <2>2, ElementOfSeq, LenProperties
  <2> QED
    BY <2>3 DEF Dirent, Item
<1>2. it.dir = Promise!DirAt(c, p)
  BY DEF Linked
<1>3. Promise!DirAt(c, q) = target
  BY <1>1, <1>2, DirAtChild DEF Entered
<1>4. /\ Len(q) = m + 1 /\ m \in Nat
      /\ \A k \in 1 .. m : Reached(c, q, k) = Reached(c, p, k)
      /\ \A k \in 1 .. m : ByLink(c, q, k) <=> ByLink(c, p, k)
      /\ Reached(c, q, m + 1) = target
      /\ ByLink(c, q, m + 1) <=> \E r \in Range(c.list[it.dir]) : r.name = e.name /\ r.typ = "lnk"
  BY <1>1, <1>2, <1>3, ChildReaches
<1>5. ByLink(c, q, m + 1) =>
         c.followLinks /\ c.id[target] \in Range(chain) \ Range(it.ancestor)
  <2>1. CASE e.typ = "dir"
    <3>1. ASSUME NEW r \in Range(c.list[it.dir]), r.name = e.name PROVE r = e
      <4>1. DistinctNames(c.list[it.dir])
        BY TreeAssumption
      <4> QED
        BY <3>1, <4>1 DEF DistinctNames, Range
    <3> QED
      BY <1>4, <2>1, <3>1
  <2> QED
    BY <2>1
<1>6. ASSUME NEW k \in 1 .. m, ByLink(c, p, k)
      PROVE  c.followLinks /\ c.id[Reached(c, p, k)] \in Range(it.ancestor)
  BY <1>6 DEF Linked
<1> HIDE DEF q, m, target
<1>7. HopsDistinct(c, q)
  <2> SUFFICES ASSUME NEW j \in 1 .. m + 1, NEW k \in 1 .. m + 1, j < k,
                      ByLink(c, q, j), ByLink(c, q, k)
               PROVE  Reached(c, q, j) # Reached(c, q, k)
    BY <1>4 DEF HopsDistinct
  <2>1. j \in 1 .. m
    BY <1>4
  <2>2. CASE k = m + 1
    BY <1>4, <1>5, <1>6, <2>1, <2>2
  <2>3. CASE k # m + 1
    <3>1. k \in 1 .. m
      BY <1>4, <2>3
    <3> QED
      BY <1>4, <2>1, <3>1 DEF Linked, HopsDistinct, m, p
  <2> QED
    BY <2>2, <2>3
<1>8. ASSUME NEW k \in 1 .. m + 1, ByLink(c, q, k)
      PROVE  c.followLinks /\ c.id[Reached(c, q, k)] \in Range(chain)
  <2>1. CASE k = m + 1
    BY <1>4, <1>5, <1>8, <2>1
  <2>2. CASE k # m + 1
    <3>1. k \in 1 .. m
      BY <1>4, <2>2
    <3> QED
      BY <1>4, <1>6, <1>8, <3>1
  <2> QED
    BY <2>1, <2>2
<1>9. /\ Child(c, it, e, chain).path = q /\ Child(c, it, e, chain).dir = target
      /\ Child(c, it, e, chain).ancestor = chain
  BY DEF Child, q, target
<1> QED
  BY <1>3, <1>4, <1>7, <1>8, <1>9 DEF Linked

-----------------------------------------------------------------------------
(* Frames                                                                  *)

LEMMA OneLinker ==
    ASSUME TypeInv, TasksLinked, NEW w \in Worker, NEW u, NEW at, conf' = conf,
           task' = [task EXCEPT ![w] = u], pc' = [pc EXCEPT ![w] = at],
           Links(conf, u, at)
    PROVE  TasksLinked'
<1> SUFFICES ASSUME NEW v \in Worker PROVE Links(conf, task'[v], pc'[v])
  BY DEF TasksLinked
<1>1. CASE v = w
  BY <1>1 DEF TypeInv, TasksOK
<1>2. CASE v # w
  BY <1>2 DEF TypeInv, TasksOK, TasksLinked
<1> QED
  BY <1>1, <1>2

\* A step by which worker w sends and spawns nothing and goes on to u at `at'.
LEMMA QuietLinks ==
    ASSUME TypeInv, LinkInv, NEW w \in Worker, NEW u, NEW at,
           task' = [task EXCEPT ![w] = u], pc' = [pc EXCEPT ![w] = at],
           UNCHANGED <<conf, chan, received, pending>>, Links(conf, u, at)
    PROVE  LinkInv'
<1>1. TasksLinked'
  BY OneLinker DEF LinkInv
<1>2. PoolLinked' /\ StreamLinked'
  BY DEF LinkInv, PoolLinked, StreamLinked, Sent, Arrived
<1> QED
  BY <1>1, <1>2 DEF LinkInv

LEMMA NoTaskLinks == \A c : Links(c, NoTask, "idle")
  BY EmptyBagIsEmpty DEF Links, NoTask, NewTask

\* A worker sends the batch of its item, and goes on to u at `at'.
LEMMA SendLinks ==
    ASSUME TypeInv, OrderInv, LinkInv, NEW w \in Worker, pc[w] \notin {"idle", "dead"},
           NEW u, NEW at, task' = [task EXCEPT ![w] = u], pc' = [pc EXCEPT ![w] = at],
           UNCHANGED <<conf, pending>>, Deliver(BatchOf(task[w])), Links(conf, u, at)
    PROVE  LinkInv'
<1> DEFINE b == BatchOf(task[w])
<1>1. b \in Batch /\ b.dir = task[w].item.path
  BY BatchType DEF TypeInv, TasksOK, BatchOf
<1>2. Listed(Sent, b.dir)
  BY <1>1 DEF OrderInv, TasksOrder, Announces
<1>3. HopsDistinct(conf, b.dir)
  BY <1>1 DEF LinkInv, TasksLinked, Links, Linked
<1> HIDE DEF b
<1>4. Sent' = Sent \cup {b}
  BY <1>1, <1>2, DeliverOrder DEF OrderInv, b
<1>5. StreamLinked'
  BY <1>3, <1>4 DEF StreamLinked, LinkInv
<1>6. TasksLinked'
  BY OneLinker DEF LinkInv
<1>7. PoolLinked'
  BY DEF LinkInv, PoolLinked
<1> QED
  BY <1>5, <1>6, <1>7 DEF LinkInv

-----------------------------------------------------------------------------
(* visitSym's pass                                                         *)

\* What a branch of the pass leaves: the entries behind pos as they were, and
\* at most one more child, which is linked.
LinksPass(c, t, u) ==
    /\ u.item = t.item /\ u.pos = t.pos + 1 /\ Len(u.entries) = Len(t.entries)
    /\ \A i \in t.pos + 1 .. Len(t.entries) : u.entries[i] = t.entries[i]
    /\ \A it \in BagToSet(u.spawn) : it \in BagToSet(t.spawn) \/ Linked(c, it)

LEMMA KeepLinks ==
    ASSUME NEW c, NEW t, TaskOK(t), NEW e \in Dirent,
           t.keep <= t.pos, t.pos \in 1 .. Len(t.entries)
    PROVE  /\ LinksPass(c, t, Keep(t, e))
           /\ \A it \in Item : Linked(c, it) => LinksPass(c, t, AddChild(Keep(t, e), it))
<1> DEFINE k == Keep(t, e)
<1>1. t.pos \in Nat /\ t.keep \in Nat /\ Len(t.entries) \in Nat /\ t.pos <= Len(t.entries)
      /\ DOMAIN t.entries = 1 .. Len(t.entries)
  BY LenProperties DEF TaskOK
<1>2. /\ TaskOK(k) /\ k.item = t.item /\ k.spawn = t.spawn /\ k.pos = t.pos + 1
      /\ Len(k.entries) = Len(t.entries)
      /\ k.entries = [t.entries EXCEPT ![t.keep] = e]
  BY <1>1, KeepType
<1> HIDE DEF k
<1>3. ASSUME NEW i \in t.pos + 1 .. Len(t.entries) PROVE k.entries[i] = t.entries[i]
  BY <1>1, <1>2
<1>4. LinksPass(c, t, k)
  BY <1>2, <1>3 DEF LinksPass
<1>5. ASSUME NEW it \in Item, Linked(c, it) PROVE LinksPass(c, t, AddChild(k, it))
  <2>1. /\ AddChild(k, it).item = k.item /\ AddChild(k, it).entries = k.entries
        /\ AddChild(k, it).pos = k.pos
        /\ BagToSet(AddChild(k, it).spawn) = BagToSet(k.spawn) \cup {it}
    BY <1>2, AddChildType
  <2> QED
    BY <1>2, <1>3, <1>5, <2>1 DEF LinksPass
<1> QED
  BY <1>4, <1>5 DEF k

LEMMA AdvanceLinks ==
    ASSUME NEW c, NEW t, TaskOK(t), NEW e \in Dirent, NEW kind \in ErrKind
    PROVE  LinksPass(c, t, Advance(StoreDirErr(t, e, kind)))
<1>1. LET s == StoreDirErr(t, e, kind)
      IN  TaskOK(s) /\ s.item = t.item /\ s.spawn = t.spawn /\ s.entries = t.entries
          /\ s.pos = t.pos
  BY StoreDirErrType
<1> QED
  BY <1>1, AdvanceType DEF LinksPass

LEMMA ReportLinks ==
    ASSUME NEW c, NEW t, TaskOK(t), NEW e \in Dirent, NEW kind \in ErrKind,
           t.keep <= t.pos, t.pos \in 1 .. Len(t.entries)
    PROVE  LinksPass(c, t, Keep(StoreDirErr(t, e, kind), e))
<1> DEFINE s == StoreDirErr(t, e, kind)
<1>1. TaskOK(s) /\ s.item = t.item /\ s.spawn = t.spawn /\ s.entries = t.entries
      /\ s.pos = t.pos /\ s.keep = t.keep
  BY StoreDirErrType
<1> HIDE DEF s
<1>2. LinksPass(c, s, Keep(s, e))
  BY <1>1, KeepLinks
<1> QED
  BY <1>1, <1>2 DEF LinksPass, s

\* The chain of a child, longer by one link.
LEMMA ChainGrows ==
    ASSUME NEW chain \in Seq(Identity), NEW ino \in Nat, NEW dev \in Nat
    PROVE  /\ PushAncestor(ino, dev, chain) \in Seq(Identity)
           /\ Range(PushAncestor(ino, dev, chain)) = Range(chain) \cup {[ino |-> ino, dev |-> dev]}
<1> DEFINE x == [ino |-> ino, dev |-> dev]
           s == Append(chain, x)
<1>1. x \in Identity
  BY DEF Identity
<1> HIDE DEF x
<1>2. /\ s \in Seq(Identity) /\ Len(s) = Len(chain) + 1 /\ Len(chain) \in Nat
      /\ s[Len(chain) + 1] = x /\ \A i \in 1 .. Len(chain) : s[i] = chain[i]
      /\ DOMAIN s = 1 .. Len(chain) + 1 /\ DOMAIN chain = 1 .. Len(chain)
  BY <1>1, AppendProperties, LenProperties
<1> HIDE DEF s
<1>3. Range(s) = Range(chain) \cup {x}
  <2>1. ASSUME NEW y \in Range(s) PROVE y \in Range(chain) \cup {x}
    <3>1. PICK i \in 1 .. Len(chain) + 1 : y = s[i]
      BY <1>2 DEF Range
    <3>2. CASE i = Len(chain) + 1
      BY <1>2, <3>1, <3>2
    <3>3. CASE i # Len(chain) + 1
      <4>1. i \in 1 .. Len(chain)
        BY <1>2, <3>3
      <4> QED
        BY <1>2, <3>1, <4>1 DEF Range
    <3> QED
      BY <3>2, <3>3
  <2>2. ASSUME NEW y \in Range(chain) PROVE y \in Range(s)
    <3>1. PICK i \in 1 .. Len(chain) : y = chain[i]
      BY <1>2 DEF Range
    <3>2. i \in 1 .. Len(chain) + 1 /\ y = s[i]
      BY <1>2, <3>1
    <3> QED
      BY <1>2, <3>2 DEF Range
  <2>3. x \in Range(s)
    <3>1. Len(chain) + 1 \in 1 .. Len(chain) + 1
      BY <1>2
    <3> QED
      BY <1>2, <3>1 DEF Range
  <2> QED
    BY <2>1, <2>2, <2>3
<1> QED
  BY <1>2, <1>3 DEF s, x, PushAncestor

LEMMA FollowLinkLinks ==
    ASSUME NEW c \in Configs, c.followLinks, NEW t, TaskOK(t), t.item.dir \in Dir,
           Linked(c, t.item), NEW e \in Dirent, e \in Range(c.list[t.item.dir]),
           c.to[t.item.dir][e.name] \in Dir,
           ~ HasCycle(t.item.ancestor, c.id[c.to[t.item.dir][e.name]]),
           t.keep <= t.pos, t.pos \in 1 .. Len(t.entries)
    PROVE  LinksPass(c, t, FollowLink(c, t, e, c.to[t.item.dir][e.name]))
<1> DEFINE target == c.to[t.item.dir][e.name]
           d     == [e EXCEPT !.typ = "dir"]
           chain == PushAncestor(c.id[target].ino, c.id[target].dev, t.item.ancestor)
           child == Child(c, t.item, e, chain)
<1>1. d \in Dirent
  BY DEF Dirent, DType
<1>2. t.item \in Item /\ t.item.ancestor \in Seq(Identity)
  BY DEF TaskOK, Item
<1>3. c.id[target] \in Identity
  BY ConfTypes
<1>4. /\ c.id[target].ino \in Nat /\ c.id[target].dev \in Nat
      /\ [ino |-> c.id[target].ino, dev |-> c.id[target].dev] = c.id[target]
  BY <1>3 DEF Identity
<1>5. chain \in Seq(Identity) /\ Range(chain) = Range(t.item.ancestor) \cup {c.id[target]}
  <2> DEFINE ino == c.id[target].ino
             dev == c.id[target].dev
             old == t.item.ancestor
  <2>1. ino \in Nat /\ dev \in Nat /\ old \in Seq(Identity)
        /\ [ino |-> ino, dev |-> dev] = c.id[target]
    BY <1>2, <1>4
  <2> HIDE DEF ino, dev, old
  <2>2. /\ PushAncestor(ino, dev, old) \in Seq(Identity)
        /\ Range(PushAncestor(ino, dev, old)) = Range(old) \cup {[ino |-> ino, dev |-> dev]}
    <3> HIDE DEF target, chain, child
    <3> QED
      BY <2>1, ChainGrows
  <2> QED
    BY <2>1, <2>2 DEF ino, dev, old
<1>6. c.id[target] \notin Range(t.item.ancestor)
  BY DEF HasCycle, Range
<1> HIDE DEF chain
<1>7. child \in Item
  BY <1>2, <1>5, ChildType
<1>8. Linked(c, child)
  BY <1>2, <1>5, <1>6, ChildLinked
<1> HIDE DEF child, d
<1>9. LinksPass(c, t, Keep(t, d)) /\ LinksPass(c, t, AddChild(Keep(t, d), child))
  BY <1>1, <1>7, <1>8, KeepLinks
<1>10. FollowLink(c, t, e, target) \in {Keep(t, d), AddChild(Keep(t, d), child)}
  BY DEF FollowLink, child, chain, d
<1> QED
  BY <1>9, <1>10

LEMMA KeepEntryLinks ==
    ASSUME NEW c \in Configs, NEW t, TaskOK(t), t.item.dir \in Dir, Linked(c, t.item),
           NEW e \in Dirent, e \in Range(c.list[t.item.dir]), ~ DerefsNil(c, t, e),
           t.keep <= t.pos, t.pos \in 1 .. Len(t.entries)
    PROVE  LinksPass(c, t, KeepEntry(c, t, e))
<1> DEFINE up    == t.item.ancestor
           chain == PushAncestor(e.ino, up[Len(up)].dev, up)
           child == Child(c, t.item, e, chain)
<1>1. CASE e.typ # "dir" \/ AtMaxDepth(c, t.item.depth)
  BY <1>1, KeepLinks DEF KeepEntry
<1>2. CASE e.typ = "dir" /\ ~ AtMaxDepth(c, t.item.depth)
  <2>1. t.item \in Item /\ up \in Seq(Identity) /\ up # << >>
    BY <1>2 DEF DerefsNil, TaskOK, Item
  <2>2. up[Len(up)] \in Identity
    BY <2>1, EmptySeq, ElementOfSeq
  <2>3. e.ino \in Nat /\ up[Len(up)].dev \in Nat
    BY <2>2 DEF Identity, Dirent
  <2>4. chain \in Seq(Identity) /\ Range(up) \subseteq Range(chain)
    BY <2>1, <2>3, ChainGrows
  <2> HIDE DEF chain
  <2>5. child \in Item
    BY <2>1, <2>4, ChildType
  <2>6. Linked(c, child)
    BY <1>2, <2>1, <2>4, ChildLinked
  <2> HIDE DEF child
  <2>7. LinksPass(c, t, AddChild(Keep(t, e), child))
    BY <2>5, <2>6, KeepLinks
  <2>8. KeepEntry(c, t, e) = AddChild(Keep(t, e), child)
    BY <1>2 DEF KeepEntry, child, chain
  <2> QED
    BY <2>7, <2>8
<1> QED
  BY <1>1, <1>2

LEMMA ResolveLinks ==
    ASSUME TypeInv, LinkInv, NEW w \in Worker, Resolve(w)
    PROVE  LinkInv'
<1> DEFINE t      == task[w]
           e      == t.entries[t.pos]
           target == conf.to[t.item.dir][e.name]
<1>1. /\ TaskOK(t) /\ t.item.dir \in Dir /\ conf \in Configs
      /\ t.keep <= t.pos /\ t.pos \in 1 .. Len(t.entries)
      /\ Linked(conf, t.item) /\ Links(conf, t, "resolve") /\ conf.followLinks
      /\ t.pos \in Nat /\ Len(t.entries) \in Nat
  <2>1. /\ TaskOK(t) /\ t.item.dir \in Dir /\ t.keep <= t.pos
        /\ t.pos \in DOMAIN t.entries /\ conf.followLinks /\ conf \in Configs
        /\ Links(conf, t, "resolve")
    BY DEF Resolve, TypeInv, TasksOK, Located, LinkInv, TasksLinked
  <2>2. Len(t.entries) \in Nat /\ DOMAIN t.entries = 1 .. Len(t.entries)
    BY <2>1, LenProperties DEF TaskOK
  <2> QED
    BY <2>1, <2>2 DEF Links, TaskOK
<1>2. e \in Dirent /\ e \in Range(conf.list[t.item.dir])
  <2>1. t.pos \in t.pos .. Len(t.entries)
    BY <1>1
  <2> QED
    BY <1>1, <2>1, ElementOfSeq DEF TaskOK, Links
<1>3. PICK u : LinksPass(conf, t, u) /\ task' = [task EXCEPT ![w] = u]
  <2>1. CASE task' = [task EXCEPT ![w] = Advance(StoreDirErr(t, e, "dangling"))]
    BY <1>1, <1>2, <2>1, AdvanceLinks DEF ErrKind
  <2>2. CASE task' = [task EXCEPT ![w] = Keep(StoreDirErr(t, e, "nosys"), e)]
    BY <1>1, <1>2, <2>2, ReportLinks DEF ErrKind
  <2>3. CASE task' = [task EXCEPT ![w] = KeepLinkToFile(t, e, target)]
    <3> DEFINE d == [e EXCEPT !.typ = DTypeFromInfo(target)]
    <3>1. d \in Dirent
      BY <1>2 DEF DTypeFromInfo, Dirent, DType
    <3> HIDE DEF d
    <3>2. LinksPass(conf, t, Keep(t, d))
      BY <1>1, <3>1, KeepLinks
    <3> QED
      BY <2>3, <3>2 DEF KeepLinkToFile, d
  <2>4. CASE task' = [task EXCEPT ![w] = Advance(StoreDirErr(t, e, "cycle"))]
    BY <1>1, <1>2, <2>4, AdvanceLinks DEF ErrKind
  <2>5. CASE /\ target \in Dir /\ ~ HasCycle(t.item.ancestor, conf.id[target])
             /\ task' = [task EXCEPT ![w] = FollowLink(conf, t, e, target)]
    <3>1. LinksPass(conf, t, FollowLink(conf, t, e, target))
      BY <1>1, <1>2, <2>5, FollowLinkLinks
    <3> QED
      BY <2>5, <3>1
  <2>6. CASE ~ DerefsNil(conf, t, e) /\ task' = [task EXCEPT ![w] = KeepEntry(conf, t, e)]
    <3>1. LinksPass(conf, t, KeepEntry(conf, t, e))
      BY <1>1, <1>2, <2>6, KeepEntryLinks
    <3> QED
      BY <2>6, <3>1
  <2> QED
    BY <2>1, <2>2, <2>3, <2>4, <2>5, <2>6 DEF Resolve
<1> HIDE DEF t
<1>4. ASSUME NEW i \in u.pos .. Len(u.entries)
      PROVE  u.entries[i] \in Range(conf.list[u.item.dir])
  <2>1. i \in t.pos + 1 .. Len(t.entries) /\ i \in t.pos .. Len(t.entries)
    BY <1>1, <1>3 DEF LinksPass
  <2> QED
    BY <1>1, <1>3, <2>1 DEF Links, LinksPass
<1>5. Links(conf, u, "resolve")
  BY <1>1, <1>3, <1>4 DEF Links, LinksPass
<1>6. pc' = [pc EXCEPT ![w] = "resolve"] /\ UNCHANGED <<conf, chan, received, pending>>
  BY DEF Resolve, TypeInv, TasksOK
<1> QED
  BY <1>3, <1>5, <1>6, QuietLinks DEF t

-----------------------------------------------------------------------------
(* The other actions                                                       *)

LEMMA InitLinks == Init => LinkInv
  BY BagsOfSets, EmptyBagIsEmpty, NoTaskLinks
     DEF Init, LinkInv, TasksLinked, PoolLinked, StreamLinked, Sent, Arrived, Range

LEMMA WalkLinks == ASSUME TypeInv, LinkInv, Walk PROVE LinkInv'
<1>1. TasksLinked' /\ StreamLinked'
  BY DEF Walk, LinkInv, TasksLinked, StreamLinked, Sent, Arrived
<1>2. ASSUME NEW it \in BagToSet(pending') PROVE Linked(conf, it)
  <2>1. it.path = << >> /\ it.dir = conf.root
    BY BagsOfSets DEF Walk
  <2>2. Len(<< >>) = 0
    BY EmptySeq
  <2> QED
    BY <2>1, <2>2, DirAtRoot DEF Linked, HopsDistinct
<1>3. PoolLinked'
  BY <1>2 DEF PoolLinked, Walk
<1> QED
  BY <1>1, <1>3 DEF LinkInv

LEMMA TakeLinks ==
    ASSUME TypeInv, LinkInv, NEW w \in Worker, NEW it \in BagToSet(pending), Take(w, it)
    PROVE  LinkInv'
<1>1. BagToSet(pending') \subseteq BagToSet(pending)
  BY BagTake DEF Take, TypeInv, PoolOK
<1>2. PoolLinked' /\ StreamLinked'
  BY <1>1 DEF LinkInv, PoolLinked, StreamLinked, Sent, Arrived, Take
<1>3. /\ NewTask(it).item = it /\ BagToSet(NewTask(it).spawn) = {}
      /\ NewTask(it).entries = << >>
  BY EmptyBagIsEmpty DEF NewTask
<1>4. Links(conf, NewTask(it), "read")
  BY <1>3, EmptySeq DEF Links, LinkInv, PoolLinked
<1>5. TasksLinked'
  BY <1>4, OneLinker DEF Take, LinkInv
<1> QED
  BY <1>2, <1>5 DEF LinkInv

LEMMA ReadRecordLinks ==
    ASSUME TypeInv, LinkInv, NEW w \in Worker, ReadRecord(w)
    PROVE  LinkInv'
<1> DEFINE t == task[w]
           list == conf.list[t.item.dir]
           r == list[t.pos]
           q == Append(t.entries, r)
<1>1. /\ TaskOK(t) /\ t.item.dir \in Dir /\ t.pos \in DOMAIN list
      /\ Links(conf, t, "read")
  BY DEF ReadRecord, TypeInv, TasksOK, LinkInv, TasksLinked
<1>2. list \in Seq(Dirent) /\ t.entries \in Seq(Dirent) /\ Len(t.entries) \in Nat
  BY <1>1, ConfTypes, LenProperties DEF TypeInv, TaskOK
<1>3. r \in Dirent /\ r \in Range(list)
  BY <1>1, <1>2, LenProperties, ElementOfSeq DEF Range
<1>4. Links(conf, Advance(t), "read")
  <2>1. /\ Advance(t).item = t.item /\ Advance(t).spawn = t.spawn
        /\ Advance(t).entries = t.entries
    BY <1>1, AdvanceType
  <2> HIDE DEF t
  <2> QED
    BY <1>1, <2>1 DEF Links
<1>5. Links(conf, OnEntry(t, r), "read")
  <2>1. OnEntry(t, r).item = t.item /\ OnEntry(t, r).entries = q /\ OnEntry(t, r).spawn = t.spawn
    BY <1>1 DEF OnEntry, TaskOK
  <2>2. /\ Len(q) = Len(t.entries) + 1 /\ q[Len(t.entries) + 1] = r
        /\ \A i \in 1 .. Len(t.entries) : q[i] = t.entries[i]
    <3> HIDE DEF r, list, t
    <3>1. PICK old \in Seq(Dirent) : old = t.entries
      BY <1>2
    <3>2. /\ Len(Append(old, r)) = Len(old) + 1 /\ Append(old, r)[Len(old) + 1] = r
          /\ \A i \in 1 .. Len(old) : Append(old, r)[i] = old[i]
      BY <1>3, AppendProperties
    <3> QED
      BY <3>1, <3>2 DEF q
  <2> HIDE DEF q, r
  <2>3. ASSUME NEW i \in 1 .. Len(q) PROVE q[i] \in Range(list)
    <3>1. CASE i = Len(t.entries) + 1
      BY <1>3, <2>2, <3>1
    <3>2. CASE i # Len(t.entries) + 1
      <4>1. i \in 1 .. Len(t.entries)
        BY <1>2, <2>2, <3>2
      <4> QED
        BY <1>1, <2>2, <4>1 DEF Links
    <3> QED
      BY <3>1, <3>2
  <2> QED
    BY <1>1, <2>1, <2>3 DEF Links
<1>6. PICK u : Links(conf, u, "read") /\ task' = [task EXCEPT ![w] = u]
  BY <1>4, <1>5 DEF ReadRecord
<1>7. pc' = [pc EXCEPT ![w] = "read"] /\ UNCHANGED <<conf, chan, received, pending>>
  BY DEF ReadRecord, TypeInv, TasksOK
<1> QED
  BY <1>6, <1>7, QuietLinks

LEMMA ReadDoneLinks ==
    ASSUME TypeInv, LinkInv, NEW w \in Worker, ReadDone(w)
    PROVE  LinkInv'
<1> DEFINE t == task[w]
           s == [t EXCEPT !.pos = 1]
<1>1. TaskOK(t) /\ Links(conf, t, "read")
  BY DEF ReadDone, TypeInv, TasksOK, LinkInv, TasksLinked
<1>2. s.item = t.item /\ s.entries = t.entries /\ s.pos = 1 /\ s.spawn = t.spawn
  BY <1>1, PosType
<1>3. task' = [task EXCEPT ![w] = s] /\ UNCHANGED <<conf, chan, received, pending>>
  BY DEF ReadDone
<1> HIDE DEF s
<1>4. Links(conf, s, "resolve") /\ Links(conf, s, "send")
  BY <1>1, <1>2 DEF Links
<1>5. PICK at \in {"resolve", "send"} : pc' = [pc EXCEPT ![w] = at]
  BY DEF ReadDone
<1> QED
  BY <1>3, <1>4, <1>5, QuietLinks

LEMMA ReadFailsLinks ==
    ASSUME TypeInv, LinkInv, NEW w \in Worker, ReadFails(w)
    PROVE  LinkInv'
<1> DEFINE t == task[w]
           s == [NewTask(t.item) EXCEPT !.errs = {[at |-> t.item.path, err |-> "unreadable"]}]
<1>1. s.item = t.item /\ BagToSet(s.spawn) = {}
  BY EmptyBagIsEmpty DEF NewTask
<1>2. /\ task' = [task EXCEPT ![w] = s] /\ pc' = [pc EXCEPT ![w] = "sendErr"]
      /\ UNCHANGED <<conf, chan, received, pending>>
  BY DEF ReadFails
<1>3. Linked(conf, t.item)
  BY DEF ReadFails, LinkInv, TasksLinked, Links
<1> HIDE DEF s
<1>4. Links(conf, s, "sendErr")
  BY <1>1, <1>3 DEF Links
<1> QED
  BY <1>2, <1>4, QuietLinks

LEMMA PanicLinks ==
    ASSUME TypeInv, LinkInv, NEW w \in Worker, PanicOnNil(w)
    PROVE  LinkInv'
<1>1. TasksLinked'
  BY DEF PanicOnNil, LinkInv, TasksLinked, Links
<1> QED
  BY <1>1 DEF PanicOnNil, LinkInv, PoolLinked, StreamLinked, Sent, Arrived

LEMMA ResolveDoneLinks ==
    ASSUME TypeInv, LinkInv, NEW w \in Worker, ResolveDone(w)
    PROVE  LinkInv'
<1> DEFINE t == task[w]
           q == SubSeq(t.entries, 1, t.keep - 1)
           s == [t EXCEPT !.entries = q]
<1>1. TaskOK(t) /\ Links(conf, t, "resolve") /\ conf.followLinks
  BY DEF ResolveDone, TypeInv, TasksOK, Located, LinkInv, TasksLinked
<1>2. s.item = t.item /\ s.spawn = t.spawn
  BY <1>1 DEF TaskOK
<1>3. /\ task' = [task EXCEPT ![w] = s] /\ pc' = [pc EXCEPT ![w] = "send"]
      /\ UNCHANGED <<conf, chan, received, pending>>
  BY DEF ResolveDone
<1> HIDE DEF s
<1>4. Links(conf, s, "send")
  BY <1>1, <1>2 DEF Links
<1> QED
  BY <1>3, <1>4, QuietLinks

LEMMA SendsLinks ==
    ASSUME TypeInv, OrderInv, LinkInv, NEW w \in Worker,
           SendErr(w) \/ Send(w) \/ SendResolved(w)
    PROVE  LinkInv'
<1>1. /\ pc[w] \notin {"idle", "dead"} /\ UNCHANGED <<conf, pending>>
      /\ Deliver(BatchOf(task[w])) /\ Links(conf, task[w], pc[w])
  BY DEF SendErr, Send, SendResolved, LinkInv, TasksLinked
<1>2. task = [task EXCEPT ![w] = task[w]]
  BY DEF TypeInv, TasksOK
<1>3. CASE Return(w)
  BY <1>1, <1>3, NoTaskLinks, SendLinks DEF Return
<1>4. CASE task' = task /\ pc' = [pc EXCEPT ![w] = "scan"] /\ pc[w] = "send" /\ ~ conf.followLinks
  <2>1. Links(conf, task[w], "scan")
    BY <1>1, <1>4 DEF Links
  <2> QED
    BY <1>1, <1>2, <1>4, <2>1, SendLinks
<1>5. CASE task' = task /\ pc' = [pc EXCEPT ![w] = "spawn"]
  <2>1. Links(conf, task[w], "spawn")
    BY <1>1 DEF Links
  <2> QED
    BY <1>1, <1>2, <1>5, <2>1, SendLinks
<1> QED
  BY <1>3, <1>4, <1>5 DEF SendErr, Send, SendResolved

\* visit's loop makes children of records of its directory, and of no link.
LEMMA ScanLinks ==
    ASSUME TypeInv, LinkInv, NEW w \in Worker, Scan(w)
    PROVE  LinkInv'
<1> DEFINE t     == task[w]
           e     == t.entries[t.pos]
           child == Child(conf, t.item, e, << >>)
           a     == Advance(t)
<1>1. /\ TaskOK(t) /\ t.item.dir \in Dir /\ t.pos \in DOMAIN t.entries
      /\ Links(conf, t, "scan") /\ ~ conf.followLinks /\ conf \in Configs
  BY DEF Scan, TypeInv, TasksOK, Located, LinkInv, TasksLinked
<1>2. /\ e \in Dirent /\ e \in Range(conf.list[t.item.dir]) /\ Linked(conf, t.item)
      /\ t.item \in Item /\ << >> \in Seq(Identity)
  <2>1. e \in Dirent /\ t.pos \in 1 .. Len(t.entries)
    BY <1>1, LenProperties, ElementOfSeq DEF TaskOK
  <2> QED
    BY <1>1, <2>1 DEF TaskOK, Links
<1>3. child \in Item
  BY <1>1, <1>2, ChildType
<1>4. e.typ = "dir" => Linked(conf, child)
  <2> SUFFICES ASSUME e.typ = "dir" PROVE Linked(conf, child)
    OBVIOUS
  <2> DEFINE plain == [t.item EXCEPT !.ancestor = << >>]
  <2>1. plain \in Item /\ plain.path = t.item.path /\ plain.dir = t.item.dir
        /\ plain.depth = t.item.depth /\ plain.ancestor = << >>
    BY <1>2 DEF Item
  <2>2. Child(conf, plain, e, << >>) = child
    BY <2>1 DEF Child
  <2> HIDE DEF plain
  <2>3. Linked(conf, plain)
    BY <1>1, <1>2, <2>1 DEF Linked
  <2>4. Range(plain.ancestor) \subseteq Range(<< >>)
    BY <2>1
  <2>5. Linked(conf, Child(conf, plain, e, << >>))
    BY <1>1, <1>2, <2>1, <2>3, <2>4, ChildLinked
  <2> QED
    BY <2>2, <2>5
<1>5. TaskOK(a) /\ a.item = t.item /\ a.entries = t.entries /\ a.spawn = t.spawn
  BY <1>1, AdvanceType
<1>6. /\ task' = [task EXCEPT ![w] = IF e.typ = "dir" THEN AddChild(a, child) ELSE a]
      /\ pc' = [pc EXCEPT ![w] = "scan"] /\ UNCHANGED <<conf, chan, received, pending>>
  BY DEF Scan, TypeInv, TasksOK
<1> HIDE DEF child, a
<1>7. Links(conf, a, "scan")
  BY <1>1, <1>5 DEF Links
<1>8. e.typ = "dir" => Links(conf, AddChild(a, child), "scan")
  <2>1. LET u == AddChild(a, child)
        IN  /\ u.item = a.item /\ u.entries = a.entries
            /\ BagToSet(u.spawn) = BagToSet(a.spawn) \cup {child}
    BY <1>3, <1>5, AddChildType
  <2> QED
    BY <1>4, <1>7, <2>1 DEF Links
<1>9. PICK u : Links(conf, u, "scan") /\ task' = [task EXCEPT ![w] = u]
  BY <1>6, <1>7, <1>8
<1> QED
  BY <1>6, <1>9, QuietLinks

LEMMA ScanDoneLinks ==
    ASSUME TypeInv, LinkInv, NEW w \in Worker, ScanDone(w)
    PROVE  LinkInv'
<1>1. task' = [task EXCEPT ![w] = task[w]]
  BY DEF ScanDone, TypeInv, TasksOK
<1>2. Links(conf, task[w], "spawn")
  BY DEF ScanDone, LinkInv, TasksLinked, Links
<1> QED
  BY <1>1, <1>2, QuietLinks DEF ScanDone

LEMMA SpawnLinks ==
    ASSUME TypeInv, LinkInv, NEW w \in Worker, Spawn(w)
    PROVE  LinkInv'
<1>1. \A it \in BagToSet(task[w].spawn) : Linked(conf, it)
  BY DEF LinkInv, TasksLinked, Links
<1>2. BagToSet(pending') = BagToSet(pending) \cup BagToSet(task[w].spawn)
  BY BagMerge DEF Spawn, TypeInv, PoolOK, TasksOK, TaskOK
<1>3. PoolLinked' /\ StreamLinked'
  BY <1>1, <1>2 DEF LinkInv, PoolLinked, StreamLinked, Sent, Arrived, Spawn
<1>4. TasksLinked'
  BY NoTaskLinks, OneLinker DEF LinkInv, Spawn, Return
<1> QED
  BY <1>3, <1>4 DEF LinkInv

LEMMA SortSwapLinks ==
    ASSUME TypeInv, LinkInv, NEW w \in Worker, NEW i, NEW j, SortSwap(w, i, j)
    PROVE  LinkInv'
<1> DEFINE t  == task[w]
           q  == [t.entries EXCEPT ![i] = t.entries[j], ![j] = t.entries[i]]
           s  == [t EXCEPT !.entries = q]
<1>1. /\ TaskOK(t) /\ i \in DOMAIN t.entries /\ j \in DOMAIN t.entries
      /\ Links(conf, t, pc[w]) /\ pc[w] \in {"scan", "spawn"}
  BY DEF SortSwap, TypeInv, TasksOK, LinkInv, TasksLinked
<1>2. /\ Len(q) = Len(t.entries) /\ DOMAIN t.entries = 1 .. Len(t.entries)
      /\ \A k \in 1 .. Len(t.entries) : \E l \in 1 .. Len(t.entries) : q[k] = t.entries[l]
  <2>1. t.entries \in Seq(Dirent) /\ DOMAIN t.entries = 1 .. Len(t.entries)
    BY <1>1, LenProperties DEF TaskOK
  <2> DEFINE g == [t.entries EXCEPT ![i] = t.entries[j]]
  <2>2. g \in Seq(Dirent) /\ Len(g) = Len(t.entries)
    BY <1>1, <2>1, ElementOfSeq, ExceptSeq
  <2>3. q = [g EXCEPT ![j] = t.entries[i]]
    OBVIOUS
  <2>4. \A k \in 1 .. Len(t.entries) : \E l \in 1 .. Len(t.entries) : q[k] = t.entries[l]
    BY <1>1, <2>1
  <2> HIDE DEF g, q
  <2>5. Len(q) = Len(g)
    <3>1. j \in 1 .. Len(g) /\ t.entries[i] \in Dirent
      BY <1>1, <2>1, <2>2, ElementOfSeq
    <3> QED
      BY <2>2, <2>3, <3>1, ExceptSeq
  <2> QED
    BY <2>1, <2>2, <2>4, <2>5
<1>3. /\ task' = [task EXCEPT ![w] = s] /\ pc' = [pc EXCEPT ![w] = pc[w]]
      /\ UNCHANGED <<conf, chan, received, pending>>
  BY DEF SortSwap, TypeInv, TasksOK
<1> HIDE DEF q
<1>4. s.item = t.item /\ s.spawn = t.spawn /\ s.entries = q
  BY <1>1 DEF TaskOK
<1> HIDE DEF s
<1>5. Links(conf, s, pc[w])
  BY <1>1, <1>2, <1>4 DEF Links
<1> QED
  BY <1>3, <1>5, QuietLinks

LEMMA NextLinks ==
    ASSUME TypeInv, OrderInv, LinkInv, [Next]_vars
    PROVE  LinkInv'
<1>1. CASE Walk
  BY <1>1, WalkLinks
<1>2. ASSUME NEW w \in Worker, NEW it \in BagToSet(pending), Take(w, it) PROVE LinkInv'
  BY <1>2, TakeLinks
<1>3. ASSUME NEW w \in Worker, Step(w) PROVE LinkInv'
  BY <1>3, ReadRecordLinks, ReadDoneLinks, ReadFailsLinks, ResolveLinks, PanicLinks,
     ResolveDoneLinks, SendsLinks, ScanLinks, ScanDoneLinks, SpawnLinks
     DEF Step
<1>4. CASE Receive
  <2>1. Sent' = Sent
    BY <1>4, ReceiveOrder DEF OrderInv
  <2> QED
    BY <1>4, <2>1 DEF LinkInv, PoolLinked, TasksLinked, StreamLinked, Receive
<1>5. CASE Close \/ RangeEnds \/ Wait \/ Break \/ Halted \/ UNCHANGED vars
  <2>1. UNCHANGED <<conf, pc, task, pending, chan, received>>
    BY <1>5 DEF Close, RangeEnds, Wait, Break, Halted, vars
  <2> QED
    BY <2>1 DEF LinkInv, PoolLinked, TasksLinked, StreamLinked, Sent, Arrived
<1>6. ASSUME NEW w \in Worker, NEW i, NEW j, SortSwap(w, i, j) PROVE LinkInv'
  BY <1>6, SortSwapLinks
<1> QED
  BY <1>1, <1>2, <1>3, <1>4, <1>5, <1>6 DEF Next, Consume

\* No path the walk reports enters one directory by two symbolic links: each
\* link that is followed puts its target's identity into the chain of all that
\* lies behind it, and hasCycle searches all of that chain (walkman.go:371-384).
THEOREM LinksEndInNewPlaces == Spec => []LinkHopsDistinct
<1>1. Init => TypeInv /\ OrderInv /\ LinkInv
  BY InitType, InitOrder, InitLinks
<1>2. TypeInv /\ OrderInv /\ LinkInv /\ [Next]_vars => (TypeInv /\ OrderInv /\ LinkInv)'
  BY NextType, NextOrder, NextLinks
<1>3. LinkInv => LinkHopsDistinct
  BY DEF LinkInv, StreamLinked, Sent, Arrived, LinkHopsDistinct, HopsDistinct, ByLink, Reached
<1> QED
  BY <1>1, <1>2, <1>3, PTL DEF Spec

=============================================================================
