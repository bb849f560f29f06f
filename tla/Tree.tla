-------------------------------- MODULE Tree --------------------------------
(***************************************************************************)
(* What a walk is given: the file system as the walker can observe it and  *)
(* the options of NewWalkman (walkConf in walkman.go).  A configuration is *)
(* one file system together with one set of options.                       *)
(*                                                                         *)
(* A directory is seen through three system calls:                         *)
(*   getdents64   list[d], the records in the order the kernel gives them; *)
(*   openat/stat  to[d][n], the object the path "d/n" leads to, every      *)
(*                symbolic link followed;                                  *)
(*   stat         id[d], the inode and the device of a directory.          *)
(* "." and ".." never leave readDirRaw and are not listed.                 *)
(***************************************************************************)
EXTENDS Naturals, Sequences

CONSTANTS Dir,      \* the directories, each named once however many paths lead to it
          Name,     \* the names of directory entries
          Configs   \* the configurations a walk may be started with

(***************************************************************************)
(* What a path may lead to besides a directory: nothing (a missing target, *)
(* or a chain of links that ends in ELOOP), a regular file, a fifo, socket *)
(* or device, and an object whose FileInfo carries no syscall.Stat_t.      *)
(***************************************************************************)
NonDir == {"missing", "reg", "other", "nosys"}

Target == Dir \cup NonDir

\* The d_type values Entry speaks (readdir_linux.go, dtUnknown .. dtLnk).
DType == {"dir", "reg", "lnk", "unknown"}

Identity == [ino : Nat, dev : Nat]

\* One getdents64 record, and also one Entry: its parentDir is the batch's.
Dirent == [name : Name, typ : DType, ino : Nat]

(***************************************************************************)
(* root is the object Walk's argument leads to when it is opened, rootStat *)
(* whether os.Stat of it succeeded a moment earlier, and a directory in    *)
(* faulty cannot be read to its end: openat fails, or some getdents64.     *)
(***************************************************************************)
WalkConf ==
    [followLinks : BOOLEAN, maxDepth : Nat, skipSet : SUBSET Name,
     root : Dir \cup {"missing"}, rootStat : BOOLEAN,
     list : [Dir -> Seq(Dirent)], to : [Dir -> [Name -> Target]],
     id : [Dir -> Identity], faulty : SUBSET Dir]

\* A directory never lists one name twice.
DistinctNames(records) ==
    \A i, j \in DOMAIN records : records[i].name = records[j].name => i = j

ASSUME TreeAssumption ==
    /\ Dir \cap NonDir = {}
    /\ Configs \subseteq WalkConf
    /\ \A c \in Configs :
          /\ c.rootStat => c.root \in Dir
          /\ \A d \in Dir : DistinctNames(c.list[d])

-----------------------------------------------------------------------------
\* A path is the sequence of names that leads to it from the root of the walk.
Path == Seq(Name)

\* The limit both visit and visitSym test before they spawn children.
AtMaxDepth(c, depth) == c.maxDepth # 0 /\ depth + 1 > c.maxDepth

ErrKind == {"unreadable", "dangling", "nosys", "cycle"}

\* A DirBatch; its Entries as a set, since no property depends on their order.
Batch == [dir : Path, entries : SUBSET Dirent,
          errs : SUBSET [at : Path, err : ErrKind]]

\* Child directories a batch announces: its entries with IsDir() true.
ChildrenOf(b) == {Append(b.dir, e.name) : e \in {x \in b.entries : x.typ = "dir"}}
=============================================================================
