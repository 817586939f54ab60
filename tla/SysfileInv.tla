----------------------------- MODULE SysfileInv -----------------------------
(***************************************************************************)
(* What makes names and inodes correct (fs.c, sysfile.c).                  *)
(***************************************************************************)
EXTENDS Sysfile, TLC

(* The references to inode i that processes, files and directories hold. *)
Holders(i) ==
  {h \in Procs \X {"at", "ip", "dp"} : loc[h[1]][h[2]] = i}
    \cup {h \in Procs \X {"put"} : loc[h[1]].put # <<>> /\ loc[h[1]].put[1] = i}
    \cup {h \in Procs \X {"put2"} : Len(loc[h[1]].put) = 2 /\ loc[h[1]].put[2] = i}
    \cup {h \in Procs \X {"cwd"} : cwd[h[1]] = i}
    \cup {h \in Procs \X {"file"} : file[h[1]] = i}

(* ip->ref is the number of pointers to the inode, on every way through    *)
(* every call, the ones that fail included (fs.c 123-128): a reference too *)
(* few frees an inode in use, one too many keeps it for ever.              *)
RefCounts == \A i \in Inums : fs.inode[i].ref = Cardinality(Holders(i))

(* The names of inode i on disk d, and the names of the directories in it, *)
(* whose ".." refers to it.                                                *)
NamesOf(d, i) ==
  {e \in Inums \X Names : d[e[1]].type = "dir" /\ d[e[1]].ent[e[2]] = i}

SubdirsOf(d, i) ==
  {n \in Names : /\ d[i].type = "dir" /\ d[i].ent[n] # 0
                 /\ d[d[i].ent[n]].type = "dir"}

(* The links that inode i must have: mkfs gives the root one more. *)
LinksTo(d, i) ==
  Cardinality(NamesOf(d, i)) + Cardinality(SubdirsOf(d, i))
    + (IF i = ROOTINO THEN 1 ELSE 0)

(* No crash leaves a name of an inode that is free or that has fewer links *)
(* than names and subdirectories, so that removing the other names frees   *)
(* it, or a directory whose ".." is not the directory it is in: create,    *)
(* link and unlink change inode and entry in one transaction, whatever     *)
(* other calls share it (sysfile.c 144-309).                               *)
NamesSafe ==
  \A i \in Inums :
    /\ stable[i].type = "none" => NamesOf(stable, i) = {}
    /\ LinksTo(stable, i) <= stable[i].nlink
    /\ \A n \in SubdirsOf(stable, i) : stable[stable[i].ent[n]].ent[".."] = i

(* An inode that is some process's open file or current directory is not   *)
(* freed, when its last name goes (fs.c 326-353) either.                   *)
InUseKept ==
  \A p \in Procs : \A i \in {cwd[p], file[p]} \ {NULL} :
    fs.disk[i].type # "none"

(* No path goes up: the ".." of a removed directory that is still in use   *)
(* may refer to an inode that is free.                                     *)
NoDots == \A path \in Paths : path.names \in Seq(Names)

(* As long as no path uses . or .. the kernel stops only for lack of       *)
(* inodes, on the disk (ialloc, fs.c 214) or in the cache (iget, fs.c      *)
(* 263): no lookup ends at a free inode (fs.c 311), and no name is removed *)
(* that is not counted (sysfile.c 237).  With .. a lookup that starts in a *)
(* removed directory does end at a free inode.                             *)
LackOfInodes == {"ialloc: no inodes", "iget: no inodes"}
OnlyInodePanic == NoDots => fs.panic \in {""} \cup LackOfInodes

(* The inode whose lock the next step of a process takes. *)
Target(l) ==
  IF l.pc = "walk" THEN l.at
  ELSE IF l.pc = "iput" THEN Head(l.put)
  ELSE IF l.pc = "got" /\ l.dp # NULL THEN l.dp
  ELSE IF l.pc \in {"got", "exists", "entry", "undo"} THEN l.ip
  ELSE NULL

(* No processes wait for each other's inode locks in a circle. *)
NoDeadlock ==
  \A S \in SUBSET Procs :
    S # {} => \E p \in S :
      Target(loc[p]) = NULL \/ fs.lock[Target(loc[p])] \notin S

(* An inode without links and without references is free (fs.c 328): the   *)
(* process that drops the last reference frees it.                         *)
NoOrphan ==
  \A i \in Inums :
    fs.disk[i].type # "none" /\ fs.disk[i].nlink = 0 => fs.inode[i].ref > 0

-----------------------------------------------------------------------------
(* The inductive invariant.                                                *)

(* Where a process goes on when it has put its inodes. *)
Goal(l) == IF l.pc \in {"iput", "iput2"} THEN l.k ELSE l.pc

(* The calls that look up the parent of a name. *)
ParentOps == Makes \cup {"unlink", "link2"}

HasIp(l) ==
  \/ Goal(l) \in {"exists", "made", "entry", "unlinked"}
  \/ l.op \in {"open", "chdir", "link"} /\ Goal(l) = "got"
  \/ l.op = "link2" /\ Goal(l) \in {"walk", "got", "undo", "notempty"}

HasDp(l) ==
  \/ Goal(l) \in {"entry", "notempty"}
  \/ l.op \in ParentOps /\ Goal(l) = "got"

(* Which references a process has where, and nowhere else. *)
LocOK(l) ==
  /\ (l.at # NULL) <=> (Goal(l) = "walk")
  /\ (l.ip # NULL) <=> HasIp(l)
  /\ (l.dp # NULL) <=> HasDp(l)
  /\ (l.put # <<>>) <=> (l.pc \in {"iput", "iput2"})
  /\ Len(l.put) <= 2
  /\ Goal(l) = "walk" => l.path # <<>> /\ (l.parent <=> l.op \in ParentOps)
  /\ (l.op = "none") <=> (l.pc = "idle")
  /\ l.pc = "idle" => l = Idle
  /\ l.op = "link" => l.new \in Paths
  /\ Goal(l) = "got" /\ l.op \in ParentOps => l.name \in Names \cup Dots
  /\ Goal(l) \in {"exists", "made"} => l.op \in Makes
  /\ Goal(l) \in {"entry", "unlinked"} => l.op = "unlink"
  /\ Goal(l) = "notempty" => l.op \in {"unlink", "link2"}
  /\ Goal(l) = "undo" => l.op = "link2"
  /\ l.pc \in {"iput", "iput2"} => l.k # "idle"
  /\ l.op = "close" => Goal(l) = "end"

Types == {"none", "dir", "file", "dev"}

DinodeType ==
  [type : Types, nlink : Int, ent : [Names \cup Dots -> Inums \cup {0}]]

DiskType == [Inums -> DinodeType]

Panics == {"", "ilock: no type", "unlink: nlink < 1"} \cup LackOfInodes

InodeType == [ref : Nat, valid : BOOLEAN, type : Types, nlink : Int]

FsType ==
  [disk : DiskType, inode : [Inums -> InodeType],
   lock : [Inums -> Procs \cup {NULL}], panic : Panics]

Goals == {"idle", "walk", "got", "exists", "made", "entry", "notempty",
          "unlinked", "undo", "end"}

LocType ==
  [op : {"none", "open", "create", "mkdir", "mknod", "link", "link2", "unlink",
         "chdir", "close"},
   pc : Goals \cup {"iput", "iput2"}, at : Inums \cup {NULL},
   path : Seq(Names \cup Dots), parent : BOOLEAN, name : Names \cup Dots \cup {NULL},
   ip : Inums \cup {NULL}, dp : Inums \cup {NULL}, new : Paths \cup {NULL},
   put : Seq(Inums), k : Goals]

TypeOK ==
  /\ fs \in FsType /\ stable \in DiskType
  /\ cwd \in [Procs -> Inums] /\ file \in [Procs -> Inums \cup {NULL}]
  /\ loc \in [Procs -> LocType]
  /\ calls \in Nat /\ crashes \in Nat
  /\ outstanding = {p \in Procs : loc[p].pc # "idle"}

(* What is valid in the inode cache is what is on the disk. *)
Cached(s) ==
  \A i \in Inums : s.inode[i].valid =>
    /\ s.inode[i].type = s.disk[i].type /\ s.inode[i].nlink = s.disk[i].nlink
    /\ s.disk[i].type # "none"

(* What process p, at l, holds from one lock section to the next is still  *)
(* what it was when the process looked at it.                              *)
HeldOK(s, p, l) ==
  /\ l.dp # NULL => s.inode[l.dp].valid /\ s.disk[l.dp].type = "dir"
  /\ l.op = "link2" /\ l.ip # NULL => s.inode[l.ip].valid /\ s.disk[l.ip].type # "dir"
  /\ Goal(l) \in {"made", "unlinked"} => s.inode[l.ip].valid /\ s.lock[l.ip] = p
  /\ Goal(l) \in {"entry", "notempty"} => s.lock[l.dp] = p
  /\ Goal(l) = "entry" => l.name \in Names /\ s.disk[l.dp].ent[l.name] = l.ip

(* The processes that have counted a link to i and not made its name, or   *)
(* removed the name and not the link.                                      *)
Pending(i) ==
  {p \in Procs : /\ loc[p].ip = i
                 /\ loc[p].op = "link2" \/ Goal(loc[p]) = "unlinked"}

Linked ==
  \A i \in Inums :
    LinksTo(fs.disk, i) + Cardinality(Pending(i)) <= fs.disk[i].nlink

DirsOK(d) ==
  /\ d[ROOTINO].type = "dir"
  /\ \A i \in Inums :
       /\ d[i].type = "none" => d[i].nlink = 0
       /\ d[i].type = "dir" => \A n \in Dots : d[i].ent[n] # 0
       /\ \A n \in SubdirsOf(d, i) : d[d[i].ent[n]].ent[".."] = i

StableOK ==
  DirsOK(stable) /\ \A i \in Inums : LinksTo(stable, i) <= stable[i].nlink

(* What a process at l holds is in use, except for what it has just freed. *)
HeldInUse(d, l) ==
  /\ \A i \in {l.at, l.ip, l.dp} \ {NULL} : d[i].type # "none"
  /\ \A n \in DOMAIN l.put : (l.pc = "iput2" /\ n = 1) \/ d[l.put[n]].type # "none"
  /\ l.path \in Seq(Names) /\ (l.name \in Names \/ l.name = NULL)

(* The inode cache, the disk, the links and what each call remembers agree *)
(* between any two lock sections (fs.c 123-160, sysfile.c 144-420): what a *)
(* call found stays what it was while others run, though its locks are     *)
(* given back in between.                                                  *)
SysInv ==
  /\ TypeOK /\ Cached(fs) /\ Linked /\ DirsOK(fs.disk)
  /\ \A p \in Procs : LocOK(loc[p]) /\ HeldOK(fs, p, loc[p])
  /\ NoDots => \A p \in Procs : HeldInUse(fs.disk, loc[p])

SysIndInv ==
  /\ SysInv /\ RefCounts /\ InUseKept /\ StableOK
  /\ OnlyInodePanic

Abs(names) == [abs |-> TRUE, names |-> names]
Rel(names) == [abs |-> FALSE, names |-> names]

FlatPaths == {Abs(<<"a">>), Abs(<<"b">>)}
TreePaths == {Abs(<<"a">>), Rel(<<"b">>), Abs(<<"b", "a">>)}

OneFile == <<"a">>

ProcSymmetry == Permutations(Procs)
=============================================================================
