------------------------------ MODULE Sysfile -------------------------------
(***************************************************************************)
(* The system calls on names: open, mkdir, link, unlink, chdir, close      *)
(* (sysfile.c) and path lookup (namex, fs.c).                              *)
(*                                                                         *)
(* A step runs from one ilock to the iunlock, or to the next ilock made    *)
(* while the first inode stays locked; iput is two steps, its part under   *)
(* the sleep lock and the decrement of ref.  A transaction is durable when *)
(* the last call that is inside one ends (AtomicDisk).                     *)
(***************************************************************************)
EXTENDS Inode

CONSTANTS
  Calls,      \* the system calls that programs make
  Paths,      \* the path names that they pass: [abs, names]
  MaxCalls, MaxCrashes  \* bounds

ASSUME SysfileAssumption == Paths \subseteq [abs : BOOLEAN, names : Seq(Names \cup Dots)]

VARIABLES
  fs,          \* disk, inode cache, locks, panic: see Inode
  stable,      \* the disk that a crash goes back to
  outstanding, \* the processes between begin_op and end_op
  cwd,         \* current directories
  file,        \* the inode of the file that a process has open, or NULL
  loc,         \* where a process is in its call, with its local variables
  calls, crashes

sysVars == <<fs, stable, outstanding, cwd, file, loc, calls, crashes>>

Idle == [op |-> "none", pc |-> "idle", at |-> NULL, path |-> <<>>,
         parent |-> FALSE, name |-> NULL, ip |-> NULL, dp |-> NULL,
         new |-> NULL, put |-> <<>>, k |-> "idle"]

At(p, op, pc) == fs.panic = "" /\ loc[p].op \in op /\ loc[p].pc = pc

(* acquiresleep lets p go on. *)
Unlocked(i) == fs.lock[i] = NULL

(* The step leads to s and l; a panic leaves nothing but its message. *)
To(p, s, l) ==
  /\ IF s.panic # "" THEN fs' = [fs EXCEPT !.panic = s.panic] /\ UNCHANGED loc
     ELSE /\ fs' = s
          /\ loc' = [loc EXCEPT ![p] = IF l.pc = "iput" /\ l.put = <<>>
                                       THEN [l EXCEPT !.pc = l.k] ELSE l]
  /\ UNCHANGED <<stable, crashes>>

(* l about to iput the inodes of the sequence is and then to go on at k. *)
Put(l, is, k) == [l EXCEPT !.pc = "iput", !.put = is, !.k = k]

(* Where a lookup that finds nothing goes on: the call ends, except for    *)
(* the second one of link.                                                 *)
Lost(l) == IF l.op = "link2" THEN "undo" ELSE "end"

(* l at inode i with the names left to look up, after putting is: when no  *)
(* name is left namei returns i, and nameiparent, for "/", nothing.        *)
Walk(l, is, i, names) ==
  IF names # <<>> THEN Put([l EXCEPT !.at = i, !.path = names], is, "walk")
  ELSE IF l.parent THEN Put([l EXCEPT !.at = NULL, !.path = <<>>], Append(is, i), Lost(l))
  ELSE Put([l EXCEPT !.at = NULL, !.path = <<>>, !.ip = i], is, "got")

(* l at the start of namex, which begins at inode i. *)
Namex(l, i, path, parent) == Walk([l EXCEPT !.parent = parent], <<>>, i, path.names)

First(p, path) == IF path.abs THEN ROOTINO ELSE cwd[p]

BeginOp(p) ==
  /\ At(p, {"none"}, "idle") /\ calls < MaxCalls /\ calls' = calls + 1

(* A call begins a transaction and looks up a path. *)
Begin(p, op, path, parent, new) ==
  LET i == First(p, path)
      s == iget(fs, i)
  IN /\ op \in Calls /\ BeginOp(p)
     /\ outstanding' = IF s.panic = "" THEN outstanding \cup {p} ELSE outstanding
     /\ To(p, s, Namex([Idle EXCEPT !.op = op, !.new = new], i, path, parent))
     /\ UNCHANGED <<cwd, file>>

(* open with O_CREATE, mkdir and mknod: all call create. *)
Makes == {"create", "mkdir", "mknod"}

sys_make(p, op, path) == op \in Makes /\ Begin(p, op, path, TRUE, NULL)
sys_open(p, path) == Begin(p, "open", path, FALSE, NULL)
sys_unlink(p, path) == Begin(p, "unlink", path, TRUE, NULL)
sys_chdir(p, path) == Begin(p, "chdir", path, FALSE, NULL)
sys_link(p, path, new) == Begin(p, "link", path, FALSE, new)

(* sys_close, fileclose: the last reference to the struct file. *)
sys_close(p) ==
  /\ file[p] # NULL /\ "close" \in Calls /\ BeginOp(p)
  /\ outstanding' = outstanding \cup {p}
  /\ file' = [file EXCEPT ![p] = NULL]
  /\ To(p, fs, Put([Idle EXCEPT !.op = "close"], <<file[p]>>, "end"))
  /\ UNCHANGED cwd

end_op(p) ==
  /\ fs.panic = "" /\ loc[p].pc = "end"
  /\ outstanding' = outstanding \ {p}
  /\ stable' = IF outstanding = {p} THEN fs.disk ELSE stable
  /\ loc' = [loc EXCEPT ![p] = Idle]
  /\ UNCHANGED <<fs, cwd, file, calls, crashes>>

-----------------------------------------------------------------------------
Same == UNCHANGED <<outstanding, cwd, file, calls>>

AnyOp == Calls \cup {"link2"}

iput(p) ==
  LET l == loc[p]
  IN /\ At(p, AnyOp, "iput") /\ Unlocked(Head(l.put))
     /\ To(p, FreeIfUnused(fs, Head(l.put)), [l EXCEPT !.pc = "iput2"])
     /\ Same

iput_ref(p) ==
  LET l == loc[p]
  IN /\ At(p, AnyOp, "iput2")
     /\ To(p, [fs EXCEPT !.inode[Head(l.put)].ref = @ - 1],
           Put(l, Tail(l.put), l.k))
     /\ Same

(* One round of namex. *)
namex(p) ==
  LET l == loc[p]
      i == l.at
      s == ilock(fs, p, i)
      u == iunlock(s, i)
      n == Head(l.path)
      j == dirlookup(s, i, n)
      last == l.parent /\ Len(l.path) = 1
      out == [l EXCEPT !.at = NULL, !.path = <<>>]
  IN /\ At(p, AnyOp, "walk") /\ Unlocked(i)
     /\ IF s.panic # "" THEN To(p, s, l)
        ELSE IF s.inode[i].type # "dir" \/ (~last /\ j = 0)
          THEN To(p, u, Put(out, <<i>>, Lost(l)))
        ELSE IF last THEN To(p, u, [out EXCEPT !.pc = "got", !.dp = i, !.name = n])
        ELSE To(p, iget(u, j), Walk(l, <<i>>, j, Tail(l.path)))
     /\ Same

(* The end of sys_open with the locked inode l.ip in s: a file, or no file *)
(* or descriptor left, or a directory opened for writing.                  *)
OpenFile(p, s, l, ok) ==
  LET u == iunlock(s, l.ip)
  IN /\ IF ok /\ file[p] = NULL /\ s.panic = ""
        THEN /\ file' = [file EXCEPT ![p] = l.ip]
             /\ To(p, u, [l EXCEPT !.pc = "end", !.ip = NULL])
        ELSE /\ To(p, u, Put([l EXCEPT !.ip = NULL], <<l.ip>>, "end"))
             /\ UNCHANGED file
     /\ UNCHANGED <<outstanding, cwd, calls>>

open_got(p) ==
  LET l == loc[p]
      s == ilock(fs, p, l.ip)
  IN /\ At(p, {"open"}, "got") /\ Unlocked(l.ip)
     /\ \E rdonly \in BOOLEAN :
          OpenFile(p, s, l, rdonly \/ s.inode[l.ip].type # "dir")

-----------------------------------------------------------------------------
Type(op) == CASE op = "mkdir" -> "dir" [] op = "mknod" -> "dev" [] OTHER -> "file"

(* create, with the parent directory found.  It returns the inode locked. *)
create(p) ==
  LET l == loc[p]
      d == l.dp
      s == ilock(fs, p, d)
      j == dirlookup(s, d, l.name)
      new == FirstFree(s)
      m == Made(s, p, new, Type(l.op))
      dots == SetEntry(SetEntry(AddLinks(m, d, 1), new, ".", new), new, "..", d)
      t == SetEntry(IF l.op = "mkdir" THEN dots ELSE m, d, l.name, new)
      rest == [l EXCEPT !.dp = NULL]
  IN /\ At(p, Makes, "got") /\ Unlocked(d)
     /\ IF s.panic # "" THEN To(p, s, l)
        ELSE IF j # 0
          THEN To(p, iget(iunlock(s, d), j), Put([rest EXCEPT !.ip = j], <<d>>, "exists"))
        ELSE IF new = 0 THEN To(p, [s EXCEPT !.panic = "ialloc: no inodes"], l)
        ELSE IF m.panic # "" THEN To(p, m, l)
        ELSE To(p, iunlock(t, d), Put([rest EXCEPT !.ip = new], <<d>>, "made"))
     /\ Same

create_exists(p) ==
  LET l == loc[p]
      s == ilock(fs, p, l.ip)
  IN /\ At(p, Makes, "exists") /\ Unlocked(l.ip)
     /\ OpenFile(p, s, l, l.op = "create" /\ s.inode[l.ip].type = "file")

create_made(p) ==
  /\ At(p, Makes, "made")
  /\ OpenFile(p, fs, loc[p], loc[p].op = "create")

(* unlink: the directory stays locked while its entry is being locked. *)
unlink_dir(p) ==
  LET l == loc[p]
      s == ilock(fs, p, l.dp)
      j == dirlookup(s, l.dp, l.name)
  IN /\ At(p, {"unlink"}, "got") /\ Unlocked(l.dp)
     /\ IF s.panic # "" THEN To(p, s, l)
        ELSE IF l.name \in Dots \/ j = 0
          THEN To(p, iunlock(s, l.dp), Put([l EXCEPT !.dp = NULL], <<l.dp>>, "end"))
        ELSE To(p, iget(s, j), [l EXCEPT !.pc = "entry", !.ip = j])
     /\ Same

unlink_entry(p) ==
  LET l == loc[p]
      s == ilock(fs, p, l.ip)
      dir == s.inode[l.ip].type = "dir"
      e == SetEntry(s, l.dp, l.name, 0)
      t == IF dir THEN AddLinks(e, l.dp, -1) ELSE e
  IN /\ At(p, {"unlink"}, "entry") /\ Unlocked(l.ip)
     /\ IF s.panic # "" THEN To(p, s, l)
        ELSE IF s.inode[l.ip].nlink < 1
          THEN To(p, [s EXCEPT !.panic = "unlink: nlink < 1"], l)
        ELSE IF dir /\ ~isdirempty(s, l.ip)
          THEN To(p, iunlock(s, l.ip), Put([l EXCEPT !.ip = NULL], <<l.ip>>, "notempty"))
        ELSE To(p, iunlock(t, l.dp), Put([l EXCEPT !.dp = NULL], <<l.dp>>, "unlinked"))
     /\ Same

(* The locked directory is given up: unlink of a directory that is not     *)
(* empty, link to a name that is there.                                    *)
GiveUp(p) ==
  LET l == loc[p]
  IN /\ At(p, AnyOp, "notempty")
     /\ To(p, iunlock(fs, l.dp),
           Put([l EXCEPT !.dp = NULL], <<l.dp>>, Lost(l)))
     /\ Same

unlink_done(p) ==
  LET l == loc[p]
  IN /\ At(p, {"unlink"}, "unlinked")
     /\ To(p, iunlock(AddLinks(fs, l.ip, -1), l.ip),
           Put([l EXCEPT !.ip = NULL], <<l.ip>>, "end"))
     /\ Same

(* Mutant: the link is counted only in the inode cache. *)
CountLinkCached(s, i) == [s EXCEPT !.inode[i].nlink = @ + 1]

CountLink(s, i) == AddLinks(s, i, 1)

(* link: one link more, before the new name is looked up. *)
link_old(p) ==
  LET l == loc[p]
      s == ilock(fs, p, l.ip)
      d == First(p, l.new)
  IN /\ At(p, {"link"}, "got") /\ Unlocked(l.ip)
     /\ IF s.panic # "" THEN To(p, s, l)
        ELSE IF s.inode[l.ip].type = "dir"
          THEN To(p, iunlock(s, l.ip), Put([l EXCEPT !.ip = NULL], <<l.ip>>, "end"))
        ELSE To(p, iget(iunlock(CountLink(s, l.ip), l.ip), d),
                Namex([l EXCEPT !.op = "link2", !.new = NULL], d, l.new, TRUE))
     /\ Same

(* dirlink puts a found entry back with the directory locked. *)
link_new(p) ==
  LET l == loc[p]
      d == l.dp
      s == ilock(fs, p, d)
      j == dirlookup(s, d, l.name)
  IN /\ At(p, {"link2"}, "got") /\ Unlocked(d)
     /\ IF s.panic # "" THEN To(p, s, l)
        ELSE IF j # 0 THEN To(p, iget(s, j), Put(l, <<j>>, "notempty"))
        ELSE To(p, iunlock(SetEntry(s, d, l.name, l.ip), d),
                Put([l EXCEPT !.dp = NULL, !.ip = NULL], <<d, l.ip>>, "end"))
     /\ Same

(* bad: the link is taken back. *)
link_undo(p) ==
  LET l == loc[p]
      s == ilock(fs, p, l.ip)
  IN /\ At(p, {"link2"}, "undo") /\ Unlocked(l.ip)
     /\ To(p, iunlock(AddLinks(s, l.ip, -1), l.ip),
           Put([l EXCEPT !.ip = NULL], <<l.ip>>, "end"))
     /\ Same

(* Mutant: the old current directory is not put. *)
PutCwdNot(p, l) == Put(l, <<>>, "end")

PutCwd(p, l) == Put(l, <<cwd[p]>>, "end")

(* (The code assigns cwd after end_op; only the process itself reads it.)  *)
chdir_got(p) ==
  LET l == loc[p]
      s == ilock(fs, p, l.ip)
      rest == [l EXCEPT !.ip = NULL]
  IN /\ At(p, {"chdir"}, "got") /\ Unlocked(l.ip)
     /\ IF s.panic = "" /\ s.inode[l.ip].type = "dir"
        THEN /\ cwd' = [cwd EXCEPT ![p] = l.ip]
             /\ To(p, iunlock(s, l.ip), PutCwd(p, rest))
        ELSE To(p, iunlock(s, l.ip), Put(rest, <<l.ip>>, "end")) /\ UNCHANGED cwd
     /\ UNCHANGED <<outstanding, file, calls>>

(* The machine stops and starts again; the log has been replayed. *)
Crash ==
  /\ crashes < MaxCrashes
  /\ fs' = Booted(stable)
  /\ outstanding' = {}
  /\ cwd' = [p \in Procs |-> ROOTINO]
  /\ file' = [p \in Procs |-> NULL]
  /\ loc' = [p \in Procs |-> Idle]
  /\ crashes' = crashes + 1
  /\ UNCHANGED <<stable, calls>>

Init ==
  /\ fs = Booted(mkfs) /\ stable = mkfs
  /\ outstanding = {}
  /\ cwd = [p \in Procs |-> ROOTINO]
  /\ file = [p \in Procs |-> NULL]
  /\ loc = [p \in Procs |-> Idle]
  /\ calls = 0 /\ crashes = 0

Call(p) ==
  \/ \E path \in Paths :
       \/ sys_open(p, path) \/ sys_unlink(p, path) \/ sys_chdir(p, path)
       \/ \E op \in Makes : sys_make(p, op, path)
       \/ \E new \in Paths : sys_link(p, path, new)
  \/ sys_close(p)

Step(p) ==
  \/ iput(p) \/ iput_ref(p) \/ namex(p) \/ end_op(p)
  \/ open_got(p) \/ create(p) \/ create_exists(p) \/ create_made(p)
  \/ unlink_dir(p) \/ unlink_entry(p) \/ GiveUp(p) \/ unlink_done(p)
  \/ link_old(p) \/ link_new(p) \/ link_undo(p)
  \/ chdir_got(p)

Next == (\E p \in Procs : Call(p) \/ Step(p)) \/ Crash

Spec == Init /\ [][Next]_sysVars
=============================================================================
