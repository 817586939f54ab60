------------------------------- MODULE Inode --------------------------------
(***************************************************************************)
(* The inodes of fs.c: on the disk, in the inode cache, and their sleep    *)
(* locks (sleeplock.c).  The functions work on a record s = [disk, inode,  *)
(* lock, panic] and return it changed; which of them runs when is said in  *)
(* Sysfile.  The contents of files are left to Blocks; those of a          *)
(* directory are its entries.                                              *)
(***************************************************************************)
EXTENDS Integers, SequencesExt

CONSTANTS Procs, Inums, NINODE, ROOTINO, Names, ImageFiles, NULL

ASSUME InodeAssumption ==
  /\ Inums \subseteq Nat \ {0} /\ ROOTINO = 1 /\ ROOTINO \in Inums
  /\ IsFiniteSet(Inums) /\ IsFiniteSet(Names) /\ IsFiniteSet(Procs) /\ NINODE \in Nat
  /\ ImageFiles \in Seq(Names) /\ \A k \in DOMAIN ImageFiles : k + 1 \in Inums
  /\ "." \notin Names /\ ".." \notin Names
  /\ NULL \notin Inums \cup Procs /\ NULL \notin Names \cup {".", ".."}

Dots == {".", ".."}
NoEntries == [n \in Names \cup Dots |-> 0]

(* A free inode on the disk; one in the cache that nobody refers to. *)
FreeInode == [type |-> "none", nlink |-> 0, ent |-> NoEntries]
NotCached == [ref |-> 0, valid |-> FALSE, type |-> "none", nlink |-> 0]

(* ialloc: the first free inode, 0 if there is none. *)
FirstFree(s) ==
  LET free == {i \in Inums : s.disk[i].type = "none"}
  IN IF free = {} THEN 0 ELSE Min(free)

(* Inode i is not in the cache, and every entry of the cache is in use. *)
NoEntryFor(s, i) ==
  s.inode[i].ref = 0 /\ Cardinality({x \in Inums : s.inode[x].ref > 0}) >= NINODE

(* Find the entry in the cache, or recycle one. *)
iget(s, i) ==
  LET m == IF s.inode[i].ref > 0 THEN s.inode[i] ELSE NotCached
  IN IF NoEntryFor(s, i) THEN [s EXCEPT !.panic = "iget: no inodes"]
     ELSE [s EXCEPT !.inode[i] = [m EXCEPT !.ref = m.ref + 1]]

(* The rest of ilock once p has got the sleep lock. *)
ilock(s, p, i) ==
  LET d == s.disk[i]
      t == [s EXCEPT !.lock[i] = p]
  IN IF s.inode[i].valid THEN t
     ELSE IF d.type = "none" THEN [s EXCEPT !.panic = "ilock: no type"]
     ELSE [t EXCEPT !.inode[i] = [ref |-> @.ref, valid |-> TRUE,
                                  type |-> d.type, nlink |-> d.nlink]]

iunlock(s, i) == [s EXCEPT !.lock[i] = NULL]

iupdate(s, i) ==
  [s EXCEPT !.disk[i].type = s.inode[i].type, !.disk[i].nlink = s.inode[i].nlink]

(* ip->nlink += n, and iupdate. *)
AddLinks(s, i, n) == iupdate([s EXCEPT !.inode[i].nlink = @ + n], i)

(* ialloc and the start of create: inode j, made, locked and with one link. *)
Made(s, p, j, type) ==
  LET t == ilock(iget([s EXCEPT !.disk[j] = [FreeInode EXCEPT !.type = type]], j),
                 p, j)
  IN AddLinks(t, j, 1)

(* Mutant: other references do not count. *)
UnusedNoRef(m) == m.valid /\ m.nlink = 0

Unused(m) == m.valid /\ m.nlink = 0 /\ m.ref = 1

(* The part of iput under the sleep lock: no links and no other reference. *)
FreeIfUnused(s, i) ==
  LET m == s.inode[i]
  IN IF Unused(m)
     THEN [s EXCEPT !.disk[i] = FreeInode,
                    !.inode[i] = [NotCached EXCEPT !.ref = 1]]
     ELSE s

dirlookup(s, d, n) == s.disk[d].ent[n]

SetEntry(s, d, n, i) == [s EXCEPT !.disk[d].ent[n] = i]

isdirempty(s, d) == \A n \in Names : s.disk[d].ent[n] = 0

(* mkfs: the k-th file of the image is inode k + 1, in the root directory. *)
mkfs ==
  LET inum(n) == SelectInSeq(ImageFiles, LAMBDA f : f = n)
      root == [n \in Names \cup Dots |->
                 IF n \in Dots THEN ROOTINO
                 ELSE IF inum(n) = 0 THEN 0 ELSE inum(n) + 1]
  IN [i \in Inums |->
        IF i = ROOTINO THEN [type |-> "dir", nlink |-> 1, ent |-> root]
        ELSE IF i - 1 \in DOMAIN ImageFiles
        THEN [FreeInode EXCEPT !.type = "file", !.nlink = 1] ELSE FreeInode]

(* After boot every process is in the root directory and has no files. *)
Booted(disk) ==
  [disk |-> disk, lock |-> [i \in Inums |-> NULL], panic |-> "",
   inode |-> [i \in Inums |->
                IF i = ROOTINO THEN [NotCached EXCEPT !.ref = Cardinality(Procs)]
                ELSE NotCached]]
=============================================================================
