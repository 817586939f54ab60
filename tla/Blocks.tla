------------------------------- MODULE Blocks -------------------------------
(***************************************************************************)
(* The contents of files: the free map, the block tree of an inode with    *)
(* its direct, single, double and triple indirect blocks (fs.c), and the   *)
(* reads and writes of open files in chunks of one transaction (file.c).   *)
(*                                                                         *)
(* A chunk is one step: it runs with the inode locked, and what it shares  *)
(* with other inodes, the free map, it changes one locked buffer at a      *)
(* time.  The log is taken at its promise (AtomicDisk, which Log is shown  *)
(* to implement): a crash goes back to the disk of some earlier moment     *)
(* between transactions.  What is in the inode cache is lost.              *)
(***************************************************************************)
EXTENDS Integers, Sequences, FiniteSetsExt

CONSTANTS
  Procs, Files,   \* a file is an inode and the struct file it is open through
  NDIRECT, NINDIRECT, BSIZE, SIZE, MAXOPBLOCKS,
  UINT,           \* 2^32, scaled
  Offsets,        \* the offsets that programs pass to pwrite
  WriteLens, PwriteLens, \* the lengths that they pass to write and pwrite
  MaxLen, MaxCalls, MaxCrashes, \* bounds
  NULL

NDINDIRECT == NINDIRECT * NINDIRECT
NTINDIRECT == NDINDIRECT * NINDIRECT
MAXFILE == NDIRECT + NINDIRECT + NDINDIRECT + NTINDIRECT

(* A cell of a block holds a byte or a block number.  The disk is too      *)
(* small for the largest file and its indirect blocks, even without the    *)
(* blocks that the last of them lists; a chunk is no longer than what an   *)
(* indirect block lists (param.h, fs.h).                                   *)
ASSUME BlocksAssumption ==
  /\ NDIRECT \in Nat \ {0} /\ NINDIRECT \in Nat \ {0} /\ NINDIRECT <= BSIZE
  /\ BSIZE \in Nat /\ SIZE \in Nat \ {0} /\ MAXOPBLOCKS \in Nat /\ MAXOPBLOCKS >= 6
  /\ (MAXOPBLOCKS - 1 - 1 - 2) \div 2 <= NINDIRECT
  /\ SIZE <= MAXFILE + 3 + NINDIRECT + NDINDIRECT
  /\ UINT \in Nat /\ MAXFILE * BSIZE < UINT /\ MaxLen \in Nat /\ MaxLen < UINT
  /\ Offsets \subseteq 0..(UINT - 1)
  /\ WriteLens \subseteq 0..MaxLen /\ PwriteLens \subseteq 0..MaxLen

Inodes == [size : Nat, addrs : [0..(NDIRECT + 2) -> Nat]]
Calls  == [pc : {"write", "catchup", "pwrite"}, f : Files, n : Nat, i : Nat,
           off : Nat, cur : Nat]

ASSUME NullAssumption == NULL \notin Inodes /\ NULL \notin Calls

BlockNos == 0..(SIZE - 1)
Zeroes == [i \in 0..(BSIZE - 1) |-> 0]
NoAddrs == [i \in 0..(NDIRECT + 2) |-> 0]
NewInode == [size |-> 0, addrs |-> NoAddrs]

VARIABLES
  disk,    \* what the transactions read and write: the free map (used), the
           \* blocks (blk) and the inodes (dino)
  stable,  \* the disk that a crash goes back to
  inode,   \* the inode cache: size and addrs of the open files, or NULL
  off,     \* f->off
  call,    \* the system call of a process, between two transactions
  panic,   \* the message of the panic that stopped the kernel, or "none"
  calls, crashes \* how many there have been

blockVars == <<disk, stable, inode, off, call, panic, calls, crashes>>

-----------------------------------------------------------------------------
(* The functions below work on a record t: the free map and the blocks,    *)
(* the addresses of one inode, the block number last returned, panic.      *)

Txn(f) == [used |-> disk.used, blk |-> disk.blk, addrs |-> inode[f].addrs,
           addr |-> 0, panic |-> "none"]

(* Mutant: the bit in the free map is not set. *)
MarkedNot(t, b) == t.used

(* The free map with the bit of b set. *)
Marked(t, b) == t.used \cup {b}

(* First free block, zeroed. *)
balloc(t) ==
  LET free == BlockNos \ t.used
      b    == Min(free)
  IN IF free = {} THEN [t EXCEPT !.panic = "balloc: out of blocks"]
     ELSE [t EXCEPT !.used = Marked(t, b), !.blk[b] = Zeroes, !.addr = b]

(* Mutant: always the first place of the second block. *)
DoublePathOff(d) == <<NDIRECT + 1, d \div NINDIRECT, 0>>

(* The places in the double indirect tree. *)
DoublePath(d) == <<NDIRECT + 1, d \div NINDIRECT, d % NINDIRECT>>

(* Where block bn of a file is found: the place in ip->addrs, then the     *)
(* place in each indirect block on the way.                                *)
Path(bn) ==
  LET s == bn - NDIRECT
      d == s - NINDIRECT
      x == d - NDINDIRECT
      y == x % NDINDIRECT
  IN IF bn < NDIRECT THEN <<bn>>
     ELSE IF s < NINDIRECT THEN <<NDIRECT, s>>
     ELSE IF d < NDINDIRECT THEN DoublePath(d)
     ELSE <<NDIRECT + 2, x \div NDINDIRECT, y \div NINDIRECT, y % NINDIRECT>>

(* The entry in ip->addrs, allocated if there is none. *)
Root(t, i) ==
  LET a == balloc(t)
  IN IF t.addrs[i] # 0 THEN [t EXCEPT !.addr = t.addrs[i]]
     ELSE IF a.panic # "none" THEN a
     ELSE [a EXCEPT !.addrs[i] = a.addr]

(* The entry in the indirect block t.addr, allocated if there is none. *)
Entry(t, i) ==
  LET a == balloc(t)
  IN IF t.panic # "none" THEN t
     ELSE IF t.blk[t.addr][i] # 0 THEN [t EXCEPT !.addr = t.blk[t.addr][i]]
     ELSE IF a.panic # "none" THEN a
     ELSE [a EXCEPT !.blk[t.addr][i] = a.addr]

bmap(t, bn) ==
  LET path == Path(bn)
      after[l \in 1..Len(path)] ==
        IF l = 1 THEN Root(t, path[1]) ELSE Entry(after[l - 1], path[l])
  IN IF bn >= MAXFILE THEN [t EXCEPT !.panic = "bmap: out of range"]
     ELSE after[Len(path)]

(* The blocks that an indirect block lists. *)
Listed(t, b) == {t.blk[b][i] : i \in 0..(NINDIRECT - 1)} \ {0}
ListedBy(t, bs) == UNION {Listed(t, b) : b \in bs}

(* All the blocks that itrunc frees. *)
Tree(t) ==
  LET direct == {t.addrs[i] : i \in 0..(NDIRECT - 1)} \ {0}
      s  == {t.addrs[NDIRECT]} \ {0}
      d  == {t.addrs[NDIRECT + 1]} \ {0}
      dd == ListedBy(t, d)
      x  == {t.addrs[NDIRECT + 2]} \ {0}
      xx == ListedBy(t, x)
      xxx == ListedBy(t, xx)
  IN direct \cup s \cup ListedBy(t, s) \cup d \cup dd \cup ListedBy(t, dd)
       \cup x \cup xx \cup xxx \cup ListedBy(t, xxx)

itrunc(t) ==
  IF Tree(t) \subseteq t.used
  THEN [t EXCEPT !.used = @ \ Tree(t), !.addrs = NoAddrs]
  ELSE [t EXCEPT !.panic = "freeing free block"]

(* The loop of writei and pwritei: bytes d from position pos on. *)
CopyIn(t, pos, d) ==
  LET Put(u, k) ==
        LET m == bmap(u, (pos + k) \div BSIZE)
        IN IF u.panic # "none" THEN u
           ELSE IF m.panic # "none" THEN m
           ELSE [m EXCEPT !.blk[m.addr][(pos + k) % BSIZE] = d[k]]
      after[k \in DOMAIN d] == Put(IF k = 0 THEN t ELSE after[k - 1], k)
  IN after[Max(DOMAIN d)]

-----------------------------------------------------------------------------
(* Steps.  A step that ends in a panic leaves only the message.            *)

Running == panic = "none"

Panic(msg) ==
  /\ panic' = msg
  /\ UNCHANGED <<disk, stable, inode, off, call, calls, crashes>>

(* end_op of p: the transaction is on the disk at once, or with the next   *)
(* one if another process is inside a transaction too.  (Bound: no more    *)
(* than two transactions are committed together.)                          *)
EndOp(p, d) ==
  /\ disk' = d
  /\ \/ stable' = d
     \/ /\ stable = disk /\ \E q \in Procs \ {p} : call[q] # NULL
        /\ UNCHANGED stable

WithBlocks(t) == [disk EXCEPT !.used = t.used, !.blk = t.blk]

(* Mutant: the new inode stays in the cache. *)
iupdateNot(t, f, ip) == WithBlocks(t)

iupdate(t, f, ip) == [WithBlocks(t) EXCEPT !.dino[f] = ip]

(* Mutant: the blocks are freed and the inode on the disk keeps them. *)
TruncatedNoUpdate(t, f) == WithBlocks(t)

(* The disk after itrunc, and the iupdate at its end. *)
Truncated(t, f) == [WithBlocks(t) EXCEPT !.dino[f] = NewInode]

(* The first ilock of an inode reads it from the disk. *)
Open(f) ==
  /\ Running /\ inode[f] = NULL
  /\ inode' = [inode EXCEPT ![f] = disk.dino[f]]
  /\ off' = [off EXCEPT ![f] = 0]
  /\ UNCHANGED <<disk, stable, call, panic, calls, crashes>>

InUse(f) == \E p \in Procs : call[p] # NULL /\ call[p].f = f

(* iput of the last reference: the cache entry may be used for another     *)
(* inode from now on; a file without links is truncated first.             *)
Close(f, nlink) ==
  LET t == itrunc(Txn(f))
  IN /\ Running /\ inode[f] # NULL /\ ~InUse(f)
     /\ IF nlink = 0 /\ t.panic # "none" THEN Panic(t.panic)
        ELSE /\ IF nlink = 0
                THEN EndOp(NULL, Truncated(t, f))
                ELSE EndOp(NULL, disk)
             /\ inode' = [inode EXCEPT ![f] = NULL]
             /\ UNCHANGED <<off, call, panic, calls, crashes>>

Called(p, c) ==
  /\ Running /\ call[p] = NULL /\ inode[c.f] # NULL /\ calls < MaxCalls
  /\ call' = [call EXCEPT ![p] = c]
  /\ calls' = calls + 1
  /\ UNCHANGED <<disk, stable, inode, off, panic, crashes>>

filewrite(p, f, n) ==
  Called(p, [pc |-> "write", f |-> f, n |-> n, i |-> 0, off |-> 0, cur |-> 0])

(* Mutant: the comparison is the wrong way round. *)
HasGapNot(f, o) == o < inode[f].size

(* There is a gap between the end of the file and the offset of a pwrite. *)
HasGap(f, o) == o > inode[f].size

(* The size is read without a lock, here and at the start of catchupoffset. *)
filepwrite(p, f, n, o) ==
  /\ inode[f] # NULL
  /\ Called(p, [pc |-> IF HasGap(f, o) THEN "catchup" ELSE "pwrite",
                f |-> f, n |-> n, i |-> 0, off |-> o,
                cur |-> inode[f].size \div BSIZE])

(* One round of catchupoffset; the inode is not written to the disk. *)
catchupoffset(p) ==
  LET c == call[p]
      t == bmap(Txn(c.f), c.cur)
  IN /\ Running /\ c # NULL /\ c.pc = "catchup"
     /\ IF t.panic # "none" THEN Panic(t.panic)
        ELSE /\ EndOp(p, WithBlocks(t))
             /\ inode' = [inode EXCEPT ![c.f].addrs = t.addrs]
             /\ call' = [call EXCEPT ![p].cur = @ + 1,
                           ![p].pc = IF c.cur + 1 > c.off \div BSIZE
                                     THEN "pwrite" ELSE @]
             /\ UNCHANGED <<off, panic, calls, crashes>>

MaxChunk == ((MAXOPBLOCKS - 1 - 1 - 2) \div 2) * BSIZE

(* The length and the bytes of the next chunk of call c. *)
ChunkLen(c) == Min({c.n - c.i, MaxChunk})
ChunkData(c) == [k \in 0..(ChunkLen(c) - 1) |-> c.i + k + 1]

TooFar(pos, n) == (pos + n) % UINT < pos \/ (pos + n) % UINT > MAXFILE * BSIZE

(* The rest of writei and pwritei for the chunk, once it is in the blocks. *)
Written(p, pos, t) ==
  LET c   == call[p]
      end == pos + ChunkLen(c)
      ip  == [size |-> Max({end, inode[c.f].size}), addrs |-> t.addrs]
  IN /\ inode' = [inode EXCEPT ![c.f] = ip]
     /\ EndOp(p, IF end > inode[c.f].size
                 THEN iupdate(t, c.f, ip) ELSE WithBlocks(t))
     /\ call' = [call EXCEPT ![p].i = @ + ChunkLen(c)]
     /\ UNCHANGED <<panic, calls, crashes>>

Return(p) ==
  /\ call' = [call EXCEPT ![p] = NULL]
  /\ UNCHANGED <<disk, stable, inode, off, panic, calls, crashes>>

(* A chunk of filewrite, at the offset of the open file. *)
writei(p) ==
  LET c   == call[p]
      pos == off[c.f]
      t   == CopyIn(Txn(c.f), pos, ChunkData(c))
  IN /\ Running /\ c # NULL /\ c.pc = "write" /\ c.i < c.n
     /\ IF pos > inode[c.f].size \/ TooFar(pos, ChunkLen(c)) THEN Return(p)
        ELSE IF t.panic # "none" THEN Panic(t.panic)
        ELSE /\ Written(p, pos, t)
             /\ off' = [off EXCEPT ![c.f] = @ + ChunkLen(c)]

(* A chunk of filepwrite: every chunk at the offset of the call. *)
pwritei(p) ==
  LET c   == call[p]
      pos == c.off
      t   == CopyIn(Txn(c.f), pos, ChunkData(c))
  IN /\ Running /\ c # NULL /\ c.pc = "pwrite" /\ c.i < c.n
     /\ IF TooFar(pos, ChunkLen(c)) THEN Return(p)
        ELSE IF t.panic # "none" THEN Panic(t.panic)
        ELSE Written(p, pos, t) /\ UNCHANGED off

(* The end of filewrite and filepwrite; a pwrite of no bytes ends with its *)
(* catchupoffset.                                                          *)
Done(p) ==
  /\ Running /\ call[p] # NULL /\ call[p].pc # "catchup" /\ call[p].i = call[p].n
  /\ Return(p)

(* readi at pos of at most n bytes: how many there are, and what bmap does. *)
ReadLen(f, pos, n) ==
  IF pos > inode[f].size \/ (pos + n) % UINT < pos THEN 0
  ELSE Min({n, inode[f].size - pos})

ReadMap(f, pos, n) ==
  LET after[k \in 0..ReadLen(f, pos, n)] ==
        IF k = 0 THEN Txn(f) ELSE bmap(after[k - 1], (pos + k - 1) \div BSIZE)
  IN after[ReadLen(f, pos, n)]

(* A block allocated by a read is outside of any transaction. *)
readi(f, pos, n, moves) ==
  /\ Running /\ inode[f] # NULL
  /\ IF ReadMap(f, pos, n).used # disk.used THEN Panic("log_write outside of trans")
     ELSE /\ off' = IF moves THEN [off EXCEPT ![f] = @ + ReadLen(f, pos, n)]
                    ELSE off
          /\ UNCHANGED <<disk, stable, inode, call, panic, calls, crashes>>

fileread(f, n) == inode[f] # NULL /\ readi(f, off[f], n, TRUE)

filepread(f, n, o) == inode[f] # NULL /\ readi(f, o, n, FALSE)

(* The machine stops, after a panic or not, and starts again. *)
Crash ==
  /\ crashes < MaxCrashes
  /\ disk' = stable
  /\ inode' = [f \in Files |-> NULL]
  /\ off' = [f \in Files |-> 0]
  /\ call' = [p \in Procs |-> NULL]
  /\ panic' = "none"
  /\ crashes' = crashes + 1
  /\ UNCHANGED <<stable, calls>>

(* mkfs: the blocks of the metadata, here block 0, are in use. *)
Init ==
  /\ disk = [used |-> {0}, blk |-> [b \in BlockNos |-> Zeroes],
             dino |-> [f \in Files |-> NewInode]]
  /\ stable = disk
  /\ inode = [f \in Files |-> NULL]
  /\ off = [f \in Files |-> 0]
  /\ call = [p \in Procs |-> NULL]
  /\ panic = "none" /\ calls = 0 /\ crashes = 0

Next ==
  \/ \E f \in Files : Open(f) \/ Close(f, 0) \/ Close(f, 1)
  \/ \E p \in Procs, f \in Files :
       \/ \E n \in WriteLens : filewrite(p, f, n)
       \/ \E n \in PwriteLens, o \in Offsets : filepwrite(p, f, n, o)
  \/ \E p \in Procs : catchupoffset(p) \/ writei(p) \/ pwritei(p) \/ Done(p)
  \/ \E f \in Files, n \in WriteLens : fileread(f, n)
  \/ \E f \in Files, n \in PwriteLens, o \in Offsets : filepread(f, n, o)
  \/ Crash

Spec == Init /\ [][Next]_blockVars
=============================================================================
