----------------------------- MODULE BlocksInv ------------------------------
(***************************************************************************)
(* What makes the contents of files correct (fs.c, file.c).                *)
(***************************************************************************)
EXTENDS Blocks, TLC

(* The inode as the system calls see it. *)
Current(f) == IF inode[f] = NULL THEN disk.dino[f] ELSE inode[f]

PathOf == [bn \in 0..(MAXFILE - 1) |-> Path(bn)]

(* The block bn of an inode, 0 if there is none. *)
Block(blk, addrs, bn) ==
  LET path == PathOf[bn]
      at[l \in 1..Len(path)] ==
        IF l = 1 THEN addrs[path[1]] ELSE blk[at[l - 1]][path[l]]
  IN at[Len(path)]

Content(d, ip) ==
  LET blocks == [bn \in 0..((ip.size - 1) \div BSIZE) |-> Block(d.blk, ip.addrs, bn)]
  IN [k \in 0..(ip.size - 1) |-> d.blk[blocks[k \div BSIZE]][k % BSIZE]]

(* The cells of the indirect blocks bs that name a block, and the blocks   *)
(* that cells name.                                                        *)
Cells(bs) == {c \in bs \X (0..(NINDIRECT - 1)) : disk.blk[c[1]][c[2]] # 0}
Named(cells) == {disk.blk[c[1]][c[2]] : c \in cells}

(* The cells in the inodes of the files, and in all their indirect blocks. *)
RootCells == {c \in Files \X (0..(NDIRECT + 2)) : Current(c[1]).addrs[c[2]] # 0}
Roots(is) == {Current(c[1]).addrs[c[2]] : c \in {r \in RootCells : r[2] \in is}}

IndirectCells ==
  LET triple == Cells(Roots({NDIRECT + 2}))
      double == Cells(Roots({NDIRECT + 1}) \cup Named(triple))
      single == Cells(Roots({NDIRECT}) \cup Named(double))
  IN triple \cup double \cup single

Trees == Roots(0..(NDIRECT + 2)) \cup Named(IndirectCells)

TypeOK ==
  /\ {disk, stable} \subseteq
       [used : SUBSET BlockNos, blk : [BlockNos -> [0..(BSIZE - 1) -> Nat]],
        dino : [Files -> Inodes]]
  /\ inode \in [Files -> Inodes \cup {NULL}] /\ off \in [Files -> Nat]
  /\ call \in [Procs -> Calls \cup {NULL}]

(* No block is in two places, of one file or of two, and none that is      *)
(* in a file is free: neither while the system runs nor on the disk that a *)
(* crash leaves, whatever transactions catchupoffset has got through       *)
(* without iupdate (fs.c 57-96, 375-542, 653-667).                         *)
OneOwner ==
  /\ Cardinality(Trees) = Cardinality(RootCells) + Cardinality(IndirectCells)
  /\ Trees \subseteq disk.used \ {0}

(* Every block below the size of a file is there, so that a read never     *)
(* allocates one (fs.c 560-583), also when a pwrite that has read the size *)
(* without a lock makes the file larger than a gap (file.c 186-203), and   *)
(* after a crash.                                                          *)
NoHole ==
  \A f \in Files :
    LET ip == Current(f)
    IN \A bn \in 0..(MAXFILE - 1) :
         bn * BSIZE < ip.size => Block(disk.blk, ip.addrs, bn) # 0

(* As long as the machine does not crash, and no program calls pwrite with *)
(* 0 bytes, every block marked in the free map is in a file: what          *)
(* catchupoffset allocates and does not record in the inode on the disk    *)
(* (fs.c 653-667) is recorded by the write that follows it, before the     *)
(* inode leaves the cache.  sys_pwrite lets 0 bytes through: nothing is    *)
(* written then, and the blocks are lost at the close (file.c 186-212), so *)
(* that this is false with 0 in PwriteLens.                                *)
NoLeak == crashes = 0 => disk.used = {0} \cup Trees

(* The kernel stops only for lack of space: it never frees a free block    *)
(* (fs.c 91), no read writes to the log (log.c 219), and an offset beyond  *)
(* the largest file fills the disk before it runs over (fs.c 460).         *)
OnlySpacePanics == panic \in {"none", "balloc: out of blocks"}

(* The state of FlatFile: the contents that programs see and those that a  *)
(* crash goes back to, and what the call c still has to write.             *)
Seen == [f \in Files |-> Content(disk, Current(f))]
Kept == [f \in Files |-> Content(stable, stable.dino[f])]

Rest(c) == [f   |-> c.f,
            pos |-> IF c.pc = "write" THEN NULL ELSE c.off + c.i,
            d   |-> [k \in 0..(c.n - c.i - 1) |-> c.i + k + 1]]

Rests == [f : Files, pos : Nat \cup {NULL}, d : UNION {[0..(n - 1) -> Nat] : n \in 0..MaxLen}]

ASSUME RestAssumption == NULL \notin Nat /\ NULL \notin Rests

ToDo == [p \in Procs |-> IF call[p] = NULL THEN NULL ELSE Rest(call[p])]

Flat == INSTANCE FlatFile WITH
  MaxSize <- MAXFILE * BSIZE, content <- Seen, saved <- Kept, todo <- ToDo

(* The block trees implement flat files: each chunk of write and pwrite    *)
(* (file.c 136-216, fs.c 589-650) puts its bytes where the caller wants    *)
(* them and changes no other byte of any file, gaps read as zeroes, and    *)
(* after a crash every file is as it was after some earlier chunk.  (This  *)
(* is about pwrites of one chunk; see PwriteLands for longer ones.)        *)
FlatFiles == Flat!FlatSpec

(* With one process: what a pwrite has written so far is in the file, from *)
(* the offset of the call on (file.c 177-216).                             *)
PwriteLands ==
  \A p \in Procs :
    LET c == call[p]
    IN c # NULL /\ c.pc = "pwrite" =>
         \A k \in 0..(c.i - 1) :
           Content(disk, Current(c.f))[c.off + k] = k + 1

Symmetric == Permutations(Procs) \cup Permutations(Files)
=============================================================================
