---------------------------- MODULE BlocksProofs ----------------------------
(***************************************************************************)
(* No block of the disk is in two places, none is lost as long as the      *)
(* machine does not crash, no file has a hole, and the file system panics  *)
(* only when the disk is full, for any numbers of processes, files and     *)
(* blocks, any block size and any shape of the block tree.                 *)
(***************************************************************************)
EXTENDS BlocksInv, FiniteSetTheorems, FunctionTheorems, WellFoundedInduction, TLAPS

LEMMA Shape ==
  /\ NDIRECT \in Nat \ {0} /\ NINDIRECT \in Nat \ {0} /\ NINDIRECT <= BSIZE
  /\ BSIZE \in Nat \ {0} /\ SIZE \in Nat \ {0} /\ MAXFILE \in Nat
BY BlocksAssumption DEF MAXFILE, NDINDIRECT, NTINDIRECT

USE Shape

-----------------------------------------------------------------------------
(* Arithmetic, least elements, and the places of a block.                  *)

(* A non-empty set of naturals has a least element.                        *)
LEMMA LeastExists ==
  ASSUME NEW S, S \subseteq Nat, S # {}
  PROVE  \E x \in S : \A y \in S : x <= y
<1>1. IsWellFoundedOn(OpToRel(<, Nat), Nat)
  BY NatLessThanWellFounded
<1>2. PICK x \in S : \A y \in S : ~(<<y, x>> \in OpToRel(<, Nat))
  BY <1>1, WFMin
<1>3. \A y \in S : ~(y < x)
  BY <1>2 DEF OpToRel
<1> QED
  BY <1>3

LEMMA BlockNosAreNat == BlockNos \subseteq Nat
BY DEF BlockNos

LEMMA MinIs ==
  ASSUME NEW S, S \subseteq Nat, S # {}
  PROVE  Min(S) \in S
BY LeastExists DEF Min

LEMMA MinOfTwo ==
  ASSUME NEW a \in Nat, NEW b \in Nat
  PROVE  Min({a, b}) = IF a <= b THEN a ELSE b
BY DEF Min

LEMMA MaxOfTwo ==
  ASSUME NEW a \in Nat, NEW b \in Nat
  PROVE  Max({a, b}) = IF a >= b THEN a ELSE b
BY DEF Max

LEMMA MaxOfRange ==
  ASSUME NEW n \in Nat \ {0}
  PROVE  Max(0 .. (n - 1)) = n - 1
BY DEF Max

(* A quotient: below a product, and with its remainder.                    *)
LEMMA Quotient ==
  ASSUME NEW x \in Nat, NEW m \in Nat \ {0}, NEW n \in Nat, x < m * n
  PROVE  x \div m \in 0 .. (n - 1)
<1>1. /\ x \div m \in Int /\ x % m \in 0 .. (m - 1)
      /\ x = m * (x \div m) + (x % m)
  OBVIOUS
<1> DEFINE q == x \div m
<1>2. q >= 0
  <2> SUFFICES ASSUME q <= -1 PROVE FALSE
    BY <1>1
  <2> HIDE DEF q
  <2>1. q \in Int /\ x = m * q + (x % m)
    BY <1>1 DEF q
  <2>2. m * q <= m * (-1)
    BY <2>1
  <2> QED
    BY <2>1, <2>2, <1>1
<1>3. q < n
  <2> SUFFICES ASSUME q >= n PROVE FALSE
    BY <1>1
  <2> HIDE DEF q
  <2>1. q \in Int /\ x = m * q + (x % m)
    BY <1>1 DEF q
  <2>2. m * q >= m * n
    BY <2>1
  <2> QED
    BY <2>1, <2>2, <1>1
<1> QED
  BY <1>1, <1>2, <1>3

(* How many levels of indirect blocks there are below ip->addrs[i].        *)
Depth(i) == IF i < NDIRECT THEN 0 ELSE i - NDIRECT + 1

Roots0 == 0 .. (NDIRECT + 2)
Places == 0 .. (NINDIRECT - 1)

(* The way to a block starts in ip->addrs and goes through as many         *)
(* indirect blocks as there are below that entry.                          *)
LEMMA PathIs ==
  ASSUME NEW bn \in Nat, bn < MAXFILE
  PROVE  /\ Path(bn)[1] \in Roots0
         /\ Len(Path(bn)) = Depth(Path(bn)[1]) + 1
         /\ Len(Path(bn)) \in 1 .. 4
         /\ \A l \in 2 .. Len(Path(bn)) : Path(bn)[l] \in Places
<1> DEFINE s == bn - NDIRECT
           d == s - NINDIRECT
           x == d - NDINDIRECT
           y == x % NDINDIRECT
<1>0. NDINDIRECT \in Nat \ {0} /\ NTINDIRECT = NDINDIRECT * NINDIRECT /\ NDINDIRECT = NINDIRECT * NINDIRECT
  BY DEF NDINDIRECT, NTINDIRECT
<1>1. CASE bn < NDIRECT
  BY <1>1 DEF Path, Depth, Roots0
<1>2. CASE ~(bn < NDIRECT) /\ s < NINDIRECT
  <2>1. Path(bn) = <<NDIRECT, s>> /\ s \in Places
    BY <1>2 DEF Path, Places
  <2> QED
    BY <2>1 DEF Depth, Roots0
<1>3. CASE ~(bn < NDIRECT) /\ ~(s < NINDIRECT) /\ d < NDINDIRECT
  <2>1. Path(bn) = <<NDIRECT + 1, d \div NINDIRECT, d % NINDIRECT>>
    BY <1>3 DEF Path, DoublePath
  <2>2. d \in Nat /\ d < NINDIRECT * NINDIRECT
    BY <1>3, <1>0
  <2>3. d \div NINDIRECT \in Places
    BY <2>2, Quotient DEF Places
  <2>4. d % NINDIRECT \in Places
    BY <2>2 DEF Places
  <2> QED
    BY <2>1, <2>3, <2>4 DEF Depth, Roots0
<1>4. CASE ~(bn < NDIRECT) /\ ~(s < NINDIRECT) /\ ~(d < NDINDIRECT)
  <2>1. Path(bn) = <<NDIRECT + 2, x \div NDINDIRECT, y \div NINDIRECT, y % NINDIRECT>>
    BY <1>4 DEF Path
  <2>2. x \in Nat /\ x < NDINDIRECT * NINDIRECT
    BY <1>4, <1>0 DEF MAXFILE
  <2>3. x \div NDINDIRECT \in Places
    BY <2>2, <1>0, Quotient DEF Places
  <2>4. y \in Nat /\ y < NINDIRECT * NINDIRECT
    BY <2>2, <1>0
  <2>5. y \div NINDIRECT \in Places
    BY <2>4, Quotient DEF Places
  <2>6. y % NINDIRECT \in Places
    BY <2>4 DEF Places
  <2> QED
    BY <2>1, <2>3, <2>5, <2>6 DEF Depth, Roots0
<1> QED
  BY <1>1, <1>2, <1>3, <1>4

-----------------------------------------------------------------------------
(* The disk as a forest.  An image has the free map, the blocks and the    *)
(* addresses of every file.  A labelling tells of each block how many      *)
(* levels of blocks are below it, and the only cell that may name it.      *)
Addrs == [Roots0 -> Nat]
Rows  == [0 .. (BSIZE - 1) -> Nat]
Images == [used : SUBSET BlockNos, blk : [BlockNos -> Rows], A : [Files -> Addrs]]

Labels(s, d, at) ==
  /\ 0 \in s.used /\ d \in [BlockNos -> 0 .. 3]
  /\ \A f \in Files, i \in Roots0 : s.A[f][i] # 0 =>
       /\ s.A[f][i] \in s.used \ {0} /\ d[s.A[f][i]] = Depth(i)
       /\ at[s.A[f][i]] = <<"inode", f, i>>
  /\ \A b \in s.used \ {0}, j \in Places : d[b] > 0 /\ s.blk[b][j] # 0 =>
       /\ s.blk[b][j] \in s.used \ {0} /\ d[s.blk[b][j]] = d[b] - 1
       /\ at[s.blk[b][j]] = <<"block", b, j>>

(* What is in the tree s stays where it is in u.                           *)
Stays(s, d, u, e) ==
  /\ s.used \subseteq u.used
  /\ \A b \in s.used : e[b] = d[b]
  /\ \A b \in s.used, j \in Places : d[b] > 0 /\ s.blk[b][j] # 0 => u.blk[b][j] = s.blk[b][j]
  /\ \A f \in Files, i \in Roots0 : s.A[f][i] # 0 => u.A[f][i] = s.A[f][i]

(* A cell names block b.                                                   *)
Owned(s, d, b) ==
  \/ \E f \in Files, i \in Roots0 : s.A[f][i] = b
  \/ \E x \in s.used \ {0}, j \in Places : d[x] > 0 /\ s.blk[x][j] = b

(* The same, and a cell names whatever u has besides.                      *)
Keeps(s, d, u, e) ==
  Stays(s, d, u, e) /\ \A b \in u.used \ {0} : b \in s.used \/ Owned(u, e, b)

(* Data blocks stay as they were, new ones are clear, and no new cell      *)
(* names a block of before.                                                *)
Adds(s, d, u, e) ==
  /\ \A b \in s.used : d[b] = 0 => u.blk[b] = s.blk[b]
  /\ \A b \in u.used \ s.used : e[b] = 0 => u.blk[b] = Zeroes
  /\ \A f \in Files, i \in Roots0 : u.A[f][i] \in s.used \ {0} => s.A[f][i] = u.A[f][i]
  /\ \A b \in u.used \ {0}, j \in Places : e[b] > 0 /\ u.blk[b][j] \in s.used \ {0} =>
       b \in s.used /\ s.blk[b][j] = u.blk[b][j]

LEMMA AddsTransitive ==
  ASSUME NEW s, NEW d, NEW u, NEW e, NEW v, NEW h, Stays(s, d, u, e), Stays(u, e, v, h),
         Adds(s, d, u, e), Adds(u, e, v, h)
  PROVE  Adds(s, d, v, h)
<1>1. s.used \subseteq u.used /\ \A b \in s.used : e[b] = d[b]
  BY DEF Stays
<1>2. \A b \in u.used : h[b] = e[b]
  BY DEF Stays
<1>3. \A b \in s.used : d[b] = 0 => v.blk[b] = s.blk[b]
  BY <1>1 DEF Adds
<1>4. ASSUME NEW b \in v.used \ s.used, h[b] = 0
      PROVE  v.blk[b] = Zeroes
  <2>1. CASE b \in u.used
    <3>1. u.blk[b] = Zeroes /\ e[b] = 0
      BY <1>2, <1>4, <2>1 DEF Adds
    <3> QED
      BY <2>1, <3>1 DEF Adds
  <2>2. CASE b \notin u.used
    BY <1>4, <2>2 DEF Adds
  <2> QED
    BY <2>1, <2>2
<1>5. ASSUME NEW f \in Files, NEW i \in Roots0, v.A[f][i] \in s.used \ {0}
      PROVE  s.A[f][i] = v.A[f][i]
  <2>1. u.A[f][i] = v.A[f][i]
    BY <1>1, <1>5 DEF Adds
  <2> QED
    BY <1>5, <2>1 DEF Adds
<1>6. ASSUME NEW b \in v.used \ {0}, NEW j \in Places, h[b] > 0, v.blk[b][j] \in s.used \ {0}
      PROVE  b \in s.used /\ s.blk[b][j] = v.blk[b][j]
  <2>1. b \in u.used /\ u.blk[b][j] = v.blk[b][j]
    BY <1>1, <1>6 DEF Adds
  <2>2. e[b] > 0
    BY <1>2, <1>6, <2>1
  <2> QED
    BY <1>6, <2>1, <2>2 DEF Adds
<1> QED
  BY <1>3, <1>4, <1>5, <1>6 DEF Adds

LEMMA OwnedKept ==
  ASSUME NEW s, NEW d, NEW u, NEW e, Stays(s, d, u, e), NEW b, b # 0, Owned(s, d, b)
  PROVE  Owned(u, e, b)
<1>1. CASE \E f \in Files, i \in Roots0 : s.A[f][i] = b
  BY <1>1 DEF Stays, Owned
<1>2. CASE \E x \in s.used \ {0}, j \in Places : d[x] > 0 /\ s.blk[x][j] = b
  <2>1. PICK x \in s.used \ {0}, j \in Places : d[x] > 0 /\ s.blk[x][j] = b
    BY <1>2
  <2>2. x \in u.used \ {0} /\ e[x] > 0 /\ u.blk[x][j] = b
    BY <2>1 DEF Stays
  <2> QED
    BY <2>2 DEF Owned
<1> QED
  BY <1>1, <1>2 DEF Owned

LEMMA KeepsTransitive ==
  ASSUME NEW s, NEW d, NEW u, NEW e, NEW v, NEW h, Keeps(s, d, u, e), Keeps(u, e, v, h)
  PROVE  Keeps(s, d, v, h)
<1>0. Stays(s, d, u, e) /\ Stays(u, e, v, h)
  BY DEF Keeps
<1>1. s.used \subseteq v.used /\ \A b \in s.used : h[b] = d[b]
  BY <1>0 DEF Stays
<1>2. ASSUME NEW b \in s.used, NEW j \in Places, d[b] > 0, s.blk[b][j] # 0
      PROVE  v.blk[b][j] = s.blk[b][j]
  <2>1. b \in u.used /\ e[b] = d[b] /\ u.blk[b][j] = s.blk[b][j]
    BY <1>0, <1>2 DEF Stays
  <2> QED
    BY <1>0, <1>2, <2>1 DEF Stays
<1>3. \A f \in Files, i \in Roots0 : s.A[f][i] # 0 => v.A[f][i] = s.A[f][i]
  BY <1>0 DEF Stays
<1>4. ASSUME NEW b \in v.used \ {0}, b \notin s.used
      PROVE  Owned(v, h, b)
  <2>1. CASE b \in u.used
    <3>1. Owned(u, e, b)
      BY <1>4, <2>1 DEF Keeps
    <3> QED
      BY <1>0, <3>1, OwnedKept
  <2>2. CASE b \notin u.used
    BY <2>2 DEF Keeps
  <2> QED
    BY <2>1, <2>2
<1> QED
  BY <1>1, <1>2, <1>3, <1>4 DEF Keeps, Stays

(* The first l blocks on a path through the tree of file f.                *)
Nodes(s, f, path, l, n) ==
  /\ n \in [1 .. l -> Nat \ {0}] /\ n[1] = s.A[f][path[1]]
  /\ \A k \in 1 .. (l - 1) : n[k + 1] = s.blk[n[k]][path[k + 1]]

APath(path, l) ==
  /\ path[1] \in Roots0 /\ l \in 1 .. (Depth(path[1]) + 1) /\ l <= 4
  /\ \A k \in 2 .. l : path[k] \in Places

(* They are labelled with their level.                                     *)
LEMMA NodesLabelled ==
  ASSUME NEW s \in Images, NEW d, NEW at, Labels(s, d, at), NEW f \in Files, NEW path, NEW l,
         APath(path, l), NEW n, Nodes(s, f, path, l, n)
  PROVE  \A k \in 1 .. l : n[k] \in s.used \ {0} /\ d[n[k]] = Depth(path[1]) + 1 - k
<1>0. Depth(path[1]) \in Nat /\ l \in Nat
  BY DEF APath, Roots0, Depth
<1>1. n[1] \in s.used \ {0} /\ d[n[1]] = Depth(path[1])
  BY DEF Labels, Nodes, APath
<1>2. ASSUME NEW k \in 1 .. 3, k + 1 <= l, n[k] \in s.used \ {0}, d[n[k]] = Depth(path[1]) + 1 - k
      PROVE  n[k + 1] \in s.used \ {0} /\ d[n[k + 1]] = Depth(path[1]) + 1 - (k + 1)
  <2>1. k \in 1 .. (l - 1) /\ k + 1 \in 2 .. l /\ k + 1 \in 1 .. l /\ l <= Depth(path[1]) + 1
    BY <1>2, <1>0 DEF APath
  <2>2. n[k + 1] = s.blk[n[k]][path[k + 1]] /\ n[k + 1] # 0 /\ path[k + 1] \in Places
    BY <2>1 DEF Nodes, APath
  <2>3. d[n[k]] > 0
    BY <1>0, <1>2, <2>1
  <2>4. n[k + 1] \in s.used \ {0} /\ d[n[k + 1]] = d[n[k]] - 1
    BY <1>2, <2>2, <2>3 DEF Labels
  <2> QED
    BY <1>0, <1>2, <2>4
<1>3. l \in 1 .. 4
  BY <1>0 DEF APath
<1>4. l >= 2 => n[2] \in s.used \ {0} /\ d[n[2]] = Depth(path[1]) + 1 - 2
  BY <1>0, <1>1, <1>2, <1>3
<1>5. l >= 3 => n[3] \in s.used \ {0} /\ d[n[3]] = Depth(path[1]) + 1 - 3
  BY <1>2, <1>3, <1>4
<1>6. l >= 4 => n[4] \in s.used \ {0} /\ d[n[4]] = Depth(path[1]) + 1 - 4
  BY <1>2, <1>3, <1>5
<1> QED
  <2>1. ASSUME NEW k \in 1 .. l
        PROVE  n[k] \in s.used \ {0} /\ d[n[k]] = Depth(path[1]) + 1 - k
    <3>1. k = 1 \/ k = 2 \/ k = 3 \/ k = 4
      BY <1>3
    <3> QED
      BY <1>0, <1>1, <1>3, <1>4, <1>5, <1>6, <3>1
  <2> QED
    BY <2>1

(* And they stay where they are.                                           *)
LEMMA NodesKept ==
  ASSUME NEW s \in Images, NEW d, NEW at, Labels(s, d, at), NEW u, NEW e, Stays(s, d, u, e),
         NEW f \in Files, NEW path, NEW l, APath(path, l), NEW n, Nodes(s, f, path, l, n)
  PROVE  Nodes(u, f, path, l, n)
<1>0. Depth(path[1]) \in Nat /\ l \in Nat
  BY DEF APath, Roots0, Depth
<1>1. n \in [1 .. l -> Nat \ {0}] /\ n[1] = u.A[f][path[1]]
  BY <1>0 DEF Nodes, Stays, APath
<1>2. ASSUME NEW k \in 1 .. (l - 1)
      PROVE  n[k + 1] = u.blk[n[k]][path[k + 1]]
  <2>1. k \in 1 .. l /\ k + 1 \in 1 .. l /\ k + 1 \in 2 .. l /\ l <= Depth(path[1]) + 1
    BY <1>0 DEF APath
  <2>2. n[k] \in s.used /\ d[n[k]] = Depth(path[1]) + 1 - k
    BY <2>1, NodesLabelled
  <2>3. d[n[k]] > 0
    BY <1>0, <2>1, <2>2
  <2>4. n[k + 1] = s.blk[n[k]][path[k + 1]] /\ n[k + 1] # 0 /\ path[k + 1] \in Places
    BY <2>1 DEF Nodes, APath
  <2> QED
    BY <2>2, <2>3, <2>4 DEF Stays
<1> QED
  BY <1>1, <1>2 DEF Nodes

(* Block bn of file f is there.                                            *)
Present(s, f, bn) == \E n : Nodes(s, f, Path(bn), Len(Path(bn)), n)

LEMMA PathIsAPath ==
  ASSUME NEW bn \in Nat, bn < MAXFILE, NEW l \in 1 .. Len(Path(bn))
  PROVE  APath(Path(bn), l)
<1> DEFINE path == Path(bn)
           L == Len(path)
<1>1. /\ path[1] \in Roots0 /\ L = Depth(path[1]) + 1 /\ L \in 1 .. 4
      /\ \A k \in 2 .. L : path[k] \in Places
  BY PathIs
<1> HIDE DEF path, L
<1>2. l \in 1 .. L
  BY DEF L, path
<1>3. l \in 1 .. (Depth(path[1]) + 1) /\ l <= 4 /\ \A k \in 2 .. l : path[k] \in Places
  BY <1>1, <1>2
<1>4. APath(path, l)
  BY <1>1, <1>3 DEF APath
<1> QED
  BY <1>4 DEF path

LEMMA PresentKept ==
  ASSUME NEW s \in Images, NEW d, NEW at, Labels(s, d, at), NEW u, NEW e, Stays(s, d, u, e),
         NEW f \in Files, NEW bn \in Nat, bn < MAXFILE, Present(s, f, bn)
  PROVE  Present(u, f, bn)
<1>1. APath(Path(bn), Len(Path(bn)))
  BY PathIsAPath, PathIs
<1> QED
  BY <1>1, NodesKept DEF Present

-----------------------------------------------------------------------------
(* The steps of a transaction on file f, when the other files are as in A. *)
Messages == {"none", "balloc: out of blocks", "bmap: out of range", "freeing free block"}
Txns == [used : SUBSET BlockNos, blk : [BlockNos -> Rows], addrs : Addrs,
         addr : Nat, panic : Messages]

Img(t, f, A) == [used |-> t.used, blk |-> t.blk, A |-> [A EXCEPT ![f] = t.addrs]]

LEMMA ImgIs ==
  ASSUME NEW t \in Txns, NEW f \in Files, NEW A \in [Files -> Addrs]
  PROVE  /\ Img(t, f, A) \in Images
         /\ Img(t, f, A).A[f] = t.addrs
         /\ \A g \in Files : g # f => Img(t, f, A).A[g] = A[g]
BY DEF Txns, Img, Images

(* balloc finds a free block and clears it, or panics.                     *)
LEMMA BallocIs ==
  ASSUME NEW t \in Txns, 0 \in t.used, t.panic = "none"
  PROVE  /\ balloc(t) \in Txns
         /\ \/ balloc(t) = [t EXCEPT !.panic = "balloc: out of blocks"]
            \/ /\ balloc(t).panic = "none"
               /\ \E b \in BlockNos \ t.used :
                    /\ b # 0 /\ balloc(t).addr = b
                    /\ balloc(t).used = t.used \cup {b} /\ balloc(t).addrs = t.addrs
                    /\ balloc(t).blk = [t.blk EXCEPT ![b] = Zeroes]
<1> DEFINE free == BlockNos \ t.used
<1>1. CASE free = {}
  <2>1. balloc(t) = [t EXCEPT !.panic = "balloc: out of blocks"]
    BY <1>1, Zenon DEF balloc
  <2>2. balloc(t) \in Txns
    BY <2>1 DEF Txns, Messages
  <2> QED
    BY <2>1, <2>2, Zenon
<1>2. CASE free # {}
  <2>1. free \subseteq Nat
    BY BlockNosAreNat
  <2> DEFINE b == Min(free)
  <2>2. b \in free
    BY <1>2, <2>1, MinIs
  <2>3. b \in BlockNos \ t.used /\ b \in Nat /\ b # 0
    BY <2>1, <2>2
  <2>4. balloc(t) = [t EXCEPT !.used = t.used \cup {b}, !.blk[b] = Zeroes, !.addr = b]
    BY <1>2 DEF balloc, Marked
  <2>5. Zeroes \in Rows
    BY DEF Zeroes, Rows
  <2> HIDE DEF b, free
  <2>6. /\ balloc(t).panic = "none" /\ balloc(t).addr = b /\ balloc(t).addrs = t.addrs
        /\ balloc(t).used = t.used \cup {b} /\ balloc(t).blk = [t.blk EXCEPT ![b] = Zeroes]
    BY <2>4 DEF Txns, Messages
  <2>7. balloc(t) \in Txns
    <3>1. t.used \cup {b} \in SUBSET BlockNos
      BY <2>3 DEF Txns, Messages
    <3>2. t.blk \in [BlockNos -> Rows] /\ [t.blk EXCEPT ![b] = Zeroes] \in [BlockNos -> Rows]
      BY <2>3, <2>5 DEF Txns, Messages
    <3> QED
      BY <2>3, <2>4, <3>1, <3>2 DEF Txns, Messages
  <2> QED
    BY <2>3, <2>6, <2>7
<1> QED
  BY <1>1, <1>2

(* A fresh block b, cleared, is labelled and named by the inode.           *)
LEMMA RootGrows ==
  ASSUME NEW s \in Images, NEW d, NEW at, Labels(s, d, at),
         NEW b \in BlockNos \ s.used, b # 0, NEW f \in Files, NEW i \in Roots0, s.A[f][i] = 0,
         NEW u \in Images, u.used = s.used \cup {b}, u.blk = [s.blk EXCEPT ![b] = Zeroes],
         u.A = [s.A EXCEPT ![f][i] = b]
  PROVE  \E e, to : Labels(u, e, to) /\ Keeps(s, d, u, e) /\ Adds(s, d, u, e) /\ e[b] = Depth(i)
<1> DEFINE e  == [d EXCEPT ![b] = Depth(i)]
           to == [x \in BlockNos |-> IF x = b THEN <<"inode", f, i>> ELSE at[x]]
<1>0. /\ \A x \in BlockNos : x # b => e[x] = d[x] /\ to[x] = at[x] /\ u.blk[x] = s.blk[x]
      /\ e[b] = Depth(i) /\ to[b] = <<"inode", f, i>> /\ u.blk[b] = Zeroes
      /\ s.used \subseteq BlockNos /\ e \in [BlockNos -> 0 .. 3]
  BY DEF Labels, Images, Depth, Roots0
<1>1. \A j \in Places : u.blk[b][j] = 0
  BY <1>0 DEF Zeroes, Places
<1>2. u.A[f][i] = b /\ \A g \in Files, k \in Roots0 : <<g, k>> # <<f, i>> => u.A[g][k] = s.A[g][k]
  BY DEF Images, Addrs
<1> HIDE DEF e, to
<1>3. ASSUME NEW g \in Files, NEW k \in Roots0, u.A[g][k] # 0
      PROVE  /\ u.A[g][k] \in u.used \ {0} /\ e[u.A[g][k]] = Depth(k)
             /\ to[u.A[g][k]] = <<"inode", g, k>>
  <2>1. CASE <<g, k>> = <<f, i>>
    <3>1. g = f /\ k = i
      BY <2>1
    <3> QED
      BY <3>1, <1>0, <1>2
  <2>2. CASE <<g, k>> # <<f, i>>
    <3>1. u.A[g][k] = s.A[g][k]
      BY <2>2, <1>2
    <3>2. s.A[g][k] \in s.used \ {0} /\ d[s.A[g][k]] = Depth(k) /\ at[s.A[g][k]] = <<"inode", g, k>>
      BY <1>3, <3>1 DEF Labels
    <3> QED
      BY <3>1, <3>2, <1>0
  <2> QED
    BY <2>1, <2>2
<1>4. ASSUME NEW x \in u.used \ {0}, NEW j \in Places, e[x] > 0, u.blk[x][j] # 0
      PROVE  /\ u.blk[x][j] \in u.used \ {0} /\ e[u.blk[x][j]] = e[x] - 1
             /\ to[u.blk[x][j]] = <<"block", x, j>>
  <2>1. x # b /\ x \in s.used \ {0} /\ u.blk[x][j] = s.blk[x][j] /\ e[x] = d[x]
    BY <1>0, <1>1, <1>4
  <2>2. s.blk[x][j] \in s.used \ {0} /\ d[s.blk[x][j]] = d[x] - 1 /\ at[s.blk[x][j]] = <<"block", x, j>>
    BY <1>4, <2>1 DEF Labels
  <2> QED
    BY <1>0, <2>1, <2>2
<1>5. Labels(u, e, to)
  <2>1. 0 \in u.used
    BY DEF Labels
  <2>2. \A g \in Files, k \in Roots0 : u.A[g][k] # 0 =>
           /\ u.A[g][k] \in u.used \ {0} /\ e[u.A[g][k]] = Depth(k)
           /\ to[u.A[g][k]] = <<"inode", g, k>>
    BY <1>3
  <2>3. \A x \in u.used \ {0}, j \in Places : e[x] > 0 /\ u.blk[x][j] # 0 =>
           /\ u.blk[x][j] \in u.used \ {0} /\ e[u.blk[x][j]] = e[x] - 1
           /\ to[u.blk[x][j]] = <<"block", x, j>>
    BY <1>4
  <2> QED
    BY <1>0, <2>1, <2>2, <2>3, Zenon DEF Labels
<1>6. Keeps(s, d, u, e)
  <2>1. \A x \in s.used : e[x] = d[x] /\ u.blk[x] = s.blk[x]
    BY <1>0
  <2>2. \A g \in Files, k \in Roots0 : s.A[g][k] # 0 => u.A[g][k] = s.A[g][k]
    BY <1>2
  <2>3. Owned(u, e, b)
    BY <1>2 DEF Owned
  <2>4. \A x \in u.used \ {0} : x \in s.used \/ x = b
    OBVIOUS
  <2> QED
    BY <2>1, <2>2, <2>3, <2>4 DEF Keeps, Stays
<1>7. Adds(s, d, u, e)
  <2>1. \A x \in s.used : u.blk[x] = s.blk[x]
    BY <1>0
  <2>2. \A x \in u.used \ s.used : u.blk[x] = Zeroes
    BY <1>0
  <2>3. ASSUME NEW g \in Files, NEW k \in Roots0, u.A[g][k] \in s.used \ {0}
        PROVE  s.A[g][k] = u.A[g][k]
    <3>1. ~(g = f /\ k = i)
      BY <1>2, <2>3
    <3> QED
      BY <1>2, <3>1
  <2>4. ASSUME NEW x \in u.used \ {0}, NEW j \in Places, u.blk[x][j] \in s.used \ {0}
        PROVE  x \in s.used /\ s.blk[x][j] = u.blk[x][j]
    <3>1. x # b
      BY <1>1, <2>4
    <3> QED
      BY <2>1, <3>1
  <2> QED
    BY <2>1, <2>2, <2>3, <2>4 DEF Adds
<1> QED
  BY <1>0, <1>5, <1>6, <1>7

(* The same, named by place i of an indirect block p.                      *)
LEMMA EntryGrows ==
  ASSUME NEW s \in Images, NEW d, NEW at, Labels(s, d, at),
         NEW b \in BlockNos \ s.used, b # 0, NEW p \in s.used \ {0}, d[p] > 0, NEW i \in Places,
         s.blk[p][i] = 0,
         NEW u \in Images, u.used = s.used \cup {b},
         u.blk[b] = Zeroes, u.blk[p][i] = b, \A j \in Places : j # i => u.blk[p][j] = s.blk[p][j],
         \A x \in BlockNos : x # b /\ x # p => u.blk[x] = s.blk[x], u.A = s.A
  PROVE  \E e, to : Labels(u, e, to) /\ Keeps(s, d, u, e) /\ Adds(s, d, u, e) /\ e[b] = d[p] - 1
<1> DEFINE e  == [d EXCEPT ![b] = d[p] - 1]
           to == [x \in BlockNos |-> IF x = b THEN <<"block", p, i>> ELSE at[x]]
<1>0. /\ \A x \in BlockNos : x # b => e[x] = d[x] /\ to[x] = at[x]
      /\ e[b] = d[p] - 1 /\ to[b] = <<"block", p, i>>
      /\ s.used \subseteq BlockNos /\ e \in [BlockNos -> 0 .. 3] /\ p \in BlockNos /\ p # b
  BY DEF Labels, Images
<1>2. \A j \in Places : u.blk[b][j] = 0
  BY DEF Zeroes, Places
<1> HIDE DEF e, to
<1>3. ASSUME NEW g \in Files, NEW k \in Roots0, u.A[g][k] # 0
      PROVE  /\ u.A[g][k] \in u.used \ {0} /\ e[u.A[g][k]] = Depth(k)
             /\ to[u.A[g][k]] = <<"inode", g, k>>
  <2>1. s.A[g][k] \in s.used \ {0} /\ d[s.A[g][k]] = Depth(k) /\ at[s.A[g][k]] = <<"inode", g, k>>
    BY <1>3 DEF Labels
  <2> QED
    BY <2>1, <1>0
<1>4. ASSUME NEW x \in u.used \ {0}, NEW j \in Places, e[x] > 0, u.blk[x][j] # 0
      PROVE  /\ u.blk[x][j] \in u.used \ {0} /\ e[u.blk[x][j]] = e[x] - 1
             /\ to[u.blk[x][j]] = <<"block", x, j>>
  <2>1. x # b /\ x \in s.used \ {0} /\ x \in BlockNos /\ e[x] = d[x]
    BY <1>0, <1>2, <1>4
  <2>2. CASE x = p /\ j = i
    BY <2>2, <1>0
  <2>3. CASE ~(x = p /\ j = i)
    <3>1. u.blk[x][j] = s.blk[x][j]
      BY <2>1, <2>3
    <3>2. s.blk[x][j] \in s.used \ {0} /\ d[s.blk[x][j]] = d[x] - 1 /\ at[s.blk[x][j]] = <<"block", x, j>>
      BY <1>4, <2>1, <3>1 DEF Labels
    <3> QED
      BY <1>0, <2>1, <3>1, <3>2
  <2> QED
    BY <2>2, <2>3
<1>5. Labels(u, e, to)
  <2>1. 0 \in u.used
    BY DEF Labels
  <2>2. \A g \in Files, k \in Roots0 : u.A[g][k] # 0 =>
           /\ u.A[g][k] \in u.used \ {0} /\ e[u.A[g][k]] = Depth(k)
           /\ to[u.A[g][k]] = <<"inode", g, k>>
    BY <1>3
  <2>3. \A x \in u.used \ {0}, j \in Places : e[x] > 0 /\ u.blk[x][j] # 0 =>
           /\ u.blk[x][j] \in u.used \ {0} /\ e[u.blk[x][j]] = e[x] - 1
           /\ to[u.blk[x][j]] = <<"block", x, j>>
    BY <1>4
  <2> QED
    BY <1>0, <2>1, <2>2, <2>3, Zenon DEF Labels
<1>6. Keeps(s, d, u, e)
  <2>1. \A x \in s.used : e[x] = d[x] /\ x # b /\ x \in BlockNos
    BY <1>0
  <2>2. \A x \in s.used, j \in Places : s.blk[x][j] # 0 => u.blk[x][j] = s.blk[x][j]
    BY <2>1
  <2>3. Owned(u, e, b)
    <3>1. p \in u.used \ {0} /\ e[p] > 0 /\ u.blk[p][i] = b
      BY <1>0
    <3> QED
      BY <3>1 DEF Owned
  <2>4. \A x \in u.used \ {0} : x \in s.used \/ x = b
    OBVIOUS
  <2> QED
    BY <2>1, <2>2, <2>3, <2>4 DEF Keeps, Stays
<1>7. Adds(s, d, u, e)
  <2>1. \A x \in s.used : d[x] = 0 => u.blk[x] = s.blk[x]
    BY <1>0
  <2>2. \A x \in u.used \ s.used : u.blk[x] = Zeroes
    OBVIOUS
  <2>3. ASSUME NEW x \in u.used \ {0}, NEW j \in Places, u.blk[x][j] \in s.used \ {0}
        PROVE  x \in s.used /\ s.blk[x][j] = u.blk[x][j]
    <3>1. x # b /\ ~(x = p /\ j = i)
      BY <1>2, <2>3
    <3>2. x \in s.used /\ x \in BlockNos
      BY <1>0, <3>1
    <3> QED
      BY <3>1, <3>2
  <2> QED
    BY <2>1, <2>2, <2>3 DEF Adds
<1> QED
  BY <1>0, <1>5, <1>6, <1>7

(* Writing into a data block disturbs nothing.                             *)
LEMMA DataWrite ==
  ASSUME NEW s \in Images, NEW d, NEW at, Labels(s, d, at), NEW p, d[p] = 0,
         NEW u \in Images, u.used = s.used, u.A = s.A,
         \A x \in BlockNos : x # p => u.blk[x] = s.blk[x]
  PROVE  Labels(u, d, at) /\ Keeps(s, d, u, d)
<1>1. s.used \subseteq BlockNos
  BY DEF Images
<1>2. \A x \in s.used : d[x] > 0 => u.blk[x] = s.blk[x]
  BY <1>1
<1>3. Keeps(s, d, u, d)
  BY <1>2 DEF Keeps, Stays
<1>4. Labels(u, d, at)
  BY <1>2 DEF Labels
<1> QED
  BY <1>3, <1>4

(* u is what t has become on the way to level l of a path, unless the disk *)
(* is full; u.addr is the block there.                                     *)
Reached(t, d, u, f, A, path, l) ==
  \/ u.panic = "balloc: out of blocks"
  \/ /\ u.panic = "none" /\ u \in Txns
     /\ \E e, to, n : /\ Labels(Img(u, f, A), e, to)
                      /\ Keeps(Img(t, f, A), d, Img(u, f, A), e)
                      /\ Adds(Img(t, f, A), d, Img(u, f, A), e)
                      /\ Nodes(Img(u, f, A), f, path, l, n) /\ u.addr = n[l]

LEMMA ReachedIf ==
  ASSUME NEW t, NEW d, NEW u \in Txns, u.panic = "none", NEW f, NEW A, NEW path, NEW l,
         NEW e, NEW to, NEW n, Labels(Img(u, f, A), e, to),
         Keeps(Img(t, f, A), d, Img(u, f, A), e), Adds(Img(t, f, A), d, Img(u, f, A), e), Nodes(Img(u, f, A), f, path, l, n), u.addr = n[l]
  PROVE  Reached(t, d, u, f, A, path, l)
BY DEF Reached

LEMMA RootReached ==
  ASSUME NEW t \in Txns, t.panic = "none", NEW f \in Files, NEW A \in [Files -> Addrs], NEW d, NEW at,
         Labels(Img(t, f, A), d, at), NEW path, APath(path, 1)
  PROVE  Reached(t, d, Root(t, path[1]), f, A, path, 1)
<1> DEFINE i == path[1]
           s == Img(t, f, A)
           a == balloc(t)
<1>0. i \in Roots0 /\ s \in Images /\ s.A[f] = t.addrs /\ t.addrs \in Addrs /\ 0 \in t.used
  BY ImgIs DEF APath, Txns, Labels, Img
<1>1. CASE t.addrs[i] # 0
  <2> DEFINE u == [t EXCEPT !.addr = t.addrs[i]]
             n == [k \in 1 .. 1 |-> t.addrs[i]]
  <2>1. Root(t, i) = u
    BY <1>1 DEF Root
  <2>2. t.addrs[i] \in Nat
    BY <1>0 DEF Addrs
  <2>3. u \in Txns /\ u.panic = "none" /\ u.addr = t.addrs[i]
    BY <2>2 DEF Txns, Messages
  <2>4. Img(u, f, A) = s
    BY DEF Img, Txns
  <2>5. Nodes(s, f, path, 1, n)
    BY <1>0, <1>1, <2>2 DEF Nodes
  <2>6. Keeps(s, d, s, d) /\ Adds(s, d, s, d)
    BY DEF Keeps, Stays, Adds
  <2> HIDE DEF u, n, s
  <2>7. n[1] = t.addrs[i]
    BY DEF n
  <2> QED
    BY <2>1, <2>3, <2>4, <2>5, <2>6, <2>7 DEF Reached, s
<1>2. CASE t.addrs[i] = 0 /\ a.panic # "none"
  BY <1>0, <1>2, BallocIs DEF Root, Reached, Txns
<1>3. CASE t.addrs[i] = 0 /\ a.panic = "none"
  <2>1. a # [t EXCEPT !.panic = "balloc: out of blocks"]
    BY <1>3 DEF Txns, Messages
  <2>2. PICK b \in BlockNos \ t.used :
          /\ b # 0 /\ a.addr = b /\ a.used = t.used \cup {b} /\ a.addrs = t.addrs
          /\ a.blk = [t.blk EXCEPT ![b] = Zeroes]
    BY <1>0, <2>1, BallocIs
  <2>3. a \in Txns
    BY <1>0, BallocIs
  <2> DEFINE u == [a EXCEPT !.addrs[i] = a.addr]
             n == [k \in 1 .. 1 |-> b]
  <2>4. Root(t, i) = u
    BY <1>3 DEF Root
  <2> HIDE DEF a
  <2>5. /\ u.panic = "none" /\ u.addr = b /\ u.used = t.used \cup {b}
        /\ u.addrs = [t.addrs EXCEPT ![i] = b] /\ u.blk = [t.blk EXCEPT ![b] = Zeroes]
    BY <1>3, <2>2, <2>3 DEF Txns, Messages
  <2>6. b \in Nat \ {0} /\ b \notin s.used
    BY <2>2, BlockNosAreNat DEF Img
  <2>7. u \in Txns
    <3>1. [a.addrs EXCEPT ![i] = a.addr] \in Addrs
      BY <1>0, <2>2, <2>6 DEF Addrs
    <3> QED
      BY <2>3, <3>1 DEF Txns, Messages
  <2> DEFINE w == Img(u, f, A)
  <2> HIDE DEF u
  <2>8. w \in Images /\ w.used = s.used \cup {b} /\ w.blk = [s.blk EXCEPT ![b] = Zeroes]
    BY <2>5, <2>7, ImgIs DEF Img
  <2>9. w.A = [s.A EXCEPT ![f][i] = b]
    BY <2>5 DEF Img
  <2>10. s.A[f][i] = 0
    BY <1>0, <1>3
  <2>11. w.A[f] = u.addrs
    BY <2>7, ImgIs
  <2>16. Labels(s, d, at)
    OBVIOUS
  <2> HIDE DEF s, w, i
  <2>15. b \in BlockNos \ s.used /\ b # 0
    BY <2>2, <2>6
  <2>12. PICK e, to : Labels(w, e, to) /\ Keeps(s, d, w, e) /\ Adds(s, d, w, e)
    BY <1>0, <2>15, <2>16, <2>8, <2>9, <2>10, RootGrows
  <2>13. n[1] = b
    OBVIOUS
  <2>14. Nodes(w, f, path, 1, n)
    BY <1>0, <2>5, <2>6, <2>11 DEF Nodes, Addrs, i
  <2> HIDE DEF n
  <2> QED
    BY <2>4, <2>5, <2>7, <2>12, <2>13, <2>14 DEF Reached, w, s, i
<1> QED
  BY <1>1, <1>2, <1>3

LEMMA NodesLonger ==
  ASSUME NEW s, NEW f, NEW path, NEW l \in Nat \ {0}, NEW n, Nodes(s, f, path, l, n),
         NEW x \in Nat \ {0}, x = s.blk[n[l]][path[l + 1]]
  PROVE  \E m : Nodes(s, f, path, l + 1, m) /\ m[l + 1] = x
<1> DEFINE m == [k \in 1 .. (l + 1) |-> IF k <= l THEN n[k] ELSE x]
<1>1. m \in [1 .. (l + 1) -> Nat \ {0}] /\ m[1] = s.A[f][path[1]] /\ m[l + 1] = x
  BY DEF Nodes
<1>2. ASSUME NEW k \in 1 .. l
      PROVE  m[k + 1] = s.blk[m[k]][path[k + 1]]
  <2>1. m[k] = n[k]
    OBVIOUS
  <2>2. CASE k = l
    BY <1>1, <2>1, <2>2
  <2>3. CASE k # l
    <3>1. k \in 1 .. (l - 1) /\ m[k + 1] = n[k + 1]
      BY <2>3
    <3> QED
      BY <2>1, <3>1 DEF Nodes
  <2> QED
    BY <2>2, <2>3
<1>3. (l + 1) - 1 = l
  OBVIOUS
<1> HIDE DEF m
<1>4. Nodes(s, f, path, l + 1, m)
  BY <1>1, <1>2, <1>3 DEF Nodes
<1> QED
  BY <1>1, <1>4

LEMMA EntryReached ==
  ASSUME NEW t \in Txns, NEW f \in Files, NEW A \in [Files -> Addrs], NEW d,
         NEW path, NEW l \in Nat \ {0}, APath(path, l + 1), NEW v, Reached(t, d, v, f, A, path, l)
  PROVE  Reached(t, d, Entry(v, path[l + 1]), f, A, path, l + 1)
<1>1. CASE v.panic = "balloc: out of blocks"
  BY <1>1 DEF Entry, Reached
<1>2. CASE v.panic # "balloc: out of blocks"
  <2>1. v.panic = "none" /\ v \in Txns
    BY <1>2 DEF Reached
  <2>2. PICK e, to, n : /\ Labels(Img(v, f, A), e, to)
                        /\ Keeps(Img(t, f, A), d, Img(v, f, A), e)
                        /\ Adds(Img(t, f, A), d, Img(v, f, A), e)
                        /\ Nodes(Img(v, f, A), f, path, l, n) /\ v.addr = n[l]
    BY <1>2 DEF Reached
  <2> DEFINE s == Img(v, f, A)
             p == v.addr
             i == path[l + 1]
             a == balloc(v)
  <2>3. /\ s \in Images /\ s.A[f] = v.addrs /\ s.blk = v.blk /\ s.used = v.used
        /\ v.blk \in [BlockNos -> Rows]
    BY <2>1, ImgIs DEF Img, Txns
  <2>4. APath(path, l) /\ i \in Places /\ l < Depth(path[1]) + 1 /\ Depth(path[1]) \in Nat
    BY DEF APath, Depth, Roots0
  <2>5. p \in s.used \ {0} /\ e[p] = Depth(path[1]) + 1 - l
    BY <2>2, <2>3, <2>4, NodesLabelled
  <2>6. e[p] > 0 /\ p \in BlockNos /\ p \in Nat \ {0}
    <3> HIDE DEF s, p
    <3>1. e[p] > 0
      BY <2>4, <2>5
    <3>2. s.used \subseteq BlockNos
      BY <2>3 DEF Images
    <3> QED
      BY <2>5, <3>1, <3>2, BlockNosAreNat
  <2>7. v.blk[p] \in Rows /\ v.blk[p][i] \in Nat
    <3> HIDE DEF p, i
    <3>1. v.blk[p] \in Rows
      BY <2>3, <2>6
    <3>2. i \in 0 .. (BSIZE - 1)
      BY <2>4 DEF Places
    <3> QED
      BY <3>1, <3>2 DEF Rows
  <2>8. 0 \in v.used
    BY <2>2, <2>3 DEF Labels
  <2>9. CASE v.blk[p][i] # 0
    <3> DEFINE u == [v EXCEPT !.addr = v.blk[p][i]]
    <3>1. Entry(v, i) = u
      BY <2>1, <2>9 DEF Entry
    <3>2. u \in Txns /\ u.panic = "none" /\ u.addr = v.blk[p][i] /\ Img(u, f, A) = s
      BY <2>1, <2>7 DEF Txns, Img
    <3> HIDE DEF u, s
    <3>3. PICK m : Nodes(s, f, path, l + 1, m) /\ m[l + 1] = v.blk[p][i]
      <4>1. v.blk[p][i] \in Nat \ {0} /\ v.blk[p][i] = s.blk[n[l]][path[l + 1]]
        BY <2>2, <2>3, <2>7, <2>9
      <4>2. Nodes(s, f, path, l, n)
        BY <2>2 DEF s
      <4> QED
        BY <4>1, <4>2, NodesLonger
    <3> QED
      BY <2>2, <3>1, <3>2, <3>3 DEF Reached, s
  <2>10. CASE v.blk[p][i] = 0 /\ a.panic # "none"
    <3>1. a.panic = "balloc: out of blocks"
      BY <2>1, <2>8, <2>10, BallocIs DEF Txns
    <3>2. Entry(v, i) = a
      BY <2>1, <2>10 DEF Entry
    <3> QED
      BY <3>1, <3>2 DEF Reached
  <2>11. CASE v.blk[p][i] = 0 /\ a.panic = "none"
    <3>1. a # [v EXCEPT !.panic = "balloc: out of blocks"]
      BY <2>1, <2>11 DEF Txns
    <3>2. PICK b \in BlockNos \ v.used :
            /\ b # 0 /\ a.addr = b /\ a.used = v.used \cup {b} /\ a.addrs = v.addrs
            /\ a.blk = [v.blk EXCEPT ![b] = Zeroes]
      BY <2>1, <2>8, <3>1, BallocIs
    <3>3. a \in Txns /\ a.blk \in [BlockNos -> Rows]
      BY <2>1, <2>8, BallocIs DEF Txns
    <3> DEFINE u == [a EXCEPT !.blk[v.addr][i] = a.addr]
               w == Img(u, f, A)
    <3>4. Entry(v, i) = u
      BY <2>1, <2>11 DEF Entry
    <3> HIDE DEF a, s, i, p
    <3>5. b \in Nat \ {0} /\ b # p /\ b \in BlockNos \ s.used
      BY <2>3, <2>5, <3>2, BlockNosAreNat
    <3>6. /\ u.panic = "none" /\ u.addr = b /\ u.used = v.used \cup {b}
          /\ u.addrs = v.addrs /\ u.blk = [a.blk EXCEPT ![p][i] = b]
      BY <2>11, <3>2, <3>3 DEF Txns, p
    <3>7. a.blk[p] = v.blk[p] /\ a.blk[b] = Zeroes
      BY <2>3, <2>6, <3>2, <3>5
    <3>8. /\ u.blk \in [BlockNos -> Rows] /\ u.blk[b] = Zeroes /\ u.blk[p][i] = b
          /\ \A j \in Places : j # i => u.blk[p][j] = v.blk[p][j]
          /\ \A x \in BlockNos : x # b /\ x # p => u.blk[x] = v.blk[x]
      <4>1. [a.blk[p] EXCEPT ![i] = b] \in Rows /\ i \in 0 .. (BSIZE - 1)
        BY <2>4, <2>7, <3>5, <3>7 DEF Rows, Places, i
      <4>2. u.blk = [a.blk EXCEPT ![p] = [a.blk[p] EXCEPT ![i] = b]]
        BY <3>6
      <4> HIDE DEF u
      <4>3. u.blk[p] = [a.blk[p] EXCEPT ![i] = b] /\ u.blk \in [BlockNos -> Rows]
        BY <2>6, <3>3, <4>1, <4>2
      <4>4. \A x \in BlockNos : x # p => u.blk[x] = a.blk[x]
        BY <3>3, <4>2
      <4>5. \A x \in BlockNos : x # b => a.blk[x] = v.blk[x]
        BY <2>3, <3>2
      <4>6. u.blk[p][i] = b /\ \A j \in Places : j # i => u.blk[p][j] = v.blk[p][j]
        <5>1. a.blk[p] \in Rows /\ Places \subseteq 0 .. (BSIZE - 1)
          BY <2>7, <3>7 DEF Places
        <5> QED
          BY <3>7, <4>1, <4>3, <5>1 DEF Rows
      <4> QED
        BY <3>5, <3>7, <4>3, <4>4, <4>5, <4>6
    <3>9. u \in Txns
      <4>1. v.used \cup {b} \in SUBSET BlockNos
        BY <2>1, <3>2 DEF Txns
      <4> QED
        BY <3>3, <3>6, <3>8, <4>1 DEF Txns
    <3>10. w \in Images /\ w.used = s.used \cup {b} /\ w.blk = u.blk /\ w.A = s.A
      <4> HIDE DEF u
      <4>1. w \in Images
        BY <3>9, ImgIs
      <4> QED
        BY <2>3, <3>6, <4>1 DEF Img, s
    <3>11. Labels(s, e, to)
      BY <2>2 DEF s
    <3>16. s.blk[p][i] = 0 /\ i \in Places
      BY <2>3, <2>4, <2>11 DEF i
    <3> HIDE DEF w, u
    <3>12. PICK h, ho : Labels(w, h, ho) /\ Keeps(s, e, w, h) /\ Adds(s, e, w, h)
      <4>1. /\ w.blk[b] = Zeroes /\ w.blk[p][i] = b
            /\ \A j \in Places : j # i => w.blk[p][j] = s.blk[p][j]
            /\ \A x \in BlockNos : x # b /\ x # p => w.blk[x] = s.blk[x]
        BY <2>3, <3>8, <3>10
      <4> QED
        BY <2>3, <2>5, <2>6, <3>5, <3>10, <3>11, <3>16, <4>1, EntryGrows
    <3>13. Keeps(Img(t, f, A), d, w, h) /\ Adds(Img(t, f, A), d, w, h)
      <4>1. Keeps(Img(t, f, A), d, w, h)
        BY <2>2, <3>12, KeepsTransitive DEF s
      <4>2. Adds(Img(t, f, A), d, w, h)
        <5>1. Stays(Img(t, f, A), d, s, e) /\ Stays(s, e, w, h)
          BY <2>2, <3>12 DEF Keeps, s
        <5>2. Adds(Img(t, f, A), d, s, e)
          BY <2>2 DEF s
        <5> QED
          BY <3>12, <5>1, <5>2, AddsTransitive
      <4> QED
        BY <4>1, <4>2
    <3>14. Nodes(w, f, path, l, n)
      BY <2>2, <2>3, <2>4, <3>11, <3>12, NodesKept DEF s, Keeps
    <3>15. PICK m : Nodes(w, f, path, l + 1, m) /\ m[l + 1] = b
      <4>1. b = w.blk[n[l]][path[l + 1]]
        BY <2>2, <3>8, <3>10 DEF p, i
      <4> QED
        BY <3>5, <3>14, <4>1, NodesLonger
    <3>17. Entry(v, path[l + 1]) = u
      BY <3>4 DEF i
    <3> QED
      <4>1. /\ Labels(w, h, ho) /\ Keeps(Img(t, f, A), d, w, h) /\ Adds(Img(t, f, A), d, w, h)
            /\ Nodes(w, f, path, l + 1, m) /\ u.addr = m[l + 1]
        BY <3>6, <3>12, <3>13, <3>15
      <4>2. /\ Labels(Img(u, f, A), h, ho) /\ Keeps(Img(t, f, A), d, Img(u, f, A), h)
            /\ Adds(Img(t, f, A), d, Img(u, f, A), h)
            /\ Nodes(Img(u, f, A), f, path, l + 1, m) /\ u.addr = m[l + 1]
        BY <4>1, Zenon DEF w
      <4>3. Reached(t, d, u, f, A, path, l + 1)
        BY <3>6, <3>9, <4>2, ReachedIf
      <4> QED
        BY <3>17, <4>3
  <2> QED
    BY <2>9, <2>10, <2>11
<1> QED
  BY <1>1, <1>2

(* bmap reaches the block, or finds the disk full.                         *)
LEMMA BmapReaches ==
  ASSUME NEW t \in Txns, t.panic = "none", NEW f \in Files, NEW A \in [Files -> Addrs], NEW d, NEW at,
         Labels(Img(t, f, A), d, at), NEW bn \in Nat, bn < MAXFILE
  PROVE  Reached(t, d, bmap(t, bn), f, A, Path(bn), Len(Path(bn)))
<1> DEFINE path == Path(bn)
           L == Len(path)
           r1 == Root(t, path[1])
           r2 == Entry(r1, path[2])
           r3 == Entry(r2, path[3])
           r4 == Entry(r3, path[4])
           h == [l \in 1 .. L |-> IF l = 1 THEN r1 ELSE IF l = 2 THEN r2
                                  ELSE IF l = 3 THEN r3 ELSE r4]
           after == CHOOSE a : a = [l \in 1 .. L |-> IF l = 1 THEN Root(t, path[1])
                                                     ELSE Entry(a[l - 1], path[l])]
<1>1. L \in 1 .. 4
  BY PathIs
<1>2. h = [l \in 1 .. L |-> IF l = 1 THEN Root(t, path[1]) ELSE Entry(h[l - 1], path[l])]
  <2> HIDE DEF path, L
  <2>1. ASSUME NEW l \in 1 .. L
        PROVE  h[l] = IF l = 1 THEN Root(t, path[1]) ELSE Entry(h[l - 1], path[l])
    <3>1. l = 1 \/ l = 2 \/ l = 3 \/ l = 4
      BY <1>1
    <3> HIDE DEF r1, r2, r3, r4
    <3>2. CASE l = 1
      BY <3>2 DEF r1
    <3>3. CASE l = 2
      <4>1. h[l] = r2 /\ h[l - 1] = r1
        BY <1>1, <3>3
      <4> QED
        BY <3>3, <4>1 DEF r2
    <3>4. CASE l = 3
      <4>1. h[l] = r3 /\ h[l - 1] = r2
        BY <1>1, <3>4
      <4> QED
        BY <3>4, <4>1 DEF r3
    <3>5. CASE l = 4
      <4>1. h[l] = r4 /\ h[l - 1] = r3
        BY <1>1, <3>5
      <4> QED
        BY <3>5, <4>1 DEF r4
    <3> QED
      BY <3>1, <3>2, <3>3, <3>4, <3>5
  <2> HIDE DEF r1, r2, r3, r4
  <2> DEFINE e(l) == IF l = 1 THEN Root(t, path[1]) ELSE Entry(h[l - 1], path[l])
  <2>2. h = [l \in 1 .. L |-> h[l]]
    OBVIOUS
  <2> HIDE DEF h
  <2>3. \A l \in 1 .. L : h[l] = e(l)
    BY <2>1
  <2> QED
    BY <2>2, <2>3
<1>3. after = [l \in 1 .. L |-> IF l = 1 THEN Root(t, path[1]) ELSE Entry(after[l - 1], path[l])]
  <2> HIDE DEF h, path, L
  <2> QED
    BY <1>2
<1> HIDE DEF h, L
<1>4. bmap(t, bn) = after[L]
  <2>1. ~(bn >= MAXFILE)
    OBVIOUS
  <2> QED
    BY <2>1, Zenon DEF bmap, L
<1> HIDE DEF path, after
<1>5. after[1] = r1 /\ \A l \in 2 .. L : after[l] = Entry(after[l - 1], path[l])
  BY <1>1, <1>3
<1>6. \A l \in 1 .. L : APath(path, l)
  BY PathIsAPath DEF path, L
<1>7. Reached(t, d, after[1], f, A, path, 1)
  BY <1>1, <1>5, <1>6, RootReached
<1>8. ASSUME NEW l \in 1 .. 3, l < L, Reached(t, d, after[l], f, A, path, l)
      PROVE  Reached(t, d, after[l + 1], f, A, path, l + 1)
  <2>1. l + 1 \in 2 .. L /\ l + 1 \in 1 .. L /\ (l + 1) - 1 = l
    BY <1>1, <1>8
  <2>2. after[l + 1] = Entry(after[l], path[l + 1])
    BY <1>5, <2>1
  <2> QED
    BY <1>6, <1>8, <2>1, <2>2, EntryReached
<1>9. Reached(t, d, after[L], f, A, path, L)
  <2>1. L >= 2 => Reached(t, d, after[2], f, A, path, 2)
    BY <1>1, <1>7, <1>8
  <2>2. L >= 3 => Reached(t, d, after[3], f, A, path, 3)
    BY <1>1, <2>1, <1>8
  <2>3. L >= 4 => Reached(t, d, after[4], f, A, path, 4)
    BY <1>1, <2>2, <1>8
  <2>4. L = 1 \/ L = 2 \/ L = 3 \/ L = 4
    BY <1>1
  <2> QED
    BY <1>7, <2>1, <2>2, <2>3, <2>4
<1> QED
  BY <1>4, <1>9 DEF path, L

(* Where the block is there already, bmap only finds it.                   *)
At(t, a) == [t EXCEPT !.addr = a]

LEMMA AtIs ==
  ASSUME NEW t \in Txns, NEW a \in Nat
  PROVE  /\ At(t, a) \in Txns /\ At(t, a).used = t.used /\ At(t, a).blk = t.blk
         /\ At(t, a).addrs = t.addrs /\ At(t, a).panic = t.panic /\ At(t, a).addr = a
         /\ \A b : At(At(t, a), b) = At(t, b)
BY DEF At, Txns

LEMMA BmapReads ==
  ASSUME NEW t \in Txns, t.panic = "none", NEW f \in Files, NEW A \in [Files -> Addrs],
         NEW bn \in Nat, bn < MAXFILE, NEW n, Nodes(Img(t, f, A), f, Path(bn), Len(Path(bn)), n)
  PROVE  n[Len(Path(bn))] \in Nat /\ bmap(t, bn) = At(t, n[Len(Path(bn))])
<1> DEFINE path == Path(bn)
           L == Len(path)
           after == CHOOSE a : a = [l \in 1 .. L |-> IF l = 1 THEN Root(t, path[1])
                                                     ELSE Entry(a[l - 1], path[l])]
<1>1. L \in 1 .. 4 /\ path[1] \in Roots0
  BY PathIs
<1>2. Nodes(Img(t, f, A), f, path, L, n)
  OBVIOUS
<1> HIDE DEF L
<1>3. /\ n \in [1 .. L -> Nat \ {0}] /\ n[1] = t.addrs[path[1]]
      /\ \A k \in 1 .. (L - 1) : n[k + 1] = t.blk[n[k]][path[k + 1]]
  <2>1. Img(t, f, A).A[f] = t.addrs /\ Img(t, f, A).blk = t.blk
    BY ImgIs DEF Img
  <2> QED
    BY <1>2, <2>1 DEF Nodes
<1> HIDE DEF path
<1> DEFINE w == [l \in 1 .. L |-> At(t, n[l])]
<1>4. Root(t, path[1]) = At(t, n[1])
  <2>1. t.addrs[path[1]] # 0
    BY <1>1, <1>3
  <2> QED
    BY <1>3, <2>1, Zenon DEF Root, At
<1>5. ASSUME NEW l \in 2 .. L
      PROVE  Entry(At(t, n[l - 1]), path[l]) = At(t, n[l])
  <2>1. l - 1 \in 1 .. L /\ l \in 1 .. L /\ l - 1 \in 1 .. (L - 1) /\ (l - 1) + 1 = l
    BY <1>1
  <2> DEFINE u == At(t, n[l - 1])
             m == n[l]
             q == n[l - 1]
  <2>2. m \in Nat \ {0} /\ m = t.blk[q][path[l]] /\ q \in Nat
    BY <1>3, <2>1
  <2>3. u.panic = "none" /\ u.addr = q /\ u.blk = t.blk /\ At(u, m) = At(t, m)
    <3>1. u = At(t, q)
      OBVIOUS
    <3> HIDE DEF u, m, q
    <3> QED
      BY <2>2, <3>1, AtIs
  <2>4. Entry(u, path[l]) = At(u, m)
    <3> HIDE DEF u, m, q
    <3>1. u.blk[u.addr][path[l]] = m /\ m # 0
      BY <2>2, <2>3
    <3> QED
      BY <2>3, <3>1, Zenon DEF Entry, At
  <2> QED
    BY <2>3, <2>4, Zenon
<1>6. w = [l \in 1 .. L |-> IF l = 1 THEN Root(t, path[1]) ELSE Entry(w[l - 1], path[l])]
  <2> DEFINE e(l) == IF l = 1 THEN Root(t, path[1]) ELSE Entry(w[l - 1], path[l])
  <2>1. ASSUME NEW l \in 1 .. L
        PROVE  w[l] = e(l)
    <3>1. CASE l = 1
      BY <1>4, <3>1
    <3>2. CASE l # 1
      <4>1. l \in 2 .. L /\ l - 1 \in 1 .. L
        BY <1>1, <3>2
      <4>2. w[l - 1] = At(t, n[l - 1]) /\ w[l] = At(t, n[l])
        BY <4>1
      <4> HIDE DEF w
      <4> QED
        BY <1>5, <3>2, <4>1, <4>2
    <3> QED
      BY <3>1, <3>2
  <2>2. w = [l \in 1 .. L |-> w[l]]
    OBVIOUS
  <2> HIDE DEF w
  <2> QED
    BY <2>1, <2>2
<1> HIDE DEF w
<1>7. after = [l \in 1 .. L |-> IF l = 1 THEN Root(t, path[1]) ELSE Entry(after[l - 1], path[l])]
  BY <1>6
<1> HIDE DEF after
<1>8. after[1] = At(t, n[1]) /\ \A l \in 2 .. L : after[l] = Entry(after[l - 1], path[l])
  BY <1>1, <1>4, <1>7
<1>9. ASSUME NEW l \in 1 .. 3, l < L, after[l] = At(t, n[l])
      PROVE  after[l + 1] = At(t, n[l + 1])
  <2>1. l + 1 \in 2 .. L /\ (l + 1) - 1 = l
    BY <1>1, <1>9
  <2> QED
    BY <1>5, <1>8, <1>9, <2>1
<1>10. after[L] = At(t, n[L])
  <2>1. L >= 2 => after[2] = At(t, n[2])
    BY <1>1, <1>8, <1>9
  <2>2. L >= 3 => after[3] = At(t, n[3])
    BY <1>1, <2>1, <1>9
  <2>3. L >= 4 => after[4] = At(t, n[4])
    BY <1>1, <2>2, <1>9
  <2>4. L = 1 \/ L = 2 \/ L = 3 \/ L = 4
    BY <1>1
  <2> QED
    BY <1>8, <2>1, <2>2, <2>3, <2>4
<1>11. bmap(t, bn) = after[L]
  <2>1. ~(bn >= MAXFILE)
    OBVIOUS
  <2> QED
    BY <2>1, Zenon DEF bmap, L, path, after
<1>12. n[L] \in Nat
  BY <1>1, <1>3
<1> QED
  BY <1>10, <1>11, <1>12 DEF L, path

(* Where the blocks bns were there, the entries of the inode are the same. *)
SameAddrs(t, u, f, A, bns) ==
  (\A bn \in bns : Present(Img(t, f, A), f, bn)) => u.addrs = t.addrs

(* u is what t has become when the blocks bns are there, unless the disk   *)
(* is full.                                                                *)
Grown(t, d, u, f, A, bns) ==
  \/ u.panic = "balloc: out of blocks"
  \/ /\ u.panic = "none" /\ u \in Txns /\ SameAddrs(t, u, f, A, bns)
     /\ \E e, to : /\ Labels(Img(u, f, A), e, to)
                   /\ Keeps(Img(t, f, A), d, Img(u, f, A), e)
                   /\ \A bn \in bns : Present(Img(u, f, A), f, bn)

(* The same, and u.addr is a data block.                                   *)
Mapped(t, d, u, f, A, bns) ==
  \/ u.panic = "balloc: out of blocks"
  \/ /\ u.panic = "none" /\ u \in Txns /\ SameAddrs(t, u, f, A, bns)
     /\ \E e, to : /\ Labels(Img(u, f, A), e, to)
                   /\ Keeps(Img(t, f, A), d, Img(u, f, A), e)
                   /\ \A bn \in bns : Present(Img(u, f, A), f, bn)
                   /\ u.addr \in u.used \ {0} /\ e[u.addr] = 0

LEMMA BmapGrows ==
  ASSUME NEW t \in Txns, NEW f \in Files, NEW A \in [Files -> Addrs], NEW d, NEW at,
         Labels(Img(t, f, A), d, at),
         NEW v \in Txns, v.panic = "none", NEW e, NEW to, Labels(Img(v, f, A), e, to),
         Keeps(Img(t, f, A), d, Img(v, f, A), e), NEW bns, SameAddrs(t, v, f, A, bns),
         \A x \in bns : x \in Nat /\ x < MAXFILE /\ Present(Img(v, f, A), f, x),
         NEW bn \in Nat, bn < MAXFILE
  PROVE  Mapped(t, d, bmap(v, bn), f, A, bns \cup {bn})
<1> DEFINE m == bmap(v, bn)
           path == Path(bn)
           L == Len(path)
<1>1. Reached(v, e, m, f, A, path, L)
  BY BmapReaches
<1>2. CASE m.panic = "balloc: out of blocks"
  BY <1>2 DEF Mapped
<1>3. CASE m.panic # "balloc: out of blocks"
  <2> HIDE DEF m, path, L
  <2>1. /\ m.panic = "none" /\ m \in Txns
        /\ \E h, ho, n : /\ Labels(Img(m, f, A), h, ho)
                         /\ Keeps(Img(v, f, A), e, Img(m, f, A), h)
                         /\ Nodes(Img(m, f, A), f, path, L, n) /\ m.addr = n[L]
    BY <1>1, <1>3 DEF Reached
  <2>2. PICK h, ho, n : /\ Labels(Img(m, f, A), h, ho)
                        /\ Keeps(Img(v, f, A), e, Img(m, f, A), h)
                        /\ Nodes(Img(m, f, A), f, path, L, n) /\ m.addr = n[L]
    BY <2>1
  <2>3. Keeps(Img(t, f, A), d, Img(m, f, A), h)
    BY <2>2, KeepsTransitive
  <2>4. Present(Img(m, f, A), f, bn)
    BY <2>2 DEF Present, path, L
  <2>5. \A x \in bns : Present(Img(m, f, A), f, x)
    <3>1. Img(v, f, A) \in Images
      BY ImgIs
    <3> QED
      BY <2>2, <3>1, PresentKept DEF Keeps
  <2>6. m.addr \in m.used \ {0} /\ h[m.addr] = 0
    <3>1. L \in Nat /\ L \in 1 .. L /\ APath(path, L) /\ Depth(path[1]) + 1 = L /\ Depth(path[1]) \in Nat
      <4>1. L \in 1 .. 4 /\ L = Depth(path[1]) + 1 /\ path[1] \in Roots0
        BY PathIs DEF path, L
      <4>2. APath(path, L)
        BY <4>1, PathIsAPath DEF path, L
      <4> QED
        BY <4>1, <4>2 DEF Depth, Roots0
    <3>2. Img(m, f, A) \in Images /\ Img(m, f, A).used = m.used
      BY <2>1, ImgIs DEF Img
    <3>3. n[L] \in m.used \ {0} /\ h[n[L]] = Depth(path[1]) + 1 - L
      <4>1. \A k \in 1 .. L : /\ n[k] \in Img(m, f, A).used \ {0}
                              /\ h[n[k]] = Depth(path[1]) + 1 - k
        <5>1. /\ Labels(Img(m, f, A), h, ho) /\ Nodes(Img(m, f, A), f, path, L, n)
              /\ Img(m, f, A) \in Images /\ APath(path, L)
          BY <2>2, <3>1, <3>2
        <5> QED
          BY <5>1, NodesLabelled
      <4> QED
        BY <3>1, <3>2, <4>1
    <3> QED
      BY <2>2, <3>1, <3>3
  <2>7. \E h_, ho_ : /\ Labels(Img(m, f, A), h_, ho_)
                     /\ Keeps(Img(t, f, A), d, Img(m, f, A), h_)
                     /\ \A x \in bns \cup {bn} : Present(Img(m, f, A), f, x)
                     /\ m.addr \in m.used \ {0} /\ h_[m.addr] = 0
    BY <2>2, <2>3, <2>4, <2>5, <2>6
  <2>8. SameAddrs(t, m, f, A, bns \cup {bn})
    <3> SUFFICES ASSUME \A x \in bns \cup {bn} : Present(Img(t, f, A), f, x)
                 PROVE  m.addrs = t.addrs
      BY DEF SameAddrs
    <3>1. v.addrs = t.addrs
      BY DEF SameAddrs
    <3>2. Present(Img(v, f, A), f, bn)
      <4>1. Img(t, f, A) \in Images
        BY ImgIs
      <4> QED
        BY <4>1, PresentKept DEF Keeps
    <3>3. PICK z : Nodes(Img(v, f, A), f, Path(bn), Len(Path(bn)), z)
      BY <3>2 DEF Present
    <3> DEFINE q == z[Len(Path(bn))]
    <3>4. q \in Nat /\ m = At(v, q)
      <4>1. q \in Nat /\ bmap(v, bn) = At(v, q)
        BY <3>3, BmapReads
      <4> QED
        BY <4>1 DEF m
    <3> HIDE DEF q
    <3> QED
      BY <3>1, <3>4, AtIs
  <2> QED
    BY <2>1, <2>7, <2>8 DEF m, Mapped
<1> QED
  BY <1>2, <1>3

(* One byte of the loop of writei and pwritei.                             *)
CopyStep(pos, c, u, k) ==
  LET m == bmap(u, (pos + k) \div BSIZE)
  IN IF u.panic # "none" THEN u
     ELSE IF m.panic # "none" THEN m
     ELSE [m EXCEPT !.blk[m.addr][(pos + k) % BSIZE] = c[k]]

CopyRun(a, t, pos, c, n) ==
  a = [k \in 0 .. n |-> CopyStep(pos, c, IF k = 0 THEN t ELSE a[k - 1], k)]

LEMMA CopyChain ==
  ASSUME NEW t, NEW pos, NEW c, NEW n \in Nat
  PROVE  \E a : CopyRun(a, t, pos, c, n)
<1> DEFINE Good(m) == \E a : a = [k \in 0 .. m |-> CopyStep(pos, c, IF k = 0 THEN t ELSE a[k - 1], k)]
           Bad == {m \in Nat : ~Good(m)}
<1>1. Good(0)
  <2> DEFINE a == [k \in 0 .. 0 |-> CopyStep(pos, c, t, 0)]
  <2>1. a = [k \in 0 .. 0 |-> CopyStep(pos, c, IF k = 0 THEN t ELSE a[k - 1], k)]
    OBVIOUS
  <2> QED
    BY <2>1
<1>2. ASSUME NEW m \in Nat \ {0}, Good(m - 1)
      PROVE  Good(m)
  <2>1. PICK a : a = [k \in 0 .. (m - 1) |-> CopyStep(pos, c, IF k = 0 THEN t ELSE a[k - 1], k)]
    BY <1>2
  <2> DEFINE b == [k \in 0 .. m |-> IF k < m THEN a[k] ELSE CopyStep(pos, c, a[m - 1], m)]
  <2>2. ASSUME NEW k \in 0 .. m
        PROVE  b[k] = CopyStep(pos, c, IF k = 0 THEN t ELSE b[k - 1], k)
    <3>1. CASE k = m
      <4>1. b[k] = CopyStep(pos, c, a[m - 1], m) /\ b[k - 1] = a[m - 1] /\ k # 0
        BY <3>1
      <4> HIDE DEF b
      <4> QED
        BY <3>1, <4>1
    <3>2. CASE k # m
      <4>1. k \in 0 .. (m - 1) /\ k < m
        BY <3>2
      <4>2. a[k] = CopyStep(pos, c, IF k = 0 THEN t ELSE a[k - 1], k)
        BY <2>1, <4>1
      <4>3. b[k] = a[k] /\ (k # 0 => b[k - 1] = a[k - 1])
        BY <4>1
      <4> HIDE DEF b
      <4> QED
        BY <4>2, <4>3
    <3> QED
      BY <3>1, <3>2
  <2>3. b = [k \in 0 .. m |-> b[k]]
    OBVIOUS
  <2> HIDE DEF b
  <2>4. b = [k \in 0 .. m |-> CopyStep(pos, c, IF k = 0 THEN t ELSE b[k - 1], k)]
    BY <2>2, <2>3
  <2> QED
    BY <2>4
<1> HIDE DEF Good
<1>3. CASE Bad # {}
  <2>1. PICK m \in Bad : \A x \in Bad : m <= x
    BY <1>3, LeastExists
  <2>2. m \in Nat \ {0} /\ m - 1 \in Nat /\ m - 1 \notin Bad
    BY <1>1, <2>1
  <2> QED
    BY <1>2, <2>1, <2>2
<1>4. CASE Bad = {}
  <2>1. Good(n)
    BY <1>4
  <2>2. \E a : a = [k \in 0 .. n |-> CopyStep(pos, c, IF k = 0 THEN t ELSE a[k - 1], k)]
    BY <2>1 DEF Good
  <2> QED
    BY <2>2 DEF CopyRun
<1> QED
  BY <1>3, <1>4

(* The blocks that n bytes from pos on are in.                             *)
Covered(pos, n) == {(pos + k) \div BSIZE : k \in 0 .. (n - 1)}

LEMMA CoveredIs ==
  ASSUME NEW pos \in Nat, NEW n \in Nat, pos + n <= MAXFILE * BSIZE
  PROVE  \A k \in 0 .. (n - 1) :
           (pos + k) \div BSIZE \in Nat /\ (pos + k) \div BSIZE < MAXFILE
<1> SUFFICES ASSUME NEW k \in 0 .. (n - 1)
             PROVE  (pos + k) \div BSIZE \in Nat /\ (pos + k) \div BSIZE < MAXFILE
  OBVIOUS
<1> DEFINE x == pos + k
           y == MAXFILE * BSIZE
<1>1. y \in Int
  OBVIOUS
<1>2. x \in Nat /\ x < y
  <2> HIDE DEF y
  <2> QED
    BY <1>1 DEF y
<1>3. x < BSIZE * MAXFILE
  BY <1>2
<1> HIDE DEF x, y
<1>4. x \div BSIZE \in 0 .. (MAXFILE - 1)
  BY <1>2, <1>3, Quotient
<1> QED
  BY <1>4 DEF x

(* The states that the loop goes through: the bytes are copied, or the     *)
(* disk is full.                                                           *)
CopyTrace(a, t, d, f, A, pos, c, n) ==
  /\ CopyIn(t, pos, c) = a[n - 1] /\ a[0] = CopyStep(pos, c, t, 0)
  /\ \A k \in 1 .. (n - 1) : a[k] = CopyStep(pos, c, a[k - 1], k)
  /\ \A k \in 0 .. (n - 1) : Grown(t, d, a[k], f, A, Covered(pos, k + 1))

LEMMA CopyInRuns ==
  ASSUME NEW t \in Txns, t.panic = "none", NEW f \in Files, NEW A \in [Files -> Addrs], NEW d, NEW at,
         Labels(Img(t, f, A), d, at), NEW pos \in Nat, NEW n \in Nat \ {0},
         NEW c \in [0 .. (n - 1) -> Nat], pos + n <= MAXFILE * BSIZE
  PROVE  \E a : CopyTrace(a, t, d, f, A, pos, c, n)
<1> DEFINE a == CHOOSE a : a = [k \in 0 .. (n - 1) |->
                                  CopyStep(pos, c, IF k = 0 THEN t ELSE a[k - 1], k)]
           G(k) == Grown(t, d, a[k], f, A, Covered(pos, k + 1))
           Bad == {k \in 0 .. (n - 1) : ~G(k)}
<1>1. a = [k \in 0 .. (n - 1) |-> CopyStep(pos, c, IF k = 0 THEN t ELSE a[k - 1], k)]
  <2>1. n - 1 \in Nat
    OBVIOUS
  <2>2. \E b : CopyRun(b, t, pos, c, n - 1)
    BY <2>1, CopyChain
  <2> QED
    BY <2>2, Zenon DEF CopyRun
<1>2. CopyIn(t, pos, c) = a[n - 1]
  <2>1. DOMAIN c = 0 .. (n - 1)
    OBVIOUS
  <2>2. Max(DOMAIN c) = n - 1
    BY <2>1, MaxOfRange
  <2>3. CopyIn(t, pos, c) = (CHOOSE b : b = [k \in DOMAIN c |->
                              CopyStep(pos, c, IF k = 0 THEN t ELSE b[k - 1], k)])[Max(DOMAIN c)]
    BY Zenon DEF CopyIn, CopyStep
  <2> QED
    BY <2>1, <2>2, <2>3, Zenon
<1> HIDE DEF a
<1>3. ASSUME NEW k \in 0 .. (n - 1), NEW v, NEW e, NEW to, v \in Txns, v.panic = "none",
             Labels(Img(v, f, A), e, to), Keeps(Img(t, f, A), d, Img(v, f, A), e),
             SameAddrs(t, v, f, A, Covered(pos, k)),
             \A x \in Covered(pos, k) : Present(Img(v, f, A), f, x)
      PROVE  Grown(t, d, CopyStep(pos, c, v, k), f, A, Covered(pos, k + 1))
  <2> DEFINE bn == (pos + k) \div BSIZE
             i == (pos + k) % BSIZE
             m == bmap(v, bn)
             u == [m EXCEPT !.blk[m.addr][i] = c[k]]
  <2>1. bn \in Nat /\ bn < MAXFILE /\ i \in 0 .. (BSIZE - 1) /\ c[k] \in Nat
    BY CoveredIs
  <2>2. \A x \in Covered(pos, k) : x \in Nat /\ x < MAXFILE /\ Present(Img(v, f, A), f, x)
    <3>1. \A j \in 0 .. (k - 1) : j \in 0 .. (n - 1)
      OBVIOUS
    <3>2. \A j \in 0 .. (k - 1) : (pos + j) \div BSIZE \in Nat /\ (pos + j) \div BSIZE < MAXFILE
      BY <3>1, CoveredIs
    <3>3. \A x \in Covered(pos, k) : x \in Nat /\ x < MAXFILE
      BY <3>2 DEF Covered
    <3> QED
      BY <1>3, <3>3
  <2>3. Covered(pos, k + 1) = Covered(pos, k) \cup {bn}
    <3>1. 0 .. ((k + 1) - 1) = (0 .. (k - 1)) \cup {k}
      OBVIOUS
    <3> QED
      BY <3>1 DEF Covered
  <2>4. \/ m.panic = "balloc: out of blocks"
        \/ /\ m.panic = "none" /\ m \in Txns
           /\ SameAddrs(t, m, f, A, Covered(pos, k) \cup {bn})
           /\ \E h, ho : /\ Labels(Img(m, f, A), h, ho)
                         /\ Keeps(Img(t, f, A), d, Img(m, f, A), h)
                         /\ \A x \in Covered(pos, k) \cup {bn} : Present(Img(m, f, A), f, x)
                         /\ m.addr \in m.used \ {0} /\ h[m.addr] = 0
    <3>1. /\ v \in Txns /\ v.panic = "none" /\ Labels(Img(v, f, A), e, to)
          /\ Keeps(Img(t, f, A), d, Img(v, f, A), e)
          /\ SameAddrs(t, v, f, A, Covered(pos, k))
      BY <1>3
    <3> HIDE DEF bn, i, u
    <3>2. Mapped(t, d, bmap(v, bn), f, A, Covered(pos, k) \cup {bn})
      BY <3>1, <2>1, <2>2, BmapGrows
    <3> QED
      BY <3>2 DEF Mapped
  <2>5. CASE m.panic # "none"
    <3>1. CopyStep(pos, c, v, k) = m
      BY <1>3, <2>5, Zenon DEF CopyStep
    <3>2. m.panic = "balloc: out of blocks"
      BY <2>4, <2>5
    <3> QED
      BY <3>1, <3>2, Zenon DEF Grown
  <2>6. CASE m.panic = "none"
    <3>1. CopyStep(pos, c, v, k) = u
      BY <1>3, <2>6, Zenon DEF CopyStep
    <3> HIDE DEF m
    <3>2. m \in Txns /\ SameAddrs(t, m, f, A, Covered(pos, k + 1))
      BY <2>3, <2>4, <2>6
    <3>3. PICK h, ho : /\ Labels(Img(m, f, A), h, ho)
                       /\ Keeps(Img(t, f, A), d, Img(m, f, A), h)
                       /\ \A x \in Covered(pos, k) \cup {bn} : Present(Img(m, f, A), f, x)
                       /\ m.addr \in m.used \ {0} /\ h[m.addr] = 0
      BY <2>4, <2>6
    <3> DEFINE p == m.addr
    <3>4. p \in BlockNos /\ m.blk \in [BlockNos -> Rows]
      BY <3>2, <3>3 DEF Txns
    <3> HIDE DEF i, bn
    <3>5. /\ u.panic = "none" /\ u.used = m.used /\ u.addrs = m.addrs
          /\ u.blk = [m.blk EXCEPT ![p][i] = c[k]] /\ u \in Txns
      <4>1. [m.blk EXCEPT ![p][i] = c[k]] \in [BlockNos -> Rows]
        <5>1. m.blk[p] \in Rows
          BY <3>4
        <5>2. [m.blk[p] EXCEPT ![i] = c[k]] \in Rows
          BY <2>1, <5>1 DEF Rows
        <5>3. [m.blk EXCEPT ![p] = [m.blk[p] EXCEPT ![i] = c[k]]] \in [BlockNos -> Rows]
          BY <3>4, <5>2
        <5> QED
          BY <5>3
      <4> QED
        BY <2>6, <3>2, <4>1 DEF Txns
    <3> HIDE DEF u
    <3>6. /\ Img(m, f, A) \in Images /\ Img(u, f, A) \in Images
          /\ Img(u, f, A).used = Img(m, f, A).used
          /\ Img(u, f, A).A = Img(m, f, A).A
          /\ \A x \in BlockNos : x # p => Img(u, f, A).blk[x] = Img(m, f, A).blk[x]
      <4>1. Img(m, f, A) \in Images /\ Img(u, f, A) \in Images
        BY <3>2, <3>5, ImgIs
      <4>2. \A x \in BlockNos : x # p => u.blk[x] = m.blk[x]
        BY <3>4, <3>5
      <4> QED
        BY <3>5, <4>1, <4>2 DEF Img
    <3>7. Labels(Img(u, f, A), h, ho) /\ Keeps(Img(m, f, A), h, Img(u, f, A), h)
      BY <3>3, <3>6, DataWrite
    <3>8. Keeps(Img(t, f, A), d, Img(u, f, A), h)
      BY <3>3, <3>7, KeepsTransitive
    <3>9. \A x \in Covered(pos, k + 1) : Present(Img(u, f, A), f, x)
      BY <2>1, <2>2, <2>3, <3>3, <3>6, <3>7, PresentKept DEF Keeps
    <3>10. \E h_, ho_ : /\ Labels(Img(u, f, A), h_, ho_)
                        /\ Keeps(Img(t, f, A), d, Img(u, f, A), h_)
                        /\ \A x \in Covered(pos, k + 1) : Present(Img(u, f, A), f, x)
      BY <3>7, <3>8, <3>9
    <3>11. SameAddrs(t, u, f, A, Covered(pos, k + 1))
      BY <3>2, <3>5 DEF SameAddrs
    <3>12. Grown(t, d, u, f, A, Covered(pos, k + 1))
      BY <3>5, <3>10, <3>11 DEF Grown
    <3> QED
      BY <3>1, <3>12
  <2> QED
    BY <2>5, <2>6
<1>4. G(0)
  <2>1. a[0] = CopyStep(pos, c, t, 0)
    BY <1>1
  <2>2. Covered(pos, 0) = {}
    BY DEF Covered
  <2>3. Keeps(Img(t, f, A), d, Img(t, f, A), d) /\ SameAddrs(t, t, f, A, Covered(pos, 0))
    BY DEF Keeps, Stays, SameAddrs
  <2> QED
    BY <1>3, <2>1, <2>2, <2>3
<1>5. ASSUME NEW k \in 1 .. (n - 1), G(k - 1)
      PROVE  G(k)
  <2>1. a[k] = CopyStep(pos, c, a[k - 1], k) /\ k \in 0 .. (n - 1) /\ (k - 1) + 1 = k
    BY <1>1
  <2> DEFINE v == a[k - 1]
  <2>2. CASE v.panic = "balloc: out of blocks"
    <3>1. v.panic # "none"
      BY <2>2
    <3>2. CopyStep(pos, c, v, k) = v
      BY <3>1, Zenon DEF CopyStep
    <3> QED
      BY <2>1, <2>2, <3>2 DEF Grown
  <2>3. CASE v.panic # "balloc: out of blocks"
    <3> HIDE DEF v
    <3>1. Grown(t, d, v, f, A, Covered(pos, k))
      BY <1>5, <2>1 DEF v
    <3>2. /\ v.panic = "none" /\ v \in Txns /\ SameAddrs(t, v, f, A, Covered(pos, k))
          /\ \E e, to : /\ Labels(Img(v, f, A), e, to) /\ Keeps(Img(t, f, A), d, Img(v, f, A), e)
                        /\ \A x \in Covered(pos, k) : Present(Img(v, f, A), f, x)
      BY <2>3, <3>1 DEF Grown
    <3>3. Grown(t, d, CopyStep(pos, c, v, k), f, A, Covered(pos, k + 1))
      BY <1>3, <2>1, <3>2
    <3> QED
      BY <2>1, <3>3 DEF v
  <2> QED
    BY <2>2, <2>3
<1> HIDE DEF G
<1>6. Bad = {}
  <2> SUFFICES ASSUME Bad # {} PROVE FALSE
    OBVIOUS
  <2>1. Bad \subseteq Nat
    OBVIOUS
  <2>2. PICK k \in Bad : \A x \in Bad : k <= x
    BY <2>1, LeastExists
  <2>3. k # 0
    BY <1>4, <2>2
  <2>4. k \in 1 .. (n - 1) /\ k - 1 \in 0 .. (n - 1) /\ k - 1 \notin Bad
    BY <2>2, <2>3
  <2> QED
    BY <1>5, <2>2, <2>4
<1>7. \A k \in 0 .. (n - 1) : Grown(t, d, a[k], f, A, Covered(pos, k + 1))
  BY <1>6 DEF G
<1>8. a[0] = CopyStep(pos, c, t, 0) /\ \A k \in 1 .. (n - 1) : a[k] = CopyStep(pos, c, a[k - 1], k)
  BY <1>1
<1> QED
  BY <1>2, <1>7, <1>8, Zenon DEF CopyTrace

LEMMA CopyInGrows ==
  ASSUME NEW t \in Txns, t.panic = "none", NEW f \in Files, NEW A \in [Files -> Addrs], NEW d, NEW at,
         Labels(Img(t, f, A), d, at), NEW pos \in Nat, NEW n \in Nat \ {0},
         NEW c \in [0 .. (n - 1) -> Nat], pos + n <= MAXFILE * BSIZE
  PROVE  Grown(t, d, CopyIn(t, pos, c), f, A, Covered(pos, n))
<1>1. PICK a : CopyTrace(a, t, d, f, A, pos, c, n)
  BY CopyInRuns
<1>2. n - 1 \in 0 .. (n - 1) /\ (n - 1) + 1 = n
  OBVIOUS
<1>3. CopyIn(t, pos, c) = a[n - 1] /\ Grown(t, d, a[n - 1], f, A, Covered(pos, (n - 1) + 1))
  BY <1>1, <1>2, Zenon DEF CopyTrace
<1> QED
  BY <1>2, <1>3

-----------------------------------------------------------------------------
(* itrunc frees the tree of one file and disturbs no other.                *)

(* The blocks that the blocks of one level list are one level below.       *)
LEMMA ListedLevel ==
  ASSUME NEW s, NEW d, NEW at, Labels(s, d, at), NEW t, t.blk = s.blk, NEW m \in Nat \ {0},
         NEW bs, \A b \in bs : b \in s.used \ {0} /\ d[b] = m
  PROVE  \A c \in ListedBy(t, bs) :
           /\ c \in s.used \ {0} /\ d[c] = m - 1
           /\ \E b \in bs, j \in Places : at[c] = <<"block", b, j>>
<1> SUFFICES ASSUME NEW c \in ListedBy(t, bs)
             PROVE  /\ c \in s.used \ {0} /\ d[c] = m - 1
                    /\ \E b \in bs, j \in Places : at[c] = <<"block", b, j>>
  OBVIOUS
<1>1. PICK b \in bs, j \in Places : c = s.blk[b][j] /\ c # 0
  BY DEF ListedBy, Listed, Places
<1>2. b \in s.used \ {0} /\ d[b] > 0
  OBVIOUS
<1>3. s.blk[b][j] \in s.used \ {0} /\ d[s.blk[b][j]] = d[b] - 1 /\ at[s.blk[b][j]] = <<"block", b, j>>
  BY <1>1, <1>2 DEF Labels
<1> QED
  BY <1>1, <1>3

(* Every block of the tree is named from within the tree, or by its inode, *)
(* and names blocks of the tree only.                                      *)
LEMMA TreeClosed ==
  ASSUME NEW t \in Txns, NEW f \in Files, NEW A \in [Files -> Addrs], NEW d, NEW at,
         Labels(Img(t, f, A), d, at)
  PROVE  \A c \in Tree(t) :
           /\ c \in t.used \ {0}
           /\ \/ \E i \in Roots0 : at[c] = <<"inode", f, i>>
              \/ \E b \in Tree(t), j \in Places : at[c] = <<"block", b, j>>
           /\ \A j \in Places : d[c] > 0 /\ t.blk[c][j] # 0 => t.blk[c][j] \in Tree(t)
<1> DEFINE s  == Img(t, f, A)
           R(i) == {t.addrs[i]} \ {0}
           R0 == {t.addrs[i] : i \in 0 .. (NDIRECT - 1)} \ {0}
           S  == R(NDIRECT)
           D  == R(NDIRECT + 1)
           X  == R(NDIRECT + 2)
           S1 == ListedBy(t, S)
           D1 == ListedBy(t, D)
           D2 == ListedBy(t, D1)
           X1 == ListedBy(t, X)
           X2 == ListedBy(t, X1)
           X3 == ListedBy(t, X2)
           T  == R0 \cup S \cup S1 \cup D \cup D1 \cup D2 \cup X \cup X1 \cup X2 \cup X3
           L(B, m) == \A b \in B : b \in t.used \ {0} /\ d[b] = m
           U(B)   == \A c \in B : \E i \in Roots0 : at[c] = <<"inode", f, i>>
           V(B, C) == \A c \in C : \E b \in B, j \in Places : at[c] = <<"block", b, j>>
           W(B, C) == \A c \in B, j \in Places : d[c] > 0 /\ t.blk[c][j] # 0 => t.blk[c][j] \in C
<1>1. Tree(t) = T
  BY DEF Tree
<1>2. s.used = t.used /\ s.blk = t.blk /\ s.A[f] = t.addrs
  BY ImgIs DEF Img
<1>3. ASSUME NEW i \in Roots0, t.addrs[i] # 0
      PROVE  /\ t.addrs[i] \in t.used \ {0} /\ d[t.addrs[i]] = Depth(i)
             /\ at[t.addrs[i]] = <<"inode", f, i>>
  <2> HIDE DEF s
  <2>1. Labels(s, d, at)
    BY DEF s
  <2>2. s.A[f][i] = t.addrs[i] /\ s.A[f][i] # 0
    BY <1>2, <1>3
  <2>3. s.A[f][i] \in s.used \ {0} /\ d[s.A[f][i]] = Depth(i) /\ at[s.A[f][i]] = <<"inode", f, i>>
    BY <2>1, <2>2 DEF Labels
  <2> QED
    BY <1>2, <2>2, <2>3
<1>4. L(R0, 0) /\ U(R0)
  <2>1. \A i \in 0 .. (NDIRECT - 1) : i \in Roots0 /\ Depth(i) = 0
    BY DEF Roots0, Depth
  <2>2. ASSUME NEW b \in R0
        PROVE  /\ b \in t.used \ {0} /\ d[b] = 0
               /\ \E i \in Roots0 : at[b] = <<"inode", f, i>>
    <3>1. PICK i \in 0 .. (NDIRECT - 1) : b = t.addrs[i] /\ b # 0
      OBVIOUS
    <3> HIDE DEF R0
    <3> QED
      BY <1>3, <2>1, <3>1
  <2> HIDE DEF R0
  <2> QED
    BY <2>2
<1>5. /\ NDIRECT \in Roots0 /\ NDIRECT + 1 \in Roots0 /\ NDIRECT + 2 \in Roots0
      /\ Depth(NDIRECT) = 1 /\ Depth(NDIRECT + 1) = 2 /\ Depth(NDIRECT + 2) = 3
  BY DEF Roots0, Depth
<1>6. L(S, 1) /\ U(S) /\ L(D, 2) /\ U(D) /\ L(X, 3) /\ U(X)
  BY <1>3, <1>5
<1>7. ASSUME NEW B, NEW m \in Nat \ {0}, L(B, m)
      PROVE  L(ListedBy(t, B), m - 1) /\ V(B, ListedBy(t, B)) /\ W(B, ListedBy(t, B))
  <2> HIDE DEF s
  <2>1. Labels(s, d, at)
    BY DEF s
  <2>2. \A b \in B : b \in s.used \ {0} /\ d[b] = m
    BY <1>2, <1>7
  <2>3. \A c \in ListedBy(t, B) :
           /\ c \in s.used \ {0} /\ d[c] = m - 1
           /\ \E b \in B, j \in Places : at[c] = <<"block", b, j>>
    BY <1>2, <2>1, <2>2, ListedLevel
  <2>4. W(B, ListedBy(t, B))
    BY DEF ListedBy, Listed, Places
  <2> QED
    BY <1>2, <2>3, <2>4
<1> HIDE DEF R0, S, D, X, s
<1>8. L(S1, 0) /\ V(S, S1) /\ W(S, S1)
  <2> DEFINE m == 1
  <2>1. m \in Nat \ {0} /\ m - 1 = 0 /\ L(S, m)
    BY <1>6
  <2> HIDE DEF m, S
  <2>2. L(S1, m - 1) /\ V(S, S1) /\ W(S, S1)
    BY <1>7, <2>1
  <2> QED
    BY <2>1, <2>2
<1>9. L(D1, 1) /\ V(D, D1) /\ W(D, D1)
  <2> DEFINE m == 2
  <2>1. m \in Nat \ {0} /\ m - 1 = 1 /\ L(D, m)
    BY <1>6
  <2> HIDE DEF m, D
  <2>2. L(D1, m - 1) /\ V(D, D1) /\ W(D, D1)
    BY <1>7, <2>1
  <2> QED
    BY <2>1, <2>2
<1> HIDE DEF D1, S1
<1>10. L(D2, 0) /\ V(D1, D2) /\ W(D1, D2)
  BY <1>7, <1>9
<1>11. L(X1, 2) /\ V(X, X1) /\ W(X, X1)
  BY <1>6, <1>7
<1> HIDE DEF D2, X1
<1>12. L(X2, 1) /\ V(X1, X2) /\ W(X1, X2)
  BY <1>7, <1>11
<1> HIDE DEF X2
<1>13. L(X3, 0) /\ V(X2, X3) /\ W(X2, X3)
  BY <1>7, <1>12
<1> HIDE DEF X3
<1>14. \A c \in T : c \in t.used \ {0}
  BY <1>4, <1>6, <1>8, <1>9, <1>10, <1>11, <1>12, <1>13
<1>15. ASSUME NEW c \in T
       PROVE  \/ \E i \in Roots0 : at[c] = <<"inode", f, i>>
              \/ \E b \in T, j \in Places : at[c] = <<"block", b, j>>
  <2>1. CASE c \in R0 \cup S \cup D \cup X
    BY <1>4, <1>6, <2>1
  <2>2. CASE c \in S1 \cup D1 \cup D2 \cup X1 \cup X2 \cup X3
    <3>1. \E b \in S \cup D \cup D1 \cup X \cup X1 \cup X2, j \in Places : at[c] = <<"block", b, j>>
      BY <1>8, <1>9, <1>10, <1>11, <1>12, <1>13, <2>2
    <3> QED
      BY <3>1
  <2> QED
    BY <2>1, <2>2
<1>16. ASSUME NEW c \in T, NEW j \in Places, d[c] > 0, t.blk[c][j] # 0
       PROVE  t.blk[c][j] \in T
  <2>1. c \notin R0 \cup S1 \cup D2 \cup X3
    BY <1>4, <1>8, <1>10, <1>13, <1>16
  <2>2. c \in S \cup D \cup D1 \cup X \cup X1 \cup X2
    BY <2>1
  <2> QED
    BY <1>8, <1>9, <1>10, <1>11, <1>12, <1>13, <1>16, <2>2
<1> HIDE DEF T
<1> QED
  BY <1>1, <1>14, <1>15, <1>16

LEMMA RootInTree ==
  ASSUME NEW t, NEW i \in Roots0, t.addrs[i] # 0
  PROVE  t.addrs[i] \in Tree(t)
<1>1. CASE i < NDIRECT
  <2>1. i \in 0 .. (NDIRECT - 1)
    BY <1>1 DEF Roots0
  <2>2. t.addrs[i] \in {t.addrs[k] : k \in 0 .. (NDIRECT - 1)} \ {0}
    BY <2>1
  <2> QED
    BY <2>2, Zenon DEF Tree
<1>2. CASE i = NDIRECT
  BY <1>2, Zenon DEF Tree
<1>3. CASE i = NDIRECT + 1
  BY <1>3, Zenon DEF Tree
<1>4. CASE i = NDIRECT + 2
  BY <1>4, Zenon DEF Tree
<1> QED
  BY <1>1, <1>2, <1>3, <1>4 DEF Roots0

LEMMA ItruncFrees ==
  ASSUME NEW t \in Txns, NEW f \in Files, NEW A \in [Files -> Addrs], NEW d, NEW at,
         Labels(Img(t, f, A), d, at), t.panic = "none"
  PROVE  LET u == itrunc(t)
         IN  /\ u.panic = "none" /\ u \in Txns /\ u.used = t.used \ Tree(t) /\ u.blk = t.blk
             /\ u.addrs = NoAddrs
             /\ Labels(Img(u, f, A), d, at)
             /\ \A b \in u.used \ {0} : Owned(Img(t, f, A), d, b) => Owned(Img(u, f, A), d, b)
<1> DEFINE T == Tree(t)
           u == itrunc(t)
           s == Img(t, f, A)
           w == Img(u, f, A)
<1>1. \A c \in T : /\ c \in t.used \ {0}
                   /\ \/ \E i \in Roots0 : at[c] = <<"inode", f, i>>
                      \/ \E b \in T, j \in Places : at[c] = <<"block", b, j>>
                   /\ \A j \in Places : d[c] > 0 /\ t.blk[c][j] # 0 => t.blk[c][j] \in T
  BY TreeClosed
<1>0. \A i \in Roots0 : t.addrs[i] # 0 => t.addrs[i] \in T
  BY RootInTree
<1> HIDE DEF T
<1>2. T \subseteq t.used
  BY <1>1
<1>3. u = [t EXCEPT !.used = t.used \ T, !.addrs = NoAddrs]
  BY <1>2, Zenon DEF itrunc, T
<1>4. NoAddrs \in Addrs /\ \A i \in Roots0 : NoAddrs[i] = 0
  BY DEF NoAddrs, Addrs, Roots0
<1> HIDE DEF u
<1>5. u.panic = "none" /\ u \in Txns /\ u.used = t.used \ T /\ u.blk = t.blk /\ u.addrs = NoAddrs
  BY <1>3, <1>4 DEF Txns
<1>6. w.A[f] = NoAddrs /\ \A g \in Files : g # f => w.A[g] = s.A[g]
  BY <1>5, ImgIs
<1>7. w.used = s.used \ T /\ w.blk = s.blk
  BY <1>5 DEF Img
<1>8. Labels(s, d, at)
  OBVIOUS
<1> HIDE DEF s, w
<1>9. ASSUME NEW g \in Files, NEW i \in Roots0, w.A[g][i] # 0
      PROVE  /\ w.A[g][i] \in w.used \ {0} /\ d[w.A[g][i]] = Depth(i)
             /\ at[w.A[g][i]] = <<"inode", g, i>>
  <2>1. g # f /\ w.A[g][i] = s.A[g][i]
    BY <1>4, <1>6, <1>9
  <2>2. s.A[g][i] \in s.used \ {0} /\ d[s.A[g][i]] = Depth(i) /\ at[s.A[g][i]] = <<"inode", g, i>>
    BY <1>8, <1>9, <2>1 DEF Labels
  <2>3. s.A[g][i] \notin T
    BY <1>1, <2>1, <2>2
  <2> QED
    BY <1>7, <2>1, <2>2, <2>3
<1>10. ASSUME NEW b \in w.used \ {0}, NEW j \in Places, d[b] > 0, w.blk[b][j] # 0
       PROVE  /\ w.blk[b][j] \in w.used \ {0} /\ d[w.blk[b][j]] = d[b] - 1
              /\ at[w.blk[b][j]] = <<"block", b, j>>
  <2>1. b \in s.used \ {0} /\ b \notin T
    BY <1>7
  <2>2. /\ s.blk[b][j] \in s.used \ {0} /\ d[s.blk[b][j]] = d[b] - 1
        /\ at[s.blk[b][j]] = <<"block", b, j>>
    BY <1>7, <1>8, <1>10, <2>1 DEF Labels
  <2>3. s.blk[b][j] \notin T
    BY <1>1, <2>1, <2>2
  <2> QED
    BY <1>7, <2>2, <2>3
<1>11. 0 \in w.used /\ d \in [BlockNos -> 0 .. 3]
  BY <1>1, <1>7, <1>8 DEF Labels
<1>12. Labels(w, d, at)
  BY <1>9, <1>10, <1>11 DEF Labels
<1>13. ASSUME NEW b \in u.used \ {0}, Owned(s, d, b)
       PROVE  Owned(w, d, b)
  <2>1. b \notin T /\ s.A[f] = t.addrs /\ s.blk = t.blk /\ s.used = t.used
    BY <1>5, ImgIs DEF s, Img
  <2>2. CASE \E g \in Files, i \in Roots0 : s.A[g][i] = b
    <3>1. PICK g \in Files, i \in Roots0 : s.A[g][i] = b
      BY <2>2
    <3>2. g # f
      BY <1>0, <2>1, <3>1
    <3> QED
      BY <1>6, <3>1, <3>2 DEF Owned
  <2>3. CASE \E x \in s.used \ {0}, j \in Places : d[x] > 0 /\ s.blk[x][j] = b
    <3>1. PICK x \in s.used \ {0}, j \in Places : d[x] > 0 /\ s.blk[x][j] = b
      BY <2>3
    <3>2. x \notin T
      BY <1>1, <2>1, <3>1
    <3>3. x \in w.used \ {0} /\ w.blk[x][j] = b
      BY <1>7, <3>1, <3>2
    <3> QED
      BY <3>1, <3>3 DEF Owned
  <2> QED
    BY <1>13, <2>2, <2>3 DEF Owned
<1> QED
  BY <1>5, <1>12, <1>13 DEF u, w, T, s

-----------------------------------------------------------------------------
(* What the labels say of the disk as the system calls see it.             *)
Sys == [used |-> disk.used, blk |-> disk.blk, A |-> [f \in Files |-> Current(f).addrs]]

LEMMA SysIs ==
  /\ Sys.used = disk.used /\ Sys.blk = disk.blk
  /\ \A f \in Files : Sys.A[f] = Current(f).addrs
BY DEF Sys

(* The blocks that the inodes name, and those that blocks of depth m name. *)
LEMMA RootCellsLabelled ==
  ASSUME NEW d, NEW at, Labels(Sys, d, at), NEW c \in RootCells
  PROVE  LET b == Current(c[1]).addrs[c[2]]
         IN  /\ c = <<c[1], c[2]>> /\ c[1] \in Files /\ c[2] \in Roots0
             /\ b \in disk.used \ {0} /\ d[b] = Depth(c[2]) /\ at[b] = <<"inode", c[1], c[2]>>
<1>1. /\ c = <<c[1], c[2]>> /\ c[1] \in Files /\ c[2] \in Roots0
      /\ Current(c[1]).addrs[c[2]] # 0
  BY DEF RootCells, Roots0
<1>2. Sys.A[c[1]][c[2]] = Current(c[1]).addrs[c[2]]
  BY <1>1, SysIs
<1>3. /\ Sys.A[c[1]][c[2]] \in Sys.used \ {0} /\ d[Sys.A[c[1]][c[2]]] = Depth(c[2])
      /\ at[Sys.A[c[1]][c[2]]] = <<"inode", c[1], c[2]>>
  BY <1>1, <1>2 DEF Labels
<1> QED
  BY <1>1, <1>2, <1>3, SysIs

AtDepth(B, d, m) == \A b \in B : b \in disk.used \ {0} /\ d[b] = m
NamedBy(at, c) ==
  /\ c = <<c[1], c[2]>> /\ disk.blk[c[1]][c[2]] \in disk.used \ {0}
  /\ at[disk.blk[c[1]][c[2]]] = <<"block", c[1], c[2]>>

LEMMA CellsLabelled ==
  ASSUME NEW d, NEW at, Labels(Sys, d, at), NEW B, NEW m \in Nat \ {0}, AtDepth(B, d, m)
  PROVE  /\ AtDepth(Named(Cells(B)), d, m - 1)
         /\ \A c \in Cells(B) : NamedBy(at, c)
<1>1. ASSUME NEW c \in Cells(B)
      PROVE  /\ NamedBy(at, c) /\ disk.blk[c[1]][c[2]] \in disk.used \ {0}
             /\ d[disk.blk[c[1]][c[2]]] = m - 1
  <2>1. c = <<c[1], c[2]>> /\ c[1] \in B /\ c[2] \in Places /\ disk.blk[c[1]][c[2]] # 0
    BY DEF Cells, Places
  <2>2. c[1] \in Sys.used \ {0} /\ d[c[1]] = m /\ d[c[1]] > 0
    BY <2>1, SysIs DEF AtDepth
  <2>3. Sys.blk[c[1]][c[2]] # 0
    BY <2>1, SysIs
  <2>4. /\ Sys.blk[c[1]][c[2]] \in Sys.used \ {0} /\ d[Sys.blk[c[1]][c[2]]] = d[c[1]] - 1
        /\ at[Sys.blk[c[1]][c[2]]] = <<"block", c[1], c[2]>>
    BY <2>1, <2>2, <2>3 DEF Labels
  <2> QED
    BY <2>1, <2>2, <2>4, SysIs DEF NamedBy
<1> QED
  BY <1>1 DEF AtDepth, Named

LEMMA IndirectCellsLabelled ==
  ASSUME NEW d, NEW at, Labels(Sys, d, at), NEW c \in IndirectCells
  PROVE  NamedBy(at, c)
<1> DEFINE B3 == Roots({NDIRECT + 2})
           B2 == Roots({NDIRECT + 1}) \cup Named(Cells(B3))
           B1 == Roots({NDIRECT}) \cup Named(Cells(B2))
<1>1. IndirectCells = Cells(B3) \cup Cells(B2) \cup Cells(B1)
  BY DEF IndirectCells
<1>2. ASSUME NEW i \in Roots0
      PROVE  AtDepth(Roots({i}), d, Depth(i))
  BY RootCellsLabelled DEF Roots, AtDepth
<1>3. /\ NDIRECT \in Roots0 /\ NDIRECT + 1 \in Roots0 /\ NDIRECT + 2 \in Roots0
      /\ Depth(NDIRECT) = 1 /\ Depth(NDIRECT + 1) = 2 /\ Depth(NDIRECT + 2) = 3
  BY DEF Depth, Roots0
<1>4. PICK one, two, three \in Nat \ {0} :
        one = 1 /\ two = 2 /\ three = 3 /\ three - 1 = two /\ two - 1 = one
  OBVIOUS
<1>5. /\ AtDepth(Roots({NDIRECT}), d, one) /\ AtDepth(Roots({NDIRECT + 1}), d, two)
      /\ AtDepth(B3, d, three)
  BY <1>2, <1>3, <1>4
<1> HIDE DEF B3
<1>6. AtDepth(B2, d, two)
  <2>1. AtDepth(Named(Cells(B3)), d, three - 1)
    BY <1>5, CellsLabelled
  <2> QED
    BY <1>4, <1>5, <2>1 DEF AtDepth
<1> HIDE DEF B2
<1>7. AtDepth(B1, d, one)
  <2>1. AtDepth(Named(Cells(B2)), d, two - 1)
    BY <1>6, CellsLabelled
  <2> QED
    BY <1>4, <1>5, <2>1 DEF AtDepth
<1> HIDE DEF B1
<1>8. \E B : \E m \in Nat \ {0} : AtDepth(B, d, m) /\ c \in Cells(B)
  BY <1>1, <1>5, <1>6, <1>7
<1>9. PICK B : \E m \in Nat \ {0} : AtDepth(B, d, m) /\ c \in Cells(B)
  BY <1>8
<1> QED
  BY <1>9, CellsLabelled

(* As many blocks as cells that name one: each cell names another block.   *)
LEMMA OneOwnerIf ==
  ASSUME disk.used \subseteq BlockNos, NEW d, NEW at, Labels(Sys, d, at)
  PROVE  OneOwner
<1> DEFINE rt(c) == Current(c[1]).addrs[c[2]]
           nm(c) == disk.blk[c[1]][c[2]]
           R == {rt(c) : c \in RootCells}
           N == {nm(c) : c \in IndirectCells}
<1>1. \A c \in RootCells : c = <<c[1], c[2]>> /\ rt(c) \in disk.used \ {0}
                           /\ at[rt(c)] = <<"inode", c[1], c[2]>>
  BY RootCellsLabelled
<1>2. \A c \in IndirectCells : c = <<c[1], c[2]>> /\ nm(c) \in disk.used \ {0}
                               /\ at[nm(c)] = <<"block", c[1], c[2]>>
  BY IndirectCellsLabelled DEF NamedBy
<1>3. Trees = R \cup N
  <2>1. Roots(0 .. (NDIRECT + 2)) = R
    BY DEF Roots, RootCells
  <2> QED
    BY <2>1 DEF Trees, Named
<1> HIDE DEF rt, nm
<1>4. R \subseteq disk.used \ {0} /\ N \subseteq disk.used \ {0}
  BY <1>1, <1>2
<1>5. IsFiniteSet(R) /\ IsFiniteSet(N)
  <2>1. IsFiniteSet(BlockNos)
    BY FS_Interval DEF BlockNos
  <2>2. R \subseteq BlockNos /\ N \subseteq BlockNos
    BY <1>4
  <2> HIDE DEF R, N
  <2> QED
    BY <2>1, <2>2, FS_Subset
<1>6. R \cap N = {}
  <2> SUFFICES ASSUME NEW x \in R, x \in N PROVE FALSE
    OBVIOUS
  <2>1. PICK c \in RootCells : x = rt(c)
    OBVIOUS
  <2>2. PICK e \in IndirectCells : x = nm(e)
    OBVIOUS
  <2>3. <<"inode", c[1], c[2]>> = <<"block", e[1], e[2]>>
    BY <1>1, <1>2, <2>1, <2>2
  <2> QED
    BY <2>3
<1>7. Cardinality(RootCells) = Cardinality(R)
  <2> DEFINE g == [c \in RootCells |-> rt(c)]
  <2>1. \A c, e \in RootCells : rt(c) = rt(e) => c = e
    <3> SUFFICES ASSUME NEW c \in RootCells, NEW e \in RootCells, rt(c) = rt(e) PROVE c = e
      OBVIOUS
    <3>1. <<"inode", c[1], c[2]>> = <<"inode", e[1], e[2]>>
      BY <1>1
    <3> QED
      BY <1>1, <3>1
  <2>2. g \in Bijection(RootCells, R)
    BY <2>1 DEF Bijection, Injection, Surjection, IsInjective
  <2>3. ExistsBijection(RootCells, R)
    BY <2>2 DEF ExistsBijection
  <2>4. ExistsBijection(R, RootCells)
    BY <2>3, Fun_ExistsBijSymmetric
  <2> HIDE DEF g, R
  <2> QED
    BY <1>5, <2>4, FS_Bijection
<1>8. Cardinality(IndirectCells) = Cardinality(N)
  <2> DEFINE g == [c \in IndirectCells |-> nm(c)]
  <2>1. \A c, e \in IndirectCells : nm(c) = nm(e) => c = e
    <3> SUFFICES ASSUME NEW c \in IndirectCells, NEW e \in IndirectCells, nm(c) = nm(e) PROVE c = e
      OBVIOUS
    <3>1. <<"block", c[1], c[2]>> = <<"block", e[1], e[2]>>
      BY <1>2
    <3> QED
      BY <1>2, <3>1
  <2>2. g \in Bijection(IndirectCells, N)
    BY <2>1 DEF Bijection, Injection, Surjection, IsInjective
  <2>3. ExistsBijection(IndirectCells, N)
    BY <2>2 DEF ExistsBijection
  <2>4. ExistsBijection(N, IndirectCells)
    BY <2>3, Fun_ExistsBijSymmetric
  <2> HIDE DEF g, N
  <2> QED
    BY <1>5, <2>4, FS_Bijection
<1> HIDE DEF R, N
<1>9. Cardinality(R \cup N) = Cardinality(R) + Cardinality(N) - Cardinality({})
  BY <1>5, <1>6, FS_Union
<1>10. Cardinality({}) = 0 /\ Cardinality(R) \in Nat /\ Cardinality(N) \in Nat
  BY <1>5, FS_EmptySet, FS_CardinalityType
<1> QED
  BY <1>3, <1>4, <1>7, <1>8, <1>9, <1>10 DEF OneOwner

(* A block that is there is the block that bmap finds.                     *)
LEMMA BlockIs ==
  ASSUME NEW s, NEW f \in Files, NEW bn \in 0 .. (MAXFILE - 1), NEW n,
         Nodes(s, f, Path(bn), Len(Path(bn)), n)
  PROVE  Block(s.blk, s.A[f], bn) = n[Len(Path(bn))]
<1> DEFINE path == Path(bn)
           L == Len(path)
           at == CHOOSE at : at = [l \in 1 .. L |->
                   IF l = 1 THEN s.A[f][path[1]] ELSE s.blk[at[l - 1]][path[l]]]
<1>1. L \in 1 .. 4
  BY PathIs
<1>2. PathOf[bn] = path
  BY DEF PathOf
<1>3. Block(s.blk, s.A[f], bn) = at[L]
  BY <1>2, Zenon DEF Block
<1> HIDE DEF path, L
<1>4. /\ n \in [1 .. L -> Nat \ {0}] /\ n[1] = s.A[f][path[1]]
      /\ \A k \in 1 .. (L - 1) : n[k + 1] = s.blk[n[k]][path[k + 1]]
  BY DEF Nodes, path, L
<1>5. n = [l \in 1 .. L |-> IF l = 1 THEN s.A[f][path[1]] ELSE s.blk[n[l - 1]][path[l]]]
  <2>1. ASSUME NEW l \in 1 .. L
        PROVE  n[l] = IF l = 1 THEN s.A[f][path[1]] ELSE s.blk[n[l - 1]][path[l]]
    <3>1. CASE l = 1
      BY <1>4, <3>1
    <3>2. CASE l # 1
      <4>1. l - 1 \in 1 .. (L - 1) /\ (l - 1) + 1 = l
        BY <1>1, <3>2
      <4>2. n[(l - 1) + 1] = s.blk[n[l - 1]][path[(l - 1) + 1]]
        BY <1>4, <4>1
      <4> QED
        BY <3>2, <4>1, <4>2
    <3> QED
      BY <3>1, <3>2
  <2> QED
    BY <1>4, <2>1
<1>6. at = [l \in 1 .. L |-> IF l = 1 THEN s.A[f][path[1]] ELSE s.blk[at[l - 1]][path[l]]]
  BY <1>5, Zenon
<1> HIDE DEF at
<1>7. \A l \in 1 .. L : at[l] = n[l]
  <2>1. at[1] = n[1]
    BY <1>1, <1>5, <1>6
  <2>2. ASSUME NEW l \in 1 .. 3, l + 1 <= L, at[l] = n[l]
        PROVE  at[l + 1] = n[l + 1]
    <3>1. l + 1 \in 1 .. L /\ l + 1 # 1 /\ (l + 1) - 1 = l
      BY <1>1, <2>2
    <3>2. at[l + 1] = s.blk[at[l]][path[l + 1]]
      BY <1>6, <3>1
    <3>3. n[l + 1] = s.blk[n[l]][path[l + 1]]
      BY <1>5, <3>1
    <3> QED
      BY <2>2, <3>2, <3>3
  <2>3. L >= 2 => at[2] = n[2]
    BY <1>1, <2>1, <2>2
  <2>4. L >= 3 => at[3] = n[3]
    BY <1>1, <2>2, <2>3
  <2>5. L >= 4 => at[4] = n[4]
    BY <1>1, <2>2, <2>4
  <2>6. ASSUME NEW l \in 1 .. L PROVE at[l] = n[l]
    <3>1. l = 1 \/ l = 2 \/ l = 3 \/ l = 4
      BY <1>1
    <3> QED
      BY <1>1, <2>1, <2>3, <2>4, <2>5, <3>1
  <2> QED
    BY <2>6
<1>8. L \in 1 .. L
  BY <1>1
<1>9. at[L] = n[L]
  BY <1>7, <1>8
<1> QED
  BY <1>3, <1>9, Zenon DEF path, L

(* The blocks below the size n of file f are there.                        *)
There(s, f, n) == \A bn \in Nat : bn < MAXFILE /\ bn * BSIZE < n => Present(s, f, bn)

LEMMA NoHoleIf ==
  ASSUME \A f \in Files : There(Sys, f, Current(f).size)
  PROVE  NoHole
<1> SUFFICES ASSUME NEW f \in Files, NEW bn \in 0 .. (MAXFILE - 1), bn * BSIZE < Current(f).size
             PROVE  Block(disk.blk, Current(f).addrs, bn) # 0
  BY Zenon DEF NoHole
<1>1. bn \in Nat /\ bn < MAXFILE
  OBVIOUS
<1>2. PICK n : Nodes(Sys, f, Path(bn), Len(Path(bn)), n)
  BY <1>1 DEF There, Present
<1>3. n[Len(Path(bn))] # 0
  <2>1. Len(Path(bn)) \in 1 .. Len(Path(bn))
    BY <1>1, PathIs
  <2> QED
    BY <1>2, <2>1 DEF Nodes
<1>4. Block(Sys.blk, Sys.A[f], bn) = n[Len(Path(bn))]
  BY <1>2, BlockIs
<1> QED
  BY <1>3, <1>4, SysIs

LEMMA ThereKept ==
  ASSUME NEW s \in Images, NEW d, NEW at, Labels(s, d, at), NEW u, NEW e, Stays(s, d, u, e),
         NEW f \in Files, NEW n, There(s, f, n)
  PROVE  There(u, f, n)
BY PresentKept DEF There

-----------------------------------------------------------------------------
(* The inductive invariant.  The inode on the disk may be behind the one   *)
(* in the cache, as catchupoffset does not write it: what it names is what *)
(* the cached one names.  A pwrite that has found a gap knows how many     *)
(* blocks it has filled.                                                   *)
OfDisk(x) == [used |-> x.used, blk |-> x.blk, A |-> [f \in Files |-> x.dino[f].addrs]]
Labelled(s) == \E d, at : Labels(s, d, at)
Sized(s, f, n) == There(s, f, n) /\ n <= MAXFILE * BSIZE

SysOK == Labelled(Sys) /\ \A f \in Files : Sized(Sys, f, Current(f).size)
DiskOK(x) == Labelled(OfDisk(x)) /\ \A f \in Files : Sized(OfDisk(x), f, x.dino[f].size)

Behind == \A f \in Files : inode[f] # NULL =>
  \A i \in Roots0 : disk.dino[f].addrs[i] \in {0, inode[f].addrs[i]}

CallIn(ino, s, c) ==
  /\ ino[c.f] # NULL /\ c.n < UINT /\ c.off < UINT
  /\ c.pc = "catchup" => \A bn \in Nat : bn < MAXFILE /\ bn < c.cur => Present(s, c.f, bn)
  /\ c.pc = "pwrite" => There(s, c.f, c.off)
CallOK(c) == CallIn(inode, Sys, c)
CallsOK == \A p \in Procs : call[p] # NULL => CallOK(call[p])

BlocksIndInv == TypeOK /\ SysOK /\ DiskOK(disk) /\ DiskOK(stable) /\ Behind /\ CallsOK

LEMMA OfDiskIs ==
  ASSUME NEW x
  PROVE  /\ OfDisk(x).used = x.used /\ OfDisk(x).blk = x.blk
         /\ \A f \in Files : OfDisk(x).A[f] = x.dino[f].addrs
BY DEF OfDisk

Disks == [used : SUBSET BlockNos, blk : [BlockNos -> Rows], dino : [Files -> Inodes]]

LEMMA TypeIs ==
  TypeOK <=> /\ disk \in Disks /\ stable \in Disks
             /\ inode \in [Files -> Inodes \cup {NULL}] /\ off \in [Files -> Nat]
             /\ call \in [Procs -> Calls \cup {NULL}]
BY DEF TypeOK, Disks, Rows

LEMMA InodeIs ==
  ASSUME NEW ip \in Inodes
  PROVE  ip.size \in Nat /\ ip.addrs \in Addrs /\ ip = [size |-> ip.size, addrs |-> ip.addrs]
BY DEF Inodes, Addrs, Roots0

LEMMA OfDiskImage ==
  ASSUME NEW x \in Disks
  PROVE  OfDisk(x) \in Images
<1>1. \A f \in Files : x.dino[f].addrs \in Addrs
  BY InodeIs DEF Disks
<1> QED
  BY <1>1 DEF OfDisk, Images, Disks

LEMMA SysImage ==
  ASSUME TypeOK
  PROVE  Sys \in Images
<1>1. \A f \in Files : Current(f) \in Inodes
  BY TypeIs DEF Current, Disks
<1>2. \A f \in Files : Current(f).addrs \in Addrs
  BY <1>1, InodeIs
<1> QED
  BY <1>2, TypeIs DEF Sys, Images, Disks

(* Labels are about what is named: they fit an image that names less.      *)
LEMMA LabelsOfLess ==
  ASSUME NEW s, NEW u, NEW d, NEW at, Labels(s, d, at), u.used = s.used, u.blk = s.blk,
         \A f \in Files, i \in Roots0 : u.A[f][i] \in {0, s.A[f][i]}
  PROVE  Labels(u, d, at)
<1>1. ASSUME NEW f \in Files, NEW i \in Roots0, u.A[f][i] # 0
      PROVE  /\ u.A[f][i] \in u.used \ {0} /\ d[u.A[f][i]] = Depth(i)
             /\ at[u.A[f][i]] = <<"inode", f, i>>
  <2>1. u.A[f][i] = s.A[f][i] /\ s.A[f][i] # 0
    BY <1>1
  <2> QED
    BY <2>1 DEF Labels
<1>2. ASSUME NEW b \in u.used \ {0}, NEW j \in Places, d[b] > 0, u.blk[b][j] # 0
      PROVE  /\ u.blk[b][j] \in u.used \ {0} /\ d[u.blk[b][j]] = d[b] - 1
             /\ at[u.blk[b][j]] = <<"block", b, j>>
  BY <1>2 DEF Labels
<1>3. 0 \in u.used /\ d \in [BlockNos -> 0 .. 3]
  BY DEF Labels
<1> QED
  BY <1>1, <1>2, <1>3 DEF Labels

LEMMA DiskLabels ==
  ASSUME Behind, NEW d, NEW at, Labels(Sys, d, at)
  PROVE  Labels(OfDisk(disk), d, at)
<1>1. \A f \in Files, i \in Roots0 : OfDisk(disk).A[f][i] \in {0, Sys.A[f][i]}
  BY OfDiskIs, SysIs DEF Behind, Current
<1>2. OfDisk(disk).used = Sys.used /\ OfDisk(disk).blk = Sys.blk
  BY OfDiskIs, SysIs
<1> QED
  BY <1>1, <1>2, LabelsOfLess

LEMMA Multiple ==
  ASSUME NEW x \in Nat, NEW m \in Nat \ {0}
  PROVE  (x * m) \div m = x
<1> DEFINE y == x * m
           q == y \div m
           r == y % m
<1>1. y \in Nat
  OBVIOUS
<1> HIDE DEF y
<1>2. q \in Int /\ r \in 0 .. (m - 1) /\ y = m * q + r
  BY <1>1
<1> HIDE DEF q, r
<1>3. m * (x - q) = r
  <2>1. m * (x - q) = m * x - m * q
    BY <1>2
  <2> QED
    BY <1>2, <2>1 DEF y
<1>4. x - q \in Int
  BY <1>2
<1>5. x - q = 0
  <2>1. x - q >= 1 => m * (x - q) >= m * 1
    BY <1>4
  <2>2. x - q <= -1 => m * (x - q) <= m * (-1)
    BY <1>4
  <2> QED
    BY <1>2, <1>3, <1>4, <2>1, <2>2
<1> QED
  BY <1>2, <1>5 DEF q, y

(* A write of n bytes at pos, where everything before pos is there.        *)
LEMMA ThereAfter ==
  ASSUME NEW s, NEW f, NEW pos \in Nat, NEW n \in Nat, NEW m \in Nat,
         There(s, f, pos), There(s, f, m), \A bn \in Covered(pos, n) : Present(s, f, bn)
  PROVE  There(s, f, pos + n) /\ There(s, f, Max({pos + n, m}))
<1>1. ASSUME NEW bn \in Nat, bn < MAXFILE, bn * BSIZE < pos + n
      PROVE  Present(s, f, bn)
  <2> DEFINE x == bn * BSIZE
  <2>1. x \in Nat
    OBVIOUS
  <2>2. CASE x < pos
    BY <1>1, <2>2 DEF There
  <2>3. CASE x >= pos
    <3>1. x \div BSIZE = bn
      BY Multiple
    <3> HIDE DEF x
    <3>2. x - pos \in 0 .. (n - 1) /\ pos + (x - pos) = x
      BY <1>1, <2>1, <2>3 DEF x
    <3>3. bn \in Covered(pos, n)
      BY <3>1, <3>2 DEF Covered
    <3> QED
      BY <3>3
  <2> QED
    BY <2>1, <2>2, <2>3
<1>2. There(s, f, pos + n)
  BY <1>1 DEF There
<1>3. Max({pos + n, m}) \in {pos + n, m}
  BY MaxOfTwo
<1> QED
  BY <1>2, <1>3

-----------------------------------------------------------------------------
(* A transaction that adds to the tree of an open file.                    *)
LEMMA TxnIs ==
  ASSUME TypeOK, NEW f \in Files, inode[f] # NULL
  PROVE  /\ Txn(f) \in Txns /\ Txn(f).panic = "none"
         /\ Img(Txn(f), f, Sys.A) = Sys
<1>1. inode[f] \in Inodes /\ inode[f].addrs \in Addrs
  BY TypeIs, InodeIs
<1>2. Txn(f) \in Txns /\ Txn(f).panic = "none"
  <2>1. disk.used \in SUBSET BlockNos /\ disk.blk \in [BlockNos -> Rows]
    BY TypeIs DEF Disks
  <2> QED
    BY <1>1, <2>1 DEF Txn, Txns, Messages
<1>3. Sys.A \in [Files -> Addrs] /\ Sys.A[f] = inode[f].addrs
  <2>1. Sys \in Images
    BY SysImage
  <2> QED
    BY <1>1, <2>1, SysIs DEF Images, Current
<1>4. [Sys.A EXCEPT ![f] = inode[f].addrs] = Sys.A
  BY <1>3
<1>5. Img(Txn(f), f, Sys.A) = [used |-> disk.used, blk |-> disk.blk, A |-> Sys.A]
  BY <1>4 DEF Img, Txn
<1>6. [used |-> disk.used, blk |-> disk.blk, A |-> Sys.A] = Sys
  BY DEF Sys
<1> QED
  BY <1>2, <1>5, <1>6

(* What such a transaction leaves: the image of t is what the system calls *)
(* see, the inode on the disk is the old one or the new one.               *)
Grew(f, t, sz) ==
  /\ inode' = [inode EXCEPT ![f] = [size |-> sz, addrs |-> t.addrs]]
  /\ \/ disk' = WithBlocks(t)
     \/ disk' = iupdate(t, f, [size |-> sz, addrs |-> t.addrs])

LEMMA GrewIs ==
  ASSUME TypeOK, NEW f \in Files, inode[f] # NULL, NEW t \in Txns, NEW sz \in Nat, Grew(f, t, sz)
  PROVE  /\ Sys' = Img(t, f, Sys.A)
         /\ disk' \in Disks /\ inode' \in [Files -> Inodes \cup {NULL}]
         /\ disk'.used = t.used /\ disk'.blk = t.blk
         /\ inode'[f].addrs = t.addrs /\ inode'[f].size = sz
         /\ \A g \in Files : (inode'[g] = NULL) = (inode[g] = NULL) /\ (g # f => inode'[g] = inode[g])
         /\ \A g \in Files : g # f => disk'.dino[g] = disk.dino[g]
         /\ \/ disk'.dino[f] = disk.dino[f]
            \/ disk'.dino[f].addrs = t.addrs /\ disk'.dino[f].size = sz
<1> DEFINE ip == [size |-> sz, addrs |-> t.addrs]
<1>0. t.used \in SUBSET BlockNos /\ t.blk \in [BlockNos -> Rows] /\ t.addrs \in Addrs
  BY DEF Txns
<1>1. ip \in Inodes /\ ip # NULL /\ ip.addrs = t.addrs /\ ip.size = sz
  BY <1>0, NullAssumption DEF Inodes, Addrs, Roots0
<1> HIDE DEF ip
<1>2. inode' = [inode EXCEPT ![f] = ip]
  BY DEF Grew, ip
<1>3. disk' = [disk EXCEPT !.used = t.used, !.blk = t.blk]
      \/ disk' = [[disk EXCEPT !.used = t.used, !.blk = t.blk] EXCEPT !.dino[f] = ip]
  BY DEF Grew, WithBlocks, iupdate, ip
<1>4. disk \in Disks /\ inode \in [Files -> Inodes \cup {NULL}]
  BY TypeIs
<1>5. /\ disk' \in Disks /\ disk'.used = t.used /\ disk'.blk = t.blk
      /\ \A g \in Files : g # f => disk'.dino[g] = disk.dino[g]
      /\ disk'.dino[f] = disk.dino[f] \/ disk'.dino[f] = ip
  <2> DEFINE x == [disk EXCEPT !.used = t.used, !.blk = t.blk]
             y == [x EXCEPT !.dino[f] = ip]
  <2>1. x \in Disks /\ x.used = t.used /\ x.blk = t.blk /\ x.dino = disk.dino
    BY <1>0, <1>4 DEF Disks
  <2>2. disk' = x \/ disk' = y
    BY <1>3
  <2> HIDE DEF x
  <2>3. y = [used |-> t.used, blk |-> t.blk, dino |-> [disk.dino EXCEPT ![f] = ip]]
    BY <2>1 DEF Disks
  <2>4. disk.dino \in [Files -> Inodes]
    BY <1>4 DEF Disks
  <2>5. y \in Disks /\ y.used = t.used /\ y.blk = t.blk /\ y.dino = [disk.dino EXCEPT ![f] = ip]
    BY <1>0, <1>1, <2>3, <2>4 DEF Disks
  <2> HIDE DEF y
  <2>6. disk' \in Disks /\ disk'.used = t.used /\ disk'.blk = t.blk
    BY <2>1, <2>2, <2>5
  <2>7. disk'.dino = disk.dino \/ disk'.dino = [disk.dino EXCEPT ![f] = ip]
    BY <2>1, <2>2, <2>5
  <2> QED
    BY <2>4, <2>6, <2>7
<1>6. /\ inode' \in [Files -> Inodes \cup {NULL}] /\ inode'[f] = ip
      /\ \A g \in Files : (inode'[g] = NULL) = (inode[g] = NULL) /\ (g # f => inode'[g] = inode[g])
  BY <1>1, <1>2, <1>4
<1>7. \A g \in Files : Current(g)' = IF g = f THEN ip ELSE Current(g)
  BY <1>1, <1>5, <1>6 DEF Current
<1>8. [g \in Files |-> Current(g)'.addrs] = [Sys.A EXCEPT ![f] = t.addrs]
  <2>1. Sys.A = [g \in Files |-> Current(g).addrs]
    BY DEF Sys
  <2> QED
    BY <1>1, <1>7, <2>1
<1>9. Sys' = [used |-> t.used, blk |-> t.blk, A |-> [g \in Files |-> Current(g)'.addrs]]
  BY <1>5 DEF Sys
<1>10. Sys' = Img(t, f, Sys.A)
  BY <1>8, <1>9 DEF Img
<1> QED
  BY <1>1, <1>5, <1>6, <1>10

LEMMA SizedIs ==
  ASSUME NEW s, NEW u, u.blk = s.blk, NEW f, u.A[f] = s.A[f]
  PROVE  /\ \A bn : Present(s, f, bn) => Present(u, f, bn)
         /\ \A n : Sized(s, f, n) => Sized(u, f, n)
<1>1. \A bn : Present(s, f, bn) => Present(u, f, bn)
  BY DEF Present, Nodes
<1> QED
  BY <1>1 DEF Sized, There

LEMMA SizedKept ==
  ASSUME NEW s \in Images, NEW d, NEW at, Labels(s, d, at), NEW u, NEW e, Stays(s, d, u, e),
         NEW f \in Files, NEW n, Sized(s, f, n)
  PROVE  Sized(u, f, n)
BY ThereKept DEF Sized

(* A commit, now or with the next one: the disk that a crash leaves is     *)
(* the new disk, the one before it, or the same as before.                 *)
LEMMA StableKept ==
  ASSUME disk \in Disks, stable \in Disks, disk' \in Disks, DiskOK(disk), DiskOK(stable), DiskOK(disk'),
         stable' = disk' \/ stable' = disk \/ stable' = stable
  PROVE  stable' \in Disks /\ DiskOK(stable')
OBVIOUS

LEMMA GrewKeeps ==
  ASSUME BlocksIndInv, NEW f \in Files, inode[f] # NULL, NEW d, NEW at, Labels(Sys, d, at),
         NEW t \in Txns, NEW e, NEW to, Labels(Img(t, f, Sys.A), e, to),
         Keeps(Sys, d, Img(t, f, Sys.A), e), NEW sz \in Nat, Sized(Img(t, f, Sys.A), f, sz),
         Grew(f, t, sz)
  PROVE  /\ SysOK' /\ DiskOK(disk') /\ Behind'
         /\ \A g \in Files, bn \in Nat : bn < MAXFILE /\ Present(Sys, g, bn) => Present(Sys', g, bn)
<1>1. TypeOK /\ SysOK /\ DiskOK(disk) /\ Behind
  BY DEF BlocksIndInv
<1>2. /\ Sys' = Img(t, f, Sys.A)
      /\ disk' \in Disks /\ inode' \in [Files -> Inodes \cup {NULL}]
      /\ disk'.used = t.used /\ disk'.blk = t.blk
      /\ inode'[f].addrs = t.addrs /\ inode'[f].size = sz
      /\ \A g \in Files : (inode'[g] = NULL) = (inode[g] = NULL) /\ (g # f => inode'[g] = inode[g])
      /\ \A g \in Files : g # f => disk'.dino[g] = disk.dino[g]
      /\ \/ disk'.dino[f] = disk.dino[f]
         \/ disk'.dino[f].addrs = t.addrs /\ disk'.dino[f].size = sz
  BY <1>1, GrewIs
<1>3. Sys \in Images /\ OfDisk(disk) \in Images
  BY <1>1, SysImage, OfDiskImage, TypeIs
<1>4. Keeps(Sys, d, Sys', e) /\ Labels(Sys', e, to)
  BY <1>2
<1>5. /\ Sys'.used = disk'.used /\ Sys'.blk = disk'.blk
      /\ \A g \in Files : Sys'.A[g] = Current(g)'.addrs
  BY DEF Sys
<1>6. \A g \in Files : Sized(Sys', g, Current(g)'.size)
  <2> SUFFICES ASSUME NEW g \in Files PROVE Sized(Sys', g, Current(g)'.size)
    OBVIOUS
  <2>1. CASE g = f
    BY <1>2, <2>1 DEF Current
  <2>2. CASE g # f
    <3>1. Current(g)' = Current(g)
      BY <1>2, <2>2 DEF Current
    <3>2. Sized(Sys, g, Current(g).size)
      BY <1>1 DEF SysOK
    <3> QED
      BY <1>3, <1>4, <3>1, <3>2, SizedKept DEF Keeps
  <2> QED
    BY <2>1, <2>2
<1>7. SysOK'
  BY <1>4, <1>6 DEF SysOK, Labelled
<1>8. Behind'
  <2> SUFFICES ASSUME NEW g \in Files, inode'[g] # NULL, NEW i \in Roots0
               PROVE  disk'.dino[g].addrs[i] \in {0, inode'[g].addrs[i]}
    BY DEF Behind
  <2>1. disk.dino[g].addrs[i] \in {0, inode[g].addrs[i]}
    BY <1>1, <1>2 DEF Behind
  <2>2. CASE g # f
    BY <1>2, <2>1, <2>2
  <2>3. CASE g = f
    <3>1. inode[f].addrs[i] # 0 => t.addrs[i] = inode[f].addrs[i]
      <4>1. Sys.A[f][i] = inode[f].addrs[i]
        BY SysIs DEF Current
      <4>2. Sys'.A[f][i] = t.addrs[i]
        BY <1>2, <1>5 DEF Current
      <4> QED
        BY <1>4, <4>1, <4>2 DEF Keeps, Stays
    <3> QED
      BY <1>2, <2>1, <2>3, <3>1
  <2> QED
    BY <2>2, <2>3
<1> DEFINE x == OfDisk(disk)
           y == OfDisk(disk')
<1>9. Labels(y, e, to)
  <2>1. y.used = Sys'.used /\ y.blk = Sys'.blk /\ \A g \in Files : y.A[g] = disk'.dino[g].addrs
    BY <1>5, OfDiskIs
  <2>2. \A g \in Files, i \in Roots0 : y.A[g][i] \in {0, Sys'.A[g][i]}
    BY <1>5, <1>8, <2>1 DEF Behind, Current
  <2> HIDE DEF y
  <2> QED
    BY <1>4, <2>1, <2>2, LabelsOfLess
<1>10. Labels(x, d, at)
  BY <1>1, DiskLabels
<1>11. /\ x.used = Sys.used /\ x.blk = Sys.blk /\ y.used = Sys'.used /\ y.blk = Sys'.blk
       /\ \A g \in Files : x.A[g] = disk.dino[g].addrs /\ y.A[g] = disk'.dino[g].addrs
  BY <1>5, OfDiskIs, SysIs
<1>12. \A g \in Files, i \in Roots0 : x.A[g][i] # 0 => y.A[g][i] = x.A[g][i]
  <2> SUFFICES ASSUME NEW g \in Files, NEW i \in Roots0, disk.dino[g].addrs[i] # 0
               PROVE  disk'.dino[g].addrs[i] = disk.dino[g].addrs[i]
    BY <1>11
  <2>1. CASE disk'.dino[g] = disk.dino[g]
    BY <2>1
  <2>2. CASE disk'.dino[g] # disk.dino[g]
    <3>1. g = f /\ disk'.dino[f].addrs = t.addrs
      BY <1>2, <2>2
    <3>2. inode[f].addrs[i] = disk.dino[f].addrs[i]
      BY <1>1, <3>1 DEF Behind
    <3>3. Sys.A[f][i] = inode[f].addrs[i] /\ Sys'.A[f][i] = t.addrs[i]
      BY <1>2, <1>5, SysIs DEF Current
    <3> QED
      BY <1>4, <3>1, <3>2, <3>3 DEF Keeps, Stays
  <2> QED
    BY <2>1, <2>2
<1> HIDE DEF x, y
<1>13. Stays(x, d, y, e)
  BY <1>4, <1>11, <1>12 DEF Keeps, Stays
<1>14. \A g \in Files : Sized(y, g, disk'.dino[g].size)
  <2> SUFFICES ASSUME NEW g \in Files PROVE Sized(y, g, disk'.dino[g].size)
    OBVIOUS
  <2>1. CASE disk'.dino[g] = disk.dino[g]
    <3>1. Sized(x, g, disk.dino[g].size) /\ x \in Images
      BY <1>1, <1>3 DEF DiskOK, x
    <3> QED
      BY <1>10, <1>13, <2>1, <3>1, SizedKept
  <2>2. CASE disk'.dino[g] # disk.dino[g]
    <3>1. g = f /\ disk'.dino[f].addrs = t.addrs /\ disk'.dino[f].size = sz
      BY <1>2, <2>2
    <3>2. y.A[f] = Sys'.A[f]
      BY <1>2, <1>5, <1>11, <3>1 DEF Current
    <3>3. Sized(Sys', f, sz)
      BY <1>2
    <3>4. y.blk = Sys'.blk
      BY <1>11
    <3>5. Sized(y, f, sz)
      <4> DEFINE z == Sys'
      <4>1. y.blk = z.blk /\ y.A[f] = z.A[f] /\ Sized(z, f, sz)
        BY <3>2, <3>3, <3>4
      <4> HIDE DEF z
      <4> QED
        BY <4>1, SizedIs
    <3> QED
      BY <3>1, <3>5
  <2> QED
    BY <2>1, <2>2
<1>15. DiskOK(disk')
  BY <1>9, <1>14 DEF DiskOK, Labelled, y
<1>16. \A g \in Files, bn \in Nat : bn < MAXFILE /\ Present(Sys, g, bn) => Present(Sys', g, bn)
  BY <1>3, <1>4, PresentKept DEF Keeps
<1> QED
  BY <1>7, <1>8, <1>15, <1>16

-----------------------------------------------------------------------------
(* What the steps keep.                                                    *)
LEMMA TypeIsNext ==
  TypeOK' <=> /\ disk' \in Disks /\ stable' \in Disks
              /\ inode' \in [Files -> Inodes \cup {NULL}] /\ off' \in [Files -> Nat]
              /\ call' \in [Procs -> Calls \cup {NULL}]
BY DEF TypeOK, Disks, Rows

LEMMA CallIs ==
  ASSUME NEW c \in Calls
  PROVE  /\ c.pc \in {"write", "catchup", "pwrite"} /\ c.f \in Files /\ c.n \in Nat /\ c.i \in Nat
         /\ c.off \in Nat /\ c.cur \in Nat
BY DEF Calls

LEMMA CallsKept ==
  ASSUME TypeOK, CallsOK, \A g \in Files : inode[g] # NULL => inode'[g] # NULL,
         \A g \in Files, bn \in Nat : bn < MAXFILE /\ Present(Sys, g, bn) => Present(Sys', g, bn),
         \A q \in Procs : call'[q] # NULL /\ call'[q] # call[q] => CallOK(call[q])'
  PROVE  CallsOK'
<1> SUFFICES ASSUME NEW q \in Procs, call'[q] # NULL, call'[q] = call[q]
             PROVE  CallOK(call[q])'
  BY DEF CallsOK
<1>1. call'[q] = call[q] /\ call[q] \in Calls /\ CallOK(call[q])
  BY TypeIs DEF CallsOK
<1> DEFINE c == call[q]
<1>2. c.f \in Files
  BY <1>1, CallIs
<1>3. CallOK(c) /\ call'[q] = c
  BY <1>1
<1> HIDE DEF c
<1>4. inode'[c.f] # NULL /\ c.n < UINT /\ c.off < UINT
  BY <1>2, <1>3 DEF CallOK, CallIn
<1>5. c.pc = "catchup" => \A bn \in Nat : bn < MAXFILE /\ bn < c.cur => Present(Sys', c.f, bn)
  BY <1>2, <1>3 DEF CallOK, CallIn
<1>6. c.pc = "pwrite" => There(Sys', c.f, c.off)
  BY <1>2, <1>3 DEF CallOK, CallIn, There
<1> QED
  BY <1>3, <1>4, <1>5, <1>6 DEF CallOK, CallIn

(* A step that changes neither the disk nor the inodes.                    *)
LEMMA DiskUnchanged ==
  ASSUME BlocksIndInv, UNCHANGED <<disk, stable, inode>>, off' \in [Files -> Nat],
         call' \in [Procs -> Calls \cup {NULL}],
         \A q \in Procs : call'[q] # NULL /\ call'[q] # call[q] => CallOK(call'[q])
  PROVE  BlocksIndInv'
<1>1. TypeOK'
  BY TypeIs, TypeIsNext DEF BlocksIndInv
<1>2. Sys' = Sys
  BY DEF Sys, Current
<1>3. \A c : CallOK(c)' = CallOK(c)
  BY <1>2 DEF CallOK, CallIn
<1>4. SysOK' /\ DiskOK(disk)' /\ DiskOK(stable)' /\ Behind'
  BY <1>2 DEF BlocksIndInv, SysOK, Behind, Current
<1>5. CallsOK'
  BY <1>2 DEF CallsOK, BlocksIndInv, CallOK, CallIn
<1> QED
  BY <1>1, <1>4, <1>5 DEF BlocksIndInv

LEMMA OpenKeeps ==
  ASSUME BlocksIndInv, NEW f \in Files, Open(f)
  PROVE  BlocksIndInv'
<1>1. TypeOK /\ inode[f] = NULL /\ inode' = [inode EXCEPT ![f] = disk.dino[f]]
  BY DEF BlocksIndInv, Open
<1>2. disk' = disk /\ stable' = stable /\ call' = call /\ off' = [off EXCEPT ![f] = 0]
  BY DEF Open
<1>3. disk.dino[f] \in Inodes /\ disk.dino[f] # NULL
  BY <1>1, TypeIs, NullAssumption DEF Disks
<1>4. TypeOK'
  BY <1>1, <1>2, <1>3, TypeIs, TypeIsNext
<1>5. \A g \in Files : inode'[g] = IF g = f THEN disk.dino[f] ELSE inode[g]
  BY <1>1, TypeIs
<1>6. \A g \in Files : Current(g)' = Current(g)
  BY <1>1, <1>2, <1>3, <1>5 DEF Current
<1>7. Sys' = Sys
  BY <1>2, <1>6 DEF Sys
<1>8. SysOK' /\ DiskOK(disk)' /\ DiskOK(stable)'
  BY <1>2, <1>6, <1>7 DEF BlocksIndInv, SysOK
<1>9. Behind'
  BY <1>2, <1>5 DEF Behind, BlocksIndInv
<1>10. CallsOK'
  <2>1. \A g \in Files : inode[g] # NULL => inode'[g] # NULL
    BY <1>3, <1>5
  <2>2. CallsOK
    BY DEF BlocksIndInv
  <2> QED
    BY <1>1, <1>2, <1>7, <2>1, <2>2, CallsKept
<1> QED
  BY <1>4, <1>8, <1>9, <1>10 DEF BlocksIndInv

LEMMA EmptySized ==
  ASSUME NEW s, NEW f
  PROVE  Sized(s, f, 0)
<1>1. \A bn \in Nat : ~(bn * BSIZE < 0)
  OBVIOUS
<1>2. 0 <= MAXFILE * BSIZE
  OBVIOUS
<1> QED
  BY <1>1, <1>2 DEF Sized, There

(* The inode leaves the cache.  A file that keeps its links is from now on *)
(* what the disk says, a file that does not is cut to nothing.             *)
Left(f) ==
  /\ inode' = [inode EXCEPT ![f] = NULL]
  /\ \/ disk' = disk
     \/ disk' = [disk EXCEPT !.used = disk.used \ Tree(Txn(f)), !.dino[f] = NewInode]

LEMMA NewInodeIs == NewInode \in Inodes /\ NewInode.size = 0 /\ NewInode.addrs = NoAddrs
BY DEF NewInode, NoAddrs, Inodes

LEMMA LeftIs ==
  ASSUME BlocksIndInv, NEW f \in Files, inode[f] # NULL, Left(f)
  PROVE  /\ disk' \in Disks /\ inode' \in [Files -> Inodes \cup {NULL}] /\ disk'.blk = disk.blk
         /\ \A g \in Files : inode'[g] = IF g = f THEN NULL ELSE inode[g]
         /\ \A g \in Files : g # f => disk'.dino[g] = disk.dino[g]
         /\ \/ disk' = disk
            \/ disk'.used = disk.used \ Tree(Txn(f)) /\ disk'.dino[f] = NewInode
<1>1. disk \in Disks /\ inode \in [Files -> Inodes \cup {NULL}]
  BY TypeIs DEF BlocksIndInv
<1> DEFINE U == disk.used \ Tree(Txn(f))
           x == [disk EXCEPT !.used = U, !.dino[f] = NewInode]
<1>3. disk' = disk \/ disk' = x
  BY DEF Left
<1> HIDE DEF U
<1>2. x = [used |-> U, blk |-> disk.blk, dino |-> [disk.dino EXCEPT ![f] = NewInode]]
  <2> DEFINE w == [disk EXCEPT !.used = U]
  <2>1. x = [w EXCEPT !.dino[f] = NewInode]
    BY Zenon
  <2>2. w = [used |-> U, blk |-> disk.blk, dino |-> disk.dino]
    BY <1>1 DEF Disks
  <2> HIDE DEF x, w
  <2> QED
    BY <2>1, <2>2
<1> HIDE DEF x
<1> USE DEF U
<1>4. disk.dino \in [Files -> Inodes] /\ disk.used \ Tree(Txn(f)) \in SUBSET BlockNos
  BY <1>1 DEF Disks
<1>5. /\ x \in Disks /\ x.blk = disk.blk /\ x.used = disk.used \ Tree(Txn(f))
      /\ x.dino = [disk.dino EXCEPT ![f] = NewInode]
  BY <1>1, <1>2, <1>4, NewInodeIs DEF Disks
<1>6. /\ disk' \in Disks /\ disk'.blk = disk.blk
      /\ \A g \in Files : g # f => disk'.dino[g] = disk.dino[g]
      /\ \/ disk' = disk
         \/ disk'.used = disk.used \ Tree(Txn(f)) /\ disk'.dino[f] = NewInode
  BY <1>1, <1>3, <1>4, <1>5
<1>7. /\ inode' \in [Files -> Inodes \cup {NULL}]
      /\ \A g \in Files : inode'[g] = IF g = f THEN NULL ELSE inode[g]
  BY <1>1 DEF Left
<1> QED
  BY <1>6, <1>7

(* The labels stay, and if the disk knew all blocks of the file, no other  *)
(* block loses the cell that names it.                                     *)
LEMMA LeftLabels ==
  ASSUME BlocksIndInv, NEW f \in Files, inode[f] # NULL, Left(f), NEW d, NEW at, Labels(Sys, d, at)
  PROVE  /\ Labels(Sys', d, at)
         /\ inode[f].addrs = disk.dino[f].addrs =>
              \A b \in Sys'.used \ {0} : Owned(Sys, d, b) => Owned(Sys', d, b)
<1>1. TypeOK /\ Behind
  BY DEF BlocksIndInv
<1>2. /\ disk' \in Disks /\ inode' \in [Files -> Inodes \cup {NULL}] /\ disk'.blk = disk.blk
      /\ \A g \in Files : inode'[g] = IF g = f THEN NULL ELSE inode[g]
      /\ \/ disk' = disk
         \/ disk'.used = disk.used \ Tree(Txn(f)) /\ disk'.dino[f] = NewInode
      /\ \A g \in Files : g # f => disk'.dino[g] = disk.dino[g]
  BY LeftIs
<1>3. /\ Sys'.used = disk'.used /\ Sys'.blk = disk'.blk
      /\ \A g \in Files : Sys'.A[g] = Current(g)'.addrs
  BY DEF Sys
<1>5. \A g \in Files : g # f => Current(g)' = Current(g)
  BY <1>2 DEF Current
<1>6. Current(f)' = disk'.dino[f]
  BY <1>2 DEF Current
<1>7. CASE disk' = disk
  <2>1. ASSUME NEW g \in Files, NEW i \in Roots0
        PROVE  Sys'.A[g][i] \in {0, Sys.A[g][i]}
    <3>1. CASE g = f
      <4>1. Sys'.A[f] = disk.dino[f].addrs
        BY <1>3, <1>6, <1>7
      <4>2. Sys.A[f] = inode[f].addrs
        BY SysIs DEF Current
      <4>3. disk.dino[f].addrs[i] \in {0, inode[f].addrs[i]}
        BY <1>1 DEF Behind
      <4> QED
        BY <3>1, <4>1, <4>2, <4>3
    <3>2. CASE g # f
      BY <1>3, <1>5, <3>2, SysIs
    <3> QED
      BY <3>1, <3>2
  <2>2. Sys'.used = Sys.used /\ Sys'.blk = Sys.blk
    BY <1>3, <1>7, SysIs
  <2>3. Labels(Sys', d, at)
    BY <2>1, <2>2, LabelsOfLess
  <2>4. ASSUME inode[f].addrs = disk.dino[f].addrs, NEW b, Owned(Sys, d, b)
        PROVE  Owned(Sys', d, b)
    <3>1. \A g \in Files : Sys'.A[g] = Sys.A[g]
      BY <1>3, <1>5, <1>6, <1>7, <2>4, SysIs DEF Current
    <3> QED
      BY <2>2, <2>4, <3>1 DEF Owned
  <2> QED
    BY <2>3, <2>4
<1>8. CASE disk'.used = disk.used \ Tree(Txn(f)) /\ disk'.dino[f] = NewInode
  <2> DEFINE t == Txn(f)
             u == itrunc(t)
             v == Img(u, f, Sys.A)
  <2>1. t \in Txns /\ t.panic = "none" /\ Img(t, f, Sys.A) = Sys /\ t.blk = disk.blk /\ t.used = disk.used
    <3>1. t.blk = disk.blk /\ t.used = disk.used
      BY DEF Txn
    <3> QED
      BY <1>1, <3>1, TxnIs
  <2>2. Sys.A \in [Files -> Addrs]
    BY <1>1, SysImage DEF Images
  <2> HIDE DEF t
  <2>3. /\ u.used = t.used \ Tree(t) /\ u.blk = t.blk /\ u.addrs = NoAddrs /\ u \in Txns
        /\ Labels(v, d, at)
        /\ \A b \in u.used \ {0} : Owned(Sys, d, b) => Owned(v, d, b)
    BY <2>1, <2>2, ItruncFrees
  <2> HIDE DEF u
  <2>4. /\ v.A[f] = NoAddrs /\ \A g \in Files : g # f => v.A[g] = Sys.A[g]
    BY <2>2, <2>3, ImgIs
  <2>5. v.used = u.used /\ v.blk = t.blk
    BY <2>3 DEF Img
  <2> HIDE DEF v
  <2>6. Sys'.used = v.used /\ Sys'.blk = v.blk /\ Sys'.used = u.used
    BY <1>2, <1>3, <1>8, <2>1, <2>3, <2>5 DEF t
  <2>7. \A g \in Files : Sys'.A[g] = v.A[g]
    BY <1>3, <1>5, <1>6, <1>8, <2>4, NewInodeIs, SysIs
  <2>8. Labels(Sys', d, at)
    BY <2>3, <2>6, <2>7, LabelsOfLess
  <2>9. \A b : Owned(v, d, b) => Owned(Sys', d, b)
    BY <2>6, <2>7 DEF Owned
  <2> QED
    BY <2>3, <2>6, <2>8, <2>9
<1> QED
  BY <1>2, <1>7, <1>8

LEMMA LeftKeeps ==
  ASSUME BlocksIndInv, NEW f \in Files, inode[f] # NULL, Left(f)
  PROVE  /\ SysOK' /\ DiskOK(disk') /\ Behind'
         /\ \A g \in Files : \A bn : g # f /\ Present(Sys, g, bn) => Present(Sys', g, bn)
<1>1. TypeOK /\ SysOK /\ DiskOK(disk) /\ Behind
  BY DEF BlocksIndInv
<1>2. /\ disk' \in Disks /\ inode' \in [Files -> Inodes \cup {NULL}] /\ disk'.blk = disk.blk
      /\ \A g \in Files : inode'[g] = IF g = f THEN NULL ELSE inode[g]
      /\ \A g \in Files : g # f => disk'.dino[g] = disk.dino[g]
      /\ \/ disk' = disk
         \/ disk'.used = disk.used \ Tree(Txn(f)) /\ disk'.dino[f] = NewInode
  BY LeftIs
<1>3. /\ Sys'.used = disk'.used /\ Sys'.blk = disk'.blk
      /\ \A g \in Files : Sys'.A[g] = Current(g)'.addrs
  BY DEF Sys
<1>4. PICK d, at : Labels(Sys, d, at)
  BY <1>1 DEF SysOK, Labelled
<1>5. \A g \in Files : g # f => Current(g)' = Current(g)
  BY <1>2 DEF Current
<1>6. Current(f)' = disk'.dino[f]
  BY <1>2 DEF Current
<1>7. Labels(Sys', d, at)
  BY <1>4, LeftLabels
<1>8. \A g \in Files : \A bn : g # f /\ Present(Sys, g, bn) => Present(Sys', g, bn)
  BY <1>2, <1>3, <1>5, SizedIs, SysIs
<1>9. \A g \in Files : Sized(OfDisk(disk'), g, disk'.dino[g].size)
  <2> SUFFICES ASSUME NEW g \in Files PROVE Sized(OfDisk(disk'), g, disk'.dino[g].size)
    OBVIOUS
  <2>1. CASE disk'.dino[g] = disk.dino[g]
    <3>1. OfDisk(disk').blk = OfDisk(disk).blk /\ OfDisk(disk').A[g] = OfDisk(disk).A[g]
      <4>1. OfDisk(disk').A[g] = disk'.dino[g].addrs /\ OfDisk(disk).A[g] = disk.dino[g].addrs
        BY OfDiskIs
      <4>2. OfDisk(disk').blk = disk'.blk /\ OfDisk(disk).blk = disk.blk
        BY OfDiskIs
      <4> QED
        BY <1>2, <2>1, <4>1, <4>2
    <3>2. Sized(OfDisk(disk), g, disk.dino[g].size)
      BY <1>1 DEF DiskOK
    <3> QED
      BY <2>1, <3>1, <3>2, SizedIs
  <2>2. CASE disk'.dino[g] # disk.dino[g]
    <3>1. disk'.dino[g].size = 0
      BY <1>2, <2>2, NewInodeIs
    <3> QED
      BY <3>1, EmptySized
  <2> QED
    BY <2>1, <2>2
<1>10. Behind'
  BY <1>1, <1>2 DEF Behind
<1>11. Labels(OfDisk(disk'), d, at)
  <2>1. ASSUME NEW g \in Files, NEW i \in Roots0
        PROVE  OfDisk(disk').A[g][i] \in {0, Sys'.A[g][i]}
    <3>1. Sys'.A[g] = Current(g)'.addrs /\ OfDisk(disk').A[g] = disk'.dino[g].addrs
      BY <1>3, OfDiskIs
    <3>2. CASE inode'[g] = NULL
      BY <3>1, <3>2 DEF Current
    <3>3. CASE inode'[g] # NULL
      <4>1. disk'.dino[g].addrs[i] \in {0, inode'[g].addrs[i]}
        BY <1>10, <3>3 DEF Behind
      <4> QED
        BY <3>1, <3>3, <4>1 DEF Current
    <3> QED
      BY <3>2, <3>3
  <2>2. OfDisk(disk').used = Sys'.used /\ OfDisk(disk').blk = Sys'.blk
    BY <1>3, OfDiskIs
  <2> QED
    BY <1>7, <2>1, <2>2, LabelsOfLess
<1>12. DiskOK(disk')
  BY <1>9, <1>11 DEF DiskOK, Labelled
<1>13. \A g \in Files : Sized(Sys', g, Current(g)'.size)
  <2> SUFFICES ASSUME NEW g \in Files PROVE Sized(Sys', g, Current(g)'.size)
    OBVIOUS
  <2>1. CASE g = f
    <3>1. Sys'.blk = OfDisk(disk').blk /\ Sys'.A[f] = OfDisk(disk').A[f]
      BY <1>3, <1>6, OfDiskIs
    <3> QED
      BY <1>6, <1>9, <2>1, <3>1, SizedIs
  <2>2. CASE g # f
    <3>1. Sys'.blk = Sys.blk /\ Sys'.A[g] = Sys.A[g]
      BY <1>2, <1>3, <1>5, <2>2, SysIs
    <3>2. Sized(Sys, g, Current(g).size)
      BY <1>1 DEF SysOK
    <3> QED
      BY <1>5, <2>2, <3>1, <3>2, SizedIs
  <2> QED
    BY <2>1, <2>2
<1>14. SysOK'
  BY <1>7, <1>13 DEF SysOK, Labelled
<1> QED
  BY <1>8, <1>10, <1>12, <1>14

LEMMA EndOpIs ==
  ASSUME NEW p, NEW x, EndOp(p, x)
  PROVE  disk' = x /\ (stable' = disk' \/ stable' = disk \/ stable' = stable)
BY DEF EndOp

LEMMA CloseLeaves ==
  ASSUME BlocksIndInv, NEW f \in Files, inode[f] # NULL, NEW nlink,
         IF nlink = 0 THEN EndOp(NULL, Truncated(itrunc(Txn(f)), f)) ELSE EndOp(NULL, disk),
         inode' = [inode EXCEPT ![f] = NULL]
  PROVE  Left(f)
<1> DEFINE t == itrunc(Txn(f))
<1>1. TypeOK /\ SysOK
  BY DEF BlocksIndInv
<1>2. nlink = 0 => Truncated(t, f) = [disk EXCEPT !.used = disk.used \ Tree(Txn(f)), !.dino[f] = NewInode]
  <2> DEFINE v == Txn(f)
  <2>1. /\ v \in Txns /\ v.panic = "none" /\ Img(v, f, Sys.A) = Sys
        /\ v.used = disk.used /\ v.blk = disk.blk
    <3>1. v.used = disk.used /\ v.blk = disk.blk
      BY DEF Txn
    <3> QED
      BY <1>1, <3>1, TxnIs
  <2>2. Sys.A \in [Files -> Addrs]
    BY <1>1, SysImage DEF Images
  <2>3. PICK d, at : Labels(Sys, d, at)
    BY <1>1 DEF SysOK, Labelled
  <2> HIDE DEF v
  <2>4. itrunc(v).used = v.used \ Tree(v) /\ itrunc(v).blk = v.blk
    BY <2>1, <2>2, <2>3, ItruncFrees
  <2>5. t.used = disk.used \ Tree(Txn(f)) /\ t.blk = disk.blk
    BY <2>1, <2>4 DEF v
  <2> HIDE DEF t
  <2>6. WithBlocks(t) = [disk EXCEPT !.used = t.used]
    BY <1>1, <2>5, TypeIs DEF WithBlocks, Disks
  <2>7. Truncated(t, f) = [[disk EXCEPT !.used = t.used] EXCEPT !.dino[f] = NewInode]
    BY <2>6 DEF Truncated
  <2> QED
    BY <2>5, <2>7, Zenon
<1>3. disk' = IF nlink = 0 THEN Truncated(t, f) ELSE disk
  BY EndOpIs
<1> QED
  BY <1>2, <1>3, Zenon DEF Left

LEMMA CloseKeeps ==
  ASSUME BlocksIndInv, NEW f \in Files, NEW nlink, Close(f, nlink)
  PROVE  BlocksIndInv'
<1> DEFINE t == itrunc(Txn(f))
<1>1. TypeOK /\ inode[f] # NULL /\ ~InUse(f) /\ SysOK
  BY DEF Close, BlocksIndInv
<1>2. CASE nlink = 0 /\ t.panic # "none"
  <2>1. UNCHANGED <<disk, stable, inode, off, call>>
    BY <1>2, Zenon DEF Close, Panic
  <2> QED
    BY <1>1, <2>1, DiskUnchanged, TypeIs
<1>3. CASE ~(nlink = 0 /\ t.panic # "none")
  <2>1. /\ IF nlink = 0 THEN EndOp(NULL, Truncated(t, f)) ELSE EndOp(NULL, disk)
        /\ inode' = [inode EXCEPT ![f] = NULL] /\ off' = off /\ call' = call
    BY <1>3 DEF Close
  <2>4. stable' = disk' \/ stable' = disk \/ stable' = stable
    BY <2>1, EndOpIs
  <2>5. Left(f)
    BY <1>1, <2>1, CloseLeaves
  <2> HIDE DEF t
  <2>6. /\ SysOK' /\ DiskOK(disk') /\ Behind'
        /\ \A g \in Files : \A bn : g # f /\ Present(Sys, g, bn) => Present(Sys', g, bn)
    BY <1>1, <2>5, LeftKeeps
  <2>7. /\ disk' \in Disks /\ inode' \in [Files -> Inodes \cup {NULL}]
        /\ \A g \in Files : g # f => inode'[g] = inode[g]
    BY <1>1, <2>5, LeftIs
  <2>8. stable' \in Disks /\ DiskOK(stable')
    BY <1>1, <2>4, <2>6, <2>7, StableKept, TypeIs DEF BlocksIndInv
  <2>9. TypeOK'
    BY <1>1, <2>1, <2>7, <2>8, TypeIs, TypeIsNext
  <2>10. CallsOK'
    <3> SUFFICES ASSUME NEW q \in Procs, call'[q] # NULL PROVE CallOK(call[q])'
      BY DEF CallsOK
    <3> DEFINE c == call[q]
    <3>1. call'[q] = c /\ c \in Calls /\ CallOK(c) /\ c.f # f
      BY <1>1, <2>1, TypeIs DEF BlocksIndInv, CallsOK, InUse
    <3> HIDE DEF c
    <3>2. c.f \in Files
      BY <3>1, CallIs
    <3>3. inode'[c.f] # NULL /\ c.n < UINT /\ c.off < UINT
      BY <2>7, <3>1, <3>2 DEF CallOK, CallIn
    <3>4. c.pc = "catchup" => \A bn \in Nat : bn < MAXFILE /\ bn < c.cur => Present(Sys', c.f, bn)
      BY <2>6, <3>1, <3>2 DEF CallOK, CallIn
    <3>5. c.pc = "pwrite" => There(Sys', c.f, c.off)
      BY <2>6, <3>1, <3>2 DEF CallOK, CallIn, There
    <3> QED
      BY <3>1, <3>3, <3>4, <3>5 DEF CallOK, CallIn
  <2> QED
    BY <2>6, <2>8, <2>9, <2>10 DEF BlocksIndInv
<1> QED
  BY <1>2, <1>3

LEMMA CalledKeeps ==
  ASSUME BlocksIndInv, NEW p \in Procs, NEW c \in Calls, Called(p, c), CallOK(c)
  PROVE  BlocksIndInv'
<1>1. TypeOK /\ call' = [call EXCEPT ![p] = c] /\ UNCHANGED <<disk, stable, inode, off>>
  BY DEF Called, BlocksIndInv
<1>2. call' \in [Procs -> Calls \cup {NULL}] /\ off' \in [Files -> Nat]
  BY <1>1, TypeIs
<1>3. \A q \in Procs : call'[q] = IF q = p THEN c ELSE call[q]
  BY <1>1, TypeIs
<1> QED
  BY <1>1, <1>2, <1>3, DiskUnchanged

LEMMA Lengths ==
  /\ MaxLen < UINT
  /\ \A n \in WriteLens \cup PwriteLens : n \in Nat /\ n < UINT
  /\ \A o \in Offsets : o \in Nat /\ o < UINT
  /\ UINT \in Nat \ {0} /\ MAXFILE * BSIZE < UINT
BY BlocksAssumption

LEMMA FilewriteKeeps ==
  ASSUME BlocksIndInv, NEW p \in Procs, NEW f \in Files, NEW n \in WriteLens, filewrite(p, f, n)
  PROVE  BlocksIndInv'
<1> DEFINE c == [pc |-> "write", f |-> f, n |-> n, i |-> 0, off |-> 0, cur |-> 0]
<1>1. n \in Nat /\ n < UINT /\ 0 < UINT
  BY Lengths
<1>2. c \in Calls
  BY <1>1 DEF Calls
<1>3. Called(p, c)
  BY DEF filewrite
<1>4. CallOK(c)
  BY <1>1, <1>3 DEF CallOK, CallIn, Called
<1> QED
  BY <1>2, <1>3, <1>4, CalledKeeps

LEMMA QuotientBelow ==
  ASSUME NEW x \in Nat, NEW m \in Nat \ {0}, NEW b \in Nat
  PROVE  x \div m \in Nat /\ (b < x \div m => b * m < x) /\ (b * m < x => b <= x \div m)
<1> DEFINE q == x \div m
           r == x % m
<1>1. q \in Int /\ r \in 0 .. (m - 1) /\ x = m * q + r
  OBVIOUS
<1> HIDE DEF q, r
<1>2. q >= 0
  <2>1. q <= -1 => m * q <= m * (-1)
    BY <1>1
  <2> QED
    BY <1>1, <2>1
<1>3. b < q => b * m < x
  <2>1. b < q => m * (b + 1) <= m * q
    BY <1>1
  <2>2. m * (b + 1) = b * m + m
    OBVIOUS
  <2> QED
    BY <1>1, <2>1, <2>2
<1>4. b * m < x => b <= q
  <2>1. b >= q + 1 => m * b >= m * (q + 1)
    BY <1>1
  <2>2. m * (q + 1) = m * q + m /\ m * b = b * m
    BY <1>1
  <2> QED
    BY <1>1, <2>1, <2>2
<1> QED
  BY <1>1, <1>2, <1>3, <1>4 DEF q

LEMMA QuotientTimes ==
  ASSUME NEW x \in Nat, NEW m \in Nat \ {0}
  PROVE  x \div m \in Nat /\ (x \div m) * m <= x
<1> DEFINE q == x \div m
           r == x % m
<1>1. q \in Int /\ r \in 0 .. (m - 1) /\ x = m * q + r
  OBVIOUS
<1>2. q \in Nat
  BY QuotientBelow
<1> HIDE DEF q, r
<1>3. q * m = m * q
  BY <1>1
<1> QED
  BY <1>1, <1>2, <1>3 DEF q

LEMMA FilepwriteKeeps ==
  ASSUME BlocksIndInv, NEW p \in Procs, NEW f \in Files, NEW n \in PwriteLens, NEW o \in Offsets,
         filepwrite(p, f, n, o)
  PROVE  BlocksIndInv'
<1> DEFINE pc == IF HasGap(f, o) THEN "catchup" ELSE "pwrite"
           cur == inode[f].size \div BSIZE
           c == [pc |-> pc, f |-> f, n |-> n, i |-> 0, off |-> o, cur |-> cur]
<1>1. n \in Nat /\ n < UINT /\ o \in Nat /\ o < UINT
  BY Lengths
<1>2. inode[f] # NULL /\ inode[f].size \in Nat
  BY TypeIs, InodeIs DEF filepwrite, BlocksIndInv
<1>3. There(Sys, f, inode[f].size)
  BY <1>2 DEF BlocksIndInv, SysOK, Sized, Current
<1>4. cur \in Nat /\ \A b \in Nat : b < cur => b * BSIZE < inode[f].size
  BY <1>2, QuotientBelow
<1>5. pc \in {"catchup", "pwrite"} /\ (pc = "pwrite" => o <= inode[f].size)
  BY <1>1, <1>2 DEF HasGap
<1>6. Called(p, c)
  BY Zenon DEF filepwrite
<1> HIDE DEF pc, cur
<1>7. c \in Calls
  BY <1>1, <1>4, <1>5 DEF Calls
<1>8. CallOK(c)
  <2>1. \A bn \in Nat : bn < MAXFILE /\ bn < cur => Present(Sys, f, bn)
    BY <1>3, <1>4 DEF There
  <2>2. pc = "pwrite" => There(Sys, f, o)
    <3>1. \A bn \in Nat : bn * BSIZE \in Nat
      OBVIOUS
    <3> QED
      BY <1>1, <1>2, <1>3, <1>5, <3>1 DEF There
  <2> QED
    BY <1>1, <1>2, <2>1, <2>2 DEF CallOK, CallIn
<1> QED
  BY <1>6, <1>7, <1>8, CalledKeeps

LEMMA PanicKeeps ==
  ASSUME BlocksIndInv, UNCHANGED <<disk, stable, inode, off, call>>
  PROVE  BlocksIndInv'
<1>1. TypeOK
  BY DEF BlocksIndInv
<1> QED
  BY <1>1, DiskUnchanged, TypeIs

(* A step that grows the file of a call.                                   *)
LEMMA GrewInv ==
  ASSUME BlocksIndInv, NEW f \in Files, inode[f] # NULL, NEW d, NEW at, Labels(Sys, d, at),
         NEW t \in Txns, t.panic = "none", NEW bns, Grown(Txn(f), d, t, f, Sys.A, bns),
         NEW sz \in Nat, sz <= MAXFILE * BSIZE,
         (/\ There(Sys', f, inode[f].size) /\ (\A bn \in bns : Present(Sys', f, bn))
          /\ \A bn \in Nat : bn < MAXFILE /\ Present(Sys, f, bn) => Present(Sys', f, bn))
           => There(Sys', f, sz),
         Grew(f, t, sz), stable' = disk' \/ stable' = disk \/ stable' = stable
  PROVE  /\ disk' \in Disks /\ stable' \in Disks /\ inode' \in [Files -> Inodes \cup {NULL}]
         /\ SysOK' /\ DiskOK(disk') /\ DiskOK(stable') /\ Behind'
         /\ \A g \in Files : inode[g] # NULL => inode'[g] # NULL
         /\ \A g \in Files, bn \in Nat : bn < MAXFILE /\ Present(Sys, g, bn) => Present(Sys', g, bn)
         /\ \A bn \in bns : Present(Sys', f, bn)
<1>1. TypeOK /\ SysOK
  BY DEF BlocksIndInv
<1>2. Img(Txn(f), f, Sys.A) = Sys
  BY <1>1, TxnIs
<1>3. PICK e, to : /\ Labels(Img(t, f, Sys.A), e, to) /\ Keeps(Sys, d, Img(t, f, Sys.A), e)
                   /\ \A bn \in bns : Present(Img(t, f, Sys.A), f, bn)
  BY <1>2 DEF Grown
<1>4. /\ Sys' = Img(t, f, Sys.A)
      /\ disk' \in Disks /\ inode' \in [Files -> Inodes \cup {NULL}]
      /\ \A g \in Files : (inode'[g] = NULL) = (inode[g] = NULL)
  BY <1>1, GrewIs
<1>5. Sys \in Images /\ There(Sys, f, inode[f].size)
  BY <1>1, SysImage DEF SysOK, Sized, Current
<1>6. There(Img(t, f, Sys.A), f, inode[f].size)
  BY <1>3, <1>5, ThereKept DEF Keeps
<1>7. Sized(Img(t, f, Sys.A), f, sz)
  <2>1. \A bn \in Nat : bn < MAXFILE /\ Present(Sys, f, bn) => Present(Img(t, f, Sys.A), f, bn)
    BY <1>3, <1>5, PresentKept DEF Keeps
  <2> QED
    BY <1>3, <1>4, <1>6, <2>1 DEF Sized
<1>8. /\ SysOK' /\ DiskOK(disk') /\ Behind'
      /\ \A g \in Files, bn \in Nat : bn < MAXFILE /\ Present(Sys, g, bn) => Present(Sys', g, bn)
  BY <1>3, <1>7, GrewKeeps
<1>9. stable' \in Disks /\ DiskOK(stable')
  BY <1>1, <1>4, <1>8, StableKept, TypeIs DEF BlocksIndInv
<1> QED
  BY <1>3, <1>4, <1>8, <1>9

(* A round of catchupoffset finds its block, or the disk is full.          *)
LEMMA CatchupGrows ==
  ASSUME BlocksIndInv, NEW p \in Procs, call[p] # NULL, call[p].pc = "catchup",
         call[p].cur < MAXFILE, NEW d, NEW at, Labels(Sys, d, at)
  PROVE  LET c == call[p]
         IN  Grown(Txn(c.f), d, bmap(Txn(c.f), c.cur), c.f, Sys.A, {c.cur})
<1> DEFINE c == call[p]
           f == c.f
           v == Txn(f)
           b == c.cur
           t == bmap(v, b)
<1>1. TypeOK /\ SysOK
  BY DEF BlocksIndInv
<1>2. c \in Calls /\ f \in Files /\ b \in Nat /\ b < MAXFILE /\ CallOK(c)
  BY <1>1, CallIs, TypeIs DEF BlocksIndInv, CallsOK
<1>3. inode[f] # NULL
  BY <1>2 DEF CallOK, CallIn
<1>4. v \in Txns /\ v.panic = "none" /\ Img(v, f, Sys.A) = Sys
  BY <1>1, <1>2, <1>3, TxnIs
<1>5. Sys.A \in [Files -> Addrs]
  BY <1>1, SysImage DEF Images
<1> HIDE DEF c, f, v, b
<1>6. /\ Labels(Img(v, f, Sys.A), d, at) /\ Keeps(Img(v, f, Sys.A), d, Img(v, f, Sys.A), d)
      /\ SameAddrs(v, v, f, Sys.A, {})
  BY <1>4 DEF Keeps, Stays, SameAddrs
<1>7. Mapped(v, d, t, f, Sys.A, {} \cup {b})
  BY <1>2, <1>4, <1>5, <1>6, BmapGrows
<1> HIDE DEF t
<1>8. Mapped(v, d, t, f, Sys.A, {b})
  <2>1. {} \cup {b} = {b}
    OBVIOUS
  <2> QED
    BY <1>7, <2>1
<1>9. Grown(v, d, t, f, Sys.A, {b})
  <2>1. CASE t.panic = "balloc: out of blocks"
    BY <2>1, Zenon DEF Grown
  <2>2. CASE t.panic # "balloc: out of blocks"
    <3>1. \E e, to : /\ Labels(Img(t, f, Sys.A), e, to)
                     /\ Keeps(Img(v, f, Sys.A), d, Img(t, f, Sys.A), e)
                     /\ \A bn \in {b} : Present(Img(t, f, Sys.A), f, bn)
      BY <1>8, <2>2, Zenon DEF Mapped
    <3> QED
      BY <1>8, <2>2, <3>1, Zenon DEF Mapped, Grown
  <2> QED
    BY <2>1, <2>2
<1> QED
  BY <1>9, Zenon DEF t, v, b, f, c

(* What a round that does not panic does, and the call after it.           *)
LEMMA CatchupIs ==
  ASSUME BlocksIndInv, NEW p \in Procs, catchupoffset(p),
         bmap(Txn(call[p].f), call[p].cur).panic = "none"
  PROVE  LET c  == call[p]
             f  == c.f
             t  == bmap(Txn(f), c.cur)
             pc == IF c.cur + 1 > c.off \div BSIZE THEN "pwrite" ELSE "catchup"
             k  == [c EXCEPT !.cur = c.cur + 1, !.pc = pc]
         IN  /\ inode[f] # NULL /\ inode[f] \in Inodes /\ c.cur < MAXFILE
             /\ EndOp(p, WithBlocks(t)) /\ Grew(f, t, inode[f].size)
             /\ k \in Calls /\ k.pc = pc /\ k.f = f /\ k.cur = c.cur + 1 /\ k.off = c.off
             /\ k.n = c.n /\ k.i = c.i
             /\ call' = [call EXCEPT ![p] = k] /\ off' = off /\ crashes' = crashes
<1> DEFINE c == call[p]
           f == c.f
           t == bmap(Txn(f), c.cur)
           pc == IF c.cur + 1 > c.off \div BSIZE THEN "pwrite" ELSE "catchup"
           k == [c EXCEPT !.cur = c.cur + 1, !.pc = pc]
<1>1. c # NULL /\ c.pc = "catchup" /\ TypeOK
  BY DEF catchupoffset, BlocksIndInv
<1>2. c \in Calls /\ c.f \in Files /\ c.cur \in Nat /\ c.off \in Nat /\ CallOK(c)
  BY <1>1, CallIs, TypeIs DEF BlocksIndInv, CallsOK
<1>3. /\ EndOp(p, WithBlocks(t)) /\ inode' = [inode EXCEPT ![f].addrs = t.addrs]
      /\ call' = [call EXCEPT ![p].cur = c.cur + 1,
                    ![p].pc = IF c.cur + 1 > c.off \div BSIZE THEN "pwrite" ELSE @]
      /\ off' = off /\ crashes' = crashes
  BY Zenon DEF catchupoffset
<1>4. inode[f] # NULL /\ inode[f] \in Inodes
  BY <1>1, <1>2, TypeIs DEF CallOK, CallIn
<1>5. c.cur < MAXFILE
  <2>1. Txn(f) \in Txns
    BY <1>1, <1>2, <1>4, TxnIs
  <2>2. c.cur >= MAXFILE => t = [Txn(f) EXCEPT !.panic = "bmap: out of range"]
    BY Zenon DEF bmap
  <2>3. c.cur >= MAXFILE => t.panic = "bmap: out of range"
    BY <2>1, <2>2 DEF Txns
  <2> QED
    BY <1>2, <2>3
<1>6. Grew(f, t, inode[f].size)
  <2> HIDE DEF t
  <2> DEFINE ip == inode[f]
  <2>1. [inode EXCEPT ![f].addrs = t.addrs] = [inode EXCEPT ![f] = [ip EXCEPT !.addrs = t.addrs]]
    BY Zenon
  <2>2. [ip EXCEPT !.addrs = t.addrs] = [size |-> ip.size, addrs |-> t.addrs]
    BY <1>4 DEF Inodes
  <2>3. inode' = [inode EXCEPT ![f] = [size |-> ip.size, addrs |-> t.addrs]]
    BY <1>3, <2>1, <2>2
  <2>4. disk' = WithBlocks(t)
    BY <1>3, EndOpIs
  <2> QED
    BY <2>3, <2>4 DEF Grew
<1>7. /\ k \in Calls /\ k.pc = pc /\ k.f = f /\ k.cur = c.cur + 1 /\ k.off = c.off
      /\ k.n = c.n /\ k.i = c.i
  <2>1. c = [pc |-> c.pc, f |-> c.f, n |-> c.n, i |-> c.i, off |-> c.off, cur |-> c.cur]
    BY <1>2 DEF Calls
  <2> HIDE DEF c, pc
  <2>2. c.cur + 1 \in Nat /\ pc \in {"catchup", "pwrite"}
    BY <1>2 DEF pc
  <2> QED
    BY <1>2, <2>1, <2>2 DEF Calls
<1>8. call' = [call EXCEPT ![p] = k]
  <2>1. call' = [call EXCEPT ![p] = [c EXCEPT !.cur = c.cur + 1,
                  !.pc = IF c.cur + 1 > c.off \div BSIZE THEN "pwrite" ELSE @]]
    BY <1>3, Zenon
  <2>2. [c EXCEPT !.cur = c.cur + 1, !.pc = IF c.cur + 1 > c.off \div BSIZE THEN "pwrite" ELSE @]
        = [c EXCEPT !.cur = c.cur + 1, !.pc = IF c.cur + 1 > c.off \div BSIZE THEN "pwrite" ELSE c.pc]
    <3> DEFINE x == c.cur + 1
               y == c.off \div BSIZE
    <3> HIDE DEF c, x, y
    <3> QED
      BY <1>2 DEF Calls
  <2> QED
    BY <1>1, <2>1, <2>2, Zenon
<1> HIDE DEF k, pc, t
<1> QED
  BY <1>3, <1>4, <1>5, <1>6, <1>7, <1>8, Zenon DEF c, f, t, pc, k

LEMMA CatchupKeeps ==
  ASSUME BlocksIndInv, NEW p \in Procs, catchupoffset(p)
  PROVE  BlocksIndInv'
<1> DEFINE c == call[p]
           f == c.f
           t == bmap(Txn(f), c.cur)
           pc == IF c.cur + 1 > c.off \div BSIZE THEN "pwrite" ELSE "catchup"
           k == [c EXCEPT !.cur = c.cur + 1, !.pc = pc]
<1>1. c # NULL /\ c.pc = "catchup" /\ TypeOK /\ SysOK
  BY DEF catchupoffset, BlocksIndInv
<1>2. c \in Calls /\ c.f \in Files /\ c.cur \in Nat /\ c.off \in Nat /\ CallOK(c)
  BY <1>1, CallIs, TypeIs DEF BlocksIndInv, CallsOK
<1>3. CASE t.panic # "none"
  <2>1. UNCHANGED <<disk, stable, inode, off, call>>
    BY <1>3, Zenon DEF catchupoffset, Panic
  <2> QED
    BY <2>1, PanicKeeps
<1>4. CASE t.panic = "none"
  <2>1. /\ inode[f] # NULL /\ inode[f] \in Inodes /\ c.cur < MAXFILE
        /\ EndOp(p, WithBlocks(t)) /\ Grew(f, t, inode[f].size)
        /\ k \in Calls /\ k.pc = pc /\ k.f = f /\ k.cur = c.cur + 1 /\ k.off = c.off /\ k.n = c.n
        /\ call' = [call EXCEPT ![p] = k] /\ off' = off
    BY <1>4, CatchupIs
  <2>2. PICK d, at : Labels(Sys, d, at)
    BY <1>1 DEF SysOK, Labelled
  <2>3. Grown(Txn(f), d, t, f, Sys.A, {c.cur})
    BY <1>1, <2>1, <2>2, CatchupGrows
  <2> HIDE DEF t
  <2>4. t \in Txns
    BY <1>4, <2>3 DEF Grown
  <2>5. inode[f].size \in Nat /\ inode[f].size <= MAXFILE * BSIZE
    BY <1>1, <1>2, <2>1, InodeIs DEF SysOK, Sized, Current
  <2>6. stable' = disk' \/ stable' = disk \/ stable' = stable
    BY <2>1, EndOpIs
  <2>7. /\ disk' \in Disks /\ stable' \in Disks /\ inode' \in [Files -> Inodes \cup {NULL}]
        /\ SysOK' /\ DiskOK(disk') /\ DiskOK(stable') /\ Behind'
        /\ \A g \in Files : inode[g] # NULL => inode'[g] # NULL
        /\ \A g \in Files, bn \in Nat : bn < MAXFILE /\ Present(Sys, g, bn) => Present(Sys', g, bn)
        /\ \A bn \in {c.cur} : Present(Sys', f, bn)
    BY <1>2, <1>4, <2>1, <2>2, <2>3, <2>4, <2>5, <2>6, GrewInv
  <2> HIDE DEF k
  <2>8. call' \in [Procs -> Calls \cup {NULL}] /\ \A q \in Procs : call'[q] = IF q = p THEN k ELSE call[q]
    BY <1>1, <2>1, TypeIs
  <2>9. TypeOK'
    BY <1>1, <2>1, <2>7, <2>8, TypeIs, TypeIsNext
  <2>10. CallIn(inode', Sys', k)
    <3>1. \A bn \in Nat : bn < MAXFILE /\ bn < c.cur + 1 => Present(Sys', f, bn)
      <4> SUFFICES ASSUME NEW bn \in Nat, bn < MAXFILE, bn < c.cur + 1 PROVE Present(Sys', f, bn)
        OBVIOUS
      <4>1. CASE bn = c.cur
        BY <2>7, <4>1
      <4>2. CASE bn # c.cur
        <5>1. bn < c.cur
          BY <1>2, <4>2
        <5>2. Present(Sys, f, bn)
          BY <1>1, <1>2, <5>1 DEF CallOK, CallIn
        <5> QED
          BY <1>2, <2>7, <5>2
      <4> QED
        BY <4>1, <4>2
    <3>2. pc = "pwrite" => There(Sys', f, c.off)
      <4> SUFFICES ASSUME pc = "pwrite", NEW bn \in Nat, bn < MAXFILE, bn * BSIZE < c.off
                   PROVE  Present(Sys', f, bn)
        BY DEF There
      <4>1. bn <= c.off \div BSIZE /\ c.off \div BSIZE \in Nat
        BY <1>2, QuotientBelow
      <4>2. c.cur + 1 > c.off \div BSIZE
        OBVIOUS
      <4> QED
        BY <1>2, <3>1, <4>1, <4>2
    <3>3. inode'[f] # NULL /\ c.n < UINT /\ c.off < UINT
      BY <1>2, <2>1, <2>7 DEF CallOK, CallIn
    <3> QED
      BY <2>1, <3>1, <3>2, <3>3 DEF CallIn
  <2>11. CallsOK'
    <3>1. \A q \in Procs : call'[q] # NULL /\ call'[q] # call[q] => CallOK(call[q])'
      BY <2>8, <2>10 DEF CallOK
    <3>2. CallsOK
      BY DEF BlocksIndInv
    <3> QED
      BY <1>1, <2>7, <3>1, <3>2, CallsKept
  <2> QED
    BY <2>7, <2>9, <2>11 DEF BlocksIndInv
<1> QED
  BY <1>3, <1>4

LEMMA ModIs ==
  ASSUME NEW x \in Nat, NEW m \in Nat \ {0}, x < 2 * m
  PROVE  x % m = IF x < m THEN x ELSE x - m
<1> DEFINE q == x \div m
           r == x % m
<1>1. q \in Int /\ r \in 0 .. (m - 1) /\ x = m * q + r
  OBVIOUS
<1> HIDE DEF q, r
<1>2. q = 0 \/ q = 1
  <2>1. q <= -1 => m * q <= m * (-1)
    BY <1>1
  <2>2. q >= 2 => m * q >= m * 2
    BY <1>1
  <2> QED
    BY <1>1, <2>1, <2>2
<1>3. CASE q = 0
  BY <1>1, <1>3 DEF r
<1>4. CASE q = 1
  BY <1>1, <1>4 DEF r
<1> QED
  BY <1>2, <1>3, <1>4

(* The test of writei and pwritei, the sum not overflowing.                *)
LEMMA NotTooFar ==
  ASSUME NEW pos \in Nat, NEW n \in Nat, pos < UINT, n < UINT, ~TooFar(pos, n)
  PROVE  pos + n <= MAXFILE * BSIZE
<1> DEFINE M == MAXFILE * BSIZE
           x == pos + n
<1>1. UINT \in Nat \ {0} /\ M \in Nat /\ x \in Nat /\ x < 2 * UINT
  BY Lengths
<1>2. ~(x % UINT < pos) /\ ~(x % UINT > M)
  BY DEF TooFar
<1>3. x % UINT = IF x < UINT THEN x ELSE x - UINT
  <2> HIDE DEF x, M
  <2> QED
    BY <1>1, ModIs
<1> DEFINE y == x % UINT
<1> HIDE DEF y, M
<1>4. y = IF x < UINT THEN x ELSE x - UINT
  BY <1>3 DEF y
<1>5. ~(y < pos) /\ ~(y > M)
  BY <1>2 DEF y
<1> QED
  BY <1>1, <1>4, <1>5 DEF M

LEMMA ChunkIs ==
  ASSUME NEW c \in Calls, c.i < c.n
  PROVE  /\ ChunkLen(c) \in Nat \ {0} /\ ChunkLen(c) <= c.n - c.i
         /\ ChunkData(c) \in [0 .. (ChunkLen(c) - 1) -> Nat]
<1>1. MaxChunk \in Nat \ {0}
  <2> DEFINE k == (MAXOPBLOCKS - 1 - 1 - 2) \div 2
  <2>1. k \in Nat \ {0}
    BY BlocksAssumption
  <2> HIDE DEF k
  <2>2. k * BSIZE \in Nat \ {0}
    BY <2>1
  <2> QED
    BY <2>2 DEF k, MaxChunk
<1>2. c.i \in Nat /\ c.n \in Nat
  BY CallIs
<1>3. ChunkLen(c) = IF c.n - c.i <= MaxChunk THEN c.n - c.i ELSE MaxChunk
  BY <1>1, <1>2, MinOfTwo DEF ChunkLen
<1>4. ChunkLen(c) \in Nat \ {0} /\ ChunkLen(c) <= c.n - c.i
  BY <1>1, <1>2, <1>3
<1>5. \A k \in 0 .. (ChunkLen(c) - 1) : c.i + k + 1 \in Nat
  BY <1>2
<1> QED
  BY <1>4, <1>5 DEF ChunkData

(* A chunk that is not too far either fits or finds the disk full.         *)
LEMMA ChunkGrows ==
  ASSUME BlocksIndInv, NEW p \in Procs, call[p] # NULL, call[p].i < call[p].n, NEW pos \in Nat,
         pos < UINT, ~TooFar(pos, ChunkLen(call[p])), NEW d, NEW at, Labels(Sys, d, at)
  PROVE  LET c == call[p]
             n == ChunkLen(c)
         IN  /\ Grown(Txn(c.f), d, CopyIn(Txn(c.f), pos, ChunkData(c)), c.f, Sys.A, Covered(pos, n))
             /\ pos + n <= MAXFILE * BSIZE
<1> DEFINE c == call[p]
           f == c.f
           n == ChunkLen(c)
           z == ChunkData(c)
           v == Txn(f)
<1>1. TypeOK /\ SysOK
  BY DEF BlocksIndInv
<1>2. c \in Calls /\ CallOK(c)
  BY <1>1, TypeIs DEF BlocksIndInv, CallsOK
<1>3. f \in Files /\ c.n \in Nat /\ c.i \in Nat
  BY <1>2, CallIs
<1>4. n \in Nat \ {0} /\ n <= c.n - c.i /\ z \in [0 .. (n - 1) -> Nat] /\ n < UINT
  <2>1. n \in Nat \ {0} /\ n <= c.n - c.i /\ z \in [0 .. (n - 1) -> Nat]
    BY <1>2, ChunkIs
  <2>2. c.n < UINT
    BY <1>2 DEF CallOK, CallIn
  <2>3. UINT \in Nat
    BY Lengths
  <2> HIDE DEF c, n
  <2> QED
    BY <1>3, <2>1, <2>2, <2>3
<1>5. inode[f] # NULL
  BY <1>2 DEF CallOK, CallIn
<1>6. pos + n <= MAXFILE * BSIZE
  BY <1>4, NotTooFar
<1>7. Sys.A \in [Files -> Addrs]
  BY <1>1, SysImage DEF Images
<1>8. v \in Txns /\ v.panic = "none" /\ Labels(Img(v, f, Sys.A), d, at)
  BY <1>1, <1>3, <1>5, TxnIs
<1> HIDE DEF v, f, n, z
<1>9. Grown(v, d, CopyIn(v, pos, z), f, Sys.A, Covered(pos, n))
  BY <1>3, <1>4, <1>6, <1>7, <1>8, CopyInGrows
<1> QED
  BY <1>6, <1>9, Zenon DEF v, f, n, z

(* What a chunk that does not panic does, and the call after it.           *)
LEMMA WrittenIs ==
  ASSUME BlocksIndInv, NEW p \in Procs, call[p] # NULL, call[p].i < call[p].n, NEW pos \in Nat,
         pos < UINT, ~TooFar(pos, ChunkLen(call[p])),
         CopyIn(Txn(call[p].f), pos, ChunkData(call[p])).panic = "none",
         Written(p, pos, CopyIn(Txn(call[p].f), pos, ChunkData(call[p])))
  PROVE  LET c   == call[p]
             f   == c.f
             n   == ChunkLen(c)
             t   == CopyIn(Txn(f), pos, ChunkData(c))
             end == pos + n
             sz  == Max({end, inode[f].size})
             k   == [c EXCEPT !.i = c.i + n]
         IN  /\ f \in Files /\ inode[f] # NULL /\ inode[f].size \in Nat /\ n \in Nat \ {0} /\ t \in Txns
             /\ \A d, at : Labels(Sys, d, at) => Grown(Txn(f), d, t, f, Sys.A, Covered(pos, n))
             /\ Grew(f, t, sz) /\ sz \in Nat /\ sz <= MAXFILE * BSIZE /\ end <= MAXFILE * BSIZE
             /\ end > inode[f].size => disk' = iupdate(t, f, [size |-> sz, addrs |-> t.addrs])
             /\ stable' = disk' \/ stable' = disk \/ stable' = stable
             /\ k \in Calls /\ k.pc = c.pc /\ k.f = f /\ k.cur = c.cur /\ k.off = c.off /\ k.n = c.n
             /\ call' = [call EXCEPT ![p] = k] /\ crashes' = crashes
<1> DEFINE c == call[p]
           f == c.f
           n == ChunkLen(c)
           z == ChunkData(c)
           t == CopyIn(Txn(f), pos, z)
           end == pos + n
           sz == Max({end, inode[f].size})
           k == [c EXCEPT !.i = c.i + n]
<1>1. TypeOK /\ SysOK
  BY DEF BlocksIndInv
<1>2. c \in Calls /\ CallOK(c)
  BY <1>1, TypeIs DEF BlocksIndInv, CallsOK
<1>3. f \in Files /\ c.n \in Nat /\ c.i \in Nat
  BY <1>2, CallIs
<1>4. n \in Nat \ {0} /\ n <= c.n - c.i /\ z \in [0 .. (n - 1) -> Nat] /\ n < UINT
  <2>1. n \in Nat \ {0} /\ n <= c.n - c.i /\ z \in [0 .. (n - 1) -> Nat]
    BY <1>2, ChunkIs
  <2>2. c.n < UINT
    BY <1>2 DEF CallOK, CallIn
  <2>3. UINT \in Nat
    BY Lengths
  <2> HIDE DEF c, n
  <2> QED
    BY <1>3, <2>1, <2>2, <2>3
<1>5. inode[f] # NULL /\ inode[f] \in Inodes /\ inode[f].size \in Nat
  BY <1>1, <1>2, <1>3, InodeIs, TypeIs DEF CallOK, CallIn
<1>7. PICK d, at : Labels(Sys, d, at)
  BY <1>1 DEF SysOK, Labelled
<1>8. \A e, to : Labels(Sys, e, to) => Grown(Txn(f), e, t, f, Sys.A, Covered(pos, n))
  BY ChunkGrows
<1>9. Grown(Txn(f), d, t, f, Sys.A, Covered(pos, n)) /\ pos + n <= MAXFILE * BSIZE
  BY <1>7, ChunkGrows
<1>10. t.panic = "none"
  OBVIOUS
<1>11. /\ inode' = [inode EXCEPT ![f] = [size |-> sz, addrs |-> t.addrs]]
       /\ EndOp(p, IF end > inode[f].size THEN iupdate(t, f, [size |-> sz, addrs |-> t.addrs])
                   ELSE WithBlocks(t))
       /\ call' = [call EXCEPT ![p].i = c.i + n] /\ crashes' = crashes
  BY Zenon DEF Written
<1> HIDE DEF t
<1>12. t \in Txns
  BY <1>9, <1>10 DEF Grown
<1>13. /\ Grew(f, t, sz)
       /\ end > inode[f].size => disk' = iupdate(t, f, [size |-> sz, addrs |-> t.addrs])
  <2> DEFINE v == iupdate(t, f, [size |-> sz, addrs |-> t.addrs])
             w == WithBlocks(t)
  <2>1. disk' = IF end > inode[f].size THEN v ELSE w
    BY <1>11, EndOpIs
  <2> HIDE DEF v, w
  <2>2. disk' = w \/ disk' = v
    BY <2>1
  <2>3. Grew(f, t, sz)
    BY <1>11, <2>2, Zenon DEF Grew, v, w
  <2> QED
    BY <2>1, <2>3, Zenon DEF v
<1>14. stable' = disk' \/ stable' = disk \/ stable' = stable
  BY <1>11, EndOpIs
<1>15. sz \in Nat /\ sz <= MAXFILE * BSIZE
  <2>1. inode[f].size <= MAXFILE * BSIZE
    BY <1>1, <1>3, <1>5 DEF SysOK, Sized, Current
  <2>2. sz \in {end, inode[f].size}
    BY <1>4, <1>5, MaxOfTwo
  <2> HIDE DEF f, n, sz
  <2> QED
    BY <1>4, <1>5, <1>9, <2>1, <2>2
<1>16. k \in Calls /\ k.pc = c.pc /\ k.f = f /\ k.cur = c.cur /\ k.off = c.off /\ k.n = c.n
  <2>1. c = [pc |-> c.pc, f |-> c.f, n |-> c.n, i |-> c.i, off |-> c.off, cur |-> c.cur]
    BY <1>2 DEF Calls
  <2>2. c.i + n \in Nat
    BY <1>3, <1>4
  <2> HIDE DEF c, n
  <2> QED
    BY <1>2, <2>1, <2>2 DEF Calls
<1>17. call' = [call EXCEPT ![p] = k]
  BY <1>11, Zenon
<1> HIDE DEF k, sz, end, n
<1> QED
  BY <1>3, <1>4, <1>5, <1>8, <1>9, <1>12, <1>13, <1>14, <1>15, <1>16, <1>17, <1>11, Zenon
     DEF c, f, z, t, end, n, sz, k

LEMMA WrittenKeeps ==
  ASSUME BlocksIndInv, NEW p \in Procs, call[p] # NULL, call[p].i < call[p].n, NEW pos \in Nat,
         pos < UINT, ~TooFar(pos, ChunkLen(call[p])), There(Sys, call[p].f, pos),
         CopyIn(Txn(call[p].f), pos, ChunkData(call[p])).panic = "none",
         Written(p, pos, CopyIn(Txn(call[p].f), pos, ChunkData(call[p]))),
         off' \in [Files -> Nat]
  PROVE  BlocksIndInv'
<1> DEFINE c == call[p]
           f == c.f
           n == ChunkLen(c)
           z == ChunkData(c)
           t == CopyIn(Txn(f), pos, z)
           end == pos + n
           sz == Max({end, inode[f].size})
           k == [c EXCEPT !.i = c.i + n]
<1>1. TypeOK /\ SysOK
  BY DEF BlocksIndInv
<1>2. c \in Calls /\ CallOK(c)
  BY <1>1, TypeIs DEF BlocksIndInv, CallsOK
<1>3. PICK d, at : Labels(Sys, d, at)
  BY <1>1 DEF SysOK, Labelled
<1>4. /\ f \in Files /\ inode[f] # NULL /\ inode[f].size \in Nat /\ n \in Nat \ {0} /\ t \in Txns
      /\ Grown(Txn(f), d, t, f, Sys.A, Covered(pos, n))
      /\ Grew(f, t, sz) /\ sz \in Nat /\ sz <= MAXFILE * BSIZE /\ t.panic = "none"
      /\ stable' = disk' \/ stable' = disk \/ stable' = stable
      /\ k \in Calls /\ k.pc = c.pc /\ k.f = f /\ k.cur = c.cur /\ k.off = c.off /\ k.n = c.n
      /\ call' = [call EXCEPT ![p] = k]
  BY <1>3, WrittenIs
<1> HIDE DEF t, k
<1>5. (/\ There(Sys', f, inode[f].size) /\ (\A bn \in Covered(pos, n) : Present(Sys', f, bn))
       /\ \A bn \in Nat : bn < MAXFILE /\ Present(Sys, f, bn) => Present(Sys', f, bn))
         => There(Sys', f, sz)
  <2> SUFFICES ASSUME There(Sys', f, inode[f].size), \A bn \in Covered(pos, n) : Present(Sys', f, bn),
                      \A bn \in Nat : bn < MAXFILE /\ Present(Sys, f, bn) => Present(Sys', f, bn)
               PROVE  There(Sys', f, sz)
    OBVIOUS
  <2>1. There(Sys', f, pos)
    BY DEF There
  <2> DEFINE m == inode[f].size
             s == Sys'
  <2>2. m \in Nat /\ There(s, f, m) /\ There(s, f, pos) /\ \A bn \in Covered(pos, n) : Present(s, f, bn)
    BY <1>4, <2>1
  <2> HIDE DEF f, n, m, s
  <2>3. There(s, f, Max({pos + n, m}))
    BY <1>4, <2>2, ThereAfter
  <2> QED
    BY <2>3 DEF m, s
<1> HIDE DEF sz
<1>6. /\ disk' \in Disks /\ stable' \in Disks /\ inode' \in [Files -> Inodes \cup {NULL}]
      /\ SysOK' /\ DiskOK(disk') /\ DiskOK(stable') /\ Behind'
      /\ \A g \in Files : inode[g] # NULL => inode'[g] # NULL
      /\ \A g \in Files, bn \in Nat : bn < MAXFILE /\ Present(Sys, g, bn) => Present(Sys', g, bn)
  BY <1>3, <1>4, <1>5, GrewInv
<1>7. call' \in [Procs -> Calls \cup {NULL}] /\ \A q \in Procs : call'[q] = IF q = p THEN k ELSE call[q]
  BY <1>1, <1>4, TypeIs
<1>8. TypeOK'
  BY <1>6, <1>7, TypeIsNext
<1>9. CallIn(inode', Sys', k)
  BY <1>2, <1>4, <1>6 DEF CallOK, CallIn, There
<1>10. CallsOK'
  <2>1. \A q \in Procs : call'[q] # NULL /\ call'[q] # call[q] => CallOK(call[q])'
    BY <1>7, <1>9 DEF CallOK
  <2>2. CallsOK
    BY DEF BlocksIndInv
  <2> QED
    BY <1>1, <1>6, <2>1, <2>2, CallsKept
<1> QED
  BY <1>6, <1>8, <1>10 DEF BlocksIndInv

LEMMA SomeOff ==
  ASSUME TypeOK, NEW f \in Files, NEW k \in Nat, off' = [off EXCEPT ![f] = off[f] + k]
  PROVE  off' \in [Files -> Nat]
<1>1. off \in [Files -> Nat]
  BY TypeIs
<1>2. off[f] + k \in Nat
  BY <1>1
<1> QED
  BY <1>1, <1>2

LEMMA ReturnKeeps ==
  ASSUME BlocksIndInv, NEW p \in Procs, Return(p)
  PROVE  BlocksIndInv'
<1>1. call' = [call EXCEPT ![p] = NULL] /\ UNCHANGED <<disk, stable, inode, off>> /\ TypeOK
  BY DEF Return, BlocksIndInv
<1>2. call' \in [Procs -> Calls \cup {NULL}] /\ off' \in [Files -> Nat]
  BY <1>1, TypeIs
<1>3. \A q \in Procs : call'[q] = IF q = p THEN NULL ELSE call[q]
  BY <1>1, TypeIs
<1> QED
  BY <1>1, <1>2, <1>3, DiskUnchanged

LEMMA WriteiKeeps ==
  ASSUME BlocksIndInv, NEW p \in Procs, writei(p)
  PROVE  BlocksIndInv'
<1> DEFINE c == call[p]
           f == c.f
           pos == off[f]
           t == CopyIn(Txn(f), pos, ChunkData(c))
           bad == pos > inode[f].size \/ TooFar(pos, ChunkLen(c))
<1>1. c # NULL /\ c.i < c.n /\ TypeOK /\ SysOK
  BY DEF writei, BlocksIndInv
<1>2. /\ bad => Return(p)
      /\ ~bad /\ t.panic # "none" => Panic(t.panic)
      /\ ~bad /\ t.panic = "none" => Written(p, pos, t) /\ off' = [off EXCEPT ![f] = off[f] + ChunkLen(c)]
  <2> HIDE DEF t
  <2>1. t = CopyIn(Txn(f), pos, ChunkData(c))
    BY DEF t
  <2> QED
    BY <2>1, Zenon DEF writei
<1>3. c \in Calls /\ CallOK(c) /\ f \in Files
  BY <1>1, CallIs, TypeIs DEF BlocksIndInv, CallsOK
<1>4. pos \in Nat /\ inode[f] # NULL /\ inode[f].size \in Nat
  BY <1>1, <1>3, InodeIs, TypeIs DEF CallOK, CallIn
<1>5. CASE bad
  BY <1>2, <1>5, ReturnKeeps
<1>6. CASE ~bad /\ t.panic # "none"
  <2>1. Panic(t.panic)
    BY <1>2, <1>6
  <2> HIDE DEF t
  <2> QED
    BY <2>1, PanicKeeps DEF Panic
<1>7. CASE ~bad /\ t.panic = "none"
  <2>1. Written(p, pos, t) /\ off' = [off EXCEPT ![f] = off[f] + ChunkLen(c)]
    BY <1>2, <1>7
  <2>2. off' \in [Files -> Nat]
    <3>1. ChunkLen(c) \in Nat
      BY <1>1, <1>3, ChunkIs
    <3> QED
      BY <1>1, <1>3, <2>1, <3>1, SomeOff
  <2>3. pos <= inode[f].size /\ ~TooFar(pos, ChunkLen(c))
    BY <1>4, <1>7
  <2>4. Sized(Sys, f, inode[f].size)
    BY <1>1, <1>3, <1>4 DEF SysOK, Current
  <2>5. pos < UINT
    <3>1. inode[f].size <= MAXFILE * BSIZE /\ MAXFILE * BSIZE < UINT /\ UINT \in Nat /\ MAXFILE * BSIZE \in Nat
      BY <2>4, Lengths DEF Sized
    <3> DEFINE M == MAXFILE * BSIZE
    <3> HIDE DEF M
    <3> QED
      BY <1>4, <2>3, <3>1 DEF M
  <2>6. There(Sys, f, pos)
    <3>1. \A bn \in Nat : bn * BSIZE \in Nat
      OBVIOUS
    <3> QED
      BY <1>4, <2>3, <2>4, <3>1 DEF Sized, There
  <2> QED
    BY <1>1, <1>4, <1>7, <2>1, <2>2, <2>3, <2>5, <2>6, WrittenKeeps
<1> QED
  BY <1>5, <1>6, <1>7

LEMMA PwriteiKeeps ==
  ASSUME BlocksIndInv, NEW p \in Procs, pwritei(p)
  PROVE  BlocksIndInv'
<1> DEFINE c == call[p]
           f == c.f
           pos == c.off
           t == CopyIn(Txn(f), pos, ChunkData(c))
           bad == TooFar(pos, ChunkLen(c))
<1>1. c # NULL /\ c.pc = "pwrite" /\ c.i < c.n /\ TypeOK
  BY DEF pwritei, BlocksIndInv
<1>2. /\ bad => Return(p)
      /\ ~bad /\ t.panic # "none" => Panic(t.panic)
      /\ ~bad /\ t.panic = "none" => Written(p, pos, t) /\ off' = off
  <2> HIDE DEF t
  <2>1. t = CopyIn(Txn(f), pos, ChunkData(c))
    BY DEF t
  <2> QED
    BY <2>1, Zenon DEF pwritei
<1>3. c \in Calls /\ CallOK(c) /\ f \in Files /\ pos \in Nat
  BY <1>1, CallIs, TypeIs DEF BlocksIndInv, CallsOK
<1>4. CASE bad
  BY <1>2, <1>4, ReturnKeeps
<1>5. CASE ~bad /\ t.panic # "none"
  <2>1. Panic(t.panic)
    BY <1>2, <1>5
  <2> HIDE DEF t
  <2> QED
    BY <2>1, PanicKeeps DEF Panic
<1>6. CASE ~bad /\ t.panic = "none"
  <2>1. Written(p, pos, t) /\ off' \in [Files -> Nat]
    BY <1>1, <1>2, <1>6, TypeIs
  <2>2. pos < UINT /\ There(Sys, f, pos)
    BY <1>1, <1>3 DEF CallOK, CallIn
  <2> QED
    BY <1>1, <1>3, <1>6, <2>1, <2>2, WrittenKeeps
<1> QED
  BY <1>4, <1>5, <1>6

LEMMA ReadiKeeps ==
  ASSUME BlocksIndInv, NEW f \in Files, NEW pos \in Nat, NEW n \in Nat, NEW moves, readi(f, pos, n, moves)
  PROVE  BlocksIndInv'
<1> DEFINE k == ReadLen(f, pos, n)
<1>1. TypeOK /\ inode[f] # NULL
  BY DEF BlocksIndInv, readi
<1>2. inode[f].size \in Nat
  BY <1>1, InodeIs, TypeIs
<1>3. k \in Nat
  <2>1. CASE pos > inode[f].size \/ (pos + n) % UINT < pos
    BY <2>1, Zenon DEF ReadLen
  <2>2. CASE ~(pos > inode[f].size \/ (pos + n) % UINT < pos)
    <3>1. k = Min({n, inode[f].size - pos})
      BY <2>2, Zenon DEF ReadLen
    <3>2. inode[f].size - pos \in Nat
      BY <1>2, <2>2
    <3> QED
      BY <3>1, <3>2, MinOfTwo
  <2> QED
    BY <2>1, <2>2
<1> DEFINE grows == ReadMap(f, pos, n).used # disk.used
<1>4. /\ grows => Panic("log_write outside of trans")
      /\ ~grows => /\ off' = IF moves THEN [off EXCEPT ![f] = off[f] + k] ELSE off
                   /\ UNCHANGED <<disk, stable, inode, call>>
  BY Zenon DEF readi
<1> HIDE DEF grows, k
<1>5. CASE grows
  BY <1>4, <1>5, PanicKeeps DEF Panic
<1>6. CASE ~grows
  <2>1. off' \in [Files -> Nat]
    BY <1>1, <1>3, <1>4, <1>6, SomeOff, TypeIs
  <2>2. UNCHANGED <<disk, stable, inode>> /\ call' \in [Procs -> Calls \cup {NULL}] /\ call' = call
    BY <1>1, <1>4, <1>6, TypeIs
  <2> QED
    BY <2>1, <2>2, DiskUnchanged
<1> QED
  BY <1>5, <1>6

LEMMA CrashKeeps ==
  ASSUME BlocksIndInv, Crash
  PROVE  BlocksIndInv'
<1>1. TypeOK /\ DiskOK(stable)
  BY DEF BlocksIndInv
<1>2. /\ disk' = stable /\ stable' = stable /\ inode' = [f \in Files |-> NULL]
      /\ off' = [f \in Files |-> 0] /\ call' = [p \in Procs |-> NULL]
  BY DEF Crash
<1>3. TypeOK'
  BY <1>1, <1>2, TypeIs, TypeIsNext
<1>4. \A f \in Files : Current(f)' = stable.dino[f]
  BY <1>2 DEF Current
<1>5. Sys' = OfDisk(stable)
  BY <1>2, <1>4 DEF Sys, OfDisk
<1>6. SysOK' /\ DiskOK(disk)' /\ DiskOK(stable)'
  BY <1>1, <1>2, <1>4, <1>5 DEF SysOK, DiskOK
<1>7. Behind' /\ CallsOK'
  BY <1>2 DEF Behind, CallsOK
<1> QED
  BY <1>3, <1>6, <1>7 DEF BlocksIndInv

LEMMA BlocksInit == Init => BlocksIndInv
<1> SUFFICES ASSUME Init PROVE BlocksIndInv
  OBVIOUS
<1>1. /\ disk = [used |-> {0}, blk |-> [b \in BlockNos |-> Zeroes], dino |-> [f \in Files |-> NewInode]]
      /\ stable = disk /\ inode = [f \in Files |-> NULL]
      /\ off = [f \in Files |-> 0] /\ call = [p \in Procs |-> NULL]
  BY DEF Init
<1>2. disk \in Disks
  <2>1. Zeroes \in Rows /\ {0} \in SUBSET BlockNos
    BY DEF Zeroes, Rows, BlockNos
  <2> QED
    BY <1>1, <2>1, NewInodeIs DEF Disks
<1>3. TypeOK
  BY <1>1, <1>2, TypeIs
<1>4. \A f \in Files : Current(f) = NewInode /\ disk.dino[f] = NewInode
  BY <1>1 DEF Current
<1>5. OfDisk(disk) = Sys
  BY <1>4 DEF OfDisk, Sys
<1> DEFINE d == [b \in BlockNos |-> 0]
<1>6. Labels(Sys, d, d)
  <2>1. \A f \in Files, i \in Roots0 : Sys.A[f][i] = 0
    <3>1. \A i \in Roots0 : NoAddrs[i] = 0
      BY DEF NoAddrs, Roots0
    <3> QED
      BY <1>4, <3>1, NewInodeIs, SysIs
  <2>2. Sys.used = {0}
    BY <1>1, SysIs
  <2>3. d \in [BlockNos -> 0 .. 3]
    OBVIOUS
  <2> HIDE DEF d
  <2> QED
    BY <2>1, <2>2, <2>3 DEF Labels
<1>7. Labelled(Sys) /\ \A f \in Files : Sized(Sys, f, 0)
  BY <1>6, EmptySized DEF Labelled
<1>8. SysOK /\ DiskOK(disk) /\ DiskOK(stable)
  BY <1>1, <1>4, <1>5, <1>7, NewInodeIs DEF SysOK, DiskOK
<1>9. Behind /\ CallsOK
  BY <1>1 DEF Behind, CallsOK
<1> QED
  BY <1>3, <1>8, <1>9 DEF BlocksIndInv

LEMMA BlocksNext ==
  ASSUME BlocksIndInv, [Next]_blockVars
  PROVE  BlocksIndInv'
<1>1. ASSUME NEW f \in Files, Open(f) \/ Close(f, 0) \/ Close(f, 1)
      PROVE  BlocksIndInv'
  BY <1>1, OpenKeeps, CloseKeeps
<1>2. ASSUME NEW p \in Procs, NEW f \in Files, NEW n \in WriteLens, filewrite(p, f, n)
      PROVE  BlocksIndInv'
  BY <1>2, FilewriteKeeps
<1>3. ASSUME NEW p \in Procs, NEW f \in Files, NEW n \in PwriteLens, NEW o \in Offsets,
             filepwrite(p, f, n, o)
      PROVE  BlocksIndInv'
  BY <1>3, FilepwriteKeeps
<1>4. ASSUME NEW p \in Procs, catchupoffset(p) \/ writei(p) \/ pwritei(p) \/ Done(p)
      PROVE  BlocksIndInv'
  BY <1>4, CatchupKeeps, WriteiKeeps, PwriteiKeeps, ReturnKeeps DEF Done
<1>5. ASSUME NEW f \in Files, NEW n \in WriteLens, fileread(f, n)
      PROVE  BlocksIndInv'
  <2>1. off[f] \in Nat /\ n \in Nat
    BY Lengths, TypeIs DEF BlocksIndInv
  <2> QED
    BY <1>5, <2>1, ReadiKeeps DEF fileread
<1>6. ASSUME NEW f \in Files, NEW n \in PwriteLens, NEW o \in Offsets, filepread(f, n, o)
      PROVE  BlocksIndInv'
  <2>1. o \in Nat /\ n \in Nat
    BY Lengths
  <2> QED
    BY <1>6, <2>1, ReadiKeeps DEF filepread
<1>7. CASE Crash
  BY <1>7, CrashKeeps
<1>8. CASE UNCHANGED blockVars
  <2>1. UNCHANGED <<disk, stable, inode, off, call>>
    BY <1>8 DEF blockVars
  <2> QED
    BY <2>1, PanicKeeps
<1> QED
  BY <1>1, <1>2, <1>3, <1>4, <1>5, <1>6, <1>7, <1>8 DEF Next

-----------------------------------------------------------------------------
(* The invariant that the theorems below rest on.                          *)
THEOREM BlocksInductive == Spec => []BlocksIndInv
<1>1. BlocksIndInv /\ [Next]_blockVars => BlocksIndInv'
  BY BlocksNext
<1> QED
  BY <1>1, BlocksInit, PTL DEF Spec

(* balloc, bmap, catchupoffset and itrunc give no block to two places, of  *)
(* one file or of two, and free none that is in a file, for every size of  *)
(* the disk and every shape of the tree; a crash changes nothing of it.    *)
THEOREM BlocksOwned == Spec => []OneOwner
<1>1. BlocksIndInv => OneOwner
  <2> SUFFICES ASSUME BlocksIndInv PROVE OneOwner
    OBVIOUS
  <2>1. disk.used \subseteq BlockNos
    BY TypeIs DEF BlocksIndInv, Disks
  <2>2. PICK d, at : Labels(Sys, d, at)
    BY DEF BlocksIndInv, SysOK, Labelled
  <2> QED
    BY <2>1, <2>2, OneOwnerIf
<1> QED
  BY <1>1, BlocksInductive, PTL

(* Every block below the size of a file is there, whoever wrote it and     *)
(* whatever filled the gap before it.                                      *)
THEOREM FilesHaveNoHole == Spec => []NoHole
<1>1. BlocksIndInv => NoHole
  BY NoHoleIf DEF BlocksIndInv, SysOK, Sized
<1> QED
  BY <1>1, BlocksInductive, PTL

-----------------------------------------------------------------------------
(* A disk that is too small for the largest file: what it would take to    *)
(* have all the blocks of one.                                             *)
LEMMA DivMod ==
  ASSUME NEW m \in Nat \ {0}, NEW q \in Nat, NEW r \in 0 .. (m - 1)
  PROVE  (q * m + r) \div m = q /\ (q * m + r) % m = r
<1> DEFINE x == q * m + r
           q2 == x \div m
           r2 == x % m
<1>1. x \in Nat
  OBVIOUS
<1>2. q2 \in Int /\ r2 \in 0 .. (m - 1) /\ x = m * q2 + r2
  BY <1>1
<1>3. x = m * q + r
  OBVIOUS
<1> HIDE DEF x, q2, r2
<1>4. q2 = q
  <2>1. q2 <= q - 1 => m * q2 <= m * (q - 1)
    BY <1>2
  <2>2. q2 >= q + 1 => m * q2 >= m * (q + 1)
    BY <1>2
  <2>3. m * (q - 1) = m * q - m /\ m * (q + 1) = m * q + m
    OBVIOUS
  <2> DEFINE a == m * q
             b == m * q2
  <2>4. a \in Int /\ b \in Int
    BY <1>2
  <2>5. x = a + r /\ x = b + r2 /\ (q2 <= q - 1 => b <= a - m) /\ (q2 >= q + 1 => b >= a + m)
    BY <1>2, <1>3, <2>1, <2>2, <2>3
  <2> HIDE DEF a, b
  <2> QED
    BY <1>1, <1>2, <2>4, <2>5
<1>5. r2 = r
  BY <1>1, <1>2, <1>3, <1>4
<1> QED
  BY <1>4, <1>5 DEF x, q2, r2

(* The place of every node of the tree is on the path of some block, and   *)
(* if that block is none of those that the last indirect block lists after *)
(* its first, it is not one of the last.                                   *)
Early(j, k, l) == j # NINDIRECT - 1 \/ k # NINDIRECT - 1 \/ l = 0

LEMMA PathOnto ==
  ASSUME NEW i \in Roots0, NEW j \in Places, NEW k \in Places, NEW l \in Places, Early(j, k, l)
  PROVE  \E bn \in Nat :
           /\ bn < MAXFILE /\ bn + NINDIRECT <= MAXFILE /\ Path(bn)[1] = i
           /\ Depth(i) >= 1 => Path(bn)[2] = j
           /\ Depth(i) >= 2 => Path(bn)[3] = k
           /\ Depth(i) >= 3 => Path(bn)[4] = l
<1>0. /\ NDINDIRECT \in Nat \ {0} /\ NTINDIRECT = NDINDIRECT * NINDIRECT /\ NDINDIRECT = NINDIRECT * NINDIRECT
      /\ NTINDIRECT \in Nat /\ NDINDIRECT >= NINDIRECT /\ NTINDIRECT >= NINDIRECT
  <2> DEFINE N == NINDIRECT
             a == N * N
  <2>1. a \in Nat /\ a >= N
    <3>1. N * N >= N * 1
      OBVIOUS
    <3> QED
      BY <3>1
  <2> HIDE DEF a
  <2>2. a * N \in Nat /\ a * N >= 1 * N
    BY <2>1
  <2> QED
    BY <2>1, <2>2 DEF a, NDINDIRECT, NTINDIRECT
<1>1. CASE i < NDIRECT
  <2>1. /\ i \in Nat /\ i < MAXFILE /\ i + NINDIRECT <= MAXFILE /\ Path(i) = <<i>>
        /\ Depth(i) = 0
    BY <1>0, <1>1 DEF Path, Depth, MAXFILE, Roots0
  <2> QED
    BY <2>1
<1>2. CASE i = NDIRECT
  <2> DEFINE bn == NDIRECT + j
  <2>1. /\ bn \in Nat /\ bn < MAXFILE /\ bn + NINDIRECT <= MAXFILE
        /\ ~(bn < NDIRECT) /\ bn - NDIRECT = j /\ j < NINDIRECT
    BY <1>0 DEF MAXFILE, Places
  <2>2. Path(bn) = <<NDIRECT, j>>
    BY <2>1 DEF Path
  <2>3. Depth(i) = 1
    BY <1>2 DEF Depth
  <2> HIDE DEF bn
  <2> QED
    BY <1>2, <2>1, <2>2, <2>3
<1>3. CASE i = NDIRECT + 1
  <2> DEFINE d == j * NINDIRECT + k
             bn == NDIRECT + NINDIRECT + d
  <2>1. d \div NINDIRECT = j /\ d % NINDIRECT = k
    <3>1. j \in Nat /\ NINDIRECT \in Nat \ {0} /\ k \in 0 .. (NINDIRECT - 1)
      BY <1>0 DEF Places
    <3> QED
      BY <3>1, DivMod
  <2>2. d \in Nat /\ d < NDINDIRECT
    <3>1. j * NINDIRECT <= (NINDIRECT - 1) * NINDIRECT
      BY DEF Places
    <3>2. (NINDIRECT - 1) * NINDIRECT = NDINDIRECT - NINDIRECT /\ j * NINDIRECT \in Nat
      BY <1>0 DEF Places
    <3> DEFINE a == j * NINDIRECT
    <3> HIDE DEF a
    <3>3. d = a + k /\ a \in Nat /\ a <= NDINDIRECT - NINDIRECT
      BY <3>1, <3>2 DEF a
    <3> HIDE DEF d
    <3> QED
      BY <1>0, <3>3 DEF Places
  <2> HIDE DEF d
  <2>3. /\ bn \in Nat /\ bn < MAXFILE /\ bn + NINDIRECT <= MAXFILE
        /\ ~(bn < NDIRECT) /\ ~(bn - NDIRECT < NINDIRECT)
        /\ (bn - NDIRECT) - NINDIRECT = d
    BY <1>0, <2>2 DEF MAXFILE
  <2> HIDE DEF bn
  <2>4. Path(bn) = <<NDIRECT + 1, j, k>>
    BY <2>1, <2>2, <2>3, Zenon DEF Path, DoublePath
  <2>5. Depth(i) = 2
    BY <1>3 DEF Depth
  <2> QED
    BY <1>3, <2>3, <2>4, <2>5
<1>4. CASE i = NDIRECT + 2
  <2> DEFINE y == k * NINDIRECT + l
             x == j * NDINDIRECT + y
             bn == NDIRECT + NINDIRECT + NDINDIRECT + x
  <2>1. y \div NINDIRECT = k /\ y % NINDIRECT = l
    <3>1. k \in Nat /\ NINDIRECT \in Nat \ {0} /\ l \in 0 .. (NINDIRECT - 1)
      BY <1>0 DEF Places
    <3> QED
      BY <3>1, DivMod
  <2>8. y \in 0 .. (NDINDIRECT - 1) /\ (j = NINDIRECT - 1 => y + NINDIRECT <= NDINDIRECT)
    <3>1. k * NINDIRECT <= (NINDIRECT - 1) * NINDIRECT
      BY DEF Places
    <3>4. k # NINDIRECT - 1 => k * NINDIRECT <= (NINDIRECT - 2) * NINDIRECT
      BY DEF Places
    <3>5. (NINDIRECT - 2) * NINDIRECT = NDINDIRECT - 2 * NINDIRECT
      BY <1>0
    <3>2. (NINDIRECT - 1) * NINDIRECT = NDINDIRECT - NINDIRECT /\ k * NINDIRECT \in Nat
      BY <1>0 DEF Places
    <3> DEFINE a == k * NINDIRECT
    <3> HIDE DEF a
    <3>3. /\ y = a + l /\ a \in Nat /\ a <= NDINDIRECT - NINDIRECT
          /\ k # NINDIRECT - 1 => a <= NDINDIRECT - 2 * NINDIRECT
      BY <3>1, <3>2, <3>4, <3>5 DEF a
    <3> HIDE DEF y
    <3> QED
      BY <1>0, <3>3 DEF Places, Early
  <2>2. y \in 0 .. (NDINDIRECT - 1)
    BY <2>8
  <2>7. j = NINDIRECT - 1 => y + NINDIRECT <= NDINDIRECT
    BY <2>8
  <2> HIDE DEF y
  <2>3. x \div NDINDIRECT = j /\ x % NDINDIRECT = y
    <3>1. j \in Nat /\ NDINDIRECT \in Nat \ {0}
      BY <1>0 DEF Places
    <3> HIDE DEF x
    <3>2. x = j * NDINDIRECT + y
      BY DEF x
    <3> QED
      BY <2>2, <3>1, <3>2, DivMod
  <2>4. x \in Nat /\ x < NTINDIRECT /\ x + NINDIRECT <= NTINDIRECT
    <3>1. j * NDINDIRECT <= (NINDIRECT - 1) * NDINDIRECT
      BY <1>0 DEF Places
    <3>4. j # NINDIRECT - 1 => j * NDINDIRECT <= (NINDIRECT - 2) * NDINDIRECT
      BY <1>0 DEF Places
    <3>5. (NINDIRECT - 2) * NDINDIRECT = NTINDIRECT - 2 * NDINDIRECT
      BY <1>0
    <3>2. (NINDIRECT - 1) * NDINDIRECT = NTINDIRECT - NDINDIRECT /\ j * NDINDIRECT \in Nat
      BY <1>0 DEF Places
    <3> DEFINE a == j * NDINDIRECT
    <3> HIDE DEF a
    <3>3. /\ x = a + y /\ a \in Nat /\ a <= NTINDIRECT - NDINDIRECT
          /\ j # NINDIRECT - 1 => a <= NTINDIRECT - 2 * NDINDIRECT
      BY <3>1, <3>2, <3>4, <3>5 DEF a
    <3> HIDE DEF x
    <3> QED
      BY <1>0, <2>2, <2>7, <3>3
  <2> HIDE DEF x
  <2>5. /\ bn \in Nat /\ bn < MAXFILE /\ bn + NINDIRECT <= MAXFILE
        /\ ~(bn < NDIRECT) /\ ~(bn - NDIRECT < NINDIRECT)
        /\ ~((bn - NDIRECT) - NINDIRECT < NDINDIRECT)
        /\ ((bn - NDIRECT) - NINDIRECT) - NDINDIRECT = x
    BY <1>0, <2>4 DEF MAXFILE
  <2> HIDE DEF bn
  <2>6. Path(bn) = <<NDIRECT + 2, j, k, l>>
    BY <2>1, <2>3, <2>5, Zenon DEF Path
  <2> QED
    BY <1>4, <2>5, <2>6 DEF Depth
<1> QED
  BY <1>1, <1>2, <1>3, <1>4 DEF Roots0

(* The blocks that the blocks of B name, when all their cells do.          *)
Kids(s, B) == {s.blk[c[1]][c[2]] : c \in B \X Places}

LEMMA KidsCount ==
  ASSUME NEW s, NEW d, NEW at, Labels(s, d, at), NEW B, IsFiniteSet(B), B \subseteq s.used \ {0},
         \A b \in B : d[b] > 0 /\ \A j \in Places : s.blk[b][j] # 0
  PROVE  /\ IsFiniteSet(Kids(s, B)) /\ Cardinality(Kids(s, B)) = Cardinality(B) * NINDIRECT
         /\ \A x \in Kids(s, B) : /\ x \in s.used \ {0}
                                  /\ \E b \in B, j \in Places : at[x] = <<"block", b, j>> /\ d[x] = d[b] - 1
<1> DEFINE nm(c) == s.blk[c[1]][c[2]]
           C == B \X Places
           N == {nm(c) : c \in C}
           g == [c \in C |-> nm(c)]
<1>1. \A c \in C : /\ c = <<c[1], c[2]>> /\ c[1] \in B /\ c[2] \in Places
                   /\ nm(c) \in s.used \ {0} /\ at[nm(c)] = <<"block", c[1], c[2]>>
                   /\ d[nm(c)] = d[c[1]] - 1
  BY DEF Labels
<1>2. IsFiniteSet(C) /\ Cardinality(C) = Cardinality(B) * NINDIRECT
  <2>1. IsFiniteSet(Places) /\ Cardinality(Places) = NINDIRECT
    BY FS_Interval DEF Places
  <2> QED
    BY <2>1, FS_Product
<1>3. \A c, e \in C : nm(c) = nm(e) => c = e
  <2> SUFFICES ASSUME NEW c \in C, NEW e \in C, nm(c) = nm(e) PROVE c = e
    OBVIOUS
  <2>1. <<"block", c[1], c[2]>> = <<"block", e[1], e[2]>>
    BY <1>1
  <2>2. c[1] = e[1] /\ c[2] = e[2]
    BY <2>1
  <2>3. c = <<c[1], c[2]>> /\ e = <<e[1], e[2]>>
    BY <1>1
  <2> HIDE DEF nm, C
  <2> QED
    BY <2>2, <2>3
<1> HIDE DEF nm
<1>4. g \in Bijection(C, N)
  BY <1>3 DEF Bijection, Injection, Surjection, IsInjective
<1>5. ExistsBijection(C, N)
  BY <1>4 DEF ExistsBijection
<1>6. Kids(s, B) = N
  BY DEF Kids, nm
<1>7. \A x \in N : x \in s.used \ {0} /\ \E b \in B, j \in Places : at[x] = <<"block", b, j>> /\ d[x] = d[b] - 1
  BY <1>1
<1> HIDE DEF g, N, C
<1>8. IsFiniteSet(N) /\ Cardinality(N) = Cardinality(C)
  BY <1>2, <1>5, FS_Bijection
<1> QED
  BY <1>2, <1>6, <1>7, <1>8

(* A file that has all blocks but what the last indirect block lists.      *)
Nearly(s, f) ==
  \A bn \in Nat : bn < MAXFILE /\ bn + NINDIRECT <= MAXFILE => Present(s, f, bn)

(* Then all other cells of the tree name a block.                          *)
LEMMA AllCells ==
  ASSUME NEW s, NEW f, Nearly(s, f),
         NEW i \in Roots0, NEW j \in Places, NEW k \in Places, NEW l \in Places, Early(j, k, l)
  PROVE  LET a == s.A[f][i]
             b == s.blk[a][j]
             c == s.blk[b][k]
         IN  /\ a # 0 /\ (Depth(i) >= 1 => b # 0)
             /\ (Depth(i) >= 2 => c # 0) /\ (Depth(i) >= 3 => s.blk[c][l] # 0)
<1>1. PICK bn \in Nat :
        /\ bn < MAXFILE /\ bn + NINDIRECT <= MAXFILE /\ Path(bn)[1] = i
        /\ Depth(i) >= 1 => Path(bn)[2] = j
        /\ Depth(i) >= 2 => Path(bn)[3] = k
        /\ Depth(i) >= 3 => Path(bn)[4] = l
  BY PathOnto
<1>2. PICK n : Nodes(s, f, Path(bn), Len(Path(bn)), n)
  BY <1>1 DEF Present, Nearly
<1> DEFINE path == Path(bn)
<1>3. Len(path) = Depth(i) + 1 /\ Depth(i) \in 0 .. 3
  <2>1. Len(path) = Depth(path[1]) + 1
    BY <1>1, PathIs
  <2>2. path[1] = i
    BY <1>1
  <2>3. Depth(i) \in 0 .. 3
    BY DEF Depth, Roots0
  <2> QED
    BY <2>1, <2>2, <2>3
<1>4. /\ n \in [1 .. (Depth(i) + 1) -> Nat \ {0}] /\ n[1] = s.A[f][i]
      /\ \A h \in 1 .. Depth(i) : n[h + 1] = s.blk[n[h]][path[h + 1]]
  <2> HIDE DEF path
  <2>1. Nodes(s, f, path, Depth(i) + 1, n) /\ path[1] = i
    BY <1>1, <1>2, <1>3 DEF path
  <2> QED
    BY <1>3, <2>1 DEF Nodes
<1>5. Depth(i) >= 1 => path[2] = j /\ n[2] = s.blk[n[1]][j]
  BY <1>1, <1>3, <1>4
<1>6. Depth(i) >= 2 => path[3] = k /\ n[3] = s.blk[n[2]][k]
  BY <1>1, <1>3, <1>4
<1>7. Depth(i) >= 3 => path[4] = l /\ n[4] = s.blk[n[3]][l]
  BY <1>1, <1>3, <1>4
<1> HIDE DEF path
<1>8. \A h \in 1 .. (Depth(i) + 1) : n[h] # 0
  BY <1>4
<1>9. /\ n[1] # 0 /\ (Depth(i) >= 1 => n[2] # 0)
      /\ (Depth(i) >= 2 => n[3] # 0) /\ (Depth(i) >= 3 => n[4] # 0)
  BY <1>3, <1>8
<1>10. Depth(i) >= 2 => Depth(i) >= 1
  BY <1>3
<1>11. Depth(i) >= 3 => Depth(i) >= 2
  BY <1>3
<1> DEFINE a == s.A[f][i]
           b == s.blk[a][j]
           c == s.blk[b][k]
<1>12. n[1] = a /\ (Depth(i) >= 1 => n[2] = b)
  BY <1>4, <1>5
<1>13. Depth(i) >= 2 => n[3] = c
  BY <1>6, <1>10, <1>12
<1>14. Depth(i) >= 3 => n[4] = s.blk[c][l]
  BY <1>7, <1>11, <1>13
<1> QED
  BY <1>9, <1>12, <1>13, <1>14

LEMMA DisjointCount ==
  ASSUME NEW S, NEW T, IsFiniteSet(S), IsFiniteSet(T), S \cap T = {}
  PROVE  /\ IsFiniteSet(S \cup T) /\ Cardinality(S) \in Nat /\ Cardinality(T) \in Nat
         /\ Cardinality(S \cup T) = Cardinality(S) + Cardinality(T)
BY FS_Union, FS_EmptySet, FS_CardinalityType

(* No disk has room for the largest file.                                  *)
LEMMA TreeTooLarge ==
  ASSUME NEW s, s.used \subseteq BlockNos, NEW d, NEW at, Labels(s, d, at), NEW f \in Files,
         Nearly(s, f)
  PROVE  FALSE
<1> DEFINE R == {s.A[f][i] : i \in Roots0}
           N1 == NDIRECT
           N2 == NDIRECT + 1
           N3 == NDIRECT + 2
           B3 == {s.A[f][N3]}
           K3 == Kids(s, B3)
           B2 == {s.A[f][N2]} \cup K3
           K2 == Kids(s, B2)
           B1 == {s.A[f][N1]} \cup K2
           Last == NINDIRECT - 1
           bs == s.blk[s.blk[s.A[f][N3]][Last]][Last]
           J == (B1 \cup B2) \cup B3
           I == J \ {bs}
           K == Kids(s, I)
<1>1. \A i \in Roots0, j, k, l \in Places : Early(j, k, l) =>
        /\ s.A[f][i] # 0 /\ (Depth(i) >= 1 => s.blk[s.A[f][i]][j] # 0)
        /\ Depth(i) >= 2 => s.blk[s.blk[s.A[f][i]][j]][k] # 0
        /\ Depth(i) >= 3 => s.blk[s.blk[s.blk[s.A[f][i]][j]][k]][l] # 0
  BY AllCells
<1>2. /\ N1 \in Roots0 /\ N2 \in Roots0 /\ N3 \in Roots0
      /\ Depth(N1) = 1 /\ Depth(N2) = 2 /\ Depth(N3) = 3 /\ 0 \in Places
  <2>1. N1 = NDIRECT /\ N2 = NDIRECT + 1 /\ N3 = NDIRECT + 2
    OBVIOUS
  <2> HIDE DEF N1, N2, N3
  <2>2. 0 \in Places
    BY DEF Places
  <2> QED
    BY <2>1, <2>2 DEF Roots0, Depth
<1>3. \A i \in Roots0 : /\ s.A[f][i] \in s.used \ {0} /\ d[s.A[f][i]] = Depth(i)
                        /\ at[s.A[f][i]] = <<"inode", f, i>>
  <2>1. \A i \in Roots0 : s.A[f][i] # 0
    <3>1. 0 \in Places
      BY <1>2
    <3> QED
      BY <1>1, <3>1 DEF Early
  <2> QED
    BY <2>1 DEF Labels
<1> HIDE DEF N1, N2, N3
<1>4. /\ \A j \in Places : s.blk[s.A[f][N1]][j] # 0 /\ s.blk[s.A[f][N2]][j] # 0 /\ s.blk[s.A[f][N3]][j] # 0
      /\ \A j, k \in Places : s.blk[s.blk[s.A[f][N2]][j]][k] # 0 /\ s.blk[s.blk[s.A[f][N3]][j]][k] # 0
      /\ \A j, k, l \in Places : Early(j, k, l) => s.blk[s.blk[s.blk[s.A[f][N3]][j]][k]][l] # 0
  <2> HIDE DEF R, B3, B2, B1, J, I, K, K2, K3, bs
  <2>9. \A j, k \in Places : Early(j, k, 0)
    BY DEF Early
  <2>1. ASSUME NEW i \in Roots0, NEW j \in Places, NEW k \in Places, NEW l \in Places, Early(j, k, l)
        PROVE  /\ Depth(i) >= 1 => s.blk[s.A[f][i]][j] # 0
               /\ Depth(i) >= 2 => s.blk[s.blk[s.A[f][i]][j]][k] # 0
               /\ Depth(i) >= 3 => s.blk[s.blk[s.blk[s.A[f][i]][j]][k]][l] # 0
    BY <1>1, <2>1
  <2>2. \A i \in Roots0, j \in Places : Depth(i) >= 1 => s.blk[s.A[f][i]][j] # 0
    <3>1. 0 \in Places
      BY <1>2
    <3> QED
      BY <2>1, <2>9, <3>1
  <2>3. \A i \in Roots0, j, k \in Places : Depth(i) >= 2 => s.blk[s.blk[s.A[f][i]][j]][k] # 0
    <3>1. 0 \in Places
      BY <1>2
    <3> QED
      BY <2>1, <2>9, <3>1
  <2>4. \A i \in Roots0, j, k, l \in Places :
          Early(j, k, l) /\ Depth(i) >= 3 => s.blk[s.blk[s.blk[s.A[f][i]][j]][k]][l] # 0
    BY <2>1
  <2>5. Depth(N1) >= 1 /\ Depth(N2) >= 1 /\ Depth(N2) >= 2 /\ Depth(N3) >= 1 /\ Depth(N3) >= 2 /\ Depth(N3) >= 3
    BY <1>2
  <2>6. ASSUME NEW j \in Places
        PROVE  s.blk[s.A[f][N1]][j] # 0 /\ s.blk[s.A[f][N2]][j] # 0 /\ s.blk[s.A[f][N3]][j] # 0
    BY <1>2, <2>2, <2>5
  <2>7. ASSUME NEW j \in Places, NEW k \in Places
        PROVE  s.blk[s.blk[s.A[f][N2]][j]][k] # 0 /\ s.blk[s.blk[s.A[f][N3]][j]][k] # 0
    BY <1>2, <2>3, <2>5
  <2>8. ASSUME NEW j \in Places, NEW k \in Places, NEW l \in Places, Early(j, k, l)
        PROVE  s.blk[s.blk[s.blk[s.A[f][N3]][j]][k]][l] # 0
    BY <1>2, <2>4, <2>5, <2>8
  <2> QED
    BY <2>6, <2>7, <2>8, Zenon
<1>5. /\ IsFiniteSet(B3) /\ Cardinality(B3) = 1 /\ B3 \subseteq s.used \ {0}
      /\ \A b \in B3 : d[b] = 3 /\ \A j \in Places : s.blk[b][j] # 0
  BY <1>2, <1>3, <1>4, FS_Singleton
<1>6. /\ IsFiniteSet(K3) /\ Cardinality(K3) = 1 * NINDIRECT
      /\ \A x \in K3 : x \in s.used \ {0} /\ d[x] = 2 /\ \E b, j : at[x] = <<"block", b, j>>
  <2> HIDE DEF B3
  <2>1. \A b \in B3 : d[b] > 0 /\ \A j \in Places : s.blk[b][j] # 0
    BY <1>5
  <2>2. /\ IsFiniteSet(Kids(s, B3)) /\ Cardinality(Kids(s, B3)) = Cardinality(B3) * NINDIRECT
        /\ \A x \in Kids(s, B3) : /\ x \in s.used \ {0}
                                  /\ \E b \in B3, j \in Places : at[x] = <<"block", b, j>> /\ d[x] = d[b] - 1
    BY <1>5, <2>1, KidsCount
  <2> QED
    BY <1>5, <2>2
<1>7. /\ IsFiniteSet(B2) /\ Cardinality(B2) = 1 + NINDIRECT /\ B2 \subseteq s.used \ {0}
      /\ \A b \in B2 : d[b] = 2 /\ \A j \in Places : s.blk[b][j] # 0
  <2> DEFINE r == s.A[f][N2]
  <2>1. \A x \in K3 : \E j \in Places : x = s.blk[s.A[f][N3]][j]
    BY DEF Kids
  <2>2. \A x \in K3, k \in Places : s.blk[x][k] # 0
    <3> HIDE DEF K3
    <3> SUFFICES ASSUME NEW x \in K3, NEW k \in Places PROVE s.blk[x][k] # 0
      OBVIOUS
    <3>1. PICK j \in Places : x = s.blk[s.A[f][N3]][j]
      BY <2>1
    <3>2. s.blk[s.blk[s.A[f][N3]][j]][k] # 0
      BY <1>4
    <3> QED
      BY <3>1, <3>2
  <2>3. at[r] = <<"inode", f, N2>> /\ r \in s.used \ {0} /\ d[r] = 2 /\ \A j \in Places : s.blk[r][j] # 0
    BY <1>2, <1>3, <1>4
  <2> HIDE DEF r, K3
  <2>4. {r} \cap K3 = {}
    <3> SUFFICES ASSUME r \in K3 PROVE FALSE
      OBVIOUS
    <3>1. \E b, j : <<"block", b, j>> = <<"inode", f, N2>>
      BY <1>6, <2>3
    <3> QED
      BY <3>1
  <2>5. IsFiniteSet({r}) /\ Cardinality({r}) = 1
    BY FS_Singleton
  <2>6. IsFiniteSet({r} \cup K3) /\ Cardinality({r} \cup K3) = 1 + NINDIRECT
    <3>1. IsFiniteSet({r} \cup K3) /\ Cardinality({r} \cup K3) = Cardinality({r}) + Cardinality(K3)
      BY <1>6, <2>4, <2>5, DisjointCount
    <3> QED
      BY <1>6, <2>5, <3>1
  <2>7. B2 = {r} \cup K3
    BY DEF r
  <2> HIDE DEF B2
  <2> QED
    BY <1>6, <2>2, <2>3, <2>6, <2>7
<1> HIDE DEF B3
<1>8. /\ IsFiniteSet(K2) /\ Cardinality(K2) = (1 + NINDIRECT) * NINDIRECT
      /\ \A x \in K2 : x \in s.used \ {0} /\ d[x] = 1 /\ \E b, j : at[x] = <<"block", b, j>>
  <2> HIDE DEF B2
  <2>1. \A b \in B2 : d[b] > 0 /\ \A j \in Places : s.blk[b][j] # 0
    BY <1>7
  <2>2. /\ IsFiniteSet(Kids(s, B2)) /\ Cardinality(Kids(s, B2)) = Cardinality(B2) * NINDIRECT
        /\ \A x \in Kids(s, B2) : /\ x \in s.used \ {0}
                                  /\ \E b \in B2, j \in Places : at[x] = <<"block", b, j>> /\ d[x] = d[b] - 1
    BY <1>7, <2>1, KidsCount
  <2> QED
    BY <1>7, <2>2
<1>9. /\ IsFiniteSet(B1) /\ Cardinality(B1) = 1 + (1 + NINDIRECT) * NINDIRECT /\ B1 \subseteq s.used \ {0}
      /\ \A b \in B1 : d[b] = 1 /\ (b # bs => \A j \in Places : s.blk[b][j] # 0)
  <2> DEFINE r == s.A[f][N1]
  <2>1. \A x \in K2 : \E y \in B2, k \in Places : x = s.blk[y][k]
    BY DEF Kids
  <2>2. \A y \in B2 : y = s.A[f][N2] \/ \E j \in Places : y = s.blk[s.A[f][N3]][j]
    BY DEF Kids, B3
  <2>3. \A x \in K2, l \in Places : x # bs => s.blk[x][l] # 0
    <3> SUFFICES ASSUME NEW x \in K2, NEW l \in Places, x # bs PROVE s.blk[x][l] # 0
      OBVIOUS
    <3>1. PICK y \in B2, k \in Places : x = s.blk[y][k]
      BY <2>1
    <3>2. CASE y = s.A[f][N2]
      BY <1>4, <3>1, <3>2
    <3>3. CASE y # s.A[f][N2]
      <4>1. PICK j \in Places : y = s.blk[s.A[f][N3]][j]
        BY <2>2, <3>3
      <4>3. Early(j, k, l)
        BY <3>1, <4>1 DEF Early
      <4>2. s.blk[s.blk[s.blk[s.A[f][N3]][j]][k]][l] # 0
        BY <1>4, <4>3
      <4> QED
        BY <3>1, <4>1, <4>2
    <3> QED
      BY <3>2, <3>3
  <2>4. at[r] = <<"inode", f, N1>> /\ r \in s.used \ {0} /\ d[r] = 1 /\ \A j \in Places : s.blk[r][j] # 0
    BY <1>2, <1>3, <1>4
  <2> HIDE DEF r, K2
  <2>5. {r} \cap K2 = {}
    <3> SUFFICES ASSUME r \in K2 PROVE FALSE
      OBVIOUS
    <3>1. \E b, j : <<"block", b, j>> = <<"inode", f, N1>>
      BY <1>8, <2>4
    <3> QED
      BY <3>1
  <2>6. IsFiniteSet({r}) /\ Cardinality({r}) = 1
    BY FS_Singleton
  <2>7. IsFiniteSet({r} \cup K2) /\ Cardinality({r} \cup K2) = 1 + (1 + NINDIRECT) * NINDIRECT
    BY <1>8, <2>5, <2>6, DisjointCount
  <2>8. B1 = {r} \cup K2
    BY DEF r
  <2> HIDE DEF B1
  <2> QED
    BY <1>8, <2>3, <2>4, <2>7, <2>8
<1> HIDE DEF B1, B2, K2, K3, bs
<1>10. /\ IsFiniteSet(I) /\ Cardinality(I) \in Nat
       /\ Cardinality(I) + 1 >= ((1 + (1 + NINDIRECT) * NINDIRECT) + (1 + NINDIRECT)) + 1
       /\ I \subseteq s.used \ {0}
       /\ \A b \in I : d[b] > 0 /\ \A j \in Places : s.blk[b][j] # 0
  <2>1. B1 \cap B2 = {} /\ (B1 \cup B2) \cap B3 = {}
    <3>1. ASSUME NEW b \in B1, b \in B2 PROVE FALSE
      BY <1>7, <1>9, <3>1
    <3>2. ASSUME NEW b \in B1 \cup B2, b \in B3 PROVE FALSE
      BY <1>5, <1>7, <1>9, <3>2
    <3> QED
      BY <3>1, <3>2
  <2>2. IsFiniteSet(B1 \cup B2) /\ Cardinality(B1 \cup B2) = Cardinality(B1) + Cardinality(B2)
    BY <1>7, <1>9, <2>1, DisjointCount
  <2>3. IsFiniteSet(J) /\ Cardinality(J) = Cardinality(B1 \cup B2) + Cardinality(B3)
    BY <1>5, <2>1, <2>2, DisjointCount
  <2>5. /\ IsFiniteSet(J \ {bs}) /\ Cardinality(J \ {bs}) \in Nat
        /\ Cardinality(J \ {bs}) + 1 >= Cardinality(J)
    <3> HIDE DEF J
    <3> QED
      BY <2>3, FS_RemoveElement, FS_CardinalityType
  <2>4. \A b \in I : d[b] > 0 /\ \A j \in Places : s.blk[b][j] # 0
    BY <1>5, <1>7, <1>9
  <2> QED
    BY <1>5, <1>7, <1>9, <2>2, <2>3, <2>4, <2>5
<1> HIDE DEF I, J
<1>11. /\ IsFiniteSet(K) /\ Cardinality(K) = Cardinality(I) * NINDIRECT
       /\ \A x \in K : x \in s.used \ {0} /\ \E b, j : at[x] = <<"block", b, j>>
  BY <1>10, KidsCount
<1> HIDE DEF K
<1>12. IsFiniteSet(R) /\ Cardinality(R) = NDIRECT + 3 /\ R \subseteq s.used \ {0}
  <2> DEFINE rt(i) == s.A[f][i]
             g == [i \in Roots0 |-> rt(i)]
  <2>1. \A i, j \in Roots0 : rt(i) = rt(j) => i = j
    <3> SUFFICES ASSUME NEW i \in Roots0, NEW j \in Roots0, rt(i) = rt(j) PROVE i = j
      OBVIOUS
    <3>1. <<"inode", f, i>> = <<"inode", f, j>>
      BY <1>3
    <3> QED
      BY <3>1
  <2>2. R = {rt(i) : i \in Roots0} /\ R \subseteq s.used \ {0}
    BY <1>3
  <2> HIDE DEF rt
  <2>3. g \in Bijection(Roots0, R)
    BY <2>1, <2>2 DEF Bijection, Injection, Surjection, IsInjective
  <2>4. ExistsBijection(Roots0, R)
    BY <2>3 DEF ExistsBijection
  <2>5. IsFiniteSet(Roots0) /\ Cardinality(Roots0) = NDIRECT + 3
    BY FS_Interval DEF Roots0
  <2> HIDE DEF g, R
  <2> QED
    BY <2>2, <2>4, <2>5, FS_Bijection
<1>13. R \cap K = {}
  <2> SUFFICES ASSUME NEW x \in R, x \in K PROVE FALSE
    OBVIOUS
  <2>1. PICK i \in Roots0 : x = s.A[f][i]
    OBVIOUS
  <2>2. \E b, j : <<"block", b, j>> = <<"inode", f, i>>
    BY <1>3, <1>11, <2>1
  <2> QED
    BY <2>2
<1> HIDE DEF R
<1>14. IsFiniteSet(R \cup K) /\ Cardinality(R \cup K) = (NDIRECT + 3) + Cardinality(I) * NINDIRECT
  BY <1>11, <1>12, <1>13, DisjointCount
<1>15. Cardinality(R \cup K) <= SIZE - 1
  <2>1. R \cup K \subseteq 1 .. (SIZE - 1)
    BY <1>11, <1>12 DEF BlockNos
  <2>2. IsFiniteSet(1 .. (SIZE - 1)) /\ Cardinality(1 .. (SIZE - 1)) = SIZE - 1
    BY FS_Interval
  <2> QED
    BY <2>1, <2>2, FS_Subset
<1>16. (NDIRECT + 3) + Cardinality(I) * NINDIRECT >= MAXFILE + 3 + NINDIRECT + NDINDIRECT
  <2>1. MAXFILE = NDIRECT + NINDIRECT + NINDIRECT * NINDIRECT + (NINDIRECT * NINDIRECT) * NINDIRECT
    BY DEF MAXFILE, NDINDIRECT, NTINDIRECT
  <2> DEFINE low == 2 + 2 * NINDIRECT + NINDIRECT * NINDIRECT
  <2>2. Cardinality(I) >= low /\ Cardinality(I) \in Nat /\ low \in Nat
    BY <1>10
  <2>4. low * NINDIRECT = 2 * NINDIRECT + 2 * (NINDIRECT * NINDIRECT) + (NINDIRECT * NINDIRECT) * NINDIRECT
    OBVIOUS
  <2>3. Cardinality(I) * NINDIRECT >= low * NINDIRECT
    <3> HIDE DEF low
    <3> DEFINE c == Cardinality(I)
    <3>1. c \in Nat /\ low \in Nat /\ c >= low /\ NINDIRECT \in Nat
      BY <2>2
    <3> HIDE DEF c
    <3>2. c * NINDIRECT >= low * NINDIRECT
      <4>1. c - low \in Nat
        BY <3>1
      <4>2. (c - low) * NINDIRECT >= 0
        BY <3>1, <4>1
      <4> QED
        BY <3>1, <4>2
    <3> QED
      BY <3>2 DEF c
  <2>5. low * NINDIRECT \in Nat /\ Cardinality(I) * NINDIRECT \in Nat
    BY <2>2
  <2> DEFINE q == Cardinality(I) * NINDIRECT
             h == low * NINDIRECT
             n2 == NINDIRECT * NINDIRECT
             n3 == n2 * NINDIRECT
  <2>6. q >= h /\ h = 2 * NINDIRECT + 2 * n2 + n3 /\ q \in Nat /\ h \in Nat
    BY <2>3, <2>4, <2>5
  <2>7. MAXFILE = NDIRECT + NINDIRECT + n2 + n3 /\ NDINDIRECT = n2 /\ n2 \in Nat /\ n3 \in Nat
    BY <2>1 DEF NDINDIRECT
  <2> HIDE DEF h, n2, n3
  <2>8. (NDIRECT + 3) + q >= MAXFILE + 3 + NINDIRECT + NDINDIRECT
    <3> HIDE DEF q
    <3> QED
      BY <2>6, <2>7
  <2> QED
    BY <2>8
<1>17. SIZE <= MAXFILE + 3 + NINDIRECT + NDINDIRECT /\ NDINDIRECT \in Nat /\ MAXFILE \in Nat
  BY BlocksAssumption DEF NDINDIRECT
<1>18. Cardinality(I) * NINDIRECT \in Nat
  BY <1>10
<1> DEFINE q == Cardinality(I) * NINDIRECT
           m == Cardinality(R \cup K)
<1>19. m = (NDIRECT + 3) + q /\ m <= SIZE - 1 /\ q \in Nat
  BY <1>14, <1>15, <1>18
<1>20. (NDIRECT + 3) + q >= MAXFILE + 3 + NINDIRECT + NDINDIRECT
  BY <1>16
<1> HIDE DEF q, m
<1> QED
  BY <1>17, <1>19, <1>20

-----------------------------------------------------------------------------
(* All that a read below the size maps is there.                           *)
LEMMA ReadMaps ==
  ASSUME TypeOK, SysOK, NEW f \in Files, inode[f] # NULL, NEW pos \in Nat, NEW n \in Nat
  PROVE  ReadMap(f, pos, n).used = disk.used
<1> DEFINE t == Txn(f)
           K == ReadLen(f, pos, n)
           size == inode[f].size
           after == CHOOSE a : a = [k \in 0 .. K |-> IF k = 0 THEN t
                                                     ELSE bmap(a[k - 1], (pos + k - 1) \div BSIZE)]
<1>1. /\ t \in Txns /\ t.panic = "none" /\ Img(t, f, Sys.A) = Sys /\ t.used = disk.used
  <2>1. t.used = disk.used
    BY DEF Txn
  <2> QED
    BY <2>1, TxnIs
<1>2. size \in Nat /\ There(Sys, f, size) /\ size <= MAXFILE * BSIZE
  BY InodeIs, TypeIs DEF SysOK, Sized, Current
<1>3. K \in Nat /\ (pos + K <= size \/ K = 0)
  <2>1. CASE pos > size \/ (pos + n) % UINT < pos
    BY <2>1, Zenon DEF ReadLen
  <2>2. CASE ~(pos > size \/ (pos + n) % UINT < pos)
    <3>1. K = Min({n, size - pos})
      BY <2>2, Zenon DEF ReadLen
    <3>2. size - pos \in Nat
      BY <1>2, <2>2
    <3> HIDE DEF K, size
    <3>3. K = IF n <= size - pos THEN n ELSE size - pos
      BY <3>1, <3>2, MinOfTwo
    <3> QED
      BY <1>2, <3>2, <3>3
  <2> QED
    BY <2>1, <2>2
<1> HIDE DEF K
<1> DEFINE N(bn) == CHOOSE n_ : Nodes(Sys, f, Path(bn), Len(Path(bn)), n_)
           W(k) == N((pos + k - 1) \div BSIZE)[Len(Path((pos + k - 1) \div BSIZE))]
<1>4. ASSUME NEW k \in 1 .. K, NEW a \in Nat
      PROVE  W(k) \in Nat /\ bmap(At(t, a), (pos + k - 1) \div BSIZE) = At(t, W(k))
  <2> DEFINE bn == (pos + k - 1) \div BSIZE
             x == pos + k - 1
             u == At(t, a)
  <2>1. x \in Nat /\ x < size
    BY <1>2, <1>3
  <2>2. bn \in Nat /\ bn * BSIZE <= x
    BY <2>1, QuotientBelow
  <2>3. bn < MAXFILE
    <3> DEFINE y == MAXFILE * BSIZE
    <3>1. y \in Int /\ size <= y
      BY <1>2
    <3> HIDE DEF y, x, size
    <3>2. x < y
      BY <1>2, <2>1, <3>1
    <3>3. x < BSIZE * MAXFILE
      BY <3>2 DEF y
    <3>4. x \div BSIZE \in 0 .. (MAXFILE - 1)
      BY <2>1, <3>3, Quotient
    <3> QED
      BY <3>4 DEF x
  <2> HIDE DEF bn, x, size
  <2>4. Present(Sys, f, bn)
    <3>1. bn * BSIZE < size
      BY <1>2, <2>1, <2>2
    <3> QED
      BY <1>2, <2>2, <2>3, <3>1 DEF There
  <2> HIDE DEF t, u
  <2>5. u \in Txns /\ u.panic = "none" /\ u.used = t.used /\ u.blk = t.blk /\ u.addrs = t.addrs
    BY <1>1, AtIs DEF u
  <2>6. Img(u, f, Sys.A) = Sys
    BY <1>1, <2>5 DEF Img
  <2>7. Sys.A \in [Files -> Addrs]
    BY SysImage DEF Images
  <2> DEFINE n1 == N(bn)
             b == n1[Len(Path(bn))]
  <2>8. Nodes(Sys, f, Path(bn), Len(Path(bn)), n1)
    BY <2>4 DEF Present
  <2> HIDE DEF n1
  <2>9. b \in Nat /\ bmap(u, bn) = At(u, b)
    BY <2>2, <2>3, <2>5, <2>6, <2>7, <2>8, BmapReads
  <2>10. At(u, b) = At(t, b)
    BY <1>1, <2>9, AtIs DEF u
  <2>11. b \in Nat /\ bmap(u, bn) = At(t, b)
    BY <2>9, <2>10
  <2> QED
    BY <2>11 DEF u, bn, n1, x
<1>5. t.addr \in Nat /\ t = At(t, t.addr)
  BY <1>1 DEF Txns, At
<1> HIDE DEF t, W
<1> DEFINE V(k) == IF k = 0 THEN t.addr ELSE W(k)
           g == [k \in 0 .. K |-> At(t, V(k))]
           bno(k) == (pos + k - 1) \div BSIZE
<1>6. \A k \in 0 .. K : V(k) \in Nat
  BY <1>3, <1>4, <1>5
<1>7. g = [k \in 0 .. K |-> IF k = 0 THEN t ELSE bmap(g[k - 1], bno(k))]
  <2> DEFINE e(k) == IF k = 0 THEN t ELSE bmap(g[k - 1], bno(k))
  <2>1. ASSUME NEW k \in 0 .. K
        PROVE  g[k] = e(k)
    <3>1. CASE k = 0
      BY <1>5, <3>1
    <3>2. CASE k # 0
      <4>1. k \in 1 .. K /\ k - 1 \in 0 .. K
        BY <1>3, <3>2
      <4>2. g[k - 1] = At(t, V(k - 1)) /\ g[k] = At(t, W(k)) /\ V(k - 1) \in Nat
        BY <1>6, <3>2, <4>1
      <4>3. bmap(At(t, V(k - 1)), bno(k)) = At(t, W(k))
        <5> HIDE DEF V
        <5> QED
          BY <1>4, <4>1, <4>2
      <4> HIDE DEF g, V, bno
      <4> QED
        BY <3>2, <4>2, <4>3
    <3> QED
      BY <3>1, <3>2
  <2>2. g = [k \in 0 .. K |-> g[k]]
    OBVIOUS
  <2> HIDE DEF g, bno
  <2> QED
    BY <2>1, <2>2
<1> HIDE DEF g, V
<1>8. after = [k \in 0 .. K |-> IF k = 0 THEN t ELSE bmap(after[k - 1], bno(k))]
  BY <1>7
<1>9. ReadMap(f, pos, n) = after[K]
  BY Zenon DEF ReadMap, K, t
<1> HIDE DEF after, bno
<1> DEFINE Good(u) == \E a \in Nat : u = At(t, a)
           Bad == {k \in 0 .. K : ~Good(after[k])}
<1>10. ASSUME NEW k \in 1 .. K, Good(after[k - 1])
       PROVE  Good(after[k])
  <2>1. PICK a \in Nat : after[k - 1] = At(t, a)
    BY <1>10
  <2>2. after[k] = bmap(after[k - 1], bno(k))
    BY <1>3, <1>8
  <2>3. bmap(At(t, a), bno(k)) = At(t, W(k)) /\ W(k) \in Nat
    BY <1>4 DEF bno
  <2> QED
    BY <2>1, <2>2, <2>3
<1>11. Good(after[0])
  BY <1>3, <1>5, <1>8
<1> HIDE DEF Good
<1>12. Good(after[K])
  <2> SUFFICES ASSUME ~Good(after[K]) PROVE FALSE
    OBVIOUS
  <2>1. Bad # {} /\ Bad \subseteq Nat
    BY <1>3
  <2>2. PICK k \in Bad : \A y \in Bad : k <= y
    BY <2>1, LeastExists
  <2>3. k \in 1 .. K /\ k - 1 \in 0 .. K /\ k - 1 \notin Bad
    BY <1>3, <1>11, <2>2
  <2> QED
    BY <1>10, <2>2, <2>3
<1> QED
  BY <1>1, <1>9, <1>12, AtIs DEF Good

-----------------------------------------------------------------------------
(* Of all the panics only the one for lack of space is left.               *)
LEMMA CloseQuiet ==
  ASSUME BlocksIndInv, NEW f \in Files, NEW nlink, Close(f, nlink)
  PROVE  panic' = panic
<1>1. TypeOK /\ SysOK /\ inode[f] # NULL
  BY DEF BlocksIndInv, Close
<1> DEFINE v == Txn(f)
<1>2. v \in Txns /\ v.panic = "none" /\ Img(v, f, Sys.A) = Sys
  BY <1>1, TxnIs
<1>3. Sys.A \in [Files -> Addrs]
  BY <1>1, SysImage DEF Images
<1>4. PICK d, at : Labels(Sys, d, at)
  BY <1>1 DEF SysOK, Labelled
<1>5. itrunc(v).panic = "none"
  <2> HIDE DEF v
  <2> QED
    BY <1>2, <1>3, <1>4, ItruncFrees
<1> HIDE DEF v
<1>6. ~(nlink = 0 /\ itrunc(Txn(f)).panic # "none")
  BY <1>5 DEF v
<1> QED
  BY <1>6, Zenon DEF Close

LEMMA CatchupQuiet ==
  ASSUME BlocksIndInv, NEW p \in Procs, catchupoffset(p)
  PROVE  panic' \in {panic, "balloc: out of blocks"}
<1> DEFINE c == call[p]
           f == c.f
           v == Txn(f)
           b == c.cur
           t == bmap(v, b)
<1>1. c # NULL /\ c.pc = "catchup" /\ TypeOK /\ SysOK
  BY DEF catchupoffset, BlocksIndInv
<1>2. c \in Calls /\ f \in Files /\ b \in Nat /\ CallOK(c)
  BY <1>1, CallIs, TypeIs DEF BlocksIndInv, CallsOK
<1>3. inode[f] # NULL
  BY <1>2 DEF CallOK, CallIn
<1>4. v \in Txns /\ v.panic = "none" /\ Img(v, f, Sys.A) = Sys
  BY <1>1, <1>2, <1>3, TxnIs
<1>5. Sys.used \subseteq BlockNos /\ Sys.A \in [Files -> Addrs]
  BY <1>1, SysImage DEF Images
<1>6. PICK d, at : Labels(Sys, d, at)
  BY <1>1 DEF SysOK, Labelled
<1>7. b < MAXFILE
  <2> SUFFICES ASSUME ~(b < MAXFILE) PROVE FALSE
    OBVIOUS
  <2>1. \A bn \in Nat : bn < MAXFILE /\ bn < b => Present(Sys, f, bn)
    BY <1>1, <1>2 DEF CallOK, CallIn
  <2>2. \A bn \in Nat : bn < MAXFILE => Present(Sys, f, bn)
    <3> HIDE DEF b, f
    <3> QED
      BY <1>2, <2>1
  <2> QED
    BY <1>2, <1>5, <1>6, <2>2, TreeTooLarge DEF Nearly
<1>8. t.panic \in {"none", "balloc: out of blocks"}
  <2> HIDE DEF v, b, f
  <2>1. Reached(v, d, bmap(v, b), f, Sys.A, Path(b), Len(Path(b)))
    BY <1>2, <1>4, <1>5, <1>6, <1>7, BmapReaches
  <2> QED
    BY <2>1 DEF Reached
<1>9. panic' = panic \/ (panic' = t.panic /\ t.panic # "none")
  BY Zenon DEF catchupoffset, Panic
<1> QED
  BY <1>8, <1>9

LEMMA WritesQuiet ==
  ASSUME BlocksIndInv, NEW p \in Procs, writei(p) \/ pwritei(p)
  PROVE  panic' \in {panic, "balloc: out of blocks"}
<1> DEFINE c == call[p]
           pos == IF writei(p) THEN off[c.f] ELSE c.off
           v == Txn(c.f)
           t == CopyIn(v, pos, ChunkData(c))
<1>1. c # NULL /\ c.i < c.n /\ TypeOK /\ SysOK
  BY DEF writei, pwritei, BlocksIndInv
<1>2. c \in Calls /\ c.f \in Files /\ CallOK(c)
  BY <1>1, CallIs, TypeIs DEF BlocksIndInv, CallsOK
<1>3. \/ panic' = panic
      \/ panic' = t.panic /\ t.panic # "none" /\ ~TooFar(pos, ChunkLen(c))
         /\ (writei(p) => ~(pos > inode[c.f].size))
  <2>1. CASE writei(p)
    <3>1. pos = off[c.f]
      BY <2>1
    <3> HIDE DEF pos
    <3> QED
      BY <2>1, <3>1, Zenon DEF writei, Return, Panic, Written
  <2>2. CASE ~writei(p)
    <3>1. pos = c.off
      BY <2>2
    <3> HIDE DEF pos
    <3> QED
      BY <2>2, <3>1, Zenon DEF pwritei, Return, Panic, Written
  <2> QED
    BY <2>1, <2>2
<1>4. CASE panic' = panic
  BY <1>4
<1>5. CASE /\ panic' = t.panic /\ t.panic # "none" /\ ~TooFar(pos, ChunkLen(c))
           /\ (writei(p) => ~(pos > inode[c.f].size))
  <2>1. pos \in Nat /\ pos < UINT
    <3>1. CASE writei(p)
      <4>1. pos = off[c.f] /\ off[c.f] \in Nat
        BY <1>1, <1>2, <3>1, TypeIs
      <4>2. inode[c.f] # NULL
        BY <1>2 DEF CallOK, CallIn
      <4>3. inode[c.f].size \in Nat /\ inode[c.f].size <= MAXFILE * BSIZE
        BY <1>1, <1>2, <4>2, InodeIs, TypeIs DEF SysOK, Sized, Current
      <4> HIDE DEF pos
      <4>4. pos \in Nat /\ pos <= inode[c.f].size
        BY <1>5, <3>1, <4>1, <4>3
      <4> DEFINE m == MAXFILE * BSIZE
      <4>5. m \in Nat /\ m < UINT /\ UINT \in Nat
        BY Lengths
      <4> HIDE DEF m
      <4> QED
        BY <4>3, <4>4, <4>5 DEF m
    <3>2. CASE ~writei(p)
      <4>1. c.off \in Nat /\ c.off < UINT
        BY <1>2, CallIs DEF CallOK, CallIn
      <4> QED
        BY <3>2, <4>1
    <3> QED
      BY <3>1, <3>2
  <2>2. PICK d, at : Labels(Sys, d, at)
    BY <1>1 DEF SysOK, Labelled
  <2> HIDE DEF pos
  <2>3. Grown(v, d, t, c.f, Sys.A, Covered(pos, ChunkLen(c)))
    BY <1>1, <1>5, <2>1, <2>2, ChunkGrows
  <2>4. t.panic \in {"none", "balloc: out of blocks"}
    BY <2>3, Zenon DEF Grown
  <2> HIDE DEF t
  <2> QED
    BY <1>5, <2>4
<1> QED
  BY <1>3, <1>4, <1>5

LEMMA ReadiQuiet ==
  ASSUME BlocksIndInv, NEW f \in Files, NEW pos \in Nat, NEW n \in Nat, NEW moves, readi(f, pos, n, moves)
  PROVE  panic' = panic
<1>1. ReadMap(f, pos, n).used = disk.used
  BY ReadMaps DEF BlocksIndInv, readi
<1> QED
  BY <1>1, Zenon DEF readi

(* The file system panics only when the disk is full: whatever the calls   *)
(* do, itrunc finds every bit set that it clears, a read finds every block *)
(* that it wants, and catchupoffset never comes to the end of the largest  *)
(* file.                                                                   *)
THEOREM OnlySpaceRunsOut == Spec => []OnlySpacePanics
<1>1. Init => OnlySpacePanics
  BY DEF Init, OnlySpacePanics
<1>2. BlocksIndInv /\ OnlySpacePanics /\ [Next]_blockVars => OnlySpacePanics'
  <2> SUFFICES ASSUME BlocksIndInv, OnlySpacePanics, [Next]_blockVars
               PROVE  panic' \in {panic, "none", "balloc: out of blocks"}
    BY DEF OnlySpacePanics
  <2>1. ASSUME NEW f \in Files, Open(f) \/ Close(f, 0) \/ Close(f, 1)
        PROVE  panic' = panic
    BY <2>1, CloseQuiet DEF Open
  <2>2. ASSUME NEW p \in Procs, NEW f \in Files, NEW n \in WriteLens, filewrite(p, f, n)
        PROVE  panic' = panic
    BY <2>2 DEF filewrite, Called
  <2>3. ASSUME NEW p \in Procs, NEW f \in Files, NEW n \in PwriteLens, NEW o \in Offsets,
               filepwrite(p, f, n, o)
        PROVE  panic' = panic
    BY <2>3 DEF filepwrite, Called
  <2>4. ASSUME NEW p \in Procs, catchupoffset(p) \/ writei(p) \/ pwritei(p) \/ Done(p)
        PROVE  panic' \in {panic, "balloc: out of blocks"}
    BY <2>4, CatchupQuiet, WritesQuiet DEF Done, Return
  <2>5. ASSUME NEW f \in Files, NEW n \in WriteLens, fileread(f, n)
        PROVE  panic' = panic
    <3>1. off[f] \in Nat /\ n \in Nat
      BY Lengths, TypeIs DEF BlocksIndInv
    <3> QED
      BY <2>5, <3>1, ReadiQuiet DEF fileread
  <2>6. ASSUME NEW f \in Files, NEW n \in PwriteLens, NEW o \in Offsets, filepread(f, n, o)
        PROVE  panic' = panic
    <3>1. o \in Nat /\ n \in Nat
      BY Lengths
    <3> QED
      BY <2>6, <3>1, ReadiQuiet DEF filepread
  <2>7. CASE Crash
    BY <2>7 DEF Crash
  <2>8. CASE UNCHANGED blockVars
    BY <2>8 DEF blockVars
  <2> QED
    BY <2>1, <2>2, <2>3, <2>4, <2>5, <2>6, <2>7, <2>8 DEF Next
<1> QED
  BY <1>1, <1>2, BlocksInductive, PTL DEF Spec

-----------------------------------------------------------------------------
(* No block is lost.  An open inode is as on the disk, or a pwrite that    *)
(* filled a gap owes the file its first chunk.                             *)
OwesIn(c, f, size) ==
  /\ c # NULL /\ c.f = f /\ c.off >= size
  /\ c.pc = "catchup" \/ (c.pc = "pwrite" /\ c.i = 0)

Owes(p, f) == OwesIn(call[p], f, inode[f].size)

SyncedFile(f) == inode[f] # NULL =>
  inode[f].addrs = disk.dino[f].addrs \/ \E p \in Procs : Owes(p, f)

ShapeOf(c) ==
  /\ c.pc # "write" => c.n # 0
  /\ c.pc = "catchup" => c.i = 0 /\ c.cur * BSIZE <= c.off
CallShape == \A p \in Procs : call[p] # NULL => ShapeOf(call[p])

AllOwned(s) == \E d, at : Labels(s, d, at) /\ \A b \in s.used \ {0} : Owned(s, d, b)

LeakInv ==
  /\ crashes \in Nat /\ CallShape /\ \A f \in Files : SyncedFile(f)
  /\ crashes = 0 => AllOwned(Sys)

(* A pwrite that is too far would need nearly the whole largest file, all  *)
(* of it filled by its catchupoffset.                                      *)
LEMMA PwriteFits ==
  ASSUME BlocksIndInv, NEW p \in Procs, call[p] # NULL, call[p].pc = "pwrite", call[p].i < call[p].n
  PROVE  ~TooFar(call[p].off, ChunkLen(call[p]))
<1> SUFFICES ASSUME TooFar(call[p].off, ChunkLen(call[p])) PROVE FALSE
  OBVIOUS
<1> DEFINE c == call[p]
           f == c.f
           n == ChunkLen(c)
           pos == c.off
           M == MAXFILE * BSIZE
           C == NINDIRECT * BSIZE
<1>1. TypeOK /\ SysOK
  BY DEF BlocksIndInv
<1>2. c \in Calls /\ CallOK(c) /\ c.i < c.n /\ c.i \in Nat /\ c.n \in Nat /\ f \in Files /\ pos \in Nat
  BY <1>1, CallIs, TypeIs DEF BlocksIndInv, CallsOK
<1>3. There(Sys, f, pos) /\ pos < UINT /\ c.n < UINT
  BY <1>2 DEF CallOK, CallIn
<1>4. n \in Nat \ {0} /\ n <= C
  <2> DEFINE k == (MAXOPBLOCKS - 1 - 1 - 2) \div 2
  <2>1. k \in Nat /\ k <= NINDIRECT
    BY BlocksAssumption
  <2>2. MaxChunk = k * BSIZE
    BY DEF MaxChunk
  <2> HIDE DEF k
  <2>3. k * BSIZE <= NINDIRECT * BSIZE /\ k * BSIZE \in Nat
    <3>1. NINDIRECT - k \in Nat
      BY <2>1
    <3>2. (NINDIRECT - k) * BSIZE \in Nat
      BY <3>1
    <3> QED
      BY <2>1, <3>2
  <2>4. n \in Nat \ {0}
    BY <1>2, ChunkIs
  <2>5. n = IF c.n - c.i <= MaxChunk THEN c.n - c.i ELSE MaxChunk
    BY <1>2, <2>2, <2>3, MinOfTwo DEF ChunkLen
  <2> HIDE DEF n, C, c
  <2>6. n <= MaxChunk
    BY <1>2, <2>2, <2>3, <2>5
  <2> QED
    BY <2>2, <2>3, <2>4, <2>6 DEF C
<1>5. M \in Nat /\ M < UINT /\ UINT \in Nat \ {0} /\ C \in Nat /\ TooFar(pos, n)
  BY Lengths
<1>6. pos + n > M
  <2> SUFFICES ASSUME pos + n <= M PROVE FALSE
    BY <1>2, <1>4, <1>5
  <2>1. (pos + n) % UINT = pos + n
    BY <1>2, <1>4, <1>5, ModIs
  <2>2. (pos + n) % UINT < pos \/ (pos + n) % UINT > M
    BY <1>5 DEF TooFar
  <2> HIDE DEF M, n, pos
  <2> QED
    BY <1>2, <1>4, <1>5, <2>1, <2>2
<1>7. Nearly(Sys, f)
  <2> SUFFICES ASSUME NEW bn \in Nat, bn < MAXFILE, bn + NINDIRECT <= MAXFILE
               PROVE  Present(Sys, f, bn)
    BY DEF Nearly
  <2> DEFINE B == bn * BSIZE
  <2>1. B + C <= M /\ B \in Nat
    <3>1. MAXFILE - (bn + NINDIRECT) \in Nat
      OBVIOUS
    <3>2. (MAXFILE - (bn + NINDIRECT)) * BSIZE \in Nat
      BY <3>1
    <3>3. (MAXFILE - (bn + NINDIRECT)) * BSIZE = MAXFILE * BSIZE - (bn * BSIZE + NINDIRECT * BSIZE)
      OBVIOUS
    <3>4. bn * BSIZE \in Nat
      OBVIOUS
    <3> QED
      BY <1>5, <3>2, <3>3, <3>4
  <2> HIDE DEF B, C, M, n, pos
  <2>2. B < pos
    BY <1>2, <1>4, <1>5, <1>6, <2>1
  <2> QED
    BY <1>3, <2>2 DEF There, B
<1>8. PICK d, at : Labels(Sys, d, at)
  BY <1>1 DEF SysOK, Labelled
<1>9. Sys.used \subseteq BlockNos
  BY <1>1, SysImage DEF Images
<1> QED
  BY <1>2, <1>7, <1>8, <1>9, TreeTooLarge

(* A step that leaves the disk and the inodes alone.                       *)
LEMMA LeakUnchanged ==
  ASSUME LeakInv, UNCHANGED <<disk, inode, crashes>>,
         \A p \in Procs : call'[p] # NULL /\ call'[p] # call[p] => ShapeOf(call'[p]),
         \A p \in Procs, f \in Files : inode[f] # NULL /\ Owes(p, f) => call'[p] = call[p]
  PROVE  LeakInv'
<1>1. Sys' = Sys
  BY DEF Sys, Current
<1>2. (crashes = 0 => AllOwned(Sys))'
  BY <1>1 DEF LeakInv, AllOwned
<1>3. CallShape'
  BY DEF LeakInv, CallShape, ShapeOf
<1>4. ASSUME NEW f \in Files
      PROVE  SyncedFile(f)'
  BY DEF LeakInv, SyncedFile, Owes, OwesIn
<1> QED
  BY <1>2, <1>3, <1>4 DEF LeakInv

LEMMA LeakSame ==
  ASSUME LeakInv, UNCHANGED <<disk, inode, crashes, call>>
  PROVE  LeakInv'
BY LeakUnchanged

LEMMA LeakOpen ==
  ASSUME BlocksIndInv, LeakInv, NEW f \in Files, Open(f)
  PROVE  LeakInv'
<1>1. /\ inode[f] = NULL /\ inode' = [inode EXCEPT ![f] = disk.dino[f]]
      /\ disk' = disk /\ call' = call /\ crashes' = crashes
  BY DEF Open
<1>2. \A g \in Files : inode'[g] = IF g = f THEN disk.dino[f] ELSE inode[g]
  BY <1>1, TypeIs DEF BlocksIndInv
<1>3. Sys' = Sys
  <2>1. \A g \in Files : Current(g)' = Current(g)
    BY <1>1, <1>2 DEF Current
  <2> QED
    BY <1>1, <2>1 DEF Sys
<1>4. ASSUME NEW g \in Files
      PROVE  SyncedFile(g)'
  <2>1. CASE g = f
    BY <1>1, <1>2, <2>1 DEF SyncedFile
  <2>2. CASE g # f
    BY <1>1, <1>2, <2>2 DEF LeakInv, SyncedFile, Owes, OwesIn
  <2> QED
    BY <2>1, <2>2
<1>5. CallShape'
  BY <1>1 DEF LeakInv, CallShape, ShapeOf
<1>6. (crashes = 0 => AllOwned(Sys))'
  BY <1>1, <1>3 DEF LeakInv, AllOwned
<1> QED
  BY <1>1, <1>4, <1>5, <1>6 DEF LeakInv

(* Nobody writes to a file that is closed, so nobody owes it anything.     *)
LEMMA LeakClose ==
  ASSUME BlocksIndInv, LeakInv, NEW f \in Files, NEW nlink, Close(f, nlink)
  PROVE  LeakInv'
<1>1. inode[f] # NULL /\ ~InUse(f)
  BY DEF Close
<1>2. CASE UNCHANGED <<disk, inode, crashes, call>>
  BY <1>2, LeakSame
<1>3. CASE /\ Left(f) /\ call' = call /\ crashes' = crashes
  <2>1. inode[f].addrs = disk.dino[f].addrs
    BY <1>1 DEF LeakInv, SyncedFile, Owes, OwesIn, InUse
  <2>2. (crashes = 0 => AllOwned(Sys))'
    <3> SUFFICES ASSUME crashes = 0 PROVE AllOwned(Sys')
      BY <1>3 DEF AllOwned
    <3>1. PICK d, at : Labels(Sys, d, at) /\ \A b \in Sys.used \ {0} : Owned(Sys, d, b)
      BY DEF LeakInv, AllOwned
    <3>2. Labels(Sys', d, at) /\ \A b \in Sys'.used \ {0} : Owned(Sys, d, b) => Owned(Sys', d, b)
      BY <1>1, <1>3, <2>1, <3>1, LeftLabels
    <3>3. Sys'.used \subseteq Sys.used
      <4>1. Sys'.used = disk'.used
        BY DEF Sys
      <4> QED
        BY <1>1, <1>3, <4>1, LeftIs, SysIs
    <3> QED
      BY <3>1, <3>2, <3>3 DEF AllOwned
  <2>3. /\ \A g \in Files : inode'[g] = IF g = f THEN NULL ELSE inode[g]
        /\ \A g \in Files : g # f => disk'.dino[g] = disk.dino[g]
    BY <1>1, <1>3, LeftIs
  <2>4. ASSUME NEW g \in Files
        PROVE  SyncedFile(g)'
    BY <1>3, <2>3 DEF LeakInv, SyncedFile, Owes, OwesIn
  <2>5. CallShape'
    BY <1>3 DEF LeakInv, CallShape, ShapeOf
  <2> QED
    BY <1>3, <2>2, <2>4, <2>5 DEF LeakInv
<1>4. CASE ~(UNCHANGED <<disk, inode, crashes, call>>)
  <2> DEFINE t == itrunc(Txn(f))
  <2>1. ~(nlink = 0 /\ t.panic # "none")
    BY <1>4, Zenon DEF Close, Panic
  <2>2. /\ IF nlink = 0 THEN EndOp(NULL, Truncated(t, f)) ELSE EndOp(NULL, disk)
        /\ inode' = [inode EXCEPT ![f] = NULL] /\ crashes' = crashes /\ call' = call
    BY <2>1, Zenon DEF Close
  <2>3. Left(f)
    BY <1>1, <2>2, CloseLeaves
  <2> QED
    BY <1>3, <2>2, <2>3
<1> QED
  BY <1>2, <1>4

LEMMA LeakCalled ==
  ASSUME LeakInv, NEW p \in Procs, NEW c \in Calls, Called(p, c), ShapeOf(c), TypeOK
  PROVE  LeakInv'
<1>1. /\ UNCHANGED <<disk, inode, crashes>> /\ call[p] = NULL
      /\ call' = [call EXCEPT ![p] = c]
  BY DEF Called
<1>2. \A q \in Procs : call'[q] = IF q = p THEN c ELSE call[q]
  BY <1>1, TypeIs
<1>3. \A q \in Procs, f \in Files : Owes(q, f) => q # p
  BY <1>1 DEF Owes, OwesIn
<1> QED
  BY <1>1, <1>2, <1>3, LeakUnchanged

LEMMA LeakFilewrite ==
  ASSUME BlocksIndInv, LeakInv, NEW p \in Procs, NEW f \in Files, NEW n \in WriteLens, filewrite(p, f, n)
  PROVE  LeakInv'
<1> DEFINE c == [pc |-> "write", f |-> f, n |-> n, i |-> 0, off |-> 0, cur |-> 0]
<1>1. n \in Nat
  BY Lengths
<1>2. c \in Calls /\ ShapeOf(c)
  BY <1>1 DEF Calls, ShapeOf
<1>3. Called(p, c) /\ TypeOK
  BY DEF filewrite, BlocksIndInv
<1> QED
  BY <1>2, <1>3, LeakCalled

LEMMA LeakFilepwrite ==
  ASSUME BlocksIndInv, LeakInv, NEW p \in Procs, NEW f \in Files, NEW n \in PwriteLens, NEW o \in Offsets,
         n # 0, filepwrite(p, f, n, o)
  PROVE  LeakInv'
<1> DEFINE pc == IF HasGap(f, o) THEN "catchup" ELSE "pwrite"
           cur == inode[f].size \div BSIZE
           c == [pc |-> pc, f |-> f, n |-> n, i |-> 0, off |-> o, cur |-> cur]
<1>1. n \in Nat /\ n # 0 /\ o \in Nat
  BY Lengths
<1>2. inode[f] # NULL /\ inode[f].size \in Nat
  BY TypeIs, InodeIs DEF filepwrite, BlocksIndInv
<1>3. cur \in Nat /\ cur * BSIZE <= inode[f].size
  <2> DEFINE x == inode[f].size
  <2>1. x \in Nat
    BY <1>2
  <2> HIDE DEF x
  <2>2. x \div BSIZE \in Nat /\ (x \div BSIZE) * BSIZE <= x
    BY <2>1, QuotientTimes
  <2> QED
    BY <2>2 DEF x
<1>4. pc \in {"catchup", "pwrite"} /\ (pc = "catchup" => o > inode[f].size)
  BY DEF HasGap
<1>5. Called(p, c) /\ TypeOK
  BY Zenon DEF filepwrite, BlocksIndInv
<1> HIDE DEF pc, cur
<1>6. c \in Calls
  BY <1>1, <1>3, <1>4 DEF Calls
<1>7. cur * BSIZE \in Nat
  BY <1>3
<1>8. ShapeOf(c)
  BY <1>1, <1>2, <1>3, <1>4, <1>7 DEF ShapeOf
<1> QED
  BY <1>5, <1>6, <1>8, LeakCalled

(* The step ends a call that owes nothing.                                 *)
LEMMA LeakReturn ==
  ASSUME BlocksIndInv, LeakInv, NEW p \in Procs, Return(p), \A f \in Files : ~Owes(p, f)
  PROVE  LeakInv'
<1>1. call' = [call EXCEPT ![p] = NULL] /\ UNCHANGED <<disk, inode, crashes>> /\ TypeOK
  BY DEF Return, BlocksIndInv
<1>2. \A q \in Procs : call'[q] = IF q = p THEN NULL ELSE call[q]
  BY <1>1, TypeIs
<1> QED
  BY <1>1, <1>2, LeakUnchanged

LEMMA LeakDone ==
  ASSUME BlocksIndInv, LeakInv, NEW p \in Procs, Done(p)
  PROVE  LeakInv'
<1>1. call[p] # NULL /\ call[p].pc # "catchup" /\ call[p].i = call[p].n /\ Return(p)
  BY DEF Done
<1>2. call[p].pc = "write" \/ call[p].i # 0
  BY <1>1 DEF LeakInv, CallShape, ShapeOf
<1>3. \A f \in Files : ~Owes(p, f)
  BY <1>1, <1>2 DEF Owes, OwesIn
<1> QED
  BY <1>1, <1>3, LeakReturn

(* A transaction that adds to the tree of file f, and perhaps to its size. *)
LEMMA LeakGrew ==
  ASSUME BlocksIndInv, LeakInv, NEW f \in Files, inode[f] # NULL, NEW t \in Txns, t.panic = "none",
         NEW bns, \A d, at : Labels(Sys, d, at) => Grown(Txn(f), d, t, f, Sys.A, bns),
         NEW sz \in Nat, Grew(f, t, sz), crashes' = crashes
  PROVE  (crashes = 0 => AllOwned(Sys))'
<1> SUFFICES ASSUME crashes = 0 PROVE AllOwned(Sys')
  BY DEF AllOwned
<1>1. TypeOK
  BY DEF BlocksIndInv
<1>2. PICK d, at : Labels(Sys, d, at) /\ \A b \in Sys.used \ {0} : Owned(Sys, d, b)
  BY DEF LeakInv, AllOwned
<1>3. Grown(Txn(f), d, t, f, Sys.A, bns) /\ Img(Txn(f), f, Sys.A) = Sys
  BY <1>1, <1>2, TxnIs
<1>4. Sys' = Img(t, f, Sys.A)
  BY <1>1, GrewIs
<1>5. PICK e, to : Labels(Sys', e, to) /\ Keeps(Sys, d, Sys', e)
  BY <1>3, <1>4 DEF Grown
<1>6. \A b \in Sys'.used \ {0} : Owned(Sys', e, b)
  BY <1>2, <1>5, OwnedKept DEF Keeps
<1> QED
  BY <1>5, <1>6 DEF AllOwned

(* Such a step of call p leaves the inode on the disk as good as the one   *)
(* in the cache, or p owes the file, or the step has added nothing.        *)
LEMMA SyncedGrew ==
  ASSUME BlocksIndInv, LeakInv, NEW f \in Files, inode[f] # NULL, NEW t \in Txns, NEW sz \in Nat,
         Grew(f, t, sz), NEW p \in Procs, call[p] # NULL, call[p].f = f,
         \A q \in Procs : q # p => call'[q] = call[q],
         \/ disk'.dino[f].addrs = t.addrs
         \/ OwesIn(call'[p], f, sz)
         \/ t.addrs = inode[f].addrs /\ sz = inode[f].size /\ ~Owes(p, f)
  PROVE  \A g \in Files : SyncedFile(g)'
<1>1. TypeOK
  BY DEF BlocksIndInv
<1>2. /\ inode'[f].addrs = t.addrs /\ inode'[f].size = sz
      /\ \A g \in Files : (inode'[g] = NULL) = (inode[g] = NULL) /\ (g # f => inode'[g] = inode[g])
      /\ \A g \in Files : g # f => disk'.dino[g] = disk.dino[g]
      /\ disk'.dino[f] = disk.dino[f] \/ disk'.dino[f].addrs = t.addrs
  BY <1>1, GrewIs
<1>3. ASSUME NEW g \in Files, g # f
      PROVE  SyncedFile(g)'
  <2>1. SyncedFile(g) /\ inode'[g] = inode[g] /\ disk'.dino[g] = disk.dino[g]
    BY <1>2, <1>3 DEF LeakInv
  <2>2. \A q \in Procs : Owes(q, g) => Owes(q, g)'
    <3> SUFFICES ASSUME NEW q \in Procs, Owes(q, g) PROVE Owes(q, g)'
      OBVIOUS
    <3>1. q # p
      BY <1>3 DEF Owes, OwesIn
    <3> QED
      BY <2>1, <3>1 DEF Owes, OwesIn
  <2> QED
    BY <2>1, <2>2 DEF SyncedFile
<1>4. CASE disk'.dino[f].addrs = t.addrs
  BY <1>2, <1>3, <1>4 DEF SyncedFile
<1>5. CASE OwesIn(call'[p], f, sz)
  <2>1. Owes(p, f)'
    BY <1>2, <1>5 DEF Owes
  <2> QED
    BY <1>3, <2>1 DEF SyncedFile
<1>6. CASE /\ disk'.dino[f] = disk.dino[f]
           /\ t.addrs = inode[f].addrs /\ sz = inode[f].size /\ ~Owes(p, f)
  <2>1. \A q \in Procs : Owes(q, f) => Owes(q, f)'
    <3> SUFFICES ASSUME NEW q \in Procs, Owes(q, f) PROVE Owes(q, f)'
      OBVIOUS
    <3>1. q # p /\ call'[q] = call[q]
      BY <1>6
    <3> QED
      BY <1>2, <1>6, <3>1 DEF Owes
  <2>2. SyncedFile(f)
    BY DEF LeakInv
  <2>3. SyncedFile(f)'
    BY <1>2, <1>6, <2>1, <2>2 DEF SyncedFile
  <2> QED
    BY <1>3, <2>3
<1> QED
  BY <1>2, <1>4, <1>5, <1>6

LEMMA LeakCatchup ==
  ASSUME BlocksIndInv, LeakInv, NEW p \in Procs, catchupoffset(p)
  PROVE  LeakInv'
<1> DEFINE c == call[p]
           f == c.f
           v == Txn(f)
           t == bmap(v, c.cur)
           x == c.off \div BSIZE
           pc == IF c.cur + 1 > x THEN "pwrite" ELSE "catchup"
           k == [c EXCEPT !.cur = c.cur + 1, !.pc = pc]
<1>1. c # NULL /\ c.pc = "catchup" /\ TypeOK /\ SysOK
  BY DEF catchupoffset, BlocksIndInv
<1>2. c \in Calls /\ f \in Files /\ c.cur \in Nat /\ c.off \in Nat
  BY <1>1, CallIs, TypeIs
<1>3. c.n # 0 /\ c.i = 0 /\ c.cur * BSIZE <= c.off
  BY <1>1 DEF LeakInv, CallShape, ShapeOf
<1>4. CASE t.panic # "none"
  <2>1. UNCHANGED <<disk, inode, crashes, call>>
    BY <1>4, Zenon DEF catchupoffset, Panic
  <2> QED
    BY <2>1, LeakSame
<1>5. CASE t.panic = "none"
  <2>1. /\ inode[f] # NULL /\ inode[f] \in Inodes /\ c.cur < MAXFILE /\ Grew(f, t, inode[f].size)
        /\ k \in Calls /\ k.pc = pc /\ k.f = f /\ k.cur = c.cur + 1 /\ k.off = c.off
        /\ k.n = c.n /\ k.i = c.i
        /\ call' = [call EXCEPT ![p] = k] /\ crashes' = crashes
    BY <1>5, CatchupIs
  <2> DEFINE size == inode[f].size
  <2>2. size \in Nat
    BY <2>1, InodeIs
  <2>3. \A d, at : Labels(Sys, d, at) => Grown(v, d, t, f, Sys.A, {c.cur})
    BY <1>1, <2>1, CatchupGrows
  <2>4. Img(v, f, Sys.A) = Sys /\ v.addrs = inode[f].addrs
    <3>1. v.addrs = inode[f].addrs
      BY DEF Txn
    <3> QED
      BY <1>1, <1>2, <2>1, <3>1, TxnIs
  <2> HIDE DEF t, v
  <2>5. t \in Txns /\ SameAddrs(v, t, f, Sys.A, {c.cur})
    <3>1. PICK d, at : Labels(Sys, d, at)
      BY <1>1 DEF SysOK, Labelled
    <3> QED
      BY <1>5, <2>3, <3>1 DEF Grown
  <2>6. (crashes = 0 => AllOwned(Sys))'
    BY <1>2, <1>5, <2>1, <2>2, <2>3, <2>5, LeakGrew DEF v
  <2>7. \/ OwesIn(k, f, size)
        \/ t.addrs = inode[f].addrs /\ ~Owes(p, f)
    <3>1. CASE c.off >= size
      <4>1. k # NULL
        BY <2>1, NullAssumption
      <4>2. pc \in {"pwrite", "catchup"}
        OBVIOUS
      <4> HIDE DEF k, c, pc
      <4> QED
        BY <1>3, <2>1, <3>1, <4>1, <4>2 DEF OwesIn
    <3>2. CASE ~(c.off >= size)
      <4>1. c.cur * BSIZE \in Nat
        BY <1>2
      <4>2. c.cur * BSIZE < size
        <5> DEFINE y == c.cur * BSIZE
        <5>1. y \in Nat /\ y <= c.off
          BY <1>3, <4>1
        <5> HIDE DEF y, c, size
        <5>2. y < size
          BY <1>2, <2>2, <3>2, <5>1
        <5> QED
          BY <5>2 DEF y
      <4>3. There(Sys, f, size)
        BY <1>1, <1>2, <2>1 DEF SysOK, Sized, Current
      <4>4. Present(Sys, f, c.cur)
        BY <1>2, <2>1, <4>2, <4>3 DEF There
      <4>5. t.addrs = inode[f].addrs
        BY <2>4, <2>5, <4>4 DEF SameAddrs
      <4> QED
        BY <3>2, <4>5 DEF Owes, OwesIn
    <3> QED
      BY <3>1, <3>2
  <2> HIDE DEF k
  <2>8. \A q \in Procs : call'[q] = IF q = p THEN k ELSE call[q]
    BY <1>1, <2>1, TypeIs
  <2>9. \A g \in Files : SyncedFile(g)'
    <3>1. OwesIn(call'[p], f, size) \/ (t.addrs = inode[f].addrs /\ ~Owes(p, f))
      BY <2>7, <2>8
    <3>2. call[p] # NULL /\ call[p].f = f /\ \A q \in Procs : q # p => call'[q] = call[q]
      BY <1>1, <2>8
    <3> HIDE DEF c, f
    <3> QED
      BY <1>2, <2>1, <2>2, <2>5, <3>1, <3>2, SyncedGrew
  <2>10. ShapeOf(k)
    <3>1. k.pc = "catchup" => k.cur * BSIZE <= k.off
      <4> SUFFICES ASSUME k.pc = "catchup" PROVE (c.cur + 1) * BSIZE <= c.off
        BY <2>1
      <4>1. x \in Nat /\ x * BSIZE <= c.off
        BY <1>2, QuotientTimes
      <4>2. c.cur + 1 <= x
        <5> HIDE DEF x
        <5>1. ~(c.cur + 1 > x)
          BY <2>1
        <5> QED
          BY <1>2, <4>1, <5>1
      <4> DEFINE m == c.cur + 1
                 a == m * BSIZE
                 b == x * BSIZE
      <4>3. m \in Nat
        BY <1>2
      <4> HIDE DEF m, x
      <4>4. a <= b /\ a \in Nat /\ b \in Nat
        <5>1. x - m \in Nat
          BY <4>1, <4>2, <4>3 DEF m
        <5>2. (x - m) * BSIZE \in Nat
          BY <5>1
        <5> QED
          BY <4>1, <4>3, <5>2
      <4>5. a <= c.off
        <5> HIDE DEF a, c
        <5>1. b <= c.off
          BY <4>1
        <5> HIDE DEF b
        <5> QED
          BY <1>2, <4>4, <5>1
      <4> QED
        BY <4>5 DEF m
    <3> QED
      BY <1>3, <2>1, <3>1 DEF ShapeOf
  <2>11. CallShape'
    BY <2>8, <2>10 DEF LeakInv, CallShape, ShapeOf
  <2> QED
    BY <2>1, <2>6, <2>9, <2>11 DEF LeakInv
<1> QED
  BY <1>4, <1>5

(* After iupdate the inode on the disk is the one in the cache.            *)
LEMMA UpdatedIs ==
  ASSUME disk \in Disks, NEW f \in Files, NEW t \in Txns, NEW ip, disk' = iupdate(t, f, ip)
  PROVE  disk'.dino[f] = ip
<1> DEFINE x == [disk EXCEPT !.used = t.used, !.blk = t.blk]
           y == [x EXCEPT !.dino[f] = ip]
<1>1. disk' = y
  BY DEF iupdate, WithBlocks
<1>2. t.used \in SUBSET BlockNos /\ t.blk \in [BlockNos -> Rows]
  BY DEF Txns
<1>3. x \in Disks /\ x.used = t.used /\ x.blk = t.blk /\ x.dino = disk.dino
  BY <1>2 DEF Disks
<1> HIDE DEF x
<1>4. y = [used |-> t.used, blk |-> t.blk, dino |-> [disk.dino EXCEPT ![f] = ip]]
  BY <1>3 DEF Disks
<1>5. disk.dino \in [Files -> Inodes]
  BY DEF Disks
<1>6. y.dino = [disk.dino EXCEPT ![f] = ip]
  BY <1>4
<1> HIDE DEF y
<1> QED
  BY <1>1, <1>5, <1>6

LEMMA LeakWritten ==
  ASSUME BlocksIndInv, LeakInv, NEW p \in Procs, call[p] # NULL, call[p].i < call[p].n, NEW pos \in Nat,
         pos < UINT, ~TooFar(pos, ChunkLen(call[p])),
         CopyIn(Txn(call[p].f), pos, ChunkData(call[p])).panic = "none",
         Written(p, pos, CopyIn(Txn(call[p].f), pos, ChunkData(call[p]))),
         call[p].pc # "catchup", call[p].pc = "pwrite" => call[p].off = pos
  PROVE  LeakInv'
<1> DEFINE c == call[p]
           f == c.f
           n == ChunkLen(c)
           v == Txn(f)
           t == CopyIn(v, pos, ChunkData(c))
           end == pos + n
           size == inode[f].size
           sz == Max({end, size})
           k == [c EXCEPT !.i = c.i + n]
<1>1. TypeOK /\ SysOK
  BY DEF BlocksIndInv
<1>2. /\ f \in Files /\ inode[f] # NULL /\ size \in Nat /\ n \in Nat \ {0} /\ t \in Txns
      /\ \A d, at : Labels(Sys, d, at) => Grown(v, d, t, f, Sys.A, Covered(pos, n))
      /\ Grew(f, t, sz) /\ sz \in Nat /\ end <= MAXFILE * BSIZE /\ t.panic = "none"
      /\ end > size => disk' = iupdate(t, f, [size |-> sz, addrs |-> t.addrs])
      /\ k \in Calls /\ k.pc = c.pc /\ k.n = c.n
      /\ call' = [call EXCEPT ![p] = k] /\ crashes' = crashes
  BY WrittenIs
<1>3. Img(v, f, Sys.A) = Sys /\ v.addrs = inode[f].addrs
  <2>1. v.addrs = inode[f].addrs
    BY DEF Txn
  <2> QED
    BY <1>1, <1>2, <2>1, TxnIs
<1> HIDE DEF t, v, k
<1>4. SameAddrs(v, t, f, Sys.A, Covered(pos, n))
  <2>1. PICK d, at : Labels(Sys, d, at)
    BY <1>1 DEF SysOK, Labelled
  <2> QED
    BY <1>2, <2>1 DEF Grown
<1>5. (crashes = 0 => AllOwned(Sys))'
  <2> HIDE DEF sz
  <2> QED
    BY <1>2, LeakGrew DEF v
<1>6. disk'.dino[f].addrs = t.addrs \/ (t.addrs = inode[f].addrs /\ sz = size /\ ~Owes(p, f))
  <2>1. CASE end > size
    <3> DEFINE ip == [size |-> sz, addrs |-> t.addrs]
    <3>1. ip.addrs = t.addrs /\ disk' = iupdate(t, f, ip) /\ disk \in Disks
      BY <1>1, <1>2, <2>1, TypeIs
    <3> HIDE DEF ip
    <3>2. disk'.dino[f] = ip
      BY <1>2, <3>1, UpdatedIs
    <3> QED
      BY <3>1, <3>2
  <2>2. CASE ~(end > size)
    <3>1. end \in Nat /\ end <= size
      BY <1>2, <2>2
    <3>2. sz = size
      <4>1. Max({end, size}) = IF end >= size THEN end ELSE size
        BY <1>2, <3>1, MaxOfTwo
      <4> HIDE DEF end, size
      <4> QED
        BY <1>2, <3>1, <4>1
    <3>3. \A bn \in Covered(pos, n) : Present(Sys, f, bn)
      <4>1. There(Sys, f, size)
        BY <1>1, <1>2 DEF SysOK, Sized, Current
      <4> SUFFICES ASSUME NEW j \in 0 .. (n - 1) PROVE Present(Sys, f, (pos + j) \div BSIZE)
        BY DEF Covered
      <4> DEFINE x == pos + j
      <4>2. x \div BSIZE \in Nat /\ x \div BSIZE < MAXFILE
        BY <1>2, CoveredIs
      <4>3. x \in Nat /\ x < end
        BY <1>2
      <4> HIDE DEF x
      <4>4. x \div BSIZE \in Nat /\ (x \div BSIZE) * BSIZE <= x
        BY <4>3, QuotientTimes
      <4> DEFINE y == (x \div BSIZE) * BSIZE
      <4>5. y \in Nat /\ y <= x
        BY <4>4
      <4> HIDE DEF y, end, size
      <4>6. y < size
        BY <1>2, <3>1, <4>3, <4>5
      <4> QED
        BY <4>1, <4>2, <4>6 DEF There, x, y
    <3>4. t.addrs = inode[f].addrs
      BY <1>3, <1>4, <3>3 DEF SameAddrs
    <3>5. ~Owes(p, f)
      <4> SUFFICES ASSUME Owes(p, f) PROVE FALSE
        OBVIOUS
      <4>1. c.off = pos /\ c.off >= size
        BY DEF Owes, OwesIn
      <4> HIDE DEF c, f, size, n
      <4> QED
        BY <1>2, <3>1, <4>1
    <3> QED
      BY <3>2, <3>4, <3>5
  <2> QED
    BY <2>1, <2>2
<1>7. \A q \in Procs : call'[q] = IF q = p THEN k ELSE call[q]
  BY <1>1, <1>2, TypeIs
<1>8. \A g \in Files : SyncedFile(g)'
  <2>1. call[p] # NULL /\ call[p].f = f /\ \A q \in Procs : q # p => call'[q] = call[q]
    BY <1>7
  <2> HIDE DEF sz
  <2> HIDE DEF c, f
  <2> QED
    BY <1>2, <1>6, <2>1, SyncedGrew
<1>9. CallShape'
  BY <1>2, <1>7 DEF LeakInv, CallShape, ShapeOf
<1> QED
  BY <1>2, <1>5, <1>8, <1>9 DEF LeakInv

LEMMA LeakWritei ==
  ASSUME BlocksIndInv, LeakInv, NEW p \in Procs, writei(p)
  PROVE  LeakInv'
<1> DEFINE c == call[p]
           pos == off[c.f]
           t == CopyIn(Txn(c.f), pos, ChunkData(c))
           bad == pos > inode[c.f].size \/ TooFar(pos, ChunkLen(c))
<1>1. c # NULL /\ c.pc = "write" /\ c.i < c.n /\ TypeOK /\ SysOK
  BY DEF writei, BlocksIndInv
<1>2. /\ bad => Return(p)
      /\ ~bad /\ t.panic # "none" => Panic(t.panic)
      /\ ~bad /\ t.panic = "none" => Written(p, pos, t)
  <2> HIDE DEF t
  <2>1. t = CopyIn(Txn(c.f), pos, ChunkData(c))
    BY DEF t
  <2> QED
    BY <2>1, Zenon DEF writei
<1>3. c \in Calls /\ CallOK(c) /\ c.f \in Files
  BY <1>1, CallIs, TypeIs DEF BlocksIndInv, CallsOK
<1>4. pos \in Nat /\ inode[c.f] # NULL /\ inode[c.f].size \in Nat
  BY <1>1, <1>3, InodeIs, TypeIs DEF CallOK, CallIn
<1>5. CASE bad
  <2>1. \A f \in Files : ~Owes(p, f)
    BY <1>1 DEF Owes, OwesIn
  <2> QED
    BY <1>2, <1>5, <2>1, LeakReturn
<1>6. CASE ~bad /\ t.panic # "none"
  <2>1. UNCHANGED <<disk, inode, crashes, call>>
    BY <1>2, <1>6, Zenon DEF Panic
  <2> QED
    BY <2>1, LeakSame
<1>7. CASE ~bad /\ t.panic = "none"
  <2>1. pos <= inode[c.f].size /\ ~TooFar(pos, ChunkLen(c))
    BY <1>4, <1>7
  <2>2. pos < UINT
    <3>1. inode[c.f].size <= MAXFILE * BSIZE
      BY <1>1, <1>3, <1>4 DEF SysOK, Sized, Current
    <3> DEFINE M == MAXFILE * BSIZE
    <3>2. M \in Nat /\ M < UINT /\ UINT \in Nat
      BY Lengths
    <3> HIDE DEF M, c
    <3> QED
      BY <1>4, <2>1, <3>1, <3>2 DEF M
  <2>3. Written(p, pos, t)
    BY <1>2, <1>7
  <2> QED
    BY <1>1, <1>4, <1>7, <2>1, <2>2, <2>3, LeakWritten
<1> QED
  BY <1>5, <1>6, <1>7

LEMMA LeakPwritei ==
  ASSUME BlocksIndInv, LeakInv, NEW p \in Procs, pwritei(p)
  PROVE  LeakInv'
<1> DEFINE c == call[p]
           pos == c.off
           t == CopyIn(Txn(c.f), pos, ChunkData(c))
<1>1. c # NULL /\ c.pc = "pwrite" /\ c.i < c.n /\ TypeOK
  BY DEF pwritei, BlocksIndInv
<1>2. ~TooFar(pos, ChunkLen(c))
  BY <1>1, PwriteFits
<1>3. /\ t.panic # "none" => Panic(t.panic)
      /\ t.panic = "none" => Written(p, pos, t)
  <2> HIDE DEF t
  <2>1. t = CopyIn(Txn(c.f), pos, ChunkData(c))
    BY DEF t
  <2> QED
    BY <1>2, <2>1, Zenon DEF pwritei
<1>4. CASE t.panic # "none"
  <2>1. UNCHANGED <<disk, inode, crashes, call>>
    BY <1>3, <1>4, Zenon DEF Panic
  <2> QED
    BY <2>1, LeakSame
<1>5. CASE t.panic = "none"
  <2>1. c \in Calls /\ CallOK(c) /\ pos \in Nat
    BY <1>1, CallIs, TypeIs DEF BlocksIndInv, CallsOK
  <2>2. pos < UINT
    BY <2>1 DEF CallOK, CallIn
  <2>3. Written(p, pos, t)
    BY <1>3, <1>5
  <2> QED
    BY <1>1, <1>2, <1>5, <2>1, <2>2, <2>3, LeakWritten
<1> QED
  BY <1>4, <1>5

LEMMA LeakReadi ==
  ASSUME LeakInv, NEW f, NEW pos, NEW n, NEW moves, readi(f, pos, n, moves)
  PROVE  LeakInv'
<1>1. UNCHANGED <<disk, inode, crashes, call>>
  BY Zenon DEF readi, Panic
<1> QED
  BY <1>1, LeakSame

LEMMA LeakCrash ==
  ASSUME LeakInv, Crash
  PROVE  LeakInv'
<1>1. /\ inode' = [f \in Files |-> NULL] /\ call' = [p \in Procs |-> NULL]
      /\ crashes' = crashes + 1 /\ crashes \in Nat
  BY DEF Crash, LeakInv
<1>2. CallShape' /\ \A f \in Files : SyncedFile(f)'
  BY <1>1 DEF CallShape, SyncedFile
<1>3. crashes' \in Nat /\ crashes' # 0
  BY <1>1
<1> QED
  BY <1>2, <1>3 DEF LeakInv

LEMMA LeakInit == Init => LeakInv
<1> SUFFICES ASSUME Init PROVE LeakInv
  OBVIOUS
<1>1. /\ inode = [f \in Files |-> NULL] /\ call = [p \in Procs |-> NULL] /\ crashes = 0
      /\ disk.used = {0}
  BY DEF Init
<1>2. PICK d, at : Labels(Sys, d, at)
  BY BlocksInit DEF BlocksIndInv, SysOK, Labelled
<1>3. AllOwned(Sys)
  BY <1>1, <1>2, SysIs DEF AllOwned
<1> QED
  BY <1>1, <1>3 DEF LeakInv, CallShape, SyncedFile

LEMMA LeakNext ==
  ASSUME 0 \notin PwriteLens, BlocksIndInv, LeakInv, [Next]_blockVars
  PROVE  LeakInv'
<1>1. ASSUME NEW f \in Files, Open(f) \/ Close(f, 0) \/ Close(f, 1)
      PROVE  LeakInv'
  BY <1>1, LeakOpen, LeakClose
<1>2. ASSUME NEW p \in Procs, NEW f \in Files, NEW n \in WriteLens, filewrite(p, f, n)
      PROVE  LeakInv'
  BY <1>2, LeakFilewrite
<1>3. ASSUME NEW p \in Procs, NEW f \in Files, NEW n \in PwriteLens, NEW o \in Offsets,
             filepwrite(p, f, n, o)
      PROVE  LeakInv'
  BY <1>3, LeakFilepwrite
<1>4. ASSUME NEW p \in Procs, catchupoffset(p) \/ writei(p) \/ pwritei(p) \/ Done(p)
      PROVE  LeakInv'
  BY <1>4, LeakCatchup, LeakWritei, LeakPwritei, LeakDone
<1>5. ASSUME NEW f \in Files, NEW n \in WriteLens, fileread(f, n)
      PROVE  LeakInv'
  BY <1>5, LeakReadi DEF fileread
<1>6. ASSUME NEW f \in Files, NEW n \in PwriteLens, NEW o \in Offsets, filepread(f, n, o)
      PROVE  LeakInv'
  BY <1>6, LeakReadi DEF filepread
<1>7. CASE Crash
  BY <1>7, LeakCrash
<1>8. CASE UNCHANGED blockVars
  <2>1. UNCHANGED <<disk, inode, crashes, call>>
    BY <1>8 DEF blockVars
  <2> QED
    BY <2>1, LeakSame
<1> QED
  BY <1>1, <1>2, <1>3, <1>4, <1>5, <1>6, <1>7, <1>8 DEF Next

(* When a cell names every used block, the trees are all the used blocks:  *)
(* a block is found from the one above it, which is found from above.      *)
LEMMA TreesAreUsed ==
  ASSUME disk.used \subseteq BlockNos, AllOwned(Sys)
  PROVE  disk.used = {0} \cup Trees
<1> DEFINE B3 == Roots({NDIRECT + 2})
           B2 == Roots({NDIRECT + 1}) \cup Named(Cells(B3))
           B1 == Roots({NDIRECT}) \cup Named(Cells(B2))
           All == Roots(0 .. (NDIRECT + 2))
           U == disk.used \ {0}
<1>1. PICK d, at : Labels(Sys, d, at) /\ \A b \in Sys.used \ {0} : Owned(Sys, d, b)
  BY DEF AllOwned
<1>2. IndirectCells = Cells(B3) \cup Cells(B2) \cup Cells(B1)
  BY DEF IndirectCells
<1>3. Trees = All \cup Named(IndirectCells)
  BY DEF Trees
<1>4. ASSUME NEW b \in U
      PROVE  /\ d[b] \in 0 .. 3
             /\ \/ b \in All /\ \E i \in Roots0 : Depth(i) = d[b] /\ b \in Roots({i})
                \/ \E x \in U : d[x] = d[b] + 1 /\ \A B : x \in B => b \in Named(Cells(B))
  <2>1. Owned(Sys, d, b) /\ d[b] \in 0 .. 3
    BY <1>1, SysIs DEF Labels
  <2>2. CASE \E f \in Files, i \in Roots0 : Sys.A[f][i] = b
    <3>1. PICK f \in Files, i \in Roots0 : Sys.A[f][i] = b
      BY <2>2
    <3>2. Current(f).addrs[i] = b /\ b # 0 /\ d[b] = Depth(i)
      BY <1>1, <3>1, SysIs DEF Labels
    <3> DEFINE c == <<f, i>>
    <3>3. c \in RootCells /\ c[1] = f /\ c[2] = i
      BY <3>2 DEF RootCells, Roots0
    <3> HIDE DEF c
    <3>4. b \in Roots({i}) /\ b \in All
      BY <3>2, <3>3 DEF Roots, Roots0
    <3> QED
      BY <2>1, <3>2, <3>4
  <2>3. CASE \E x \in Sys.used \ {0}, j \in Places : d[x] > 0 /\ Sys.blk[x][j] = b
    <3>1. PICK x \in Sys.used \ {0}, j \in Places : d[x] > 0 /\ Sys.blk[x][j] = b
      BY <2>3
    <3>2. x \in U /\ disk.blk[x][j] = b /\ b # 0 /\ d[b] = d[x] - 1
      BY <1>1, <3>1, SysIs DEF Labels
    <3>3. d[x] \in 0 .. 3
      BY <1>1, <3>2 DEF Labels
    <3>4. d[x] = d[b] + 1
      BY <2>1, <3>2, <3>3
    <3>5. ASSUME NEW B, x \in B
          PROVE  b \in Named(Cells(B))
      <4> DEFINE c == <<x, j>>
      <4>1. c \in Cells(B) /\ c[1] = x /\ c[2] = j
        BY <3>2, <3>5 DEF Cells, Places
      <4> HIDE DEF c
      <4> QED
        BY <3>2, <4>1 DEF Named
    <3> QED
      BY <2>1, <3>2, <3>4, <3>5
  <2> QED
    BY <2>1, <2>2, <2>3 DEF Owned
<1>5. ASSUME NEW i \in Roots0
      PROVE  /\ Depth(i) = 3 => Roots({i}) = Roots({NDIRECT + 2})
             /\ Depth(i) = 2 => Roots({i}) = Roots({NDIRECT + 1})
             /\ Depth(i) = 1 => Roots({i}) = Roots({NDIRECT})
  <2>1. /\ Depth(i) = 3 => i = NDIRECT + 2
        /\ Depth(i) = 2 => i = NDIRECT + 1
        /\ Depth(i) = 1 => i = NDIRECT
    BY DEF Depth, Roots0
  <2> QED
    BY <2>1
<1> HIDE DEF All, U, B1, B2, B3
<1>6. ASSUME NEW b \in U
      PROVE  \/ \E i \in Roots0 : Depth(i) = d[b] /\ b \in Roots({i})
             \/ \E x \in U : /\ d[x] = d[b] + 1 /\ d[x] \in 0 .. 3
                             /\ \A B : x \in B => b \in Named(Cells(B))
  BY <1>4
<1>7. ASSUME NEW b \in U, d[b] = 3
      PROVE  b \in B3
  <2>1. CASE \E i \in Roots0 : Depth(i) = d[b] /\ b \in Roots({i})
    <3>1. PICK i \in Roots0 : Depth(i) = 3 /\ b \in Roots({i})
      BY <1>7, <2>1
    <3> QED
      BY <1>5, <3>1 DEF B3
  <2>2. ASSUME NEW x \in U, d[x] = d[b] + 1, d[x] \in 0 .. 3 PROVE FALSE
    BY <1>7, <2>2
  <2> QED
    BY <1>6, <2>1, <2>2
<1>8. ASSUME NEW b \in U, d[b] = 2
      PROVE  b \in B2
  <2>1. CASE \E i \in Roots0 : Depth(i) = d[b] /\ b \in Roots({i})
    <3>1. PICK i \in Roots0 : Depth(i) = 2 /\ b \in Roots({i})
      BY <1>8, <2>1
    <3> QED
      BY <1>5, <3>1 DEF B2
  <2>2. CASE \E x \in U : d[x] = d[b] + 1 /\ \A B : x \in B => b \in Named(Cells(B))
    <3>1. PICK x \in U : d[x] = 3 /\ \A B : x \in B => b \in Named(Cells(B))
      BY <1>8, <2>2
    <3>2. b \in Named(Cells(B3))
      BY <1>7, <3>1
    <3> QED
      BY <3>2 DEF B2
  <2> QED
    BY <1>6, <2>1, <2>2
<1>9. ASSUME NEW b \in U, d[b] = 1
      PROVE  b \in B1
  <2>1. CASE \E i \in Roots0 : Depth(i) = d[b] /\ b \in Roots({i})
    <3>1. PICK i \in Roots0 : Depth(i) = 1 /\ b \in Roots({i})
      BY <1>9, <2>1
    <3> QED
      BY <1>5, <3>1 DEF B1
  <2>2. CASE \E x \in U : d[x] = d[b] + 1 /\ \A B : x \in B => b \in Named(Cells(B))
    <3>1. PICK x \in U : d[x] = 2 /\ \A B : x \in B => b \in Named(Cells(B))
      BY <1>9, <2>2
    <3>2. b \in Named(Cells(B2))
      BY <1>8, <3>1
    <3> QED
      BY <3>2 DEF B1
  <2> QED
    BY <1>6, <2>1, <2>2
<1>10. \A b \in U : b \in Trees
  <2> SUFFICES ASSUME NEW b \in U, b \notin All PROVE b \in Named(IndirectCells)
    BY <1>3
  <2>1. PICK x \in U : d[x] = d[b] + 1 /\ \A B : x \in B => b \in Named(Cells(B))
    BY <1>4
  <2>2. d[x] \in {1, 2, 3}
    BY <1>4, <2>1
  <2>3. b \in Named(Cells(B3)) \/ b \in Named(Cells(B2)) \/ b \in Named(Cells(B1))
    BY <1>7, <1>8, <1>9, <2>1, <2>2
  <2> QED
    BY <1>2, <2>3 DEF Named
<1>11. Trees \subseteq U /\ 0 \in disk.used
  <2>1. OneOwner
    BY <1>1, OneOwnerIf
  <2>2. Trees \subseteq disk.used \ {0}
    BY <2>1 DEF OneOwner
  <2>3. 0 \in disk.used
    BY <1>1, SysIs DEF Labels
  <2> QED
    BY <2>2, <2>3 DEF U
<1> QED
  BY <1>10, <1>11 DEF U

(* Every block that balloc has marked is in a file as long as the machine  *)
(* has not crashed and no pwrite is of 0 bytes: a catchupoffset that runs  *)
(* without iupdate belongs to a pwrite whose first chunk lies behind the   *)
(* end of the file, fits in the largest file and so writes the inode, and  *)
(* while that pwrite is under way the file stays open; itrunc frees the    *)
(* blocks of all four kinds of the tree (fs.c 435, 485-542, 653-667;       *)
(* file.c 177-216).  A pwrite of 0 bytes has no first chunk, and its       *)
(* blocks are lost (sysfile.c 106-116).                                    *)
THEOREM NothingLost ==
  ASSUME 0 \notin PwriteLens
  PROVE  Spec => []NoLeak
<1>1. BlocksIndInv /\ LeakInv /\ [Next]_blockVars => LeakInv'
  BY LeakNext
<1>2. BlocksIndInv /\ LeakInv => NoLeak
  <2> SUFFICES ASSUME BlocksIndInv, LeakInv, crashes = 0 PROVE disk.used = {0} \cup Trees
    BY DEF NoLeak
  <2>1. disk.used \subseteq BlockNos
    BY TypeIs DEF BlocksIndInv, Disks
  <2>2. AllOwned(Sys)
    BY DEF LeakInv
  <2> QED
    BY <2>1, <2>2, TreesAreUsed
<1> QED
  BY <1>1, <1>2, LeakInit, BlocksInductive, PTL DEF Spec
=============================================================================
