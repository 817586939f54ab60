----------------------------- MODULE FlatProofs -----------------------------
(***************************************************************************)
(* The block trees implement flat files: what programs see of the disk     *)
(* through the inodes (Seen) changes as the bytes of FlatFile do, for any  *)
(* numbers of processes, files and blocks, any block size and any shape of *)
(* the block tree.                                                         *)
(***************************************************************************)
EXTENDS BlocksProofs

USE Shape

-----------------------------------------------------------------------------
(* The bytes of a file.  First, a path that ends in a block of before was  *)
(* there before.                                                           *)
LEMMA NodesBack ==
  ASSUME NEW s, NEW d, NEW u \in Images, NEW e, NEW to, Labels(u, e, to), Adds(s, d, u, e),
         NEW f \in Files, NEW path, NEW l, APath(path, l), NEW n, Nodes(u, f, path, l, n),
         n[l] \in s.used \ {0}
  PROVE  Nodes(s, f, path, l, n)
<1> DEFINE Old(k) == n[k] \in s.used \ {0}
<1>0. Depth(path[1]) \in Nat /\ l \in 1 .. 4 /\ l <= Depth(path[1]) + 1 /\ path[1] \in Roots0
  BY DEF APath, Roots0, Depth
<1>1. \A k \in 1 .. l : n[k] \in u.used \ {0} /\ e[n[k]] = Depth(path[1]) + 1 - k
  BY NodesLabelled
<1>2. ASSUME NEW k \in 1 .. (l - 1), Old(k + 1)
      PROVE  Old(k) /\ n[k + 1] = s.blk[n[k]][path[k + 1]]
  <2>1. k \in 1 .. l /\ k + 1 \in 2 .. l
    BY <1>0
  <2>2. n[k + 1] = u.blk[n[k]][path[k + 1]] /\ path[k + 1] \in Places
    BY <2>1 DEF Nodes, APath
  <2>3. n[k] \in u.used \ {0} /\ e[n[k]] > 0
    BY <1>0, <1>1, <2>1
  <2> QED
    BY <1>2, <2>2, <2>3 DEF Adds
<1>3. \A k \in 1 .. l : Old(k)
  <2>1. l - 1 >= 1 => Old(l - 1)
    <3>1. l - 1 >= 1 => l - 1 \in 1 .. (l - 1) /\ (l - 1) + 1 = l
      BY <1>0
    <3> QED
      BY <1>2, <3>1
  <2>2. l - 2 >= 1 => Old(l - 2)
    <3>1. l - 2 >= 1 => l - 2 \in 1 .. (l - 1) /\ (l - 2) + 1 = l - 1 /\ l - 1 >= 1
      BY <1>0
    <3> QED
      BY <1>2, <2>1, <3>1
  <2>3. l - 3 >= 1 => Old(l - 3)
    <3>1. l - 3 >= 1 => l - 3 \in 1 .. (l - 1) /\ (l - 3) + 1 = l - 2 /\ l - 2 >= 1
      BY <1>0
    <3> QED
      BY <1>2, <2>2, <3>1
  <2>4. \A k \in 1 .. l : k = l \/ (k = l - 1 /\ l - 1 >= 1) \/ (k = l - 2 /\ l - 2 >= 1)
                          \/ (k = l - 3 /\ l - 3 >= 1)
    BY <1>0
  <2> QED
    BY <2>1, <2>2, <2>3, <2>4
<1>4. n[1] = s.A[f][path[1]]
  <2>1. u.A[f][path[1]] \in s.used \ {0} /\ n[1] = u.A[f][path[1]]
    BY <1>0, <1>3 DEF Nodes
  <2> QED
    BY <1>0, <2>1 DEF Adds
<1>5. ASSUME NEW k \in 1 .. (l - 1) PROVE n[k + 1] = s.blk[n[k]][path[k + 1]]
  <2>1. Old(k + 1)
    BY <1>0, <1>3
  <2> QED
    BY <1>2, <2>1
<1> QED
  BY <1>4, <1>5 DEF Nodes

(* The cells that name the blocks of a path.                               *)
InodeCell(f, i) == <<"inode", f, i>>
BlockCell(b, i) == <<"block", b, i>>

LEMMA CellsDiffer ==
  /\ \A h1, h2, i1, i2 : InodeCell(h1, i1) = InodeCell(h2, i2) => h1 = h2 /\ i1 = i2
  /\ \A h1, h2, i1, i2 : BlockCell(h1, i1) = BlockCell(h2, i2) => h1 = h2 /\ i1 = i2
  /\ \A h1, h2, i1, i2 : InodeCell(h1, i1) # BlockCell(h2, i2)
BY DEF InodeCell, BlockCell

LEMMA NodesNamed ==
  ASSUME NEW s \in Images, NEW d, NEW at, Labels(s, d, at), NEW f \in Files,
         NEW path, NEW l, APath(path, l), NEW n, Nodes(s, f, path, l, n)
  PROVE  /\ at[n[1]] = InodeCell(f, path[1])
         /\ \A i \in 2 .. l : at[n[i]] = BlockCell(n[i - 1], path[i])
<1>0. Depth(path[1]) \in Nat /\ l \in 1 .. 4 /\ l <= Depth(path[1]) + 1 /\ path[1] \in Roots0
  BY DEF APath, Roots0, Depth
<1>1. \A i \in 1 .. l : n[i] \in s.used \ {0} /\ d[n[i]] = Depth(path[1]) + 1 - i
  BY NodesLabelled
<1>2. at[n[1]] = InodeCell(f, path[1])
  <2>1. n[1] # 0 /\ n[1] = s.A[f][path[1]]
    BY <1>0, <1>1 DEF Nodes
  <2> QED
    BY <1>0, <2>1 DEF Labels, InodeCell
<1>3. ASSUME NEW i \in 2 .. l PROVE at[n[i]] = BlockCell(n[i - 1], path[i])
  <2>1. i - 1 \in 1 .. (l - 1) /\ i - 1 \in 1 .. l /\ i \in 1 .. l /\ (i - 1) + 1 = i
    BY <1>0
  <2>2. n[(i - 1) + 1] = s.blk[n[i - 1]][path[(i - 1) + 1]]
    BY <2>1 DEF Nodes
  <2>3. n[i] = s.blk[n[i - 1]][path[i]] /\ path[i] \in Places
    BY <2>1, <2>2 DEF APath
  <2>4. n[i - 1] \in s.used \ {0} /\ d[n[i - 1]] > 0 /\ n[i] # 0
    BY <1>0, <1>1, <2>1
  <2> QED
    BY <2>3, <2>4 DEF Labels, BlockCell
<1> QED
  BY <1>2, <1>3

(* Two paths that meet are one path, of one file.                          *)
LEMMA OneWay ==
  ASSUME NEW s \in Images, NEW d, NEW at, Labels(s, d, at), NEW f \in Files, NEW g \in Files,
         NEW p, NEW q, NEW l, NEW m, APath(p, l), APath(q, m),
         NEW n, NEW k, Nodes(s, f, p, l, n), Nodes(s, g, q, m, k)
  PROVE  \A i \in 1 .. l, j \in 1 .. m : n[i] = k[j] =>
           f = g /\ i = j /\ \A h \in 1 .. i : p[h] = q[h]
<1> DEFINE One(i) == \A j \in 1 .. m : n[i] = k[j] => f = g /\ i = j /\ \A h \in 1 .. i : p[h] = q[h]
<1>3. /\ at[n[1]] = InodeCell(f, p[1]) /\ \A i \in 2 .. l : at[n[i]] = BlockCell(n[i - 1], p[i])
      /\ at[k[1]] = InodeCell(g, q[1]) /\ \A i \in 2 .. m : at[k[i]] = BlockCell(k[i - 1], q[i])
  BY NodesNamed
<1>0. l \in 1 .. 4 /\ m \in 1 .. 4
  BY DEF APath, Roots0, Depth
<1>4. One(1)
  <2> SUFFICES ASSUME NEW j \in 1 .. m, n[1] = k[j]
               PROVE  f = g /\ 1 = j /\ p[1] = q[1]
    OBVIOUS
  <2>1. j = 1
    <3> SUFFICES ASSUME j # 1 PROVE FALSE
      OBVIOUS
    <3>1. j \in 2 .. m
      BY <1>0
    <3> QED
      BY CellsDiffer, <1>3, <3>1
  <2> QED
    BY CellsDiffer, <1>3, <2>1
<1>5. ASSUME NEW i \in 1 .. 3, i + 1 <= l, One(i)
      PROVE  One(i + 1)
  <2> SUFFICES ASSUME NEW j \in 1 .. m, n[i + 1] = k[j]
               PROVE  f = g /\ i + 1 = j /\ \A h \in 1 .. (i + 1) : p[h] = q[h]
    OBVIOUS
  <2>1. i + 1 \in 2 .. l /\ (i + 1) - 1 = i
    BY <1>0, <1>5
  <2>2. at[n[i + 1]] = BlockCell(n[i], p[i + 1])
    BY <1>3, <2>1
  <2>3. j # 1
    BY CellsDiffer, <1>3, <2>2
  <2>4. j \in 2 .. m /\ j - 1 \in 1 .. m
    BY <1>0, <2>3
  <2>5. n[i] = k[j - 1] /\ p[i + 1] = q[j]
    BY CellsDiffer, <1>3, <2>2, <2>4
  <2>6. f = g /\ i = j - 1 /\ \A h \in 1 .. i : p[h] = q[h]
    BY <1>5, <2>4, <2>5
  <2>7. \A h \in 1 .. (i + 1) : h \in 1 .. i \/ h = i + 1
    OBVIOUS
  <2> QED
    BY <2>4, <2>5, <2>6, <2>7
<1>6. ASSUME NEW i \in 1 .. l PROVE One(i)
  <2> HIDE DEF One
  <2>1. l >= 2 => One(2)
    BY <1>4, <1>5
  <2>2. ASSUME l >= 3 PROVE One(3)
    <3>1. 2 \in 1 .. 3 /\ 2 + 1 <= l /\ One(2) /\ 2 + 1 = 3
      BY <1>0, <2>1, <2>2
    <3>2. One(2 + 1)
      BY <1>5, <3>1
    <3> QED
      BY <3>1, <3>2
  <2>3. ASSUME l >= 4 PROVE One(4)
    <3>1. 3 \in 1 .. 3 /\ 3 + 1 <= l /\ One(3) /\ 3 + 1 = 4
      BY <1>0, <2>2, <2>3
    <3>2. One(3 + 1)
      BY <1>5, <3>1
    <3> QED
      BY <3>1, <3>2
  <2>4. i = 1 \/ (i = 2 /\ l >= 2) \/ (i = 3 /\ l >= 3) \/ (i = 4 /\ l >= 4)
    BY <1>0
  <2> QED
    BY <1>4, <2>1, <2>2, <2>3, <2>4
<1> QED
  BY <1>6

(* No two blocks of a file have one path.                                  *)
LEMMA OnePath ==
  ASSUME NEW a \in Nat, a < MAXFILE, NEW b \in Nat, b < MAXFILE,
         \A h \in 1 .. Len(Path(a)) : Path(a)[h] = Path(b)[h]
  PROVE  a = b
<1> DEFINE s(n) == n - NDIRECT
           dd(n) == s(n) - NINDIRECT
           x(n) == dd(n) - NDINDIRECT
           y(n) == x(n) % NDINDIRECT
           Third(n) == <<NDIRECT + 1, dd(n) \div NINDIRECT, dd(n) % NINDIRECT>>
           Last(n) == <<NDIRECT + 2, x(n) \div NDINDIRECT, y(n) \div NINDIRECT, y(n) % NINDIRECT>>
<1>0. NDINDIRECT \in Nat \ {0}
  BY DEF NDINDIRECT
<1>1. ASSUME NEW n \in Nat, n < MAXFILE
      PROVE  \/ n < NDIRECT /\ Path(n) = <<n>>
             \/ n >= NDIRECT /\ s(n) < NINDIRECT /\ Path(n) = <<NDIRECT, s(n)>>
             \/ n >= NDIRECT + NINDIRECT /\ Path(n) = Third(n)
             \/ n >= NDIRECT + NINDIRECT + NDINDIRECT /\ Path(n) = Last(n)
  <2>1. CASE n < NDIRECT
    BY <2>1 DEF Path
  <2>2. CASE ~(n < NDIRECT) /\ s(n) < NINDIRECT
    BY <2>2 DEF Path
  <2>3. CASE ~(n < NDIRECT) /\ ~(s(n) < NINDIRECT) /\ dd(n) < NDINDIRECT
    BY <2>3 DEF Path, DoublePath
  <2>4. CASE ~(n < NDIRECT) /\ ~(s(n) < NINDIRECT) /\ ~(dd(n) < NDINDIRECT)
    BY <1>0, <2>4 DEF Path
  <2> QED
    BY <2>1, <2>2, <2>3, <2>4
<1>2. \A i \in 1 .. Len(Path(a)) : Path(a)[i] = Path(b)[i]
  OBVIOUS
<1>3. Path(a)[1] = Path(b)[1]
  <2>1. 1 \in 1 .. Len(Path(a))
    BY PathIs
  <2> QED
    BY <2>1
<1>4. CASE a < NDIRECT
  <2>1. Path(a) = <<a>>
    BY <1>4 DEF Path
  <2>2. b < NDIRECT => Path(b) = <<b>>
    BY DEF Path
  <2>3. b >= NDIRECT => Path(b)[1] >= NDIRECT
    BY <1>0, <1>1
  <2> QED
    BY <1>3, <1>4, <2>1, <2>2, <2>3
<1>5. CASE Path(a) = <<NDIRECT, s(a)>> /\ a >= NDIRECT /\ s(a) < NINDIRECT
  <2>1. Path(a)[2] = Path(b)[2]
    BY <1>2, <1>5
  <2>2. Path(b) = <<NDIRECT, s(b)>>
    BY <1>1, <1>3, <1>5
  <2> QED
    BY <1>5, <2>1, <2>2
<1>6. CASE Path(a) = Third(a) /\ a >= NDIRECT + NINDIRECT
  <2>1. Path(a)[2] = Path(b)[2] /\ Path(a)[3] = Path(b)[3]
    BY <1>2, <1>6
  <2>2. Path(b) = Third(b) /\ b >= NDIRECT + NINDIRECT
    BY <1>0, <1>1, <1>3, <1>6
  <2>3. dd(a) \div NINDIRECT = dd(b) \div NINDIRECT /\ dd(a) % NINDIRECT = dd(b) % NINDIRECT
    BY <1>6, <2>1, <2>2
  <2>4. dd(a) \in Nat /\ dd(b) \in Nat
    BY <1>6, <2>2
  <2> DEFINE u == dd(a)
             v == dd(b)
  <2>5. u \in Nat /\ v \in Nat /\ u \div NINDIRECT = v \div NINDIRECT /\ u % NINDIRECT = v % NINDIRECT
    BY <2>3, <2>4
  <2> HIDE DEF u, v
  <2>6. u = v
    BY <2>5
  <2> QED
    BY <2>6 DEF u, v
<1>7. CASE Path(a) = Last(a) /\ a >= NDIRECT + NINDIRECT + NDINDIRECT
  <2>1. Path(a)[2] = Path(b)[2] /\ Path(a)[3] = Path(b)[3] /\ Path(a)[4] = Path(b)[4]
    BY <1>2, <1>7
  <2>2. Path(b) = Last(b) /\ b >= NDIRECT + NINDIRECT + NDINDIRECT
    BY <1>0, <1>1, <1>3, <1>7
  <2> DEFINE u == x(a)
             v == x(b)
  <2>3. /\ u \div NDINDIRECT = v \div NDINDIRECT
        /\ (u % NDINDIRECT) \div NINDIRECT = (v % NDINDIRECT) \div NINDIRECT
        /\ (u % NDINDIRECT) % NINDIRECT = (v % NDINDIRECT) % NINDIRECT
    BY <1>7, <2>1, <2>2
  <2>4. u \in Nat /\ v \in Nat
    BY <1>0, <1>7, <2>2
  <2> HIDE DEF u, v
  <2> DEFINE p == u % NDINDIRECT
             q == v % NDINDIRECT
  <2>5. p \in Nat /\ q \in Nat /\ p \div NINDIRECT = q \div NINDIRECT /\ p % NINDIRECT = q % NINDIRECT
    BY <1>0, <2>3, <2>4
  <2>6. p = q
    <3> HIDE DEF p, q
    <3> QED
      BY <2>5
  <2>7. u = v
    BY <1>0, <2>3, <2>4, <2>6
  <2> QED
    BY <1>0, <2>7 DEF u, v
<1> QED
  BY <1>1, <1>4, <1>5, <1>6, <1>7

(* Byte x of file f.                                                       *)
Inside == 0 .. (MAXFILE * BSIZE - 1)
Byte(s, f, x) ==
  IF Present(s, f, x \div BSIZE)
  THEN s.blk[Block(s.blk, s.A[f], x \div BSIZE)][x % BSIZE] ELSE 0

LEMMA InsideIs ==
  ASSUME NEW x \in Inside
  PROVE  /\ x \in Nat /\ x \div BSIZE \in 0 .. (MAXFILE - 1) /\ x % BSIZE \in 0 .. (BSIZE - 1)
         /\ x \div BSIZE \in Nat /\ x \div BSIZE < MAXFILE
<1> DEFINE m == MAXFILE * BSIZE
<1>1. m \in Nat /\ x \in 0 .. (m - 1)
  BY DEF Inside
<1> HIDE DEF m
<1>2. x \in Nat /\ x < m
  BY <1>1
<1>3. x \in Nat /\ x < BSIZE * MAXFILE
  BY <1>2 DEF m
<1>4. x \div BSIZE \in 0 .. (MAXFILE - 1)
  BY <1>3, Quotient
<1> QED
  BY <1>3, <1>4

Reads(s, f, x, bn, path, l, r) ==
  /\ ~Present(s, f, bn) => Byte(s, f, x) = 0
  /\ \A n : Nodes(s, f, path, l, n) => Byte(s, f, x) = s.blk[n[l]][r]

LEMMA ByteIs ==
  ASSUME NEW s, NEW f \in Files, NEW x \in Inside
  PROVE  Reads(s, f, x, x \div BSIZE, Path(x \div BSIZE), Len(Path(x \div BSIZE)), x % BSIZE)
<1> DEFINE bn == x \div BSIZE
           r == x % BSIZE
           path == Path(bn)
           l == Len(path)
<1>1. bn \in 0 .. (MAXFILE - 1)
  BY InsideIs
<1>2. ASSUME NEW n, Nodes(s, f, path, l, n)
      PROVE  Byte(s, f, x) = s.blk[n[l]][r]
  <2>1. Present(s, f, bn)
    BY <1>2 DEF Present
  <2> HIDE DEF bn
  <2>2. Block(s.blk, s.A[f], bn) = n[l]
    BY <1>1, <1>2, BlockIs
  <2> QED
    BY <2>1, <2>2 DEF Byte, bn
<1>3. ~Present(s, f, bn) => Byte(s, f, x) = 0
  BY DEF Byte
<1> HIDE DEF bn, r, path, l
<1>4. Reads(s, f, x, bn, path, l, r)
  BY <1>2, <1>3 DEF Reads
<1> QED
  BY <1>4 DEF bn, r, path, l

LEMMA BytesOf ==
  ASSUME NEW s, NEW u, NEW f \in Files, NEW x \in Inside, u.blk = s.blk, u.A[f] = s.A[f]
  PROVE  Byte(u, f, x) = Byte(s, f, x)
BY DEF Byte, Present, Nodes

(* A leaf of the tree is a data block.                                     *)
LEMMA LeafIs ==
  ASSUME NEW s \in Images, NEW d, NEW at, Labels(s, d, at), NEW f \in Files, NEW bn \in Nat, bn < MAXFILE,
         NEW n, Nodes(s, f, Path(bn), Len(Path(bn)), n)
  PROVE  n[Len(Path(bn))] \in s.used \ {0} /\ d[n[Len(Path(bn))]] = 0
<1> DEFINE path == Path(bn)
           l == Len(path)
<1>1. APath(path, l)
  BY PathIs, PathIsAPath
<1>2. l = Depth(path[1]) + 1 /\ Depth(path[1]) \in Nat /\ l \in 1 .. l
  BY PathIs DEF Depth, Roots0
<1> HIDE DEF path, l
<1>3. Nodes(s, f, path, l, n)
  BY DEF path, l
<1>4. n[l] \in s.used \ {0} /\ d[n[l]] = Depth(path[1]) + 1 - l
  BY <1>1, <1>2, <1>3, NodesLabelled
<1>5. d[n[l]] = 0
  BY <1>2, <1>4
<1> QED
  BY <1>4, <1>5 DEF path, l

(* What only adds clear blocks changes no byte.                            *)
SameBytes(s, u) == \A f \in Files, x \in Inside : Byte(u, f, x) = Byte(s, f, x)

LEMMA AddsNoByte ==
  ASSUME NEW s \in Images, NEW d, NEW at, Labels(s, d, at), NEW u \in Images, NEW e, NEW to,
         Labels(u, e, to), Stays(s, d, u, e), Adds(s, d, u, e)
  PROVE  SameBytes(s, u)
<1> SUFFICES ASSUME NEW f \in Files, NEW x \in Inside
             PROVE  Byte(u, f, x) = Byte(s, f, x)
  BY DEF SameBytes
<1> DEFINE bn == x \div BSIZE
           r == x % BSIZE
           path == Path(bn)
           l == Len(path)
<1>1. bn \in Nat /\ bn < MAXFILE /\ r \in 0 .. (BSIZE - 1)
  BY InsideIs
<1>2. APath(path, l)
  BY <1>1, PathIs, PathIsAPath
<1>3. ASSUME NEW v \in {s, u}
      PROVE  Reads(v, f, x, bn, path, l, r)
  BY ByteIs
<1>4. ASSUME NEW v, NEW h, NEW ho, v \in Images, Labels(v, h, ho)
      PROVE  \A n : Nodes(v, f, path, l, n) => n[l] \in v.used \ {0} /\ h[n[l]] = 0
  BY <1>1, <1>4, LeafIs
<1>5. \A v : Present(v, f, bn) <=> \E n : Nodes(v, f, path, l, n)
  BY DEF Present
<1> HIDE DEF bn, r, path, l
<1>6. CASE Present(s, f, bn)
  <2>1. PICK n : Nodes(s, f, path, l, n)
    BY <1>5, <1>6
  <2>2. Nodes(u, f, path, l, n)
    BY <1>2, <2>1, NodesKept
  <2>3. n[l] \in s.used /\ d[n[l]] = 0
    BY <1>4, <2>1
  <2>4. u.blk[n[l]] = s.blk[n[l]]
    BY <2>3 DEF Adds
  <2> QED
    BY <1>3, <2>1, <2>2, <2>4 DEF Reads
<1>7. CASE ~Present(s, f, bn) /\ Present(u, f, bn)
  <2>1. PICK n : Nodes(u, f, path, l, n)
    BY <1>5, <1>7
  <2>2. n[l] \in u.used \ {0} /\ e[n[l]] = 0
    BY <1>4, <2>1
  <2>3. n[l] \notin s.used
    <3> SUFFICES ASSUME n[l] \in s.used PROVE FALSE
      OBVIOUS
    <3>1. Nodes(s, f, path, l, n)
      BY <1>2, <2>1, <2>2, NodesBack
    <3> QED
      BY <1>5, <1>7, <3>1
  <2>4. u.blk[n[l]] = Zeroes
    BY <2>2, <2>3 DEF Adds
  <2>5. u.blk[n[l]][r] = 0
    BY <1>1, <2>4 DEF Zeroes
  <2> QED
    BY <1>3, <1>7, <2>1, <2>5 DEF Reads
<1>8. CASE ~Present(s, f, bn) /\ ~Present(u, f, bn)
  BY <1>3, <1>8 DEF Reads
<1> QED
  BY <1>6, <1>7, <1>8

LEMMA WholePath ==
  ASSUME NEW bn \in Nat, bn < MAXFILE
  PROVE  APath(Path(bn), Len(Path(bn))) /\ Len(Path(bn)) \in 1 .. Len(Path(bn))
BY PathIs, PathIsAPath

(* The blocks of a path.                                                   *)
LEMMA SameNodes ==
  ASSUME NEW s, NEW f, NEW path, NEW l, APath(path, l), NEW n, NEW k,
         Nodes(s, f, path, l, n), Nodes(s, f, path, l, k)
  PROVE  \A h \in 1 .. l : n[h] = k[h]
<1>0. l \in 1 .. 4
  BY DEF APath, Roots0, Depth
<1>1. n[1] = k[1]
  BY DEF Nodes
<1>2. ASSUME NEW h \in 1 .. (l - 1), n[h] = k[h]
      PROVE  n[h + 1] = k[h + 1]
  BY <1>2 DEF Nodes
<1>3. l >= 2 => n[2] = k[2]
  <2>1. l >= 2 => 1 \in 1 .. (l - 1) /\ 1 + 1 = 2
    BY <1>0
  <2> QED
    BY <1>1, <1>2, <2>1
<1>4. l >= 3 => n[3] = k[3]
  <2>1. l >= 3 => 2 \in 1 .. (l - 1) /\ 2 + 1 = 3 /\ l >= 2
    BY <1>0
  <2> QED
    BY <1>2, <1>3, <2>1
<1>5. l >= 4 => n[4] = k[4]
  <2>1. l >= 4 => 3 \in 1 .. (l - 1) /\ 3 + 1 = 4 /\ l >= 3
    BY <1>0
  <2> QED
    BY <1>2, <1>4, <2>1
<1>6. \A h \in 1 .. l : h = 1 \/ (h = 2 /\ l >= 2) \/ (h = 3 /\ l >= 3) \/ (h = 4 /\ l >= 4)
  BY <1>0
<1> QED
  BY <1>1, <1>3, <1>4, <1>5, <1>6

(* A store into byte x of a file changes that byte and no other.           *)
LEMMA StoreBytes ==
  ASSUME NEW s \in Images, NEW d, NEW at, Labels(s, d, at), NEW f \in Files, NEW x \in Inside,
         NEW n, Nodes(s, f, Path(x \div BSIZE), Len(Path(x \div BSIZE)), n),
         NEW p, p = n[Len(Path(x \div BSIZE))], NEW v \in Nat,
         NEW u \in Images, u.used = s.used, u.A = s.A,
         u.blk = [s.blk EXCEPT ![p] = [s.blk[p] EXCEPT ![x % BSIZE] = v]]
  PROVE  \A g \in Files, y \in Inside :
           Byte(u, g, y) = IF g = f /\ y = x THEN v ELSE Byte(s, g, y)
<1> SUFFICES ASSUME NEW g \in Files, NEW y \in Inside
             PROVE  Byte(u, g, y) = IF g = f /\ y = x THEN v ELSE Byte(s, g, y)
  OBVIOUS
<1> DEFINE a == x \div BSIZE
           b == y \div BSIZE
           i == x % BSIZE
           j == y % BSIZE
           l == Len(Path(a))
           m == Len(Path(b))
<1>1. /\ a \in Nat /\ a < MAXFILE /\ i \in 0 .. (BSIZE - 1)
      /\ b \in Nat /\ b < MAXFILE /\ j \in 0 .. (BSIZE - 1)
  BY InsideIs
<1>2. APath(Path(a), l) /\ APath(Path(b), m) /\ l \in 1 .. l /\ m \in 1 .. m
  <2> HIDE DEF a, b
  <2> QED
    BY <1>1, WholePath
<1>3. a = b /\ i = j => x = y
  <2>1. x \in Nat /\ y \in Nat
    BY InsideIs
  <2> QED
    BY <2>1
<1>4. \A w : Reads(w, g, y, b, Path(b), m, j)
  BY ByteIs
<1>5. Nodes(s, f, Path(a), l, n) /\ p = n[l]
      /\ u.blk = [s.blk EXCEPT ![p] = [s.blk[p] EXCEPT ![i] = v]]
  OBVIOUS
<1>6. (\A h \in 1 .. l : Path(a)[h] = Path(b)[h]) => a = b
  BY <1>1, OnePath
<1>7. \A k : Nodes(s, g, Path(b), m, k) => k[m] \in s.used \ {0} /\ d[k[m]] = 0
  BY <1>1, LeafIs
<1>8. p \in s.used \ {0} /\ d[p] = 0 /\ p \in BlockNos /\ s.blk \in [BlockNos -> Rows]
      /\ s.used \subseteq BlockNos
  <2>1. p \in s.used \ {0} /\ d[p] = 0
    BY <1>1, <1>5, LeafIs
  <2> QED
    BY <2>1 DEF Images
<1>9. \A w : Present(w, g, b) <=> \E k : Nodes(w, g, Path(b), m, k)
  BY DEF Present
<1> HIDE DEF a, b, i, j, l, m
<1>10. \A k \in BlockNos : k # p => u.blk[k] = s.blk[k]
  BY <1>5, <1>8
<1>11. Stays(s, d, u, d) /\ Labels(u, d, at) /\ Stays(u, d, s, d)
  <2>1. Stays(s, d, u, d) /\ Labels(u, d, at)
    BY <1>8, <1>10, DataWrite DEF Keeps
  <2>2. \A k \in BlockNos : k # p => s.blk[k] = u.blk[k]
    BY <1>10
  <2>3. Stays(u, d, s, d)
    BY <1>8, <2>1, <2>2, DataWrite DEF Keeps
  <2> QED
    BY <2>1, <2>3
<1>12. \A k : Nodes(s, g, Path(b), m, k) <=> Nodes(u, g, Path(b), m, k)
  BY <1>2, <1>11, NodesKept
<1>13. CASE ~Present(s, g, b)
  <2>1. ~Present(u, g, b)
    BY <1>9, <1>12, <1>13
  <2>2. ~(g = f /\ y = x)
    <3>1. y = x => b = a
      BY DEF a, b
    <3>2. g = f /\ b = a => m = l /\ Nodes(s, g, Path(b), m, n)
      BY <1>5 DEF l, m
    <3> QED
      BY <1>9, <1>13, <3>1, <3>2
  <2> QED
    BY <1>4, <1>13, <2>1, <2>2 DEF Reads
<1>15. CASE Present(s, g, b)
  <2>1. PICK k : Nodes(s, g, Path(b), m, k) /\ Nodes(u, g, Path(b), m, k)
    BY <1>9, <1>12, <1>15
  <2> DEFINE q == k[m]
  <2>2. q \in s.used \ {0} /\ q \in BlockNos
    BY <1>7, <1>8, <2>1
  <2>3. Byte(s, g, y) = s.blk[q][j] /\ Byte(u, g, y) = u.blk[q][j]
    BY <1>4, <2>1 DEF Reads
  <2>4. q = p => f = g /\ a = b
    <3> SUFFICES ASSUME q = p PROVE f = g /\ a = b
      OBVIOUS
    <3>1. f = g /\ \A h \in 1 .. l : Path(a)[h] = Path(b)[h]
      BY <1>2, <1>5, <2>1, OneWay
    <3> QED
      BY <1>6, <3>1
  <2>5. f = g /\ y = x => q = p /\ i = j
    <3> SUFFICES ASSUME f = g, y = x PROVE q = p /\ i = j
      OBVIOUS
    <3>1. a = b /\ i = j /\ l = m
      BY DEF a, b, i, j, l, m
    <3>2. Byte(s, f, x) = s.blk[q][j]
      BY <2>3
    <3>3. n[l] = k[l]
      <4>1. APath(Path(a), l) /\ Nodes(s, f, Path(a), l, n) /\ Nodes(s, f, Path(a), l, k)
        BY <1>2, <1>5, <2>1, <3>1
      <4>2. \A h \in 1 .. l : n[h] = k[h]
        BY <4>1, SameNodes
      <4> QED
        BY <1>2, <4>2
    <3> QED
      BY <1>5, <3>1, <3>3
  <2> HIDE DEF q
  <2>6. CASE q # p
    <3>1. u.blk[q] = s.blk[q]
      BY <1>10, <2>2, <2>6
    <3> QED
      BY <2>3, <2>5, <2>6, <3>1
  <2>7. CASE q = p
    <3>1. u.blk[q] = [s.blk[p] EXCEPT ![i] = v] /\ s.blk[p] \in Rows
      BY <1>5, <1>8, <2>7
    <3>2. u.blk[q][j] = IF i = j THEN v ELSE s.blk[q][j]
      BY <1>1, <2>7, <3>1 DEF Rows
    <3> QED
      BY <1>3, <2>3, <2>4, <2>5, <2>7, <3>2
  <2> QED
    BY <2>6, <2>7
<1> QED
  BY <1>13, <1>15

(* One byte of a chunk.                                                    *)
LEMMA BmapBytes ==
  ASSUME NEW t \in Txns, t.panic = "none", NEW f \in Files, NEW A \in [Files -> Addrs], NEW d, NEW at,
         Labels(Img(t, f, A), d, at), NEW bn \in Nat, bn < MAXFILE,
         NEW m, m = bmap(t, bn), m.panic = "none"
  PROVE  /\ m \in Txns /\ SameBytes(Img(t, f, A), Img(m, f, A))
         /\ \E e, to, n : /\ Labels(Img(m, f, A), e, to)
                          /\ Nodes(Img(m, f, A), f, Path(bn), Len(Path(bn)), n)
                          /\ m.addr = n[Len(Path(bn))]
<1> DEFINE path == Path(bn)
           l == Len(path)
<1>1. Reached(t, d, m, f, A, path, l)
  BY BmapReaches
<1> HIDE DEF path, l
<1>2. m \in Txns
  BY <1>1 DEF Reached
<1>3. PICK e, to, n : /\ Labels(Img(m, f, A), e, to)
                      /\ Keeps(Img(t, f, A), d, Img(m, f, A), e)
                      /\ Adds(Img(t, f, A), d, Img(m, f, A), e)
                      /\ Nodes(Img(m, f, A), f, path, l, n) /\ m.addr = n[l]
  BY <1>1 DEF Reached
<1>4. SameBytes(Img(t, f, A), Img(m, f, A))
  <2>1. Img(t, f, A) \in Images /\ Img(m, f, A) \in Images
    BY <1>2, ImgIs
  <2>2. Stays(Img(t, f, A), d, Img(m, f, A), e)
    BY <1>3 DEF Keeps
  <2> QED
    BY <1>3, <2>1, <2>2, AddsNoByte
<1> QED
  BY <1>2, <1>3, <1>4 DEF path, l

Puts(s, u, f, pos, c, n) ==
  \A g \in Files, y \in Inside :
    Byte(u, g, y) = IF g = f /\ pos <= y /\ y < pos + n THEN c[y - pos] ELSE Byte(s, g, y)

Stores(s, u, f, x, v) ==
  \A g \in Files, y \in Inside : Byte(u, g, y) = IF g = f /\ y = x THEN v ELSE Byte(s, g, y)

LEMMA CopyByte ==
  ASSUME NEW t \in Txns, t.panic = "none", NEW f \in Files, NEW A \in [Files -> Addrs], NEW d, NEW at,
         Labels(Img(t, f, A), d, at), NEW x \in Inside, NEW v \in Nat,
         NEW m, m = bmap(t, x \div BSIZE), m.panic = "none",
         NEW u, u = [m EXCEPT !.blk[m.addr][x % BSIZE] = v]
  PROVE  Stores(Img(t, f, A), Img(u, f, A), f, x, v)
<1> DEFINE bn == x \div BSIZE
           r == x % BSIZE
           s == Img(m, f, A)
           w == Img(u, f, A)
           l == Len(Path(bn))
<1>1. bn \in Nat /\ bn < MAXFILE /\ r \in 0 .. (BSIZE - 1)
  BY InsideIs
<1>2. /\ m \in Txns /\ SameBytes(Img(t, f, A), s)
      /\ \E e, to, n : /\ Labels(s, e, to) /\ Nodes(s, f, Path(bn), l, n) /\ m.addr = n[l]
  <2>1. m = bmap(t, bn)
    OBVIOUS
  <2> HIDE DEF bn
  <2> QED
    BY <1>1, <2>1, BmapBytes
<1>3. PICK e, to, n : Labels(s, e, to) /\ Nodes(s, f, Path(bn), l, n) /\ m.addr = n[l]
  BY <1>2
<1>4. s \in Images /\ m.addr \in BlockNos
  <2>1. s \in Images
    BY <1>2, ImgIs
  <2> HIDE DEF s, bn
  <2>2. m.addr \in s.used
    BY <1>1, <1>3, <2>1, LeafIs
  <2> QED
    BY <2>1, <2>2 DEF Images
<1>5. /\ u \in Txns /\ u.used = m.used /\ u.addrs = m.addrs
      /\ u.blk = [m.blk EXCEPT ![m.addr] = [m.blk[m.addr] EXCEPT ![r] = v]]
  <2> DEFINE b == [m.blk EXCEPT ![m.addr] = [m.blk[m.addr] EXCEPT ![r] = v]]
  <2> HIDE DEF r, s, w
  <2>1. m.blk \in [BlockNos -> Rows]
    BY <1>2 DEF Txns
  <2>2. [m.blk[m.addr] EXCEPT ![r] = v] \in Rows
    BY <1>1, <1>4, <2>1 DEF Rows
  <2>3. b \in [BlockNos -> Rows]
    BY <1>4, <2>1, <2>2
  <2>4. u = [m EXCEPT !.blk = b]
    BY DEF r
  <2> HIDE DEF b
  <2>5. u \in Txns /\ u.used = m.used /\ u.addrs = m.addrs /\ u.blk = b
    BY <1>2, <2>3, <2>4 DEF Txns
  <2> QED
    BY <2>5 DEF b
<1>6. /\ w \in Images /\ w.used = s.used /\ w.A = s.A
      /\ w.blk = [s.blk EXCEPT ![m.addr] = [s.blk[m.addr] EXCEPT ![r] = v]]
  <2>1. w \in Images
    BY <1>5, ImgIs
  <2> QED
    BY <1>5, <2>1 DEF Img
<1>7. ASSUME NEW g \in Files, NEW y \in Inside
      PROVE  Byte(w, g, y) = IF g = f /\ y = x THEN v ELSE Byte(s, g, y)
  <2>1. s \in Images /\ Labels(s, e, to) /\ Nodes(s, f, Path(x \div BSIZE), Len(Path(x \div BSIZE)), n)
    BY <1>3, <1>4
  <2>2. m.addr = n[Len(Path(x \div BSIZE))]
    BY <1>3
  <2>3. w.blk = [s.blk EXCEPT ![m.addr] = [s.blk[m.addr] EXCEPT ![x % BSIZE] = v]]
    BY <1>6
  <2> HIDE DEF s, w, bn, r, l
  <2> QED
    BY <1>6, <2>1, <2>2, <2>3, StoreBytes
<1>8. \A g \in Files, y \in Inside : Byte(s, g, y) = Byte(Img(t, f, A), g, y)
  BY <1>2 DEF SameBytes
<1> QED
  BY <1>7, <1>8 DEF Stores

(* A chunk.                                                                *)
LEMMA CopyInPuts ==
  ASSUME NEW t \in Txns, t.panic = "none", NEW f \in Files, NEW A \in [Files -> Addrs], NEW d, NEW at,
         Labels(Img(t, f, A), d, at), NEW pos \in Nat, NEW n \in Nat \ {0},
         NEW c \in [0 .. (n - 1) -> Nat], pos + n <= MAXFILE * BSIZE,
         CopyIn(t, pos, c).panic = "none"
  PROVE  Puts(Img(t, f, A), Img(CopyIn(t, pos, c), f, A), f, pos, c, n)
<1>1. PICK a : CopyTrace(a, t, d, f, A, pos, c, n)
  BY CopyInRuns
<1>2. /\ CopyIn(t, pos, c) = a[n - 1] /\ a[0] = CopyStep(pos, c, t, 0)
      /\ \A k \in 1 .. (n - 1) : a[k] = CopyStep(pos, c, a[k - 1], k)
      /\ \A k \in 0 .. (n - 1) : Grown(t, d, a[k], f, A, Covered(pos, k + 1))
  BY <1>1, Zenon DEF CopyTrace
<1> DEFINE P(u, k) == Puts(Img(t, f, A), Img(u, f, A), f, pos, c, k)
           G(k) == a[k].panic = "none" => P(a[k], k + 1)
           Bad == {k \in 0 .. (n - 1) : ~G(k)}
<1>3. ASSUME NEW k \in 0 .. (n - 1), NEW v \in Txns, v.panic = "none", NEW e, NEW to,
             Labels(Img(v, f, A), e, to), P(v, k), CopyStep(pos, c, v, k).panic = "none"
      PROVE  P(CopyStep(pos, c, v, k), k + 1)
  <2> DEFINE x == pos + k
             m == bmap(v, x \div BSIZE)
             u == [m EXCEPT !.blk[m.addr][x % BSIZE] = c[k]]
  <2>1. x \in Inside /\ c[k] \in Nat /\ x \in Nat
    <3> DEFINE z == MAXFILE * BSIZE
    <3>1. z \in Nat /\ pos + n <= z
      OBVIOUS
    <3> HIDE DEF z
    <3>2. x \in 0 .. (z - 1)
      BY <3>1
    <3> QED
      BY <3>2 DEF z, Inside
  <2>2. m.panic = "none" /\ CopyStep(pos, c, v, k) = u
    <3>1. CopyStep(pos, c, v, k) = IF m.panic # "none" THEN m ELSE u
      BY <1>3, Zenon DEF CopyStep
    <3> HIDE DEF u, m
    <3> QED
      BY <1>3, <3>1
  <2>3. \A g \in Files, y \in Inside :
          Byte(Img(u, f, A), g, y) = IF g = f /\ y = x THEN c[k] ELSE Byte(Img(v, f, A), g, y)
    <3>1. /\ v \in Txns /\ v.panic = "none" /\ Labels(Img(v, f, A), e, to) /\ m = bmap(v, x \div BSIZE)
          /\ m.panic = "none" /\ u = [m EXCEPT !.blk[m.addr][x % BSIZE] = c[k]]
      BY <1>3, <2>2
    <3>2. /\ t \in Txns /\ f \in Files /\ A \in [Files -> Addrs] /\ x \in Inside /\ c[k] \in Nat
      BY <2>1
    <3> HIDE DEF x, m, u
    <3> DEFINE w == c[k]
    <3>3. w \in Nat /\ u = [m EXCEPT !.blk[m.addr][x % BSIZE] = w]
      BY <3>1, <3>2
    <3> HIDE DEF w
    <3>4. Stores(Img(v, f, A), Img(u, f, A), f, x, w)
      BY <3>1, <3>2, <3>3, CopyByte
    <3> QED
      BY <3>4 DEF w, Stores
  <2> HIDE DEF m, u
  <2>4. ASSUME NEW g \in Files, NEW y \in Inside
        PROVE  Byte(Img(u, f, A), g, y) = IF g = f /\ pos <= y /\ y < pos + (k + 1) THEN c[y - pos]
                                          ELSE Byte(Img(t, f, A), g, y)
    <3>1. y \in Nat
      BY InsideIs
    <3>2. Byte(Img(v, f, A), g, y) = IF g = f /\ pos <= y /\ y < pos + k THEN c[y - pos]
                                     ELSE Byte(Img(t, f, A), g, y)
      BY <1>3 DEF Puts
    <3>3. CASE y = x
      <4>1. y - pos = k /\ pos <= y /\ y < pos + (k + 1) /\ ~(y < pos + k)
        BY <3>1, <3>3
      <4> QED
        BY <2>3, <3>2, <3>3, <4>1
    <3>4. CASE y # x
      <4>1. y < pos + (k + 1) <=> y < pos + k
        BY <3>1, <3>4
      <4> QED
        BY <2>3, <3>2, <3>4, <4>1
    <3> QED
      BY <3>3, <3>4
  <2> QED
    BY <2>2, <2>4 DEF Puts
<1>4. G(0)
  <2>1. P(t, 0)
    <3>1. \A y \in Inside : ~(pos <= y /\ y < pos + 0)
      BY InsideIs
    <3> QED
      BY <3>1 DEF Puts
  <2>2. 0 \in 0 .. (n - 1)
    OBVIOUS
  <2> HIDE DEF P
  <2> QED
    BY <1>2, <1>3, <2>1, <2>2
<1>5. ASSUME NEW k \in 1 .. (n - 1), G(k - 1)
      PROVE  G(k)
  <2>1. a[k] = CopyStep(pos, c, a[k - 1], k) /\ k \in 0 .. (n - 1) /\ k - 1 \in 0 .. (n - 1)
        /\ (k - 1) + 1 = k
    BY <1>2
  <2> DEFINE v == a[k - 1]
  <2> SUFFICES ASSUME a[k].panic = "none" PROVE P(a[k], k + 1)
    OBVIOUS
  <2>2. Grown(t, d, v, f, A, Covered(pos, k))
    BY <1>2, <2>1
  <2>3. v.panic = "none"
    <3> SUFFICES ASSUME v.panic # "none" PROVE FALSE
      OBVIOUS
    <3>1. CopyStep(pos, c, v, k) = v
      BY Zenon DEF CopyStep
    <3> QED
      BY <2>1, <3>1
  <2>4. P(v, k)
    BY <1>5, <2>1, <2>3
  <2> HIDE DEF v, P
  <2>5. v \in Txns /\ \E e, to : Labels(Img(v, f, A), e, to)
    BY <2>2, <2>3 DEF Grown
  <2>6. CopyStep(pos, c, v, k).panic = "none"
    BY <2>1 DEF v
  <2>7. P(CopyStep(pos, c, v, k), k + 1)
    BY <1>3, <2>1, <2>3, <2>4, <2>5, <2>6
  <2> QED
    BY <2>1, <2>7 DEF v
<1> HIDE DEF G
<1>6. Bad = {}
  <2> SUFFICES ASSUME Bad # {} PROVE FALSE
    OBVIOUS
  <2>1. Bad \subseteq Nat
    OBVIOUS
  <2>2. PICK k \in Bad : \A x \in Bad : k <= x
    BY <2>1, LeastExists
  <2>3. k # 0
    BY <1>4, <2>2
  <2>4. k \in 1 .. (n - 1) /\ k - 1 \in 0 .. (n - 1) /\ k - 1 \notin Bad
    BY <2>2, <2>3
  <2> QED
    BY <1>5, <2>2, <2>4
<1>7. n - 1 \in 0 .. (n - 1) /\ (n - 1) + 1 = n
  OBVIOUS
<1>8. G(n - 1)
  BY <1>6, <1>7
<1> QED
  BY <1>2, <1>7, <1>8 DEF G

-----------------------------------------------------------------------------
(* The actions of FlatFile.                                                *)
LEMMA SizeIs ==
  ASSUME NEW n \in Nat, NEW c, DOMAIN c = 0 .. (n - 1)
  PROVE  Flat!Size(c) = n
<1>1. Cardinality(0 .. (n - 1)) = n
  BY FS_Interval
<1>2. Flat!Cardinality(DOMAIN c) = Cardinality(DOMAIN c)
  BY Zenon DEF Flat!Cardinality, Cardinality
<1> QED
  BY <1>1, <1>2 DEF Flat!Size

(* m bytes d at pos over n bytes c. *)
Laid(c, n, pos, d, m) ==
  [k \in 0 .. (Max({pos + m, n}) - 1) |->
     IF k >= pos /\ k < pos + m THEN d[k - pos] ELSE IF k < n THEN c[k] ELSE 0]

LEMMA OverlayIs ==
  ASSUME NEW n \in Nat, NEW c, DOMAIN c = 0 .. (n - 1), NEW pos \in Nat, NEW m \in Nat,
         NEW d, DOMAIN d = 0 .. (m - 1)
  PROVE  Flat!Overlay(c, pos, d) = Laid(c, n, pos, d, m)
<1>1. Flat!Size(c) = n /\ Flat!Size(d) = m
  BY SizeIs
<1>2. {n, pos + m} = {pos + m, n} /\ \A S : Flat!Max(S) = Max(S)
  BY Zenon DEF Flat!Max, Max
<1>3. Flat!Max({Flat!Size(c), pos + Flat!Size(d)}) = Max({pos + m, n})
  BY <1>1, <1>2
<1> QED
  BY <1>1, <1>3 DEF Flat!Overlay, Laid

LEMMA AsStutter ==
  ASSUME UNCHANGED <<Seen, Kept, off, ToDo>>
  PROVE  [Flat!FlatNext]_(<<Seen, Kept, off, ToDo>>)
OBVIOUS

LEMMA AsCommit ==
  ASSUME UNCHANGED <<Seen, off, ToDo>>, Kept' = Seen
  PROVE  Flat!FlatNext
<1>1. Flat!Commit
  BY DEF Flat!Commit
<1> QED
  BY <1>1 DEF Flat!FlatNext

LEMMA AsCall ==
  ASSUME NEW p \in Procs, NEW f \in Files, NEW n \in 0 .. MaxLen, NEW pos \in Offsets \cup {NULL},
         ToDo[p] = NULL,
         ToDo' = [ToDo EXCEPT ![p] = [f |-> f, pos |-> pos, d |-> [k \in 0 .. (n - 1) |-> k + 1]]],
         UNCHANGED <<Seen, Kept, off>>
  PROVE  Flat!FlatNext
<1>1. Flat!Call(p, f, pos, Flat!Data(n))
  BY DEF Flat!Call, Flat!Data
<1> QED
  BY <1>1 DEF Flat!FlatNext

(* The call of p has to write the n bytes z, and m of them are written.    *)
ChunkOf(p, g, b, z, t, n, m, pos) ==
  /\ ToDo[p] = t /\ t # NULL /\ t = [f |-> g, pos |-> b, d |-> z]
  /\ n \in Nat /\ DOMAIN z = 0 .. (n - 1) /\ m \in 1 .. n
  /\ ToDo' = [ToDo EXCEPT ![p] =
                [f |-> g, pos |-> IF b = NULL THEN NULL ELSE b + m,
                 d |-> [k \in 0 .. (n - m - 1) |-> z[k + m]]]]
  /\ off' = (IF b = NULL THEN [off EXCEPT ![g] = off[g] + m] ELSE off)
  /\ pos = (IF b = NULL THEN off[g] ELSE b)
  /\ Seen' = [Seen EXCEPT ![g] = Flat!Overlay(Seen[g], pos, [k \in 0 .. (m - 1) |-> z[k]])]
  /\ Kept' = Kept \/ Kept' = Seen'

LEMMA AsChunk ==
  ASSUME NEW p \in Procs, NEW g, NEW b, NEW z, NEW t, NEW n, NEW m, NEW pos,
         ChunkOf(p, g, b, z, t, n, m, pos)
  PROVE  Flat!FlatNext
<1> SUFFICES ASSUME
         ToDo[p] = t, t # NULL, t = [f |-> g, pos |-> b, d |-> z],
         n \in Nat, DOMAIN z = 0 .. (n - 1), m \in 1 .. n,
         ToDo' = [ToDo EXCEPT ![p] =
                    [f |-> g, pos |-> IF b = NULL THEN NULL ELSE b + m,
                     d |-> [k \in 0 .. (n - m - 1) |-> z[k + m]]]],
         off' = IF b = NULL THEN [off EXCEPT ![g] = off[g] + m] ELSE off,
         pos = IF b = NULL THEN off[g] ELSE b,
         Seen' = [Seen EXCEPT ![g] = Flat!Overlay(Seen[g], pos, [k \in 0 .. (m - 1) |-> z[k]])],
         Kept' = Kept \/ Kept' = Seen'
       PROVE  Flat!FlatNext
  BY Zenon DEF ChunkOf
<1> DEFINE rest == [k \in 0 .. (n - m - 1) |-> z[k + m]]
           q == IF b = NULL THEN NULL ELSE b + m
           first == [k \in 0 .. (m - 1) |-> z[k]]
<1>0. t.f = g /\ t.pos = b /\ t.d = z
  OBVIOUS
<1>1. Flat!Size(t.d) = n /\ m \in 1 .. n
  BY <1>0, SizeIs
<1>2. [t EXCEPT !.pos = q, !.d = rest] = [f |-> g, pos |-> q, d |-> rest]
  <2> HIDE DEF q, rest
  <2> DEFINE w == [t EXCEPT !.pos = q]
  <2>1. w = [f |-> g, pos |-> q, d |-> z]
    OBVIOUS
  <2>2. [t EXCEPT !.pos = q, !.d = rest] = [w EXCEPT !.d = rest]
    BY Zenon
  <2> HIDE DEF w
  <2>3. [w EXCEPT !.d = rest] = [f |-> g, pos |-> q, d |-> rest]
    BY <2>1
  <2> QED
    BY <2>2, <2>3
<1>3. Flat!Position(p) = pos
  BY <1>0 DEF Flat!Position
<1>4. ToDo' = [ToDo EXCEPT ![p] = [t EXCEPT !.pos = q, !.d = rest]]
  <2>1. ToDo' = [ToDo EXCEPT ![p] = [f |-> g, pos |-> q, d |-> rest]]
    OBVIOUS
  <2> HIDE DEF q, rest
  <2> QED
    BY <1>2, <2>1
<1> DEFINE u == ToDo[p]
<1>5. [k \in 0 .. (Flat!Size(u.d) - m - 1) |-> u.d[k + m]] = rest
  BY <1>0, <1>1
<1>6. [k \in 0 .. (m - 1) |-> u.d[k]] = first
  BY <1>0
<1>7. Seen' = [Seen EXCEPT ![u.f] = Flat!Overlay(Seen[u.f], Flat!Position(p), first)]
  BY <1>0, <1>3
<1>8. off' = IF u.pos = NULL THEN [off EXCEPT ![u.f] = off[u.f] + m] ELSE off
  BY <1>0
<1>9. Kept' \in {Kept, Seen'}
  OBVIOUS
<1>10. ToDo' = [ToDo EXCEPT ![p] = [u EXCEPT !.pos = IF u.pos = NULL THEN NULL ELSE u.pos + m, !.d = rest]]
  <2>1. q = IF u.pos = NULL THEN NULL ELSE u.pos + m
    BY <1>0
  <2>2. t = u
    OBVIOUS
  <2> HIDE DEF q, rest, u
  <2> QED
    BY <1>4, <2>1, <2>2, Zenon
<1> HIDE DEF rest, q, first
<1>11. Seen' = [Seen EXCEPT ![u.f] = Flat!Overlay(Seen[u.f], Flat!Position(p),
                                                  [k \in 0 .. (m - 1) |-> u.d[k]])]
  BY <1>6, <1>7, Zenon
<1>12. ToDo' = [ToDo EXCEPT ![p] =
                  [u EXCEPT !.pos = IF u.pos = NULL THEN NULL ELSE u.pos + m,
                            !.d = [k \in 0 .. (Flat!Size(u.d) - m - 1) |-> u.d[k + m]]]]
  BY <1>5, <1>10, Zenon
<1>13. Flat!Chunk(p, m)
  BY <1>8, <1>9, <1>11, <1>12, Zenon DEF Flat!Chunk
<1> QED
  BY <1>1, <1>13 DEF Flat!FlatNext

LEMMA AsReturn ==
  ASSUME NEW p \in Procs, NEW t, ToDo[p] = t, t # NULL, NEW n \in Nat, DOMAIN t.d = 0 .. (n - 1),
         NEW pos, pos = IF t.pos = NULL THEN off[t.f] ELSE t.pos,
         n = 0 \/ pos + n > MAXFILE * BSIZE,
         ToDo' = [ToDo EXCEPT ![p] = NULL], UNCHANGED <<Seen, Kept, off>>
  PROVE  Flat!FlatNext
<1>1. Flat!Size(t.d) = n /\ Flat!Position(p) = pos
  BY SizeIs DEF Flat!Position
<1>2. Flat!Return(p)
  BY <1>1 DEF Flat!Return
<1> QED
  BY <1>2 DEF Flat!FlatNext

LEMMA AsRead ==
  ASSUME NEW f \in Files, NEW m \in 1 .. MaxLen, NEW n \in Nat, DOMAIN Seen[f] = 0 .. (n - 1),
         off[f] + m <= n, off' = [off EXCEPT ![f] = off[f] + m], UNCHANGED <<Seen, Kept, ToDo>>
  PROVE  Flat!FlatNext
<1>1. Flat!Size(Seen[f]) = n
  BY SizeIs
<1>2. Flat!Read(f, m)
  BY <1>1 DEF Flat!Read
<1> QED
  BY <1>2 DEF Flat!FlatNext

LEMMA AsReopen ==
  ASSUME NEW f \in Files, off' = [off EXCEPT ![f] = 0], UNCHANGED <<Seen, Kept, ToDo>>
  PROVE  Flat!FlatNext
<1>1. Flat!Reopen(f)
  BY DEF Flat!Reopen
<1> QED
  BY <1>1 DEF Flat!FlatNext

LEMMA AsDelete ==
  ASSUME NEW f \in Files, NEW e, DOMAIN e = {}, e = [k \in {} |-> e[k]],
         Seen' = [Seen EXCEPT ![f] = e], Kept' = Kept \/ Kept' = Seen', UNCHANGED <<off, ToDo>>
  PROVE  Flat!FlatNext
<1>1. Flat!Empty = e
  <2>1. 0 .. (0 - 1) = {}
    OBVIOUS
  <2> QED
    BY <2>1 DEF Flat!Empty, Flat!Data
<1>2. Flat!Delete(f)
  BY <1>1 DEF Flat!Delete
<1> QED
  BY <1>2 DEF Flat!FlatNext

LEMMA AsCrash ==
  ASSUME off' = [f \in Files |-> 0], ToDo' = [p \in Procs |-> NULL], Seen' = Kept, UNCHANGED Kept
  PROVE  Flat!FlatNext
<1>1. Flat!Crash
  BY DEF Flat!Crash
<1> QED
  BY <1>1 DEF Flat!FlatNext

-----------------------------------------------------------------------------
(* The contents of a file are its bytes.                                   *)
ByteSeq(s, f, n) == [k \in 0 .. (n - 1) |-> Byte(s, f, k)]

LEMMA SizedByte ==
  ASSUME NEW s, NEW f, NEW n \in Nat, Sized(s, f, n), NEW k \in 0 .. (n - 1)
  PROVE  /\ k \in Inside /\ k \div BSIZE \in 0 .. ((n - 1) \div BSIZE)
         /\ Present(s, f, k \div BSIZE)
<1> DEFINE b == k \div BSIZE
           m == MAXFILE * BSIZE
           y == b * BSIZE
<1>1. n <= m /\ m \in Nat
  BY DEF Sized
<1> HIDE DEF m
<1>2. k \in 0 .. (m - 1)
  BY <1>1
<1>3. k \in Inside
  BY <1>2 DEF Inside, m
<1>4. b \in Nat /\ b < MAXFILE
  BY <1>3, InsideIs
<1>5. y <= k /\ y \in Nat
  <2>1. b * BSIZE <= k
    BY QuotientTimes
  <2> HIDE DEF b
  <2> QED
    BY <1>4, <2>1
<1>6. Present(s, f, b)
  <2>1. y < n
    <3> HIDE DEF y
    <3> QED
      BY <1>5
  <2> QED
    BY <1>4, <2>1 DEF Sized, There
<1>7. b \in 0 .. ((n - 1) \div BSIZE)
  <2> DEFINE q == (n - 1) \div BSIZE
  <2>1. n - 1 \in Nat
    OBVIOUS
  <2>2. q \in Nat /\ (y < n - 1 => b <= q)
    <3> DEFINE x == n - 1
    <3> HIDE DEF b, x
    <3>1. x \in Nat
      BY <2>1 DEF x
    <3>2. x \div BSIZE \in Nat /\ (y < x => b <= x \div BSIZE)
      BY <1>4, <3>1, QuotientBelow
    <3> QED
      BY <3>2 DEF x
  <2>3. y = n - 1 => q = b
    <3> HIDE DEF b
    <3>1. y \div BSIZE = b
      BY <1>4, Multiple
    <3> HIDE DEF y
    <3> QED
      BY <3>1
  <2>4. y < n - 1 \/ y = n - 1
    <3> HIDE DEF b, y
    <3> QED
      BY <1>5
  <2>5. b <= q
    <3> HIDE DEF b, q, y
    <3> QED
      BY <1>4, <2>2, <2>3, <2>4
  <2> HIDE DEF b, q, y
  <2>6. b \in 0 .. q
    BY <1>4, <2>2, <2>5
  <2> QED
    BY <2>6 DEF q
<1> QED
  BY <1>3, <1>6, <1>7

LEMMA ContentIs ==
  ASSUME NEW x, NEW ip, NEW s, NEW f, s.blk = x.blk, s.A[f] = ip.addrs, ip.size \in Nat,
         Sized(s, f, ip.size)
  PROVE  Content(x, ip) = ByteSeq(s, f, ip.size)
<1> DEFINE n == ip.size
           blocks == [bn \in 0 .. ((n - 1) \div BSIZE) |-> Block(x.blk, ip.addrs, bn)]
<1>1. ASSUME NEW k \in 0 .. (n - 1)
      PROVE  x.blk[blocks[k \div BSIZE]][k % BSIZE] = Byte(s, f, k)
  <2> DEFINE b == k \div BSIZE
             r == k % BSIZE
  <2>1. b \in 0 .. ((n - 1) \div BSIZE) /\ Present(s, f, b)
    BY SizedByte
  <2>2. blocks[b] = Block(x.blk, ip.addrs, b)
    <3> HIDE DEF b
    <3> QED
      BY <2>1
  <2>3. Byte(s, f, k) = s.blk[Block(s.blk, s.A[f], b)][r]
    BY <2>1, Zenon DEF Byte
  <2> HIDE DEF blocks, b, r
  <2> QED
    BY <2>2, <2>3, Zenon DEF b, r
<1>2. Content(x, ip) = [k \in 0 .. (n - 1) |-> x.blk[blocks[k \div BSIZE]][k % BSIZE]]
  BY Zenon DEF Content
<1> HIDE DEF blocks
<1> QED
  BY <1>1, <1>2, Zenon DEF ByteSeq

(* All after the first n bytes is clear.                                   *)
Clear(s, f, n) == \A y \in Inside : y >= n => Byte(s, f, y) = 0

(* What an inode that names less says of the bytes.                        *)
LEMMA LessBytes ==
  ASSUME NEW s, NEW u, NEW f \in Files, u.blk = s.blk,
         \A i \in Roots0 : u.A[f][i] \in {0, s.A[f][i]}, NEW y \in Inside
  PROVE  /\ Byte(u, f, y) \in {0, Byte(s, f, y)}
         /\ Present(u, f, y \div BSIZE) => Byte(u, f, y) = Byte(s, f, y)
<1> DEFINE b == y \div BSIZE
           r == y % BSIZE
           path == Path(b)
           l == Len(path)
<1>1. b \in Nat /\ b < MAXFILE
  BY InsideIs
<1>2. path[1] \in Roots0 /\ l \in 1 .. 4
  BY <1>1, PathIs
<1>3. Reads(s, f, y, b, path, l, r) /\ Reads(u, f, y, b, path, l, r)
  BY ByteIs
<1>4. Present(u, f, b) <=> \E n : Nodes(u, f, path, l, n)
  BY DEF Present
<1> HIDE DEF b, r, path, l
<1>5. ASSUME NEW n, Nodes(u, f, path, l, n)
      PROVE  Nodes(s, f, path, l, n)
  <2>1. n[1] # 0 /\ n[1] = u.A[f][path[1]]
    BY <1>2, <1>5 DEF Nodes
  <2>2. n[1] = s.A[f][path[1]]
    BY <1>2, <2>1
  <2> QED
    BY <1>5, <2>2 DEF Nodes
<1>6. Present(u, f, b) => Byte(u, f, y) = Byte(s, f, y)
  BY <1>3, <1>4, <1>5 DEF Reads
<1>7. ~Present(u, f, b) => Byte(u, f, y) = 0
  BY <1>3 DEF Reads
<1> QED
  BY <1>6, <1>7 DEF b

(* The inode on the disk and the one in the cache agree on the contents.   *)
LEMMA DiskSame ==
  ASSUME NEW x, NEW s, NEW f \in Files, NEW ip, s.blk = x.blk, s.A[f] = ip.addrs, ip.size \in Nat,
         x.dino[f].size = ip.size, \A i \in Roots0 : x.dino[f].addrs[i] \in {0, s.A[f][i]},
         Sized(OfDisk(x), f, ip.size), Sized(s, f, ip.size), Clear(s, f, ip.size)
  PROVE  Content(x, x.dino[f]) = Content(x, ip) /\ Clear(OfDisk(x), f, ip.size)
<1> DEFINE u == OfDisk(x)
           n == ip.size
           jp == x.dino[f]
<1>1. u.blk = x.blk /\ u.A[f] = jp.addrs /\ jp.size = n
  BY OfDiskIs
<1>2. Content(x, ip) = ByteSeq(s, f, n)
  BY ContentIs
<1> HIDE DEF u, jp
<1>3. Content(x, jp) = ByteSeq(u, f, n)
  <2>1. Sized(u, f, jp.size) /\ jp.size \in Nat
    BY <1>1 DEF u
  <2>2. Content(x, jp) = ByteSeq(u, f, jp.size)
    BY <1>1, <2>1, ContentIs
  <2> QED
    BY <1>1, <2>2
<1>4. \A i \in Roots0 : u.A[f][i] \in {0, s.A[f][i]}
  BY <1>1 DEF jp
<1>5. Sized(u, f, n)
  BY DEF u
<1>8. u.blk = s.blk /\ n \in Nat /\ Clear(s, f, n)
  BY <1>1
<1> HIDE DEF n
<1>9. \A y \in Inside : Byte(u, f, y) \in {0, Byte(s, f, y)}
  BY <1>4, <1>8, LessBytes
<1>10. \A y \in Inside : Present(u, f, y \div BSIZE) => Byte(u, f, y) = Byte(s, f, y)
  BY <1>4, <1>8, LessBytes
<1>6. ASSUME NEW k \in 0 .. (n - 1) PROVE Byte(u, f, k) = Byte(s, f, k)
  <2>1. k \in Inside /\ Present(u, f, k \div BSIZE)
    BY <1>5, <1>8, SizedByte
  <2> QED
    BY <1>10, <2>1
<1>7. Clear(u, f, n)
  BY <1>8, <1>9, Zenon DEF Clear
<1> USE DEF n
<1> QED
  BY <1>2, <1>3, <1>6, <1>7, Zenon DEF ByteSeq, u, jp

-----------------------------------------------------------------------------
(* What makes the refinement hold: the size of an open file is on the      *)
(* disk, its offset is inside of it, all behind the end of a file is       *)
(* clear, here and on the disk that a crash leaves, and a pwrite is one    *)
(* chunk.                                                                  *)
SizesOK == \A f \in Files : inode[f] # NULL =>
             disk.dino[f].size = inode[f].size /\ off[f] <= inode[f].size
SysClear == \A f \in Files : Clear(Sys, f, Current(f).size)
StableClear == \A f \in Files : Clear(OfDisk(stable), f, stable.dino[f].size)

CallFlat(c) ==
  /\ c.n \in 0 .. MaxLen /\ c.i <= c.n
  /\ c.pc # "write" => c.n <= MaxChunk /\ c.i \in {0, c.n}
  /\ c.pc = "catchup" => c.i = 0
CallsFlat == \A p \in Procs : call[p] # NULL => CallFlat(call[p])

FlatInv == SizesOK /\ SysClear /\ StableClear /\ CallsFlat

LEMMA CurrentIs ==
  ASSUME TypeOK, NEW f \in Files
  PROVE  Current(f) \in Inodes /\ Current(f).size \in Nat
<1>1. Current(f) \in Inodes
  BY TypeIs DEF Current, Disks
<1> QED
  BY <1>1, InodeIs

LEMMA CurrentNext ==
  ASSUME TypeOK', NEW f \in Files
  PROVE  Current(f)' \in Inodes /\ Current(f)'.size \in Nat
<1>1. Current(f)' \in Inodes
  BY TypeIsNext DEF Current, Disks
<1> QED
  BY <1>1, InodeIs

(* What programs see are the bytes of the image.                           *)
LEMMA SeenNow ==
  ASSUME BlocksIndInv
  PROVE  Seen = [f \in Files |-> ByteSeq(Sys, f, Current(f).size)]
<1>1. ASSUME NEW f \in Files
      PROVE  Content(disk, Current(f)) = ByteSeq(Sys, f, Current(f).size)
  <2>1. Sys.blk = disk.blk /\ Sys.A[f] = Current(f).addrs
    BY SysIs
  <2>2. Current(f).size \in Nat /\ Sized(Sys, f, Current(f).size)
    BY CurrentIs DEF BlocksIndInv, SysOK
  <2> QED
    BY <2>1, <2>2, ContentIs
<1> QED
  BY <1>1, Zenon DEF Seen

LEMMA SeenThen ==
  ASSUME BlocksIndInv'
  PROVE  Seen' = [f \in Files |-> ByteSeq(Sys', f, Current(f)'.size)]
<1>1. ASSUME NEW f \in Files
      PROVE  Content(disk', Current(f)') = ByteSeq(Sys', f, Current(f)'.size)
  <2>1. Sys'.blk = disk'.blk /\ Sys'.A[f] = Current(f)'.addrs
    BY DEF Sys
  <2>2. Current(f)'.size \in Nat /\ Sized(Sys', f, Current(f)'.size)
    BY CurrentNext DEF BlocksIndInv, SysOK
  <2> QED
    BY <2>1, <2>2, ContentIs
<1> QED
  BY <1>1, Zenon DEF Seen

LEMMA SeenSame ==
  ASSUME BlocksIndInv, BlocksIndInv', \A f \in Files : Current(f)'.size = Current(f).size,
         SameBytes(Sys, Sys')
  PROVE  Seen' = Seen
<1>1. ASSUME NEW f \in Files
      PROVE  ByteSeq(Sys', f, Current(f)'.size) = ByteSeq(Sys, f, Current(f).size)
  <2>1. Current(f).size \in Nat /\ Sized(Sys, f, Current(f).size)
    BY CurrentIs DEF BlocksIndInv, SysOK
  <2>2. ASSUME NEW k \in 0 .. (Current(f).size - 1)
        PROVE  Byte(Sys', f, k) = Byte(Sys, f, k)
    <3>1. k \in Inside
      BY <2>1, SizedByte
    <3> QED
      BY <3>1 DEF SameBytes
  <2> QED
    BY <2>2, Zenon DEF ByteSeq
<1> QED
  BY <1>1, SeenNow, SeenThen, Zenon

(* What a crash would leave after a step.                                  *)
LEMMA Settles ==
  ASSUME BlocksIndInv', SizesOK', SysClear', StableClear, stable' = disk' \/ stable' = stable
  PROVE  StableClear' /\ (Kept' = Kept \/ Kept' = Seen')
<1>1. CASE stable' = stable
  <2>1. StableClear'
    BY <1>1 DEF StableClear
  <2>2. Kept' = Kept
    BY <1>1 DEF Kept
  <2> QED
    BY <2>1, <2>2
<1>2. CASE stable' = disk'
  <2>1. ASSUME NEW f \in Files
        PROVE  /\ Content(disk', disk'.dino[f]) = Content(disk', Current(f)')
               /\ Clear(OfDisk(disk'), f, disk'.dino[f].size)
    <3> DEFINE ip == Current(f)'
               s == Sys'
               x == disk'
    <3>1. s.blk = x.blk /\ s.A[f] = ip.addrs
      BY DEF Sys
    <3>2. ip.size \in Nat /\ Sized(s, f, ip.size)
      BY CurrentNext DEF BlocksIndInv, SysOK
    <3>3. x.dino[f].size = ip.size /\ \A i \in Roots0 : x.dino[f].addrs[i] \in {0, s.A[f][i]}
      <4>1. CASE inode'[f] = NULL
        <5>1. ip = x.dino[f]
          BY <4>1 DEF Current
        <5> QED
          BY <3>1, <5>1
      <4>2. CASE inode'[f] # NULL
        <5>1. ip = inode'[f]
          BY <4>2 DEF Current
        <5>2. x.dino[f].size = ip.size
          BY <4>2, <5>1 DEF SizesOK
        <5>3. \A i \in Roots0 : x.dino[f].addrs[i] \in {0, inode'[f].addrs[i]}
          BY <4>2 DEF BlocksIndInv, Behind
        <5> QED
          BY <3>1, <5>1, <5>2, <5>3
      <4> QED
        BY <4>1, <4>2
    <3>4. Sized(OfDisk(x), f, ip.size)
      <4>1. Sized(OfDisk(x), f, x.dino[f].size)
        BY DEF BlocksIndInv, DiskOK
      <4> QED
        BY <3>3, <4>1
    <3>5. Clear(s, f, ip.size)
      BY DEF SysClear
    <3> HIDE DEF s, ip, x
    <3>6. Content(x, x.dino[f]) = Content(x, ip) /\ Clear(OfDisk(x), f, ip.size)
      BY <3>1, <3>2, <3>3, <3>4, <3>5, DiskSame
    <3> QED
      BY <3>3, <3>6 DEF x, ip
  <2>2. StableClear'
    BY <1>2, <2>1 DEF StableClear
  <2>3. Kept' = Seen'
    BY <1>2, <2>1, Zenon DEF Kept, Seen
  <2> QED
    BY <2>2, <2>3
<1> QED
  BY <1>1, <1>2

LEMMA Ends ==
  ASSUME NEW p, NEW x, EndOp(p, x)
  PROVE  disk' = x /\ (stable' = disk' \/ stable' = stable)
BY DEF EndOp

(* What a call still has to write.                                         *)
LEMMA RestIs ==
  ASSUME NEW c \in Calls, CallFlat(c)
  PROVE  /\ Rest(c) # NULL /\ c.off + c.i # NULL
         /\ c.n - c.i \in Nat /\ DOMAIN Rest(c).d = 0 .. (c.n - c.i - 1)
         /\ Rest(c).f = c.f
         /\ Rest(c).pos = IF c.pc = "write" THEN NULL ELSE c.off + c.i
         /\ Rest(c).d = [k \in 0 .. (c.n - c.i - 1) |-> c.i + k + 1]
<1> DEFINE n == c.n - c.i
           d == [k \in 0 .. (n - 1) |-> c.i + k + 1]
           b == IF c.pc = "write" THEN NULL ELSE c.off + c.i
<1>1. c.f \in Files /\ c.i \in Nat /\ c.off \in Nat /\ n \in 0 .. MaxLen
  BY CallIs, BlocksAssumption DEF CallFlat
<1>2. d \in [0 .. (n - 1) -> Nat]
  <2> HIDE DEF n
  <2>1. \A k \in 0 .. (n - 1) : c.i + k + 1 \in Nat
    BY <1>1
  <2> QED
    BY <2>1
<1>3. Rest(c) = [f |-> c.f, pos |-> b, d |-> d]
  BY DEF Rest
<1>4. c.off + c.i \in Nat /\ b \in Nat \cup {NULL}
  BY <1>1
<1>5. n \in Nat /\ DOMAIN d = 0 .. (n - 1)
  BY <1>1
<1> HIDE DEF b, d, n
<1>6. d \in UNION {[0 .. (m - 1) -> Nat] : m \in 0 .. MaxLen}
  BY <1>1, <1>2
<1>7. Rest(c) \in Rests
  BY <1>1, <1>3, <1>4, <1>6 DEF Rests
<1>8. Rest(c) # NULL /\ c.off + c.i # NULL
  BY <1>4, <1>7, RestAssumption
<1>9. Rest(c).f = c.f /\ Rest(c).pos = b /\ Rest(c).d = d
  BY <1>3
<1> QED
  BY <1>5, <1>8, <1>9 DEF b, d, n

LEMMA ToDoIs ==
  ASSUME TypeOK, NEW p \in Procs, NEW k, call' = [call EXCEPT ![p] = k]
  PROVE  /\ k \in Calls => ToDo' = [ToDo EXCEPT ![p] = Rest(k)]
         /\ k = NULL => ToDo' = [ToDo EXCEPT ![p] = NULL]
         /\ ToDo[p] = IF call[p] = NULL THEN NULL ELSE Rest(call[p])
<1>1. call \in [Procs -> Calls \cup {NULL}]
  BY TypeIs
<1>2. \A q \in Procs : call'[q] = IF q = p THEN k ELSE call[q]
  BY <1>1
<1>3. k \in Calls => k # NULL
  BY NullAssumption
<1>4. ToDo' = [q \in Procs |-> IF call'[q] = NULL THEN NULL ELSE Rest(call'[q])]
  BY DEF ToDo, Rest
<1>5. DOMAIN ToDo = Procs /\ \A q \in Procs : ToDo[q] = IF call[q] = NULL THEN NULL ELSE Rest(call[q])
  BY DEF ToDo
<1>6. ASSUME NEW v, v = IF k = NULL THEN NULL ELSE Rest(k)
      PROVE  ToDo' = [ToDo EXCEPT ![p] = v]
  <2>1. [ToDo EXCEPT ![p] = v] = [q \in Procs |-> IF q = p THEN v ELSE ToDo[q]]
    BY <1>5, Zenon
  <2>2. ASSUME NEW q \in Procs
        PROVE  (IF call'[q] = NULL THEN NULL ELSE Rest(call'[q])) = IF q = p THEN v ELSE ToDo[q]
    <3>1. CASE q = p
      BY <1>2, <1>6, <3>1
    <3>2. CASE q # p
      BY <1>2, <1>5, <3>2
    <3> QED
      BY <3>1, <3>2
  <2> QED
    BY <1>4, <2>1, <2>2, Zenon
<1>7. k \in Calls => ToDo' = [ToDo EXCEPT ![p] = Rest(k)]
  BY <1>3, <1>6
<1>8. k = NULL => ToDo' = [ToDo EXCEPT ![p] = NULL]
  BY <1>6
<1> QED
  BY <1>5, <1>7, <1>8

LEMMA ToDoSame ==
  ASSUME call' = call
  PROVE  ToDo' = ToDo
BY DEF ToDo, Rest

LEMMA CallsFlatStep ==
  ASSUME TypeOK, CallsFlat, NEW p \in Procs, NEW k, k # NULL => CallFlat(k),
         call' = [call EXCEPT ![p] = k]
  PROVE  CallsFlat'
<1>1. call \in [Procs -> Calls \cup {NULL}]
  BY TypeIs
<1>2. \A q \in Procs : call'[q] = IF q = p THEN k ELSE call[q]
  BY <1>1
<1>3. ASSUME NEW q \in Procs, call'[q] # NULL
      PROVE  CallFlat(call'[q])
  BY <1>2, <1>3 DEF CallsFlat
<1> QED
  BY <1>3 DEF CallsFlat, CallFlat

(* A step that changes neither the disk nor the inodes.                    *)
LEMMA FlatUnchanged ==
  ASSUME FlatInv, UNCHANGED <<disk, stable, inode>>,
         \A f \in Files : inode[f] # NULL => off'[f] <= inode[f].size, CallsFlat'
  PROVE  FlatInv' /\ UNCHANGED <<Seen, Kept>>
<1>1. Sys' = Sys /\ \A f \in Files : Current(f)' = Current(f)
  BY DEF Sys, Current
<1>2. Seen' = Seen /\ Kept' = Kept
  BY <1>1, Zenon DEF Seen, Kept
<1>3. SizesOK'
  BY DEF FlatInv, SizesOK
<1>4. SysClear'
  BY <1>1 DEF FlatInv, SysClear
<1>5. StableClear'
  BY DEF FlatInv, StableClear
<1> QED
  BY <1>2, <1>3, <1>4, <1>5 DEF FlatInv

LEMMA FlatStutter ==
  ASSUME FlatInv, UNCHANGED <<disk, stable, inode, off, call>>
  PROVE  FlatInv' /\ UNCHANGED <<Seen, Kept, off, ToDo>>
<1>1. \A f \in Files : inode[f] # NULL => off'[f] <= inode[f].size
  BY DEF FlatInv, SizesOK
<1>2. CallsFlat'
  BY DEF FlatInv, CallsFlat, CallFlat
<1> QED
  BY <1>1, <1>2, FlatUnchanged, ToDoSame

(* A step that changes the bytes of one file.                              *)
LEMMA SeenPut ==
  ASSUME BlocksIndInv, BlocksIndInv', NEW f \in Files,
         \A g \in Files : g # f => Current(g)'.size = Current(g).size,
         \A g \in Files, y \in Inside : g # f => Byte(Sys', g, y) = Byte(Sys, g, y)
  PROVE  /\ Seen' = [Seen EXCEPT ![f] = ByteSeq(Sys', f, Current(f)'.size)]
         /\ SysClear => \A g \in Files : g # f => Clear(Sys', g, Current(g)'.size)
<1>1. ASSUME NEW g \in Files, g # f
      PROVE  ByteSeq(Sys', g, Current(g)'.size) = ByteSeq(Sys, g, Current(g).size)
  <2>1. Current(g).size \in Nat /\ Sized(Sys, g, Current(g).size)
    BY CurrentIs DEF BlocksIndInv, SysOK
  <2>2. ASSUME NEW k \in 0 .. (Current(g).size - 1)
        PROVE  Byte(Sys', g, k) = Byte(Sys, g, k)
    <3>1. k \in Inside
      BY <2>1, SizedByte
    <3> QED
      BY <1>1, <3>1
  <2> QED
    BY <1>1, <2>2, Zenon DEF ByteSeq
<1>2. Seen' = [Seen EXCEPT ![f] = ByteSeq(Sys', f, Current(f)'.size)]
  BY <1>1, SeenNow, SeenThen, Zenon
<1>3. SysClear => \A g \in Files : g # f => Clear(Sys', g, Current(g)'.size)
  BY Zenon DEF SysClear, Clear
<1> QED
  BY <1>2, <1>3

-----------------------------------------------------------------------------
(* The steps of Blocks as steps of FlatFile.                               *)
LEMMA OpenFlat ==
  ASSUME BlocksIndInv, FlatInv, NEW f \in Files, Open(f)
  PROVE  FlatInv' /\ Flat!FlatNext
<1>1. TypeOK /\ inode[f] = NULL /\ inode' = [inode EXCEPT ![f] = disk.dino[f]]
  BY DEF BlocksIndInv, Open
<1>2. disk' = disk /\ stable' = stable /\ call' = call /\ off' = [off EXCEPT ![f] = 0]
  BY DEF Open
<1>3. disk.dino[f] \in Inodes /\ disk.dino[f] # NULL /\ disk.dino[f].size \in Nat
  BY <1>1, InodeIs, TypeIs, NullAssumption DEF Disks
<1>4. \A g \in Files : inode'[g] = (IF g = f THEN disk.dino[f] ELSE inode[g])
                       /\ off'[g] = (IF g = f THEN 0 ELSE off[g])
  BY <1>1, <1>2, TypeIs
<1>5. \A g \in Files : Current(g)' = Current(g)
  BY <1>1, <1>2, <1>3, <1>4 DEF Current
<1>6. Sys' = Sys
  BY <1>2, <1>5 DEF Sys
<1>7. Seen' = Seen /\ Kept' = Kept
  BY <1>2, <1>5, Zenon DEF Seen, Kept
<1>8. SizesOK'
  <2> SUFFICES ASSUME NEW g \in Files, inode'[g] # NULL
               PROVE  disk'.dino[g].size = inode'[g].size /\ off'[g] <= inode'[g].size
    BY DEF SizesOK
  <2>1. CASE g = f
    BY <1>2, <1>3, <1>4, <2>1
  <2>2. CASE g # f
    BY <1>2, <1>4, <2>2 DEF FlatInv, SizesOK
  <2> QED
    BY <2>1, <2>2
<1>9. SysClear'
  BY <1>5, <1>6 DEF FlatInv, SysClear
<1>10. StableClear'
  BY <1>2 DEF FlatInv, StableClear
<1>11. CallsFlat'
  BY <1>2 DEF FlatInv, CallsFlat, CallFlat
<1>12. Flat!FlatNext
  BY <1>2, <1>7, AsReopen, ToDoSame
<1> QED
  BY <1>8, <1>9, <1>10, <1>11, <1>12 DEF FlatInv

(* The inode leaves the cache, and the file stays.                         *)
LEMMA LeaveFlat ==
  ASSUME BlocksIndInv, BlocksIndInv', FlatInv, NEW f \in Files, inode[f] # NULL, Left(f), disk' = disk
  PROVE  SysClear' /\ Seen' = Seen
<1>1. TypeOK /\ Behind
  BY DEF BlocksIndInv
<1>2. /\ Sys'.blk = Sys.blk /\ \A g \in Files : Sys'.A[g] = Current(g)'.addrs
      /\ \A g \in Files : Sys.A[g] = Current(g).addrs
  BY DEF Sys
<1>3. \A g \in Files : inode'[g] = IF g = f THEN NULL ELSE inode[g]
  BY LeftIs
<1>4. \A g \in Files : g # f => Current(g)' = Current(g)
  BY <1>3 DEF Current
<1>5. Current(f)' = disk.dino[f] /\ Current(f) = inode[f]
  BY <1>3 DEF Current
<1>6. disk.dino[f].size = inode[f].size
  BY DEF FlatInv, SizesOK
<1>7. \A g \in Files : Current(g)'.size = Current(g).size
  BY <1>4, <1>5, <1>6
<1> DEFINE n == inode[f].size
<1>8. Sized(OfDisk(disk), f, n) /\ Clear(Sys, f, n) /\ n \in Nat
  <2>1. Sized(OfDisk(disk), f, disk.dino[f].size)
    BY DEF BlocksIndInv, DiskOK
  <2>2. Current(f).size \in Nat
    BY <1>1, CurrentIs
  <2> QED
    BY <1>5, <1>6, <2>1, <2>2 DEF FlatInv, SysClear
<1>9. \A i \in Roots0 : Sys'.A[f][i] \in {0, Sys.A[f][i]}
  BY <1>1, <1>2, <1>5 DEF Behind
<1>10. ASSUME NEW y \in Inside
       PROVE  Byte(Sys', f, y) = Byte(Sys, f, y)
  <2>1. Byte(Sys', f, y) \in {0, Byte(Sys, f, y)}
    BY <1>2, <1>9, LessBytes
  <2>2. Present(Sys', f, y \div BSIZE) => Byte(Sys', f, y) = Byte(Sys, f, y)
    BY <1>2, <1>9, LessBytes
  <2>3. y \in Nat
    BY InsideIs
  <2>4. CASE y >= n
    <3>1. Byte(Sys, f, y) = 0
      BY <1>8, <2>4 DEF Clear
    <3> QED
      BY <2>1, <3>1
  <2>5. CASE y < n
    <3>1. y \in 0 .. (n - 1)
      BY <1>8, <2>3, <2>5
    <3>2. Present(OfDisk(disk), f, y \div BSIZE)
      <4> HIDE DEF n
      <4> QED
        BY <1>8, <3>1, SizedByte
    <3>3. Sys'.blk = OfDisk(disk).blk /\ Sys'.A[f] = OfDisk(disk).A[f]
      BY <1>2, <1>5, OfDiskIs, SysIs
    <3>4. Present(Sys', f, y \div BSIZE)
      BY <3>2, <3>3, SizedIs
    <3> QED
      BY <2>2, <3>4
  <2> HIDE DEF n
  <2> QED
    BY <1>8, <2>3, <2>4, <2>5
<1>11. SameBytes(Sys, Sys')
  <2>1. \A g \in Files, y \in Inside : g # f => Byte(Sys', g, y) = Byte(Sys, g, y)
    BY <1>2, <1>4, BytesOf
  <2> QED
    BY <1>10, <2>1 DEF SameBytes
<1>12. Seen' = Seen
  BY <1>7, <1>11, SeenSame
<1>13. SysClear'
  BY <1>7, <1>11, Zenon DEF FlatInv, SysClear, Clear, SameBytes
<1> QED
  BY <1>12, <1>13

(* A file without an address has no bytes.                                 *)
LEMMA EmptyBytes ==
  ASSUME NEW s, NEW f \in Files, s.A[f] = NoAddrs, NEW y \in Inside
  PROVE  Byte(s, f, y) = 0
<1> DEFINE b == y \div BSIZE
           r == y % BSIZE
           path == Path(b)
           l == Len(path)
<1>1. b \in Nat /\ b < MAXFILE
  BY InsideIs
<1>2. path[1] \in Roots0 /\ l \in 1 .. 4
  BY <1>1, PathIs
<1>3. Reads(s, f, y, b, path, l, r)
  BY ByteIs
<1>4. Present(s, f, b) <=> \E n : Nodes(s, f, path, l, n)
  BY DEF Present
<1> HIDE DEF b, r, path, l
<1>5. NoAddrs[path[1]] = 0
  BY <1>2 DEF NoAddrs, Roots0
<1>6. ~Present(s, f, b)
  <2> SUFFICES ASSUME NEW n, Nodes(s, f, path, l, n) PROVE FALSE
    BY <1>4
  <2>1. n[1] # 0 /\ n[1] = s.A[f][path[1]]
    BY <1>2 DEF Nodes
  <2> QED
    BY <1>5, <2>1
<1> QED
  BY <1>3, <1>6 DEF Reads

LEMMA CloseFlat ==
  ASSUME BlocksIndInv, BlocksIndInv', FlatInv, NEW f \in Files, NEW nlink, Close(f, nlink)
  PROVE  FlatInv' /\ (Flat!FlatNext \/ UNCHANGED <<Seen, Kept, off, ToDo>>)
<1> DEFINE t == itrunc(Txn(f))
<1>1. TypeOK /\ inode[f] # NULL
  BY DEF Close, BlocksIndInv
<1>2. CASE nlink = 0 /\ t.panic # "none"
  <2>1. UNCHANGED <<disk, stable, inode, off, call>>
    BY <1>2, Zenon DEF Close, Panic
  <2> QED
    BY <2>1, FlatStutter
<1>3. CASE ~(nlink = 0 /\ t.panic # "none")
  <2>1. /\ IF nlink = 0 THEN EndOp(NULL, Truncated(t, f)) ELSE EndOp(NULL, disk)
        /\ inode' = [inode EXCEPT ![f] = NULL] /\ off' = off /\ call' = call
    BY <1>3 DEF Close
  <2>2. stable' = disk' \/ stable' = stable
    BY <2>1, Ends
  <2>3. Left(f)
    BY <1>1, <2>1, CloseLeaves
  <2> HIDE DEF t
  <2>4. /\ disk'.blk = disk.blk
        /\ \A g \in Files : inode'[g] = IF g = f THEN NULL ELSE inode[g]
        /\ \A g \in Files : g # f => disk'.dino[g] = disk.dino[g]
        /\ disk' = disk \/ disk'.dino[f] = NewInode
    BY <1>1, <2>3, LeftIs
  <2>5. SizesOK'
    <3> SUFFICES ASSUME NEW g \in Files, inode'[g] # NULL
                 PROVE  disk'.dino[g].size = inode'[g].size /\ off'[g] <= inode'[g].size
      BY DEF SizesOK
    <3>1. g # f
      BY <2>4
    <3> QED
      BY <2>1, <2>4, <3>1 DEF FlatInv, SizesOK
  <2>6. CallsFlat'
    BY <2>1 DEF FlatInv, CallsFlat, CallFlat
  <2>7. ToDo' = ToDo
    BY <2>1, ToDoSame
  <2>8. CASE disk' = disk
    <3>1. SysClear' /\ Seen' = Seen
      BY <1>1, <2>3, <2>8, LeaveFlat
    <3>2. StableClear' /\ (Kept' = Kept \/ Kept' = Seen')
      BY <2>2, <2>5, <3>1, Settles DEF FlatInv
    <3>3. Flat!FlatNext \/ UNCHANGED <<Seen, Kept, off, ToDo>>
      BY <2>1, <2>7, <3>1, <3>2, AsCommit
    <3> QED
      BY <2>5, <2>6, <3>1, <3>2, <3>3 DEF FlatInv
  <2>9. CASE disk'.dino[f] = NewInode
    <3>1. /\ Sys'.blk = Sys.blk /\ \A g \in Files : Sys'.A[g] = Current(g)'.addrs
          /\ \A g \in Files : Sys.A[g] = Current(g).addrs
      BY <2>4 DEF Sys
    <3>2. \A g \in Files : g # f => Current(g)' = Current(g)
      BY <2>4 DEF Current
    <3>3. Current(f)'.size = 0 /\ Sys'.A[f] = NoAddrs
      BY <2>4, <2>9, <3>1, NewInodeIs DEF Current
    <3>4. \A g \in Files, y \in Inside : g # f => Byte(Sys', g, y) = Byte(Sys, g, y)
      BY <3>1, <3>2, BytesOf
    <3>5. /\ Seen' = [Seen EXCEPT ![f] = ByteSeq(Sys', f, 0)]
          /\ \A g \in Files : g # f => Clear(Sys', g, Current(g)'.size)
      BY <3>2, <3>3, <3>4, SeenPut DEF FlatInv
    <3>6. Clear(Sys', f, 0)
      BY <3>3, EmptyBytes DEF Clear
    <3>7. SysClear'
      BY <3>3, <3>5, <3>6 DEF SysClear
    <3>8. StableClear' /\ (Kept' = Kept \/ Kept' = Seen')
      BY <2>2, <2>5, <3>7, Settles DEF FlatInv
    <3> DEFINE e == ByteSeq(Sys', f, 0)
    <3>9. DOMAIN e = {} /\ e = [k \in {} |-> e[k]]
      <4>1. 0 .. (0 - 1) = {}
        OBVIOUS
      <4> QED
        BY <4>1, Zenon DEF ByteSeq
    <3>10. Flat!FlatNext
      <4> HIDE DEF e
      <4>1. Seen' = [Seen EXCEPT ![f] = e]
        BY <3>5 DEF e
      <4> QED
        BY <2>1, <2>7, <3>8, <3>9, <4>1, AsDelete
    <3> QED
      BY <2>5, <2>6, <3>7, <3>8, <3>10 DEF FlatInv
  <2> QED
    BY <2>4, <2>8, <2>9
<1> QED
  BY <1>2, <1>3

(* write and pwrite are called.                                            *)
LEMMA CalledFlat ==
  ASSUME BlocksIndInv, FlatInv, NEW p \in Procs, NEW c \in Calls, c.i = 0, c.n \in 0 .. MaxLen,
         c.pc = "write" \/ (c.n <= MaxChunk /\ c.off \in Offsets), Called(p, c)
  PROVE  FlatInv' /\ Flat!FlatNext
<1>1. /\ TypeOK /\ call[p] = NULL /\ call' = [call EXCEPT ![p] = c]
      /\ UNCHANGED <<disk, stable, inode, off>>
  BY DEF Called, BlocksIndInv
<1>2. c.n \in Nat /\ c.f \in Files /\ c.off \in Nat /\ c.pc \in {"write", "catchup", "pwrite"}
  BY CallIs
<1>3. CallFlat(c)
  BY <1>2 DEF CallFlat
<1>4. CallsFlat'
  BY <1>1, <1>3, CallsFlatStep DEF FlatInv
<1>5. \A g \in Files : inode[g] # NULL => off'[g] <= inode[g].size
  BY <1>1 DEF FlatInv, SizesOK
<1>6. FlatInv' /\ UNCHANGED <<Seen, Kept>>
  BY <1>1, <1>4, <1>5, FlatUnchanged
<1>7. ToDo' = [ToDo EXCEPT ![p] = Rest(c)] /\ ToDo[p] = NULL
  BY <1>1, ToDoIs
<1> DEFINE b == IF c.pc = "write" THEN NULL ELSE c.off
           n == c.n
<1>8. Rest(c) = [f |-> c.f, pos |-> b, d |-> [k \in 0 .. (n - 1) |-> k + 1]]
  <2>1. c.n - c.i - 1 = n - 1 /\ c.off + c.i = c.off
    BY <1>2
  <2>2. \A k \in 0 .. (n - 1) : c.i + k + 1 = k + 1
    BY <1>2
  <2> QED
    BY <2>1, <2>2, Zenon DEF Rest
<1>9. b \in Offsets \cup {NULL} /\ n \in 0 .. MaxLen
  OBVIOUS
<1> HIDE DEF b, n
<1>10. Flat!FlatNext
  BY <1>1, <1>2, <1>6, <1>7, <1>8, <1>9, AsCall
<1> QED
  BY <1>6, <1>10

LEMMA FilewriteFlat ==
  ASSUME BlocksIndInv, FlatInv, NEW p \in Procs, NEW f \in Files, NEW n \in WriteLens, filewrite(p, f, n)
  PROVE  FlatInv' /\ Flat!FlatNext
<1> DEFINE c == [pc |-> "write", f |-> f, n |-> n, i |-> 0, off |-> 0, cur |-> 0]
<1>1. n \in Nat /\ n \in 0 .. MaxLen
  BY BlocksAssumption
<1>2. c \in Calls
  BY <1>1 DEF Calls
<1>3. Called(p, c)
  BY DEF filewrite
<1>4. c.i = 0 /\ c.n = n /\ c.pc = "write"
  OBVIOUS
<1> HIDE DEF c
<1> QED
  BY <1>1, <1>2, <1>3, <1>4, CalledFlat

LEMMA FilepwriteFlat ==
  ASSUME PwriteLens \subseteq 0 .. MaxChunk, BlocksIndInv, FlatInv, NEW p \in Procs, NEW f \in Files,
         NEW n \in PwriteLens, NEW o \in Offsets, filepwrite(p, f, n, o)
  PROVE  FlatInv' /\ Flat!FlatNext
<1> DEFINE pc == IF HasGap(f, o) THEN "catchup" ELSE "pwrite"
           cur == inode[f].size \div BSIZE
           c == [pc |-> pc, f |-> f, n |-> n, i |-> 0, off |-> o, cur |-> cur]
<1>1. n \in Nat /\ n \in 0 .. MaxLen /\ n \in 0 .. MaxChunk /\ o \in Nat
  BY BlocksAssumption
<1>2. cur \in Nat
  <2>1. inode[f] # NULL /\ inode[f].size \in Nat
    BY TypeIs, InodeIs DEF filepwrite, BlocksIndInv
  <2> QED
    BY <2>1, QuotientBelow
<1>3. pc \in {"catchup", "pwrite"}
  OBVIOUS
<1>4. Called(p, c)
  BY Zenon DEF filepwrite
<1> HIDE DEF pc, cur
<1>5. c \in Calls
  BY <1>1, <1>2, <1>3 DEF Calls
<1>6. c.i = 0 /\ c.n = n /\ c.off = o /\ n <= MaxChunk
  BY <1>1
<1> HIDE DEF c
<1> QED
  BY <1>1, <1>4, <1>5, <1>6, CalledFlat

(* A round of catchupoffset changes no byte.                               *)
LEMMA CatchupFlat ==
  ASSUME BlocksIndInv, BlocksIndInv', FlatInv, NEW p \in Procs, catchupoffset(p)
  PROVE  FlatInv' /\ (Flat!FlatNext \/ UNCHANGED <<Seen, Kept, off, ToDo>>)
<1> DEFINE c == call[p]
           f == c.f
           t == bmap(Txn(f), c.cur)
           pc == IF c.cur + 1 > c.off \div BSIZE THEN "pwrite" ELSE "catchup"
           k == [c EXCEPT !.cur = c.cur + 1, !.pc = pc]
           sz == inode[f].size
<1>1. c # NULL /\ c.pc = "catchup" /\ TypeOK /\ SysOK
  BY DEF catchupoffset, BlocksIndInv
<1>2. c \in Calls /\ c.f \in Files /\ c.cur \in Nat /\ c.off \in Nat /\ CallFlat(c)
  BY <1>1, CallIs, TypeIs DEF FlatInv, CallsFlat
<1>3. CASE t.panic # "none"
  <2>1. UNCHANGED <<disk, stable, inode, off, call>>
    BY <1>3, Zenon DEF catchupoffset, Panic
  <2> QED
    BY <2>1, FlatStutter
<1>4. CASE t.panic = "none"
  <2>1. /\ inode[f] # NULL /\ inode[f] \in Inodes /\ c.cur < MAXFILE
        /\ EndOp(p, WithBlocks(t)) /\ Grew(f, t, inode[f].size)
        /\ k \in Calls /\ k.pc = pc /\ k.f = f /\ k.off = c.off /\ k.n = c.n /\ k.i = c.i
        /\ call' = [call EXCEPT ![p] = k] /\ off' = off
    BY <1>4, CatchupIs
  <2>2. PICK d, at : Labels(Sys, d, at)
    BY <1>1 DEF SysOK, Labelled
  <2>3. t \in Txns /\ SameBytes(Sys, Img(t, f, Sys.A))
    <3> DEFINE v == Txn(f)
               b == c.cur
    <3>1. v \in Txns /\ v.panic = "none" /\ Img(v, f, Sys.A) = Sys
      BY <1>1, <1>2, <2>1, TxnIs
    <3>2. Sys.A \in [Files -> Addrs] /\ f \in Files
      BY <1>1, <1>2, SysImage DEF Images
    <3>3. b \in Nat /\ b < MAXFILE /\ t = bmap(v, b) /\ t.panic = "none"
      BY <1>2, <1>4, <2>1
    <3> HIDE DEF v, b, t, f
    <3>4. t \in Txns /\ SameBytes(Img(v, f, Sys.A), Img(t, f, Sys.A))
      BY <2>2, <3>1, <3>2, <3>3, BmapBytes
    <3> QED
      BY <3>1, <3>4
  <2> HIDE DEF t
  <2>4. sz \in Nat /\ sz = Current(f).size
    BY <2>1, InodeIs DEF Current
  <2>5. /\ Sys' = Img(t, f, Sys.A)
        /\ inode'[f].size = sz
        /\ \A g \in Files : (inode'[g] = NULL) = (inode[g] = NULL) /\ (g # f => inode'[g] = inode[g])
        /\ \A g \in Files : g # f => disk'.dino[g] = disk.dino[g]
        /\ disk'.dino[f] = disk.dino[f] \/ disk'.dino[f].size = sz
    BY <1>1, <1>2, <2>1, <2>3, <2>4, GrewIs
  <2>6. \A g \in Files : Current(g)'.size = Current(g).size
    <3> SUFFICES ASSUME NEW g \in Files PROVE Current(g)'.size = Current(g).size
      OBVIOUS
    <3>1. CASE g = f
      <4>1. Current(g)' = inode'[g] /\ Current(g) = inode[g]
        BY <2>1, <2>5, <3>1 DEF Current
      <4>2. inode'[g].size = inode[g].size
        BY <2>5, <3>1
      <4> QED
        BY <4>1, <4>2
    <3>2. CASE g # f
      BY <2>5, <3>2 DEF Current
    <3> QED
      BY <3>1, <3>2
  <2>7. SameBytes(Sys, Sys')
    BY <2>3, <2>5
  <2>8. Seen' = Seen
    BY <2>6, <2>7, SeenSame
  <2>9. SysClear'
    BY <2>6, <2>7, Zenon DEF FlatInv, SysClear, Clear, SameBytes
  <2>10. SizesOK'
    <3> SUFFICES ASSUME NEW g \in Files, inode'[g] # NULL
                 PROVE  disk'.dino[g].size = inode'[g].size /\ off'[g] <= inode'[g].size
      BY DEF SizesOK
    <3>1. inode[g] # NULL /\ disk.dino[g].size = inode[g].size /\ off[g] <= inode[g].size
      BY <2>5 DEF FlatInv, SizesOK
    <3>2. CASE g = f
      BY <2>1, <2>5, <3>1, <3>2
    <3>3. CASE g # f
      BY <2>1, <2>5, <3>1, <3>3
    <3> QED
      BY <3>2, <3>3
  <2>11. stable' = disk' \/ stable' = stable
    BY <2>1, Ends
  <2>12. StableClear' /\ (Kept' = Kept \/ Kept' = Seen')
    BY <2>9, <2>10, <2>11, Settles DEF FlatInv
  <2>13. pc # "write"
    OBVIOUS
  <2> HIDE DEF k, pc
  <2>14. CallFlat(k)
    BY <1>1, <1>2, <2>1, <2>13 DEF CallFlat
  <2>15. CallsFlat'
    BY <1>1, <2>1, <2>14, CallsFlatStep DEF FlatInv
  <2>16. Rest(k) = Rest(c)
    BY <1>1, <2>1, <2>13 DEF Rest
  <2>17. ToDo' = ToDo
    <3>2. ToDo' = [ToDo EXCEPT ![p] = Rest(k)]
      BY <1>1, <2>1, ToDoIs
    <3>3. ToDo[p] = Rest(c)
      BY <1>1, <2>1, ToDoIs
    <3>1. ToDo' = [ToDo EXCEPT ![p] = ToDo[p]]
      BY <2>16, <3>2, <3>3, Zenon
    <3> QED
      BY <3>1, Zenon DEF ToDo
  <2>18. Flat!FlatNext \/ UNCHANGED <<Seen, Kept, off, ToDo>>
    BY <2>1, <2>8, <2>12, <2>17, AsCommit
  <2> QED
    BY <2>9, <2>10, <2>12, <2>15, <2>18 DEF FlatInv
<1> QED
  BY <1>3, <1>4

(* A call ends.                                                            *)
LEMMA TooFarIs ==
  ASSUME NEW pos \in Nat, NEW n \in Nat, TooFar(pos, n)
  PROVE  pos + n > MAXFILE * BSIZE
<1> DEFINE m == MAXFILE * BSIZE
           x == pos + n
<1>1. m \in Nat /\ m < UINT /\ UINT \in Nat \ {0} /\ x \in Nat /\ x >= pos
  BY Lengths
<1>2. x % UINT < pos \/ x % UINT > m
  BY DEF TooFar
<1> HIDE DEF m, x
<1>3. x < UINT => x % UINT = x
  BY <1>1, ModIs
<1>4. x > m
  BY <1>1, <1>2, <1>3
<1> QED
  BY <1>4 DEF m, x

LEMMA ReturnFlat ==
  ASSUME BlocksIndInv, FlatInv, NEW p \in Procs, call[p] # NULL, Return(p),
         NEW pos, pos = IF call[p].pc = "write" THEN off[call[p].f] ELSE call[p].off + call[p].i,
         call[p].i = call[p].n \/ pos + (call[p].n - call[p].i) > MAXFILE * BSIZE
  PROVE  FlatInv' /\ Flat!FlatNext
<1> DEFINE c == call[p]
           n == c.n - c.i
           t == Rest(c)
<1>1. call' = [call EXCEPT ![p] = NULL] /\ UNCHANGED <<disk, stable, inode, off>> /\ TypeOK
  BY DEF Return, BlocksIndInv
<1>2. c \in Calls /\ CallFlat(c) /\ c.n \in Nat /\ c.i \in Nat
  BY <1>1, CallIs, TypeIs DEF FlatInv, CallsFlat
<1>3. CallsFlat'
  BY <1>1, CallsFlatStep DEF FlatInv
<1>4. \A g \in Files : inode[g] # NULL => off'[g] <= inode[g].size
  BY <1>1 DEF FlatInv, SizesOK
<1>5. FlatInv' /\ UNCHANGED <<Seen, Kept>>
  BY <1>1, <1>3, <1>4, FlatUnchanged
<1>6. ToDo' = [ToDo EXCEPT ![p] = NULL] /\ ToDo[p] = t
  BY <1>1, ToDoIs
<1>7. /\ t # NULL /\ c.off + c.i # NULL /\ n \in Nat /\ DOMAIN t.d = 0 .. (n - 1) /\ t.f = c.f
      /\ t.pos = IF c.pc = "write" THEN NULL ELSE c.off + c.i
  BY <1>2, RestIs
<1>8. n = 0 \/ pos + n > MAXFILE * BSIZE
  BY <1>2
<1>9. pos = IF t.pos = NULL THEN off[t.f] ELSE t.pos
  BY <1>7
<1> HIDE DEF t, n
<1>10. Flat!FlatNext
  BY <1>1, <1>5, <1>6, <1>7, <1>8, <1>9, AsReturn
<1> QED
  BY <1>5, <1>10

LEMMA DoneFlat ==
  ASSUME BlocksIndInv, FlatInv, NEW p \in Procs, Done(p)
  PROVE  FlatInv' /\ Flat!FlatNext
<1>1. call[p] # NULL /\ call[p].i = call[p].n /\ Return(p)
  BY DEF Done
<1> DEFINE pos == IF call[p].pc = "write" THEN off[call[p].f] ELSE call[p].off + call[p].i
<1> HIDE DEF pos
<1>2. pos = IF call[p].pc = "write" THEN off[call[p].f] ELSE call[p].off + call[p].i
  BY DEF pos
<1> QED
  BY <1>1, <1>2, ReturnFlat

(* A chunk is put over the bytes of the file.                              *)
Overlaid(s, u, f, pos, d, n, sz) ==
  /\ ByteSeq(u, f, sz) = Flat!Overlay(ByteSeq(s, f, n), pos, d)
  /\ Clear(u, f, sz)

LEMMA OverlayBytes ==
  ASSUME NEW s, NEW u, NEW f \in Files, NEW pos \in Nat, NEW m \in Nat, NEW n \in Nat,
         NEW d, DOMAIN d = 0 .. (m - 1), Puts(s, u, f, pos, d, m), Clear(s, f, n),
         NEW sz, sz = Max({pos + m, n}), sz <= MAXFILE * BSIZE
  PROVE  Overlaid(s, u, f, pos, d, n, sz)
<1> DEFINE q == MAXFILE * BSIZE
           c == ByteSeq(s, f, n)
<1>1. sz \in Nat /\ sz >= n /\ sz >= pos + m /\ q \in Nat /\ sz <= q
  BY MaxOfTwo
<1>2. DOMAIN c = 0 .. (n - 1) /\ \A k \in 0 .. (n - 1) : c[k] = Byte(s, f, k)
  BY DEF ByteSeq
<1> HIDE DEF q, c
<1>3. ASSUME NEW k \in 0 .. (sz - 1)
      PROVE  Byte(u, f, k) = IF k >= pos /\ k < pos + m THEN d[k - pos] ELSE IF k < n THEN c[k] ELSE 0
  <2>1. k \in Nat /\ k \in 0 .. (q - 1)
    BY <1>1
  <2>2. k \in Inside
    BY <2>1 DEF q, Inside
  <2>3. Byte(u, f, k) = IF f = f /\ pos <= k /\ k < pos + m THEN d[k - pos] ELSE Byte(s, f, k)
    BY <2>2 DEF Puts
  <2>4. k < n => c[k] = Byte(s, f, k)
    BY <1>2, <2>1
  <2>5. k >= n => Byte(s, f, k) = 0
    BY <2>2 DEF Clear
  <2>6. (k >= pos <=> pos <= k) /\ (k < n \/ k >= n)
    BY <2>1
  <2> QED
    BY <2>3, <2>4, <2>5, <2>6
<1>4. Flat!Overlay(c, pos, d) =
        [k \in 0 .. (sz - 1) |-> IF k >= pos /\ k < pos + m THEN d[k - pos] ELSE IF k < n THEN c[k] ELSE 0]
  <2>1. DOMAIN c = 0 .. (n - 1)
    BY <1>2
  <2>2. Flat!Overlay(c, pos, d) = Laid(c, n, pos, d, m)
    BY <2>1, OverlayIs
  <2> QED
    BY <2>2, Zenon DEF Laid
<1>5. ByteSeq(u, f, sz) = Flat!Overlay(c, pos, d)
  BY <1>3, <1>4, Zenon DEF ByteSeq
<1>6. ASSUME NEW y \in Inside, y >= sz
      PROVE  Byte(u, f, y) = 0
  <2>1. y \in Nat
    BY InsideIs
  <2>2. y >= n /\ ~(y < pos + m)
    BY <1>1, <1>6, <2>1
  <2>3. Byte(u, f, y) = IF f = f /\ pos <= y /\ y < pos + m THEN d[y - pos] ELSE Byte(s, f, y)
    BY DEF Puts
  <2> QED
    BY <2>2, <2>3 DEF Clear
<1> QED
  BY <1>5, <1>6 DEF Overlaid, Clear, c

(* The call after a chunk.                                                 *)
RestsOf(c, m, k) ==
  LET b == IF c.pc = "write" THEN NULL ELSE c.off + c.i
      n == c.n - c.i
      z == [j \in 0 .. (n - 1) |-> c.i + j + 1]
  IN  /\ CallFlat(k) /\ n \in Nat /\ m \in 1 .. n /\ c.off + c.i # NULL
      /\ Rest(c) # NULL /\ Rest(c) = [f |-> c.f, pos |-> b, d |-> z]
      /\ Rest(k) = [f |-> c.f, pos |-> IF b = NULL THEN NULL ELSE b + m,
                    d |-> [j \in 0 .. (n - m - 1) |-> z[j + m]]]
      /\ ChunkData(c) = [j \in 0 .. (m - 1) |-> z[j]]

LEMMA RestAfter ==
  ASSUME NEW c \in Calls, CallFlat(c), c.pc # "catchup", c.i < c.n, NEW m, m = ChunkLen(c),
         NEW k, k \in Calls, k.pc = c.pc, k.f = c.f, k.off = c.off, k.n = c.n, k.i = c.i + m
  PROVE  RestsOf(c, m, k)
<1> DEFINE b == IF c.pc = "write" THEN NULL ELSE c.off + c.i
           n == c.n - c.i
           z == [j \in 0 .. (n - 1) |-> c.i + j + 1]
<1>1. c.i \in Nat /\ c.n \in Nat /\ c.off \in Nat /\ c.pc \in {"write", "catchup", "pwrite"} /\ c.f \in Files
  BY CallIs
<1>2. m \in Nat \ {0} /\ m <= n
  BY ChunkIs
<1>3. n \in Nat /\ m \in 1 .. n
  BY <1>1, <1>2
<1>4. Rest(c) # NULL /\ c.off + c.i # NULL
  BY RestIs
<1>5. Rest(c) = [f |-> c.f, pos |-> b, d |-> z]
  BY DEF Rest
<1>6. ASSUME c.pc # "write" PROVE k.i = c.n
  <2>1. c.i = 0 /\ c.n <= MaxChunk
    BY <1>1, <1>6 DEF CallFlat
  <2>2. MaxChunk \in Nat
    <3> DEFINE q == (MAXOPBLOCKS - 1 - 1 - 2) \div 2
    <3>1. q \in Nat
      BY BlocksAssumption
    <3> HIDE DEF q
    <3>2. q * BSIZE \in Nat
      BY <3>1
    <3> QED
      BY <3>2 DEF q, MaxChunk
  <2>3. ChunkLen(c) = IF c.n - c.i <= MaxChunk THEN c.n - c.i ELSE MaxChunk
    BY <1>3, <2>2, MinOfTwo DEF ChunkLen
  <2> QED
    BY <1>1, <2>1, <2>3
<1>7. CallFlat(k)
  BY <1>1, <1>3, <1>6 DEF CallFlat
<1>8. k.off + k.i = (c.off + c.i) + m /\ k.n - k.i - 1 = n - m - 1
  BY <1>1, <1>3
<1> DEFINE bk == IF b = NULL THEN NULL ELSE b + m
           zk == [j \in 0 .. (n - m - 1) |-> z[j + m]]
<1>9. (IF k.pc = "write" THEN NULL ELSE k.off + k.i) = bk
  BY <1>4, <1>8
<1>10. ASSUME NEW j \in 0 .. (n - m - 1)
       PROVE  k.i + j + 1 = z[j + m]
  <2>1. j + m \in 0 .. (n - 1) /\ c.i + (j + m) + 1 = c.i + m + j + 1
    BY <1>1, <1>3
  <2> HIDE DEF n
  <2> QED
    BY <2>1
<1>11. Rest(k) = [f |-> c.f, pos |-> bk, d |-> zk]
  <2> HIDE DEF bk, z, n
  <2>1. [j \in 0 .. (k.n - k.i - 1) |-> k.i + j + 1] = zk
    BY <1>8, <1>10, Zenon
  <2> HIDE DEF zk
  <2> QED
    BY <1>9, <2>1, Zenon DEF Rest
<1>12. ChunkData(c) = [j \in 0 .. (m - 1) |-> z[j]]
  <2>1. \A j \in 0 .. (m - 1) : z[j] = c.i + j + 1
    <3> HIDE DEF n
    <3> QED
      BY <1>3
  <2> HIDE DEF z
  <2> QED
    BY <2>1, Zenon DEF ChunkData
<1> HIDE DEF bk, zk, z, b
<1> QED
  BY <1>3, <1>4, <1>5, <1>7, <1>11, <1>12, Zenon DEF b, z, n, bk, zk, RestsOf

(* A chunk that does not panic: the bytes and the sizes after it.          *)
LEMMA WrittenBytes ==
  ASSUME BlocksIndInv, NEW p \in Procs, call[p] # NULL, call[p].i < call[p].n, NEW pos \in Nat,
         pos < UINT, ~TooFar(pos, ChunkLen(call[p])), FlatInv,
         CopyIn(Txn(call[p].f), pos, ChunkData(call[p])).panic = "none",
         Written(p, pos, CopyIn(Txn(call[p].f), pos, ChunkData(call[p])))
  PROVE  LET c  == call[p]
             f  == c.f
             m  == ChunkLen(c)
             sz == Max({pos + m, inode[f].size})
         IN  /\ Puts(Sys, Sys', f, pos, ChunkData(c), m)
             /\ disk'.dino[f].size = sz /\ inode'[f].size = sz
             /\ \A g \in Files : (inode'[g] = NULL) = (inode[g] = NULL) /\ (g # f => inode'[g] = inode[g])
             /\ \A g \in Files : g # f => disk'.dino[g] = disk.dino[g]
<1> DEFINE c == call[p]
           f == c.f
           m == ChunkLen(c)
           z == ChunkData(c)
           v == Txn(f)
           t == CopyIn(v, pos, z)
           end == pos + m
           n == inode[f].size
           sz == Max({end, n})
<1>1. TypeOK /\ SysOK /\ c \in Calls
  BY TypeIs DEF BlocksIndInv
<1>2. PICK d, at : Labels(Sys, d, at)
  BY <1>1 DEF SysOK, Labelled
<1>3. /\ f \in Files /\ inode[f] # NULL /\ n \in Nat /\ m \in Nat \ {0} /\ t \in Txns
      /\ Grew(f, t, sz) /\ sz \in Nat /\ sz <= MAXFILE * BSIZE /\ end <= MAXFILE * BSIZE
      /\ end > n => disk' = iupdate(t, f, [size |-> sz, addrs |-> t.addrs])
  BY WrittenIs
<1>4. z \in [0 .. (m - 1) -> Nat]
  BY <1>1, ChunkIs
<1>5. v \in Txns /\ v.panic = "none" /\ Img(v, f, Sys.A) = Sys
  BY <1>1, <1>3, TxnIs
<1>6. Sys.A \in [Files -> Addrs] /\ t.panic = "none"
  BY <1>1, SysImage DEF Images
<1>7. Puts(Sys, Img(t, f, Sys.A), f, pos, z, m)
  <2> HIDE DEF v, f, m, z, sz, n
  <2>1. Puts(Img(v, f, Sys.A), Img(t, f, Sys.A), f, pos, z, m)
    BY <1>2, <1>3, <1>4, <1>5, <1>6, CopyInPuts
  <2> QED
    BY <1>5, <2>1
<1> HIDE DEF t, sz
<1>8. /\ Sys' = Img(t, f, Sys.A)
      /\ inode'[f].size = sz
      /\ \A g \in Files : (inode'[g] = NULL) = (inode[g] = NULL) /\ (g # f => inode'[g] = inode[g])
      /\ \A g \in Files : g # f => disk'.dino[g] = disk.dino[g]
      /\ disk'.dino[f] = disk.dino[f] \/ disk'.dino[f].size = sz
  BY <1>1, <1>3, GrewIs
<1>9. disk'.dino[f].size = sz
  <2>1. CASE end > n
    <3> DEFINE ip == [size |-> sz, addrs |-> t.addrs]
    <3>1. disk' = iupdate(t, f, ip) /\ ip.size = sz
      BY <1>3, <2>1
    <3> HIDE DEF ip
    <3>2. disk'.dino[f] = ip
      BY <1>1, <1>3, <3>1, TypeIs, UpdatedIs
    <3> QED
      BY <3>1, <3>2
  <2>2. CASE ~(end > n)
    <3>1. sz = n
      <4> HIDE DEF n, m
      <4> QED
        BY <1>3, <2>2, MaxOfTwo DEF sz
    <3>2. disk.dino[f].size = n
      BY <1>3 DEF FlatInv, SizesOK
    <3> QED
      BY <1>8, <3>1, <3>2
  <2> QED
    BY <2>1, <2>2
<1>10. Puts(Sys, Sys', f, pos, z, m)
  BY <1>7, <1>8
<1> HIDE DEF f, m, z
<1> QED
  BY <1>8, <1>9, <1>10, Zenon DEF f, m, z, sz, end, n

LEMMA WrittenFlat ==
  ASSUME BlocksIndInv, BlocksIndInv', FlatInv, NEW p \in Procs, call[p] # NULL, call[p].i < call[p].n,
         NEW f \in Files, f = call[p].f, NEW pos \in Nat, pos < UINT, ~TooFar(pos, ChunkLen(call[p])),
         CopyIn(Txn(call[p].f), pos, ChunkData(call[p])).panic = "none",
         Written(p, pos, CopyIn(Txn(call[p].f), pos, ChunkData(call[p]))),
         call[p].pc # "catchup",
         pos = IF call[p].pc = "write" THEN off[call[p].f] ELSE call[p].off + call[p].i,
         off' = IF call[p].pc = "write"
                THEN [off EXCEPT ![call[p].f] = off[call[p].f] + ChunkLen(call[p])] ELSE off
  PROVE  FlatInv' /\ Flat!FlatNext
<1> DEFINE c == call[p]
           m == ChunkLen(c)
           z == ChunkData(c)
           n == inode[f].size
           sz == Max({pos + m, n})
           k == [c EXCEPT !.i = c.i + m]
<1>1. TypeOK /\ SysOK /\ c \in Calls /\ CallFlat(c)
  BY TypeIs DEF BlocksIndInv, FlatInv, CallsFlat
<1>2. /\ Puts(Sys, Sys', f, pos, z, m)
      /\ disk'.dino[f].size = sz /\ inode'[f].size = sz
      /\ \A g \in Files : (inode'[g] = NULL) = (inode[g] = NULL) /\ (g # f => inode'[g] = inode[g])
      /\ \A g \in Files : g # f => disk'.dino[g] = disk.dino[g]
  BY WrittenBytes
<1>3. /\ f \in Files /\ inode[f] # NULL /\ n \in Nat /\ m \in Nat \ {0}
      /\ sz \in Nat /\ sz <= MAXFILE * BSIZE
      /\ k \in Calls /\ k.pc = c.pc /\ k.f = f /\ k.off = c.off /\ k.n = c.n
      /\ call' = [call EXCEPT ![p] = k]
  BY WrittenIs
<1>4. k.i = c.i + m
  BY <1>1 DEF Calls
<1>5. stable' = disk' \/ stable' = stable
  <2> DEFINE t == CopyIn(Txn(f), pos, z)
  <2>1. \E x : EndOp(p, x)
    <3> HIDE DEF t
    <3> QED
      BY Zenon DEF Written
  <2> QED
    BY <2>1, Ends
<1>6. Current(f) = inode[f] /\ Current(f)'.size = sz
  <2>1. inode'[f] # NULL
    BY <1>2, <1>3
  <2>2. Current(f)' = inode'[f]
    BY <2>1 DEF Current
  <2> QED
    BY <1>2, <1>3, <2>2 DEF Current
<1>7. \A g \in Files : g # f => Current(g)' = Current(g)
  BY <1>2 DEF Current
<1>8. \A g \in Files, y \in Inside : g # f => Byte(Sys', g, y) = Byte(Sys, g, y)
  BY <1>2 DEF Puts
<1>9. /\ Seen' = [Seen EXCEPT ![f] = ByteSeq(Sys', f, sz)]
      /\ \A g \in Files : g # f => Clear(Sys', g, Current(g)'.size)
  BY <1>3, <1>6, <1>7, <1>8, SeenPut DEF FlatInv
<1>10. Clear(Sys, f, n)
  BY <1>3, <1>6 DEF FlatInv, SysClear
<1>11. DOMAIN z = 0 .. (m - 1)
  BY <1>1, ChunkIs
<1>12. Seen[f] = ByteSeq(Sys, f, n)
  BY <1>3, <1>6, SeenNow
<1>13. ByteSeq(Sys', f, sz) = Flat!Overlay(Seen[f], pos, z) /\ Clear(Sys', f, sz)
  <2> DEFINE s == Sys
             u == Sys'
  <2> HIDE DEF n, m, z, sz, s, u
  <2>1. Puts(s, u, f, pos, z, m) /\ Clear(s, f, n) /\ sz = Max({pos + m, n})
    BY <1>2, <1>10 DEF s, u, sz
  <2>2. Overlaid(s, u, f, pos, z, n, sz)
    BY <1>3, <1>11, <2>1, OverlayBytes
  <2> QED
    BY <1>12, <2>2, Zenon DEF s, u, Overlaid
<1>14. SysClear'
  BY <1>6, <1>9, <1>13 DEF SysClear
<1>15. SizesOK'
  <2> SUFFICES ASSUME NEW g \in Files, inode'[g] # NULL
               PROVE  disk'.dino[g].size = inode'[g].size /\ off'[g] <= inode'[g].size
    BY DEF SizesOK
  <2>1. inode[g] # NULL /\ disk.dino[g].size = inode[g].size /\ off[g] <= inode[g].size
    BY <1>2 DEF FlatInv, SizesOK
  <2>2. off \in [Files -> Nat] /\ off[g] \in Nat
    BY <1>1, TypeIs
  <2>3. CASE g = f
    <3>1. sz >= n /\ sz >= pos + m
      <4>1. pos + m \in Nat /\ n \in Nat
        BY <1>3
      <4> DEFINE y == pos + m
      <4> HIDE DEF n, m, y
      <4>2. sz >= n /\ sz >= y
        BY <4>1, MaxOfTwo DEF y
      <4> QED
        BY <4>2 DEF y
    <3>2. CASE c.pc = "write"
      <4>1. off'[g] = pos + m
        BY <2>2, <2>3, <3>2
      <4> QED
        BY <1>2, <2>3, <3>1, <4>1
    <3>3. CASE c.pc # "write"
      <4>1. off'[g] = off[g] /\ off[g] <= n
        BY <2>1, <2>3, <3>3
      <4> HIDE DEF n, m, sz
      <4> QED
        BY <1>2, <1>3, <2>2, <2>3, <3>1, <4>1
    <3> QED
      BY <3>2, <3>3
  <2>4. CASE g # f
    <3>1. off'[g] = off[g]
      BY <2>2, <2>4
    <3> QED
      BY <1>2, <2>1, <2>4, <3>1
  <2> QED
    BY <2>3, <2>4
<1>16. StableClear' /\ (Kept' = Kept \/ Kept' = Seen')
  BY <1>5, <1>14, <1>15, Settles DEF FlatInv
<1> DEFINE b == IF c.pc = "write" THEN NULL ELSE c.off + c.i
           r == c.n - c.i
           w == [j \in 0 .. (r - 1) |-> c.i + j + 1]
           q == IF b = NULL THEN NULL ELSE b + m
           x == [j \in 0 .. (r - m - 1) |-> w[j + m]]
           first == [j \in 0 .. (m - 1) |-> w[j]]
<1>17. /\ CallFlat(k) /\ r \in Nat /\ m \in 1 .. r /\ c.off + c.i # NULL
       /\ Rest(c) # NULL /\ Rest(c) = [f |-> f, pos |-> b, d |-> w]
       /\ Rest(k) = [f |-> f, pos |-> q, d |-> x] /\ z = first
  <2> DEFINE kk == k
  <2>1. kk \in Calls /\ kk.pc = c.pc /\ kk.f = c.f /\ kk.off = c.off /\ kk.n = c.n /\ kk.i = c.i + m
    BY <1>3, <1>4
  <2> HIDE DEF kk
  <2>2. RestsOf(c, m, kk)
    BY <1>1, <2>1, RestAfter
  <2> QED
    BY <2>2, Zenon DEF kk, RestsOf
<1>18. CallsFlat'
  BY <1>1, <1>3, <1>17, CallsFlatStep DEF FlatInv
<1>19. ToDo[p] = Rest(c) /\ ToDo' = [ToDo EXCEPT ![p] = Rest(k)]
  BY <1>1, <1>3, ToDoIs
<1>20. Flat!FlatNext
  <2> DEFINE t == Rest(c)
  <2>1. b = NULL <=> c.pc = "write"
    BY <1>17
  <2>2. off' = (IF b = NULL THEN [off EXCEPT ![f] = off[f] + m] ELSE off)
        /\ pos = IF b = NULL THEN off[f] ELSE b
    BY <2>1
  <2>3. Seen' = [Seen EXCEPT ![f] = Flat!Overlay(Seen[f], pos, first)]
    BY <1>9, <1>13, <1>17, Zenon
  <2>4. DOMAIN w = 0 .. (r - 1)
    OBVIOUS
  <2>5. ToDo[p] = t /\ t # NULL /\ t = [f |-> f, pos |-> b, d |-> w]
    BY <1>17, <1>19
  <2>6. ToDo' = [ToDo EXCEPT ![p] = [f |-> f, pos |-> q, d |-> x]]
    BY <1>17, <1>19, Zenon
  <2>7. r \in Nat /\ m \in 1 .. r /\ (Kept' = Kept \/ Kept' = Seen')
    BY <1>16, <1>17
  <2> HIDE DEF t, b, r, w, m
  <2>8. ChunkOf(p, f, b, w, t, r, m, pos)
    BY <2>2, <2>3, <2>4, <2>5, <2>6, <2>7, Zenon DEF ChunkOf
  <2> QED
    BY <2>8, AsChunk
<1> QED
  BY <1>14, <1>15, <1>16, <1>18, <1>20 DEF FlatInv

-----------------------------------------------------------------------------
(* A chunk of write.                                                       *)
LEMMA WriteiFlat ==
  ASSUME BlocksIndInv, BlocksIndInv', FlatInv, NEW p \in Procs, writei(p)
  PROVE  FlatInv' /\ (Flat!FlatNext \/ UNCHANGED <<Seen, Kept, off, ToDo>>)
<1> DEFINE c == call[p]
           f == c.f
           pos == off[f]
           t == CopyIn(Txn(f), pos, ChunkData(c))
           bad == pos > inode[f].size \/ TooFar(pos, ChunkLen(c))
<1>1. c # NULL /\ c.pc = "write" /\ c.i < c.n /\ TypeOK /\ SysOK
  BY DEF writei, BlocksIndInv
<1>2. /\ bad => Return(p)
      /\ ~bad /\ t.panic # "none" => Panic(t.panic)
      /\ ~bad /\ t.panic = "none" => Written(p, pos, t) /\ off' = [off EXCEPT ![f] = off[f] + ChunkLen(c)]
  <2> HIDE DEF t
  <2>1. t = CopyIn(Txn(f), pos, ChunkData(c))
    BY DEF t
  <2> QED
    BY <2>1, Zenon DEF writei
<1>3. c \in Calls /\ CallOK(c) /\ f \in Files /\ c.n \in Nat /\ c.i \in Nat
  BY <1>1, CallIs, TypeIs DEF BlocksIndInv, CallsOK
<1>4. pos \in Nat /\ inode[f] # NULL /\ inode[f].size \in Nat /\ pos <= inode[f].size
  BY <1>1, <1>3, InodeIs, TypeIs DEF CallOK, CallIn, FlatInv, SizesOK
<1>5. pos = IF c.pc = "write" THEN off[c.f] ELSE c.off + c.i
  BY <1>1
<1>6. CASE bad
  <2>1. TooFar(pos, ChunkLen(c)) /\ Return(p)
    BY <1>2, <1>4, <1>6
  <2>2. ChunkLen(c) \in Nat /\ ChunkLen(c) <= c.n - c.i
    BY <1>1, <1>3, ChunkIs
  <2>3. pos + ChunkLen(c) > MAXFILE * BSIZE
    BY <1>4, <2>1, <2>2, TooFarIs
  <2>4. MAXFILE * BSIZE \in Nat
    BY Lengths
  <2> DEFINE M == MAXFILE * BSIZE
             m == ChunkLen(c)
  <2>5. pos + (c.n - c.i) > MAXFILE * BSIZE
    <3> HIDE DEF M, m, pos
    <3>1. pos + (c.n - c.i) > M
      BY <1>3, <1>4, <2>2, <2>3, <2>4 DEF M, m
    <3> QED
      BY <3>1 DEF M
  <2> QED
    BY <1>1, <1>5, <2>1, <2>5, ReturnFlat
<1>7. CASE ~bad /\ t.panic # "none"
  <2>1. UNCHANGED <<disk, stable, inode, off, call>>
    BY <1>2, <1>7, Zenon DEF Panic
  <2> QED
    BY <2>1, FlatStutter
<1>8. CASE ~bad /\ t.panic = "none"
  <2>1. Written(p, pos, t) /\ off' = [off EXCEPT ![f] = off[f] + ChunkLen(c)]
    BY <1>2, <1>8
  <2>2. ~TooFar(pos, ChunkLen(c))
    BY <1>8
  <2>3. Sized(Sys, f, inode[f].size)
    BY <1>1, <1>3, <1>4 DEF SysOK, Current
  <2>4. pos < UINT
    <3>1. inode[f].size <= MAXFILE * BSIZE /\ MAXFILE * BSIZE < UINT /\ UINT \in Nat /\ MAXFILE * BSIZE \in Nat
      BY <2>3, Lengths DEF Sized
    <3> DEFINE M == MAXFILE * BSIZE
    <3> HIDE DEF M
    <3> QED
      BY <1>4, <3>1 DEF M
  <2>5. off' = IF c.pc = "write" THEN [off EXCEPT ![c.f] = off[c.f] + ChunkLen(c)] ELSE off
    BY <1>1, <2>1
  <2>6. c.pc # "catchup"
    BY <1>1
  <2>7. FlatInv' /\ Flat!FlatNext
    BY <1>1, <1>3, <1>4, <1>5, <1>8, <2>1, <2>2, <2>4, <2>5, <2>6, WrittenFlat
  <2> QED
    BY <2>7
<1> QED
  BY <1>6, <1>7, <1>8

(* The chunk of a pwrite that is not longer than one.                      *)
LEMMA PwriteiFlat ==
  ASSUME BlocksIndInv, BlocksIndInv', FlatInv, NEW p \in Procs, pwritei(p)
  PROVE  FlatInv' /\ (Flat!FlatNext \/ UNCHANGED <<Seen, Kept, off, ToDo>>)
<1> DEFINE c == call[p]
           f == c.f
           pos == c.off
           t == CopyIn(Txn(f), pos, ChunkData(c))
           bad == TooFar(pos, ChunkLen(c))
<1>1. c # NULL /\ c.pc = "pwrite" /\ c.i < c.n /\ TypeOK
  BY DEF pwritei, BlocksIndInv
<1>2. /\ bad => Return(p)
      /\ ~bad /\ t.panic # "none" => Panic(t.panic)
      /\ ~bad /\ t.panic = "none" => Written(p, pos, t) /\ off' = off
  <2> HIDE DEF t
  <2>1. t = CopyIn(Txn(f), pos, ChunkData(c))
    BY DEF t
  <2> QED
    BY <2>1, Zenon DEF pwritei
<1>3. c \in Calls /\ CallOK(c) /\ f \in Files /\ pos \in Nat /\ c.n \in Nat /\ c.i = 0
  BY <1>1, CallIs, TypeIs DEF BlocksIndInv, CallsOK, FlatInv, CallsFlat, CallFlat
<1>4. pos = IF c.pc = "write" THEN off[c.f] ELSE c.off + c.i
  BY <1>1, <1>3
<1>5. CASE bad
  <2>1. TooFar(pos, ChunkLen(c)) /\ Return(p)
    BY <1>2, <1>5
  <2>2. ChunkLen(c) \in Nat /\ ChunkLen(c) <= c.n - c.i
    BY <1>1, <1>3, ChunkIs
  <2>3. pos + ChunkLen(c) > MAXFILE * BSIZE
    BY <1>3, <2>1, <2>2, TooFarIs
  <2>4. MAXFILE * BSIZE \in Nat
    BY Lengths
  <2> DEFINE M == MAXFILE * BSIZE
             m == ChunkLen(c)
  <2>5. pos + (c.n - c.i) > MAXFILE * BSIZE
    <3> HIDE DEF M, m
    <3>1. pos + (c.n - c.i) > M
      BY <1>3, <2>2, <2>3, <2>4 DEF M, m
    <3> QED
      BY <3>1 DEF M
  <2> QED
    BY <1>1, <1>4, <2>1, <2>5, ReturnFlat
<1>6. CASE ~bad /\ t.panic # "none"
  <2>1. UNCHANGED <<disk, stable, inode, off, call>>
    BY <1>2, <1>6, Zenon DEF Panic
  <2> QED
    BY <2>1, FlatStutter
<1>7. CASE ~bad /\ t.panic = "none"
  <2>1. Written(p, pos, t) /\ off' = off
    BY <1>2, <1>7
  <2>2. ~TooFar(pos, ChunkLen(c)) /\ pos < UINT /\ c.pc # "catchup"
    BY <1>1, <1>3, <1>7 DEF CallOK, CallIn
  <2>3. off' = IF c.pc = "write" THEN [off EXCEPT ![c.f] = off[c.f] + ChunkLen(c)] ELSE off
    BY <1>1, <2>1
  <2>4. FlatInv' /\ Flat!FlatNext
    BY <1>1, <1>3, <1>4, <1>7, <2>1, <2>2, <2>3, WrittenFlat
  <2> QED
    BY <2>4
<1> QED
  BY <1>5, <1>6, <1>7

(* A read moves the offset of the open file, and no further than its end.  *)
LEMMA ReadiFlat ==
  ASSUME BlocksIndInv, BlocksIndInv', FlatInv, NEW f \in Files, NEW pos \in Nat, NEW n \in Nat, n <= MaxLen,
         NEW moves, moves => pos = off[f], readi(f, pos, n, moves)
  PROVE  FlatInv' /\ (Flat!FlatNext \/ UNCHANGED <<Seen, Kept, off, ToDo>>)
<1> DEFINE k == ReadLen(f, pos, n)
           sz == inode[f].size
           grows == ReadMap(f, pos, n).used # disk.used
<1>1. TypeOK /\ inode[f] # NULL
  BY DEF BlocksIndInv, readi
<1>2. sz \in Nat
  BY <1>1, InodeIs, TypeIs
<1>3. k = 0 \/ (k \in Nat /\ k <= n /\ pos + k <= sz)
  <2>1. CASE pos > inode[f].size \/ (pos + n) % UINT < pos
    BY <2>1, Zenon DEF ReadLen
  <2>2. CASE ~(pos > inode[f].size \/ (pos + n) % UINT < pos)
    <3> DEFINE r == inode[f].size - pos
    <3>1. k = Min({n, r})
      BY <2>2, Zenon DEF ReadLen
    <3>2. r \in Nat /\ pos + r = sz
      BY <1>2, <2>2
    <3> HIDE DEF r, k, sz
    <3>3. Min({n, r}) \in {n, r} /\ Min({n, r}) <= n /\ Min({n, r}) <= r
      BY <3>2, MinOfTwo
    <3> QED
      BY <1>2, <3>1, <3>2, <3>3
  <2> QED
    BY <2>1, <2>2
<1>4. /\ grows => Panic("log_write outside of trans")
      /\ ~grows => /\ off' = IF moves THEN [off EXCEPT ![f] = off[f] + k] ELSE off
                   /\ UNCHANGED <<disk, stable, inode, call>>
  BY Zenon DEF readi
<1> HIDE DEF grows, k
<1>5. CASE grows
  <2>1. UNCHANGED <<disk, stable, inode, off, call>>
    BY <1>4, <1>5, Zenon DEF Panic
  <2> QED
    BY <2>1, FlatStutter
<1>6. CASE ~grows /\ (~moves \/ k = 0)
  <2>1. off' = off /\ UNCHANGED <<disk, stable, inode, call>>
    <3>1. off \in [Files -> Nat] /\ off[f] + 0 = off[f]
      BY <1>1, TypeIs
    <3> QED
      BY <1>4, <1>6, <3>1
  <2>2. UNCHANGED <<disk, stable, inode, off, call>>
    BY <2>1
  <2> QED
    BY <2>2, FlatStutter
<1>7. CASE ~grows /\ moves /\ k # 0
  <2>1. off' = [off EXCEPT ![f] = off[f] + k] /\ UNCHANGED <<disk, stable, inode>> /\ call' = call
    BY <1>4, <1>7
  <2>2. k \in 1 .. MaxLen /\ off[f] + k <= sz
    BY <1>3, <1>7, BlocksAssumption
  <2>3. \A g \in Files : inode[g] # NULL => off'[g] <= inode[g].size
    <3>1. off \in [Files -> Nat]
      BY <1>1, TypeIs
    <3> QED
      BY <2>1, <2>2, <3>1 DEF FlatInv, SizesOK
  <2>4. CallsFlat'
    BY <2>1 DEF FlatInv, CallsFlat, CallFlat
  <2>5. FlatInv' /\ UNCHANGED <<Seen, Kept>>
    BY <2>1, <2>3, <2>4, FlatUnchanged
  <2>6. ToDo' = ToDo
    BY <2>1, ToDoSame
  <2>7. DOMAIN Seen[f] = 0 .. (sz - 1)
    <3>1. Current(f) = inode[f]
      BY <1>1 DEF Current
    <3>2. Seen[f] = ByteSeq(Sys, f, sz)
      BY <3>1, SeenNow
    <3> QED
      BY <3>2, Zenon DEF ByteSeq
  <2> HIDE DEF sz
  <2>8. Flat!FlatNext
    BY <1>2, <2>1, <2>2, <2>5, <2>6, <2>7, AsRead
  <2> QED
    BY <2>5, <2>8
<1> QED
  BY <1>5, <1>6, <1>7

(* After a crash the files are what the log had made durable.              *)
LEMMA CrashFlat ==
  ASSUME FlatInv, Crash
  PROVE  FlatInv' /\ Flat!FlatNext
<1>1. /\ disk' = stable /\ stable' = stable /\ inode' = [f \in Files |-> NULL]
      /\ off' = [f \in Files |-> 0] /\ call' = [p \in Procs |-> NULL]
  BY DEF Crash
<1>2. \A f \in Files : Current(f)' = stable.dino[f] /\ inode'[f] = NULL
  BY <1>1 DEF Current
<1>3. Sys' = OfDisk(stable)
  BY <1>1, <1>2 DEF Sys, OfDisk
<1>4. SysClear'
  BY <1>2, <1>3 DEF FlatInv, SysClear, StableClear
<1>5. StableClear'
  BY <1>1 DEF FlatInv, StableClear
<1>6. SizesOK' /\ CallsFlat'
  BY <1>1, <1>2 DEF SizesOK, CallsFlat
<1>7. Seen' = Kept /\ Kept' = Kept
  BY <1>1, <1>2, Zenon DEF Seen, Kept
<1>8. ToDo' = [p \in Procs |-> NULL]
  <2>1. \A p \in Procs : call'[p] = NULL
    BY <1>1
  <2>2. ToDo' = [p \in Procs |-> IF call'[p] = NULL THEN NULL ELSE Rest(call'[p])]
    BY DEF ToDo, Rest
  <2> QED
    BY <2>1, <2>2
<1>9. Flat!FlatNext
  BY <1>1, <1>7, <1>8, AsCrash
<1> QED
  BY <1>4, <1>5, <1>6, <1>9 DEF FlatInv

(* mkfs leaves empty files.                                                *)
LEMMA FlatStart ==
  ASSUME Init, BlocksIndInv
  PROVE  FlatInv /\ Flat!FlatInit
<1>1. /\ disk = [used |-> {0}, blk |-> [b \in BlockNos |-> Zeroes], dino |-> [f \in Files |-> NewInode]]
      /\ stable = disk /\ inode = [f \in Files |-> NULL]
      /\ off = [f \in Files |-> 0] /\ call = [p \in Procs |-> NULL]
  BY DEF Init
<1>2. \A f \in Files : Current(f) = NewInode /\ disk.dino[f] = NewInode /\ inode[f] = NULL
  BY <1>1 DEF Current
<1>3. OfDisk(disk) = Sys
  BY <1>2 DEF OfDisk, Sys
<1>4. \A f \in Files : Clear(Sys, f, 0)
  <2>1. \A f \in Files : Sys.A[f] = NoAddrs
    BY <1>2, NewInodeIs, SysIs
  <2> QED
    BY <2>1, EmptyBytes DEF Clear
<1>5. SysClear /\ StableClear
  BY <1>1, <1>2, <1>3, <1>4, NewInodeIs DEF SysClear, StableClear
<1>6. SizesOK /\ CallsFlat
  BY <1>1, <1>2 DEF SizesOK, CallsFlat
<1>7. Seen = [f \in Files |-> Flat!Empty]
  <2>1. 0 .. (0 - 1) = {}
    OBVIOUS
  <2>2. Flat!Empty = [k \in {} |-> k + 1]
    BY <2>1, Zenon DEF Flat!Empty, Flat!Data
  <2>3. \A f \in Files : ByteSeq(Sys, f, 0) = [k \in {} |-> Byte(Sys, f, k)]
    BY <2>1, Zenon DEF ByteSeq
  <2>4. \A f \in Files : ByteSeq(Sys, f, 0) = Flat!Empty
    BY <2>2, <2>3
  <2>5. \A f \in Files : Current(f).size = 0
    BY <1>2, NewInodeIs
  <2> QED
    BY <2>4, <2>5, SeenNow, Zenon
<1>8. Kept = Seen
  BY <1>1, <1>2, Zenon DEF Kept, Seen
<1>9. ToDo = [p \in Procs |-> NULL]
  BY <1>1 DEF ToDo
<1>10. Flat!FlatInit
  BY <1>1, <1>7, <1>8, <1>9, Zenon DEF Flat!FlatInit
<1> QED
  BY <1>5, <1>6, <1>10 DEF FlatInv

LEMMA FlatSteps ==
  ASSUME PwriteLens \subseteq 0 .. MaxChunk, BlocksIndInv, FlatInv, [Next]_blockVars
  PROVE  FlatInv' /\ (Flat!FlatNext \/ UNCHANGED <<Seen, Kept, off, ToDo>>)
<1> DEFINE Step == FlatInv' /\ (Flat!FlatNext \/ UNCHANGED <<Seen, Kept, off, ToDo>>)
<1> SUFFICES Step
  OBVIOUS
<1>0. BlocksIndInv'
  BY BlocksNext
<1>1. ASSUME NEW f \in Files, Open(f) PROVE Step
  BY <1>1, OpenFlat
<1>2. ASSUME NEW f \in Files, Close(f, 0) \/ Close(f, 1) PROVE Step
  BY <1>0, <1>2, CloseFlat
<1>3. ASSUME NEW p \in Procs, NEW f \in Files, NEW n \in WriteLens, filewrite(p, f, n) PROVE Step
  BY <1>3, FilewriteFlat
<1>4. ASSUME NEW p \in Procs, NEW f \in Files, NEW n \in PwriteLens, NEW o \in Offsets,
             filepwrite(p, f, n, o)
      PROVE  Step
  BY <1>4, FilepwriteFlat
<1>5. ASSUME NEW p \in Procs, catchupoffset(p) PROVE Step
  BY <1>0, <1>5, CatchupFlat
<1>6. ASSUME NEW p \in Procs, writei(p) PROVE Step
  BY <1>0, <1>6, WriteiFlat
<1>7. ASSUME NEW p \in Procs, pwritei(p) PROVE Step
  BY <1>0, <1>7, PwriteiFlat
<1>8. ASSUME NEW p \in Procs, Done(p) PROVE Step
  BY <1>8, DoneFlat
<1>9. ASSUME NEW f \in Files, NEW n \in WriteLens, fileread(f, n) PROVE Step
  <2>1. off[f] \in Nat /\ n \in Nat /\ n <= MaxLen
    BY BlocksAssumption, TypeIs DEF BlocksIndInv
  <2>2. readi(f, off[f], n, TRUE)
    BY <1>9 DEF fileread
  <2> QED
    BY <1>0, <2>1, <2>2, ReadiFlat
<1>10. ASSUME NEW f \in Files, NEW n \in PwriteLens, NEW o \in Offsets, filepread(f, n, o) PROVE Step
  <2>1. o \in Nat /\ n \in Nat /\ n <= MaxLen
    BY BlocksAssumption
  <2>2. readi(f, o, n, FALSE)
    BY <1>10 DEF filepread
  <2> QED
    BY <1>0, <2>1, <2>2, ReadiFlat
<1>11. CASE Crash
  BY <1>11, CrashFlat
<1>12. CASE UNCHANGED blockVars
  <2>1. UNCHANGED <<disk, stable, inode, off, call>>
    BY <1>12 DEF blockVars
  <2> QED
    BY <2>1, FlatStutter
<1> HIDE DEF Step
<1> QED
  BY <1>1, <1>2, <1>3, <1>4, <1>5, <1>6, <1>7, <1>8, <1>9, <1>10, <1>11, <1>12 DEF Next

(* The block trees implement flat files: whatever the geometry of the disk *)
(* and the interleaving of calls, each chunk of write and pwrite           *)
(* (file.c 136-216, fs.c 589-650) puts its bytes where the caller wants    *)
(* them and changes no other byte of any file, a gap reads as zeroes, a    *)
(* call ends early only at the largest size of a file, and a crash goes    *)
(* back to the files after some earlier chunk.  It is about pwrites that   *)
(* are not longer than one chunk: each chunk of a longer one is put at the *)
(* offset of the call (file.c 205).                                        *)
THEOREM TreesAreFiles ==
  ASSUME PwriteLens \subseteq 0 .. MaxChunk
  PROVE  Spec => FlatFiles
<1>1. Init => BlocksIndInv
  BY BlocksInit
<1>2. Init /\ BlocksIndInv => FlatInv /\ Flat!FlatInit
  BY FlatStart
<1>3. BlocksIndInv /\ FlatInv /\ [Next]_blockVars
        => FlatInv' /\ [Flat!FlatNext]_(<<Seen, Kept, off, ToDo>>)
  <2> SUFFICES ASSUME BlocksIndInv, FlatInv, [Next]_blockVars
               PROVE  FlatInv' /\ [Flat!FlatNext]_(<<Seen, Kept, off, ToDo>>)
    OBVIOUS
  <2>1. FlatInv' /\ (Flat!FlatNext \/ UNCHANGED <<Seen, Kept, off, ToDo>>)
    BY FlatSteps
  <2> QED
    BY <2>1, AsStutter
<1> QED
  BY <1>1, <1>2, <1>3, BlocksInductive, PTL DEF Spec, FlatFiles, Flat!FlatSpec
=============================================================================
