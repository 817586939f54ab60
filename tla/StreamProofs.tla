---------------------------- MODULE StreamProofs ----------------------------
(***************************************************************************)
(* Pipes and the console (IO) implement queues and edited lines (Stream):  *)
(* a step of IO is one step of Stream, or none that programs can see.      *)
(***************************************************************************)
EXTENDS IOProofs

-----------------------------------------------------------------------------
(* Remainders, for rings whose size divides the range of their indices.    *)

LEMMA ModDiv ==
  ASSUME NEW m \in Nat \ {0}, NEW x \in Int
  PROVE  x = m * (x \div m) + (x % m) /\ x \div m \in Int /\ x % m \in 0 .. m - 1
BY SMT

LEMMA ModUnique ==
  ASSUME NEW m \in Nat \ {0}, NEW a \in Int, NEW b \in Int, NEW r \in 0 .. m - 1,
         NEW s \in 0 .. m - 1, m * a + r = m * b + s
  PROVE  a = b /\ r = s
<1>1. ASSUME a > b PROVE FALSE
  <2>1. PICK d \in Nat : a = b + 1 + d
    BY <1>1
  <2>2. m * a = m * b + m + m * d
    BY <2>1
  <2>3. m * d \in Nat /\ m * b \in Int
    OBVIOUS
  <2> QED
    BY <2>2, <2>3
<1>2. ASSUME b > a PROVE FALSE
  <2>1. PICK d \in Nat : b = a + 1 + d
    BY <1>2
  <2>2. m * b = m * a + m + m * d
    BY <2>1
  <2>3. m * d \in Nat /\ m * a \in Int
    OBVIOUS
  <2> QED
    BY <2>2, <2>3
<1>3. a = b
  BY <1>1, <1>2
<1>4. m * a \in Int
  OBVIOUS
<1> QED
  BY <1>3, <1>4

(* Multiples of m do not count. *)
LEMMA ModAddMul ==
  ASSUME NEW m \in Nat \ {0}, NEW x \in Int, NEW d \in Int
  PROVE  (x + m * d) % m = x % m
<1>0. x + m * d \in Int
  OBVIOUS
<1>1. PICK a \in Int, r \in 0 .. m - 1 : x = m * a + r /\ r = x % m
  BY ModDiv
<1>2. PICK b \in Int, s \in 0 .. m - 1 : x + m * d = m * b + s /\ s = (x + m * d) % m
  BY <1>0, ModDiv
<1>3. m * (a + d) + r = m * b + s
  BY <1>1, <1>2
<1>4. r = s
  BY <1>3, ModUnique
<1> QED
  BY <1>1, <1>2, <1>4

LEMMA ModSum ==
  ASSUME NEW m \in Nat \ {0}, NEW x \in Int, NEW y \in Int
  PROVE  ((x % m) + y) % m = (x + y) % m
<1>1. PICK a \in Int, r \in 0 .. m - 1 : x = m * a + r /\ r = x % m
  BY ModDiv
<1>2. (r + y) \in Int /\ x + y = (r + y) + m * a
  BY <1>1
<1>3. ((r + y) + m * a) % m = (r + y) % m
  BY <1>2, ModAddMul
<1> QED
  BY <1>1, <1>2, <1>3

(* Two numbers less than m apart have different remainders. *)
LEMMA ModApart ==
  ASSUME NEW m \in Nat \ {0}, NEW x \in Int, NEW y \in Int, x < y, y - x < m
  PROVE  x % m # y % m
<1>1. PICK d \in Nat : d = y - x /\ d \in 1 .. m - 1
  OBVIOUS
<1>2. PICK a \in Int, r \in 0 .. m - 1 : x = m * a + r /\ r = x % m
  BY ModDiv
<1>3. PICK b \in Int, s \in 0 .. m - 1 : y = m * b + s /\ s = y % m
  BY ModDiv
<1>4. ASSUME r = s PROVE FALSE
  <2>1. m * (b - a) = d
    BY <1>1, <1>2, <1>3, <1>4
  <2>2. m * (b - a) + 0 = m * 0 + d /\ b - a \in Int /\ 0 \in 0 .. m - 1 /\ d \in 0 .. m - 1
    BY <1>1, <2>1
  <2>3. 0 = d
    BY <2>2, ModUnique
  <2> QED
    BY <1>1, <2>3
<1> QED
  BY <1>2, <1>3, <1>4

(* The sizes of the rings. *)
RingSize(m) == m \in Nat \ {0} /\ UINT % m = 0 /\ m < UINT

LEMMA RingSizes == RingSize(PIPESIZE) /\ RingSize(INPUT_BUF)
BY PipeAssumption DEF RingSize

(* That indices wrap around does not show in a ring. *)
LEMMA RingMod ==
  ASSUME NEW m, RingSize(m), NEW x \in Int
  PROVE  (x % UINT) % m = x % m
<1>0. m \in Nat \ {0} /\ UINT \in Nat \ {0} /\ UINT % m = 0
  BY Sizes DEF RingSize
<1>1. PICK c \in Int : UINT = m * c
  <2>1. UINT = m * (UINT \div m) + (UINT % m) /\ UINT \div m \in Int
    BY <1>0, ModDiv
  <2>2. m * (UINT \div m) \in Int
    BY <1>0, <2>1
  <2> QED
    BY <1>0, <2>1, <2>2
<1>2. PICK a \in Int, r \in 0 .. UINT - 1 : x = UINT * a + r /\ r = x % UINT
  BY <1>0, ModDiv
<1>3. UINT * a = m * (c * a) /\ c * a \in Int
  BY <1>0, <1>1
<1>4. x = r + m * (c * a) /\ r \in Int
  <2>1. PICK k \in Int : k = m * (c * a)
    BY <1>0, <1>3
  <2>2. x = k + r /\ r \in Int
    BY <1>0, <1>2, <1>3, <2>1
  <2> QED
    BY <2>1, <2>2
<1>5. (r + m * (c * a)) % m = r % m
  BY <1>0, <1>3, <1>4, ModAddMul
<1> QED
  BY <1>2, <1>4, <1>5

-----------------------------------------------------------------------------
(* What is in a ring.                                                      *)

LEMMA AddAdd ==
  ASSUME NEW i \in Int, NEW a \in Int, NEW b \in Int
  PROVE  Add(Add(i, a), b) = Add(i, a + b)
<1>1. UINT \in Nat \ {0} /\ i + a \in Int
  BY Sizes
<1>2. (((i + a) % UINT) + b) % UINT = ((i + a) + b) % UINT
  BY <1>1, ModSum
<1>3. (i + a) + b = i + (a + b)
  OBVIOUS
<1> QED
  BY <1>2, <1>3 DEF Add

(* Cell k of the bytes from index i on. *)
At1(i, k, m) == Add(i, k - 1) % m

LEMMA CellIs ==
  ASSUME NEW m, RingSize(m), NEW i \in Index, NEW k \in Int
  PROVE  At1(i, k, m) = (i + (k - 1)) % m /\ At1(i, k, m) \in 0 .. m - 1
<1>1. i \in Int /\ i + (k - 1) \in Int /\ m \in Nat \ {0}
  BY Sizes DEF Index, RingSize
<1>2. ((i + (k - 1)) % UINT) % m = (i + (k - 1)) % m
  BY <1>1, RingMod
<1>3. (i + (k - 1)) % m \in 0 .. m - 1
  BY <1>1, ModIn
<1> QED
  BY <1>2, <1>3 DEF At1, Add

LEMMA RingBytes ==
  ASSUME NEW m, RingSize(m), NEW ring \in [0 .. m - 1 -> Cell], NEW i \in Index, NEW j \in Index
  PROVE  /\ Bytes(ring, m, i, j) \in Seq(Cell) /\ Len(Bytes(ring, m, i, j)) = Sub(j, i)
         /\ Sub(j, i) \in Nat
         /\ \A k \in 1 .. Sub(j, i) : Bytes(ring, m, i, j)[k] = ring[At1(i, k, m)]
<1>1. m \in Nat \ {0}
  BY DEF RingSize
<1> QED
  BY <1>1, BytesIs DEF At1

(* Equal sequences. *)
LEMMA SameBytes ==
  ASSUME NEW s \in Seq(Cell), NEW t \in Seq(Cell), NEW n \in Nat, Len(s) = n, Len(t) = n,
         \A k \in 1 .. n : s[k] = t[k]
  PROVE  s = t
BY SeqEqual

(* The first k bytes. *)
LEMMA BytesTake ==
  ASSUME NEW m, RingSize(m), NEW ring \in [0 .. m - 1 -> Cell], NEW i \in Index, NEW j \in Index,
         NEW k \in 0 .. Sub(j, i), NEW x \in Index, Sub(x, i) = k
  PROVE  Bytes(ring, m, i, x) = SubSeq(Bytes(ring, m, i, j), 1, k)
<1>1. PICK s \in Seq(Cell) : /\ s = Bytes(ring, m, i, j) /\ Len(s) = Sub(j, i) /\ Len(s) \in Nat
                             /\ \A a \in 1 .. Sub(j, i) : s[a] = ring[At1(i, a, m)]
  BY RingBytes
<1>2. PICK t \in Seq(Cell) : /\ t = Bytes(ring, m, i, x) /\ Len(t) = k
                             /\ \A a \in 1 .. k : t[a] = ring[At1(i, a, m)]
  BY RingBytes
<1>3. k \in Nat /\ 0 + k <= Len(s) /\ 0 \in Nat
  BY <1>1
<1>4. /\ SubSeq(s, 0 + 1, 0 + k) \in Seq(Cell) /\ Len(SubSeq(s, 0 + 1, 0 + k)) = k
      /\ \A a \in 1 .. k : SubSeq(s, 0 + 1, 0 + k)[a] = s[0 + a]
  BY <1>3, Part
<1>5. 0 + 1 = 1 /\ 0 + k = k /\ \A a \in 1 .. k : 0 + a = a /\ a \in 1 .. Sub(j, i)
  BY <1>1, <1>3
<1>6. \A a \in 1 .. k : SubSeq(s, 1, k)[a] = t[a]
  BY <1>1, <1>2, <1>4, <1>5
<1>7. SubSeq(s, 1, k) = t
  BY <1>2, <1>3, <1>4, <1>5, <1>6, SameBytes
<1> QED
  BY <1>1, <1>2, <1>7

(* All but the first k bytes. *)
LEMMA BytesDrop ==
  ASSUME NEW m, RingSize(m), NEW ring \in [0 .. m - 1 -> Cell], NEW i \in Index, NEW j \in Index,
         NEW k \in 0 .. Sub(j, i), NEW x \in Index, x = Add(i, k)
  PROVE  Bytes(ring, m, x, j) = SubSeq(Bytes(ring, m, i, j), k + 1, Sub(j, i))
<1>0. Sub(j, i) \in Nat /\ i \in Int
  BY SubNat, Sizes DEF Index
<1>1. Sub(j, x) = Sub(j, i) - k
  BY Nearer
<1>2. PICK s \in Seq(Cell) : /\ s = Bytes(ring, m, i, j) /\ Len(s) = Sub(j, i)
                             /\ \A a \in 1 .. Sub(j, i) : s[a] = ring[At1(i, a, m)]
  BY RingBytes
<1>3. PICK n \in Nat : n = Sub(j, i) - k /\ k + n = Sub(j, i) /\ k \in Nat
  BY <1>0
<1>4. PICK t \in Seq(Cell) : /\ t = Bytes(ring, m, x, j) /\ Len(t) = n
                             /\ \A a \in 1 .. n : t[a] = ring[At1(x, a, m)]
  <2>1. Sub(j, x) = n
    BY <1>1, <1>3
  <2> QED
    BY <2>1, RingBytes
<1>5. \A a \in 1 .. n : At1(x, a, m) = At1(i, k + a, m)
  <2>1. ASSUME NEW a \in 1 .. n PROVE Add(x, a - 1) = Add(i, (k + a) - 1)
    <3>1. Add(Add(i, k), a - 1) = Add(i, k + (a - 1))
      BY <1>0, AddAdd
    <3>2. k + (a - 1) = (k + a) - 1
      OBVIOUS
    <3> QED
      BY <3>1, <3>2
  <2> QED
    BY <2>1 DEF At1
<1>6. /\ SubSeq(s, k + 1, k + n) \in Seq(Cell) /\ Len(SubSeq(s, k + 1, k + n)) = n
      /\ \A a \in 1 .. n : SubSeq(s, k + 1, k + n)[a] = s[k + a]
  <2>1. k + n <= Len(s) /\ k \in Nat
    BY <1>0, <1>2, <1>3
  <2> QED
    BY <2>1, Part
<1>7. \A a \in 1 .. n : k + a \in 1 .. Sub(j, i)
  BY <1>3
<1>8. ASSUME NEW a \in 1 .. n PROVE SubSeq(s, k + 1, k + n)[a] = t[a]
  <2>1. SubSeq(s, k + 1, k + n)[a] = s[k + a]
    BY <1>6
  <2>2. k + a \in 1 .. Sub(j, i)
    BY <1>7
  <2>3. s[k + a] = ring[At1(i, k + a, m)]
    BY <1>2, <2>2
  <2>4. t[a] = ring[At1(x, a, m)]
    BY <1>4
  <2>5. At1(x, a, m) = At1(i, k + a, m)
    BY <1>5
  <2> QED
    BY <2>1, <2>3, <2>4, <2>5
<1>9. SubSeq(s, k + 1, k + n) = t
  BY <1>4, <1>6, <1>8, SameBytes
<1> QED
  BY <1>2, <1>3, <1>4, <1>9

Joined(u, s, t) == u = s \o t

(* Less than n from i over j to x. *)
Near(i, j, x, n) == Sub(j, i) + Sub(x, j) < n

(* The bytes up to j and those from j on. *)
LEMMA BytesJoin ==
  ASSUME NEW m, RingSize(m), NEW ring \in [0 .. m - 1 -> Cell],
         NEW i \in Index, NEW j \in Index, NEW x \in Index, Near(i, j, x, UINT)
  PROVE  Joined(Bytes(ring, m, i, x), Bytes(ring, m, i, j), Bytes(ring, m, j, x))
<1>0. Sub(j, i) \in Nat /\ i \in Int /\ Sub(x, j) \in Nat
  BY SubNat, Sizes DEF Index
<1>1. PICK a \in Nat, b \in Nat : a = Sub(j, i) /\ b = Sub(x, j) /\ a < UINT
  BY <1>0, SubNat
<1>2. Sub(x, i) = a + b
  <2>1. Sub(j, i) + Sub(x, j) < UINT
    BY DEF Near
  <2> QED
    BY <1>1, <2>1, Between
<1>3. PICK s \in Seq(Cell) : /\ s = Bytes(ring, m, i, j) /\ Len(s) = a
                             /\ \A k \in 1 .. a : s[k] = ring[At1(i, k, m)]
  BY <1>1, RingBytes
<1>4. PICK t \in Seq(Cell) : /\ t = Bytes(ring, m, j, x) /\ Len(t) = b
                             /\ \A k \in 1 .. b : t[k] = ring[At1(j, k, m)]
  BY <1>1, RingBytes
<1>5. PICK u \in Seq(Cell) : /\ u = Bytes(ring, m, i, x) /\ Len(u) = a + b
                             /\ \A k \in 1 .. a + b : u[k] = ring[At1(i, k, m)]
  <2>1. PICK c \in Nat : c = a + b /\ Sub(x, i) = c
    BY <1>2
  <2>2. PICK u \in Seq(Cell) : /\ u = Bytes(ring, m, i, x) /\ Len(u) = c
                               /\ \A k \in 1 .. c : u[k] = ring[At1(i, k, m)]
    <3>1. Sub(x, i) = c
      BY <2>1
    <3>2. PICK u : u = Bytes(ring, m, i, x)
      OBVIOUS
    <3>3. u \in Seq(Cell) /\ Len(u) = Sub(x, i) /\ \A k \in 1 .. Sub(x, i) : u[k] = ring[At1(i, k, m)]
      BY <3>2, RingBytes
    <3> QED
      BY <3>1, <3>2, <3>3
  <2> QED
    BY <2>1, <2>2
<1>6. /\ s \o t \in Seq(Cell) /\ Len(s \o t) = a + b
      /\ \A k \in 1 .. a + b : (s \o t)[k] = IF k <= a THEN s[k] ELSE t[k - a]
  <2>1. Len(s) = a /\ Len(t) = b
    BY <1>3, <1>4
  <2>2. /\ s \o t \in Seq(Cell) /\ Len(s \o t) = Len(s) + Len(t)
        /\ \A k \in 1 .. Len(s) + Len(t) :
             (s \o t)[k] = IF k <= Len(s) THEN s[k] ELSE t[k - Len(s)]
    BY ConcatProperties
  <2> QED
    BY <2>1, <2>2
<1>7. j = Add(i, a)
  <2>1. a \in 0 .. UINT - 1
    BY <1>1, Sizes
  <2> QED
    BY <1>1, <2>1, FullIs
<1>8. ASSUME NEW k \in 1 .. a + b PROVE u[k] = (s \o t)[k]
  <2>1. CASE k <= a
    <3>1. k \in 1 .. a
      BY <2>1
    <3> QED
      BY <1>3, <1>5, <1>6, <2>1, <3>1
  <2>2. CASE ~(k <= a)
    <3>1. k - a \in 1 .. b /\ k - a - 1 \in Int /\ a + (k - a - 1) = k - 1
      BY <2>2
    <3>2. Add(j, k - a - 1) = Add(i, k - 1)
      BY <1>0, <1>7, <3>1, AddAdd
    <3>3. At1(j, k - a, m) = At1(i, k, m)
      BY <3>2 DEF At1
    <3> QED
      BY <1>4, <1>5, <1>6, <2>2, <3>1, <3>3
  <2> QED
    BY <2>1, <2>2
<1>9. u = s \o t
  <2>1. a + b \in Nat
    OBVIOUS
  <2> QED
    BY <1>5, <1>6, <1>8, <2>1, SameBytes
<1> QED
  BY <1>3, <1>4, <1>5, <1>9 DEF Joined

(* How far behind the writer a cell is. *)
LEMMA Offset ==
  ASSUME NEW m, RingSize(m), NEW i \in Index, NEW n \in 0 .. UINT - 1, NEW w, w = Add(i, n),
         NEW k \in Int
  PROVE  (At1(i, k, m) - w) % m = (k - 1 - n) % m
<1>0. m \in Nat \ {0} /\ UINT \in Nat \ {0} /\ UINT % m = 0 /\ i \in Int /\ n \in Int
  BY Sizes DEF RingSize, Index
<1>1. PICK c \in Int : UINT = m * c
  <2>1. UINT = m * (UINT \div m) + (UINT % m) /\ UINT \div m \in Int
    BY <1>0, ModDiv
  <2>2. m * (UINT \div m) \in Int
    BY <1>0, <2>1
  <2> QED
    BY <1>0, <2>1, <2>2
<1>2. w = IF i + n < UINT THEN i + n ELSE i + n - UINT
  BY AddIs
<1>3. At1(i, k, m) = (i + (k - 1)) % m
  BY CellIs
<1>4. w \in Int /\ i + (k - 1) \in Int
  BY <1>0, <1>2
<1>5. (((i + (k - 1)) % m) + (-w)) % m = ((i + (k - 1)) + (-w)) % m
  <2>1. PICK x \in Int, y \in Int : x = i + (k - 1) /\ y = -w
    BY <1>4
  <2>2. m \in Nat \ {0}
    BY <1>0
  <2>3. ((x % m) + y) % m = (x + y) % m
    BY <2>2, ModSum
  <2> QED
    BY <2>1, <2>3
<1>6. (i + (k - 1)) % m \in Int
  BY <1>0, <1>4
<1>7. (At1(i, k, m) - w) % m = ((i + (k - 1)) - w) % m
  <2>1. At1(i, k, m) - w = ((i + (k - 1)) % m) + (-w) /\ (i + (k - 1)) - w = (i + (k - 1)) + (-w)
    BY <1>3, <1>4, <1>6
  <2> QED
    BY <1>5, <2>1
<1>8. CASE i + n < UINT
  <2>1. (i + (k - 1)) - w = k - 1 - n
    BY <1>0, <1>2, <1>8
  <2> QED
    BY <1>7, <2>1
<1>9. CASE ~(i + n < UINT)
  <2>1. (i + (k - 1)) - w = (k - 1 - n) + m * c
    BY <1>0, <1>1, <1>2, <1>9
  <2>2. ((k - 1 - n) + m * c) % m = (k - 1 - n) % m
    <3>1. PICK x \in Int : x = k - 1 - n
      BY <1>0
    <3>2. m \in Nat \ {0}
      BY <1>0
    <3>3. (x + m * c) % m = x % m
      BY <3>2, ModAddMul
    <3> QED
      BY <3>1, <3>3
  <2> QED
    BY <1>7, <2>1, <2>2
<1> QED
  BY <1>8, <1>9

(* pipewrite appends. *)
LEMMA CopyInAppends ==
  ASSUME NEW t \in StructPipe, NEW b \in Seq(Cell), Sub(t.nwrite, t.nread) + Len(b) <= PIPESIZE,
         NEW u, u = CopyIn(t, b)
  PROVE  Bytes(u.data, PIPESIZE, u.nread, u.nwrite)
           = Bytes(t.data, PIPESIZE, t.nread, t.nwrite) \o b
<1>1. t.nwrite \in Index /\ t.nread \in Index /\ t.data \in [0 .. PIPESIZE - 1 -> Cell]
  BY DEF StructPipe
<1>2. /\ u \in StructPipe /\ u.nread = t.nread
      /\ Sub(u.nwrite, u.nread) = Sub(t.nwrite, t.nread) + Len(b)
      /\ \A j \in 0 .. PIPESIZE - 1 :
           u.data[j] = IF ((j - t.nwrite) % PIPESIZE) + 1 <= Len(b)
                       THEN b[((j - t.nwrite) % PIPESIZE) + 1] ELSE t.data[j]
  BY CopyInIs
<1>3. u.nwrite \in Index /\ u.nread \in Index /\ u.data \in [0 .. PIPESIZE - 1 -> Cell]
  BY <1>2 DEF StructPipe
<1>4. PICK i \in Index : i = t.nread
  BY <1>1
<1>5. PICK n \in Nat, l \in Nat : n = Sub(t.nwrite, i) /\ l = Len(b) /\ n + l <= PIPESIZE
  BY <1>1, <1>4, SubNat
<1>0. RingSize(PIPESIZE)
  BY RingSizes
<1>6. n \in 0 .. UINT - 1 /\ t.nwrite = Add(i, n)
  <2>1. n \in 0 .. UINT - 1
    BY <1>5, Sizes
  <2> QED
    BY <1>1, <1>5, <2>1, FullIs
<1>7. PICK s \in Seq(Cell) : /\ s = Bytes(t.data, PIPESIZE, t.nread, t.nwrite) /\ Len(s) = n
                             /\ \A k \in 1 .. n : s[k] = t.data[At1(i, k, PIPESIZE)]
  BY <1>0, <1>1, <1>4, <1>5, RingBytes
<1>8. PICK v \in Seq(Cell) : /\ v = Bytes(u.data, PIPESIZE, u.nread, u.nwrite) /\ Len(v) = n + l
                             /\ \A k \in 1 .. n + l : v[k] = u.data[At1(i, k, PIPESIZE)]
  <2>1. Sub(u.nwrite, i) = n + l /\ u.nread = i
    BY <1>2, <1>4, <1>5
  <2>2. PICK d \in [0 .. PIPESIZE - 1 -> Cell], w \in Index : d = u.data /\ w = u.nwrite
    BY <1>3
  <2>3. /\ Bytes(d, PIPESIZE, i, w) \in Seq(Cell) /\ Len(Bytes(d, PIPESIZE, i, w)) = Sub(w, i)
        /\ \A k \in 1 .. Sub(w, i) : Bytes(d, PIPESIZE, i, w)[k] = d[At1(i, k, PIPESIZE)]
    BY <1>0, RingBytes
  <2> QED
    BY <2>1, <2>2, <2>3
<1>9. /\ s \o b \in Seq(Cell) /\ Len(s \o b) = n + l
      /\ \A k \in 1 .. n + l : (s \o b)[k] = IF k <= n THEN s[k] ELSE b[k - n]
  <2>1. Len(s) = n /\ Len(b) = l
    BY <1>5, <1>7
  <2>2. /\ s \o b \in Seq(Cell) /\ Len(s \o b) = Len(s) + Len(b)
        /\ \A k \in 1 .. Len(s) + Len(b) :
             (s \o b)[k] = IF k <= Len(s) THEN s[k] ELSE b[k - Len(s)]
    BY ConcatProperties
  <2> QED
    BY <2>1, <2>2
<1>10. ASSUME NEW k \in 1 .. n + l PROVE v[k] = (s \o b)[k]
  <2>0. k \in Int
    OBVIOUS
  <2>1. PICK j \in 0 .. PIPESIZE - 1 : j = At1(i, k, PIPESIZE)
    BY <1>0, <2>0, CellIs
  <2>2. (j - t.nwrite) % PIPESIZE = (k - 1 - n) % PIPESIZE
    BY <1>0, <1>6, <2>0, <2>1, Offset
  <2>3. v[k] = IF ((k - 1 - n) % PIPESIZE) + 1 <= l
               THEN b[((k - 1 - n) % PIPESIZE) + 1] ELSE t.data[j]
    BY <1>2, <1>5, <1>8, <2>1, <2>2
  <2>4. CASE k <= n
    <3>1. k - 1 - n \in -PIPESIZE .. -1
      BY <1>5, <2>4, Sizes
    <3>2. (k - 1 - n) % PIPESIZE = k - 1 - n + PIPESIZE
      BY <3>1, Sizes, ModNeg
    <3>3. ~(((k - 1 - n) % PIPESIZE) + 1 <= l)
      <4>1. n + l <= PIPESIZE /\ k >= 1 /\ PIPESIZE \in Int
        BY <1>5, Sizes
      <4>2. ~((k - 1 - n + PIPESIZE) + 1 <= l)
        BY <4>1
      <4> QED
        BY <3>2, <4>2
    <3>4. k \in 1 .. n
      BY <2>4
    <3>5. v[k] = t.data[j]
      BY <2>3, <3>3
    <3>6. s[k] = t.data[j]
      BY <1>7, <2>1, <3>4
    <3>7. (s \o b)[k] = s[k]
      BY <1>9, <2>4
    <3> QED
      BY <3>5, <3>6, <3>7
  <2>5. CASE ~(k <= n)
    <3>1. k - 1 - n \in 0 .. PIPESIZE - 1
      BY <1>5, <2>5, Sizes
    <3>2. (k - 1 - n) % PIPESIZE = k - 1 - n
      BY <3>1, Sizes, ModSmall
    <3>3. ((k - 1 - n) % PIPESIZE) + 1 = k - n /\ k - n <= l
      BY <3>2
    <3>4. v[k] = b[k - n]
      BY <2>3, <3>3
    <3>5. (s \o b)[k] = b[k - n]
      BY <1>9, <2>5
    <3> QED
      BY <3>4, <3>5
  <2> QED
    BY <2>4, <2>5
<1>11. v = s \o b
  <2>1. n + l \in Nat
    OBVIOUS
  <2> QED
    BY <1>8, <1>9, <1>10, <2>1, SameBytes
<1> QED
  BY <1>7, <1>8, <1>11

(* A byte written at the end e of a ring that is not full overwrites none. *)
LEMMA PutApart ==
  ASSUME NEW m, RingSize(m), NEW i \in Index, NEW e \in Index, Sub(e, i) < m,
         NEW k \in 1 .. Sub(e, i)
  PROVE  At1(i, k, m) # e % m
<1>0. m \in Nat \ {0} /\ i \in Int /\ m < UINT /\ UINT \in Nat
  BY Sizes DEF RingSize, Index
<1>1. PICK n \in Nat : n = Sub(e, i) /\ n < m
  BY SubNat
<1>2. n \in 0 .. UINT - 1
  BY <1>0, <1>1
<1>3. e = Add(i, n)
  BY <1>1, <1>2, FullIs
<1>4. At1(i, n + 1, m) = e % m
  <2>1. (n + 1) - 1 = n
    OBVIOUS
  <2> QED
    BY <1>3, <2>1 DEF At1
<1>5. At1(i, n + 1, m) = (i + ((n + 1) - 1)) % m /\ At1(i, k, m) = (i + (k - 1)) % m
  BY <1>1, CellIs
<1>6. k \in 1 .. n
  BY <1>1
<1>7. /\ i + (k - 1) \in Int /\ i + ((n + 1) - 1) \in Int
      /\ i + (k - 1) < i + ((n + 1) - 1) /\ (i + ((n + 1) - 1)) - (i + (k - 1)) < m
  BY <1>0, <1>1, <1>6
<1>8. (i + (k - 1)) % m # (i + ((n + 1) - 1)) % m
  BY <1>0, <1>7, ModApart
<1> QED
  BY <1>4, <1>5, <1>8

(* Ring g is the given ring with c put at index e. *)
PutAt(g, ring, m, e, c) == g[e % m] = c /\ \A y \in 0 .. m - 1 : y # e % m => g[y] = ring[y]

LEMMA PutKeeps ==
  ASSUME NEW m, RingSize(m), NEW ring \in [0 .. m - 1 -> Cell], NEW i \in Index, NEW e \in Index,
         Sub(e, i) < m, NEW g \in [0 .. m - 1 -> Cell], NEW c, PutAt(g, ring, m, e, c),
         NEW w \in Index, Sub(w, i) <= Sub(e, i)
  PROVE  Bytes(g, m, i, w) = Bytes(ring, m, i, w)
<1>1. \A y \in 0 .. m - 1 : y # e % m => g[y] = ring[y]
  BY DEF PutAt
<1>0. m \in Nat \ {0} /\ e \in Int /\ Sub(w, i) \in Nat /\ Sub(e, i) \in Nat
  BY Sizes, SubNat DEF RingSize, Index
<1>2. PICK s \in Seq(Cell) : /\ s = Bytes(ring, m, i, w) /\ Len(s) = Sub(w, i)
                             /\ \A k \in 1 .. Sub(w, i) : s[k] = ring[At1(i, k, m)]
  BY RingBytes
<1>3. PICK t \in Seq(Cell) : /\ t = Bytes(g, m, i, w) /\ Len(t) = Sub(w, i)
                             /\ \A k \in 1 .. Sub(w, i) : t[k] = g[At1(i, k, m)]
  BY RingBytes
<1>4. ASSUME NEW k \in 1 .. Sub(w, i) PROVE s[k] = t[k]
  <2>1. k \in 1 .. Sub(e, i)
    BY <1>0
  <2>2. At1(i, k, m) # e % m /\ At1(i, k, m) \in 0 .. m - 1
    BY <2>1, PutApart, CellIs
  <2> QED
    BY <1>1, <1>2, <1>3, <2>2
<1>5. s = t
  BY <1>0, <1>2, <1>3, <1>4, SameBytes
<1> QED
  BY <1>2, <1>3, <1>5

LEMMA PutAppends ==
  ASSUME NEW m, RingSize(m), NEW ring \in [0 .. m - 1 -> Cell], NEW i \in Index, NEW e \in Index,
         Sub(e, i) < m, NEW g \in [0 .. m - 1 -> Cell], NEW c \in Cell, PutAt(g, ring, m, e, c)
  PROVE  Bytes(g, m, i, Add(e, 1)) = Append(Bytes(ring, m, i, e), c)
<1>1. g[e % m] = c
  BY DEF PutAt
<1>0. m \in Nat \ {0} /\ e \in Int /\ i \in Int /\ m < UINT /\ UINT \in Nat
  BY Sizes DEF RingSize, Index
<1>2. PICK n \in Nat : n = Sub(e, i) /\ n < m
  BY SubNat
<1>3. Add(e, 1) \in Index /\ Sub(Add(e, 1), i) = n + 1
  <2>1. Sub(e, i) + 1 < UINT /\ 1 \in Nat
    BY <1>0, <1>2
  <2> QED
    BY <1>2, <2>1, Ahead
<1>4. PICK s \in Seq(Cell) : s = Bytes(g, m, i, e) /\ Len(s) = n
  BY <1>2, RingBytes
<1>5. s = Bytes(ring, m, i, e)
  <2>1. Sub(e, i) <= Sub(e, i)
    BY <1>2
  <2>2. Bytes(g, m, i, e) = Bytes(ring, m, i, e)
    BY <2>1, PutKeeps
  <2> QED
    BY <1>4, <2>2
<1>6. PICK x \in Index : x = Add(e, 1) /\ Sub(x, i) = n + 1
  BY <1>3
<1>7. PICK t : t = Bytes(g, m, i, x)
  OBVIOUS
<1>8. /\ t \in Seq(Cell) /\ Len(t) = Sub(x, i) /\ Sub(x, i) \in Nat
      /\ \A k \in 1 .. Sub(x, i) : t[k] = g[At1(i, k, m)]
  BY <1>7, RingBytes
<1>9. /\ s \in Seq(Cell) /\ Len(s) = Sub(e, i)
      /\ \A k \in 1 .. Sub(e, i) : s[k] = g[At1(i, k, m)]
  BY <1>4, RingBytes
<1>10. t[n + 1] = c
  <2>1. n \in 0 .. UINT - 1
    BY <1>0, <1>2
  <2>2. e = Add(i, n)
    BY <1>2, <2>1, FullIs
  <2>3. At1(i, n + 1, m) = e % m
    <3>1. (n + 1) - 1 = n
      OBVIOUS
    <3> QED
      BY <2>2, <3>1 DEF At1
  <2>4. e % m \in 0 .. m - 1
    BY <1>0, ModIn
  <2>5. n + 1 \in 1 .. Sub(x, i)
    BY <1>6
  <2>6. t[n + 1] = g[e % m]
    BY <1>8, <2>3, <2>5
  <2> QED
    BY <1>1, <2>6
<1>11. /\ Append(s, c) \in Seq(Cell) /\ Len(Append(s, c)) = n + 1
       /\ \A k \in 1 .. n : Append(s, c)[k] = s[k]
       /\ Append(s, c)[n + 1] = c
  BY <1>4
<1>12. ASSUME NEW k \in 1 .. n + 1 PROVE t[k] = Append(s, c)[k]
  <2>1. CASE k = n + 1
    BY <1>10, <1>11, <2>1
  <2>2. CASE k # n + 1
    <3>1. k \in 1 .. n /\ k \in 1 .. Sub(x, i) /\ k \in 1 .. Sub(e, i)
      BY <1>2, <1>6, <2>2
    <3> QED
      BY <1>8, <1>9, <1>11, <3>1
  <2> QED
    BY <2>1, <2>2
<1>13. t = Append(s, c)
  <2>1. n + 1 \in Nat /\ Len(t) = n + 1
    BY <1>6, <1>8
  <2> QED
    BY <1>8, <1>11, <1>12, <2>1, SameBytes
<1> QED
  BY <1>5, <1>6, <1>7, <1>13

-----------------------------------------------------------------------------
(* What programs see of a state, and the actions of Stream over it.        *)

Ring(q)   == Bytes(pipe[q].data, PIPESIZE, pipe[q].nread, pipe[q].nwrite)
InPipes   == [q \in Pages |-> IF HasEnd(q, FALSE) \/ HasEnd(q, TRUE) THEN Ring(q) ELSE <<>>]
Readable  == [q \in Pages |-> HasEnd(q, FALSE)]
Writable  == [q \in Pages |-> HasEnd(q, TRUE)]
Complete  == Bytes(input.buf, INPUT_BUF, input.r, input.w)
Edited    == Bytes(input.buf, INPUT_BUF, input.w, input.e)
SoFar     == [p \in Procs |-> loc[p].got]
Unwritten == [p \in Procs |-> IF loc[p].pc = "pipewrite"
                              THEN SubSeq(buf[p], loc[p].i + 1, loc[p].n) ELSE <<>>]
Dead      == [p \in Procs |-> proc[p].killed]

(* p was killed on the way to its sleep, or it was not. *)
Meanwhile(p) == UNCHANGED Dead \/ Dead' = [Dead EXCEPT ![p] = TRUE]

Shown == <<InPipes, Readable, Writable, Complete, Edited, buf, SoFar, Unwritten, Dead>>

LEMMA AsMake ==
  ASSUME NEW q \in Pages, ~Readable[q], ~Writable[q],
         Readable' = [Readable EXCEPT ![q] = TRUE], Writable' = [Writable EXCEPT ![q] = TRUE],
         InPipes' = [InPipes EXCEPT ![q] = <<>>],
         UNCHANGED <<Complete, Edited, SoFar, buf, Unwritten, Dead>>
  PROVE  Ideal!Next
<1>1. Ideal!Make(q)
  BY DEF Ideal!Make, Ideal!Console, InPipes, Readable, Writable, Ring, Complete, Edited, SoFar,
         Unwritten, Dead
<1> QED
  BY <1>1 DEF Ideal!Next

LEMMA AsHangUp ==
  ASSUME NEW q \in Pages,
         \/ Readable[q] /\ Readable' = [Readable EXCEPT ![q] = FALSE] /\ UNCHANGED Writable
         \/ Writable[q] /\ Writable' = [Writable EXCEPT ![q] = FALSE] /\ UNCHANGED Readable,
         InPipes' = IF Readable'[q] \/ Writable'[q] THEN InPipes ELSE [InPipes EXCEPT ![q] = <<>>],
         UNCHANGED <<Complete, Edited, SoFar, buf, Unwritten, Dead>>
  PROVE  Ideal!Next
<1>1. Ideal!HangUp(q)
  BY DEF Ideal!HangUp, Ideal!Console, InPipes, Readable, Writable, Ring, Complete, Edited, SoFar,
         Unwritten, Dead
<1> QED
  BY <1>1 DEF Ideal!Next

LEMMA AsStartWrite ==
  ASSUME NEW p \in Procs, Unwritten[p] = <<>>, Unwritten' = [Unwritten EXCEPT ![p] = buf[p]],
         UNCHANGED <<InPipes, Readable, Writable, Complete, Edited, SoFar, buf, Dead>>
  PROVE  Ideal!Next
<1>1. Ideal!StartWrite(p)
  BY DEF Ideal!StartWrite, Ideal!Console, InPipes, Readable, Writable, Ring, Complete, Edited,
         SoFar, Unwritten, Dead
<1> QED
  BY <1>1 DEF Ideal!Next

LEMMA AsSend ==
  ASSUME NEW p \in Procs, NEW q \in Pages, NEW k \in 0 .. PIPESIZE,
         NEW t, t = InPipes[q] \o SubSeq(Unwritten[p], 1, k),
         Writable[q], k <= Len(Unwritten[p]), Len(t) <= PIPESIZE,
         InPipes' = [InPipes EXCEPT ![q] = t],
         \/ /\ Unwritten' = [Unwritten EXCEPT ![p] = SubSeq(Unwritten[p], k + 1, Len(Unwritten[p]))]
            /\ Meanwhile(p)
         \/ /\ ~Readable[q] \/ Dead[p]
            /\ Len(t) = PIPESIZE /\ Unwritten' = [Unwritten EXCEPT ![p] = <<>>] /\ UNCHANGED Dead,
         UNCHANGED <<Readable, Writable, Complete, Edited, SoFar, buf>>
  PROVE  Ideal!Next
<1>1. Ideal!Send(p, q, k)
  BY DEF Meanwhile, Ideal!KilledMeanwhile, Ideal!Send, Ideal!Take, Ideal!Drop, Ideal!Console, InPipes, Readable, Writable, Ring,
         Complete, Edited, SoFar, Unwritten, Dead
<1> QED
  BY <1>1 DEF Ideal!Next

LEMMA AsRecv ==
  ASSUME NEW p \in Procs, NEW q \in Pages, NEW k \in 0 .. PIPESIZE,
         Readable[q], k <= Len(InPipes[q]), k = 0 => InPipes[q] = <<>> /\ ~Writable[q],
         buf' = [buf EXCEPT ![p] = SubSeq(InPipes[q], 1, k)],
         InPipes' = [InPipes EXCEPT ![q] = SubSeq(InPipes[q], k + 1, Len(InPipes[q]))],
         UNCHANGED <<Readable, Writable, Complete, Edited, SoFar, Unwritten, Dead>>
  PROVE  Ideal!Next
<1>1. Ideal!Recv(p, q, k)
  BY DEF Ideal!Recv, Ideal!Take, Ideal!Drop, Ideal!Console, InPipes, Readable, Writable, Ring,
         Complete, Edited, SoFar, Unwritten, Dead
<1> QED
  BY <1>1 DEF Ideal!Next

LEMMA AsKey ==
  ASSUME NEW c \in Chars \cup {NL, EOF, BS, KILL}, NEW l, l = Append(Edited, c),
         NEW n, n = Len(Complete) + Len(Edited),
         IF c = KILL THEN Edited' = <<>> /\ UNCHANGED Complete
         ELSE IF c = BS
         THEN /\ Edited' = IF Edited = <<>> THEN Edited ELSE SubSeq(Edited, 1, Len(Edited) - 1)
              /\ UNCHANGED Complete
         ELSE /\ n < INPUT_BUF
              /\ IF c \in {NL, EOF} \/ n + 1 = INPUT_BUF
                 THEN Complete' = Complete \o l /\ Edited' = <<>>
                 ELSE Edited' = l /\ UNCHANGED Complete,
         UNCHANGED <<InPipes, Readable, Writable, Unwritten, SoFar, buf, Dead>>
  PROVE  Ideal!Next
<1>1. Ideal!Key(c)
  BY DEF Ideal!Key, Ideal!Take, Ideal!PipesSame, InPipes, Readable, Writable, Ring, Complete,
         Edited, SoFar, Unwritten, Dead
<1> QED
  BY <1>1 DEF Ideal!Next

LEMMA AsReadConsole ==
  ASSUME NEW p \in Procs, NEW k \in 0 .. Len(Complete), NEW g, g = SoFar[p] \o SubSeq(Complete, 1, k),
         NEW eof \in BOOLEAN, eof <=> k < Len(Complete) /\ Complete[k + 1] = EOF,
         \A j \in 1 .. k : Complete[j] # EOF /\ (Complete[j] = NL => j = k),
         Complete' = SubSeq(Complete, (IF eof /\ g = <<>> THEN k + 1 ELSE k) + 1, Len(Complete)),
         \/ /\ g # <<>> \/ eof
            /\ buf' = [buf EXCEPT ![p] = g] /\ SoFar' = [SoFar EXCEPT ![p] = <<>>]
            /\ UNCHANGED Dead
         \/ /\ Complete' = <<>> /\ SoFar' = [SoFar EXCEPT ![p] = g]
            /\ Meanwhile(p) /\ UNCHANGED buf
         \/ Dead[p] /\ SoFar' = [SoFar EXCEPT ![p] = <<>>] /\ UNCHANGED <<buf, Dead>>,
         UNCHANGED <<InPipes, Readable, Writable, Unwritten, Edited>>
  PROVE  Ideal!Next
<1>1. Ideal!ReadConsole(p, k)
  BY DEF Meanwhile, Ideal!KilledMeanwhile, Ideal!ReadConsole, Ideal!Take, Ideal!Drop, Ideal!PipesSame, InPipes, Readable, Writable,
         Ring, Complete, Edited, SoFar, Unwritten, Dead
<1> QED
  BY <1>1 DEF Ideal!Next, Complete

LEMMA AsFork ==
  ASSUME NEW p \in Procs, NEW np \in Procs, buf' = [buf EXCEPT ![np] = buf[p]],
         UNCHANGED <<InPipes, Readable, Writable, Complete, Edited, SoFar, Unwritten, Dead>>
  PROVE  Ideal!Next
<1>1. Ideal!Fork(p, np)
  BY DEF Ideal!Fork, Ideal!PipesSame, Ideal!Console, InPipes, Readable, Writable, Ring, Complete,
         Edited, SoFar, Unwritten, Dead
<1> QED
  BY <1>1 DEF Ideal!Next

LEMMA AsKill ==
  ASSUME NEW p \in Procs, Dead' = [Dead EXCEPT ![p] = TRUE],
         UNCHANGED <<InPipes, Readable, Writable, Complete, Edited, SoFar, Unwritten, buf>>
  PROVE  Ideal!Next
<1>1. Ideal!Kill(p)
  BY DEF Ideal!Kill, Ideal!PipesSame, Ideal!Console, InPipes, Readable, Writable, Ring, Complete,
         Edited, SoFar, Unwritten, Dead
<1> QED
  BY <1>1 DEF Ideal!Next

LEMMA AsStutter ==
  ASSUME UNCHANGED Shown
  PROVE  UNCHANGED Ideal!streamVars
BY DEF Shown, Ideal!streamVars, InPipes, Readable, Writable, Ring, Complete, Edited, SoFar,
       Unwritten, Dead

-----------------------------------------------------------------------------
(* What a step leaves as it is. *)

LEMMA EndIs ==
  ASSUME NEW q, NEW w
  PROVE  /\ HasEnd(q, w) <=> \E f \in Files : FileHas(f, q, w)
         /\ HasEnd(q, w)' <=> \E f \in Files : FileHas(f, q, w)'
BY DEF HasEnd, FileHas

LEMMA EndBool ==
  ASSUME NEW q, NEW w
  PROVE  HasEnd(q, w) \in BOOLEAN /\ HasEnd(q, w)' \in BOOLEAN
BY DEF HasEnd

LEMMA EndsSame ==
  ASSUME \A q \in Pages, w \in BOOLEAN : HasEnd(q, w)' <=> HasEnd(q, w)
  PROVE  UNCHANGED <<Readable, Writable>>
<1>1. \A q \in Pages : (HasEnd(q, FALSE)' = HasEnd(q, FALSE)) /\ (HasEnd(q, TRUE)' = HasEnd(q, TRUE))
  BY DEF HasEnd
<1>2. Readable' = Readable
  BY <1>1 DEF Readable
<1>3. Writable' = Writable
  BY <1>1 DEF Writable
<1> QED
  BY <1>2, <1>3

LEMMA PipesSame ==
  ASSUME \A q \in Pages, w \in BOOLEAN : HasEnd(q, w)' <=> HasEnd(q, w),
         \A q \in Pages, w \in BOOLEAN : HasEnd(q, w) => pipe'[q].data = pipe[q].data
           /\ pipe'[q].nread = pipe[q].nread /\ pipe'[q].nwrite = pipe[q].nwrite
  PROVE  UNCHANGED <<InPipes, Readable, Writable>>
<1>1. UNCHANGED <<Readable, Writable>>
  BY EndsSame
<1>2. ASSUME NEW q \in Pages
      PROVE  (IF HasEnd(q, FALSE)' \/ HasEnd(q, TRUE)' THEN Ring(q)' ELSE <<>>)
               = IF HasEnd(q, FALSE) \/ HasEnd(q, TRUE) THEN Ring(q) ELSE <<>>
  <2>1. (HasEnd(q, FALSE)' <=> HasEnd(q, FALSE)) /\ (HasEnd(q, TRUE)' <=> HasEnd(q, TRUE))
    OBVIOUS
  <2>2. HasEnd(q, FALSE) \/ HasEnd(q, TRUE) => Ring(q)' = Ring(q)
    BY DEF Ring
  <2> QED
    BY <2>1, <2>2
<1>3. InPipes' = InPipes
  BY <1>2 DEF InPipes
<1> QED
  BY <1>1, <1>3

LEMMA ConsoleSame ==
  ASSUME UNCHANGED input
  PROVE  UNCHANGED <<Complete, Edited>>
BY DEF Complete, Edited

(* Only p moves, neither from nor to a write. *)
LEMMA CallsSame ==
  ASSUME NEW p \in Procs, \A r \in Procs : r # p => loc'[r] = loc[r],
         \A r \in Procs : loc[r].pc = "pipewrite" => buf'[r] = buf[r],
         loc'[p].pc # "pipewrite", loc[p].pc # "pipewrite", loc'[p].got = loc[p].got
  PROVE  UNCHANGED <<SoFar, Unwritten>>
<1>2. \A r \in Procs : loc'[r].got = loc[r].got
  OBVIOUS
<1>3. \A r \in Procs : (IF loc'[r].pc = "pipewrite" THEN SubSeq(buf'[r], loc'[r].i + 1, loc'[r].n) ELSE <<>>)
                         = IF loc[r].pc = "pipewrite" THEN SubSeq(buf[r], loc[r].i + 1, loc[r].n) ELSE <<>>
  OBVIOUS
<1> QED
  BY <1>2, <1>3 DEF SoFar, Unwritten

LEMMA DeadSame ==
  ASSUME \A r \in Procs : proc'[r].killed = proc[r].killed
  PROVE  UNCHANGED Dead
BY DEF Dead

(* Who goes to sleep is killed on the way or is not. *)
LEMMA SleepSeen ==
  ASSUME NEW pr \in [Procs -> StructProc], \A r \in Procs : pr[r].killed = proc[r].killed,
         NEW p \in Procs, NEW ch, Sleep(pr, p, ch)
  PROVE  Meanwhile(p)
<1>1. CASE proc' = Asleep(pr, p, ch)
  <2>1. \A r \in Procs : proc'[r].killed = proc[r].killed
    BY <1>1 DEF Asleep, StructProc
  <2> QED
    BY <2>1, DeadSame DEF Meanwhile
<1>2. CASE proc' = Asleep([pr EXCEPT ![p].killed = TRUE], p, ch)
  <2>1. PICK px \in [Procs -> StructProc] : px = [pr EXCEPT ![p].killed = TRUE]
    BY DEF StructProc
  <2>2. px[p].killed = TRUE /\ \A r \in Procs : r # p => px[r].killed = proc[r].killed
    BY <2>1 DEF StructProc
  <2>3. \A r \in Procs : proc'[r].killed = px[r].killed
    BY <1>2, <2>1 DEF Asleep, StructProc
  <2>4. Dead' = [Dead EXCEPT ![p] = TRUE]
    BY <2>2, <2>3 DEF Dead
  <2> QED
    BY <2>4 DEF Meanwhile
<1> QED
  BY <1>1, <1>2 DEF Sleep

(* The tables of files show the same ends. *)
LEMMA FilesSame ==
  ASSUME \A f \in Files, q \in Pages, w \in BOOLEAN : FileHas(f, q, w)' <=> FileHas(f, q, w)
  PROVE  \A q \in Pages, w \in BOOLEAN : HasEnd(q, w)' <=> HasEnd(q, w)
BY EndIs

(* A call that changes neither pipes nor the console nor what files are. *)
LEMMA CallUnseen ==
  ASSUME NEW p \in Procs, \A r \in Procs : r # p => loc'[r] = loc[r],
         loc'[p].pc # "pipewrite", loc[p].pc # "pipewrite", loc'[p].got = loc[p].got,
         \A f \in Files, q \in Pages, w \in BOOLEAN : FileHas(f, q, w)' <=> FileHas(f, q, w),
         UNCHANGED <<pipe, input, buf>>
  PROVE  UNCHANGED <<InPipes, Readable, Writable, Complete, Edited, buf, SoFar, Unwritten>>
<1>1. UNCHANGED <<InPipes, Readable, Writable>>
  BY FilesSame, PipesSame
<1>2. UNCHANGED <<Complete, Edited>>
  BY ConsoleSame
<1>3. UNCHANGED <<SoFar, Unwritten>>
  BY CallsSame
<1> QED
  BY <1>1, <1>2, <1>3

LEMMA Unseen ==
  ASSUME NEW p \in Procs, \A r \in Procs : r # p => loc'[r] = loc[r],
         loc'[p].pc # "pipewrite", loc[p].pc # "pipewrite", loc'[p].got = loc[p].got,
         \A f \in Files, q \in Pages, w \in BOOLEAN : FileHas(f, q, w)' <=> FileHas(f, q, w),
         UNCHANGED <<pipe, input, buf>>, \A r \in Procs : proc'[r].killed = proc[r].killed
  PROVE  UNCHANGED Shown
BY CallUnseen, DeadSame DEF Shown

-----------------------------------------------------------------------------
(* Steps that programs do not see.                                         *)

(* p moves to l. *)
LEMMA MovesTo ==
  ASSUME TypeOK, NEW p \in Procs, NEW l, loc' = [loc EXCEPT ![p] = l]
  PROVE  loc'[p] = l /\ \A r \in Procs : r # p => loc'[r] = loc[r]
BY DEF TypeOK

LEMMA RefsUnseen ==
  ASSUME TypeOK, NEW g \in Files, NEW n, ftable' = [ftable EXCEPT ![g].ref = n]
  PROVE  \A f \in Files, q \in Pages, w \in BOOLEAN : FileHas(f, q, w)' <=> FileHas(f, q, w)
<1>1. ftable \in [Files -> StructFile]
  BY DEF TypeOK
<1>2. \A f \in Files : /\ ftable'[f].type = ftable[f].type /\ ftable'[f].pipe = ftable[f].pipe
                       /\ ftable'[f].writable = ftable[f].writable
  BY <1>1 DEF StructFile
<1> QED
  BY <1>2 DEF FileHas

LEMMA SysPipeSim ==
  ASSUME IOIndInv, NEW p \in Procs, sys_pipe(p)
  PROVE  UNCHANGED Shown
<1>0. TypeOK
  BY DEF IOIndInv
<1>1. loc[p] = Idle /\ Idle.pc = "idle" /\ Idle.got = <<>> /\ UNCHANGED <<ofile, pipe, input, proc, buf>>
  BY AtIdle DEF sys_pipe, Idle
<1>2. CASE Unused = {}
  <2>1. loc' = [loc EXCEPT ![p] = Idle] /\ UNCHANGED ftable
    BY <1>2 DEF sys_pipe, Returned
  <2>2. loc'[p] = Idle /\ \A r \in Procs : r # p => loc'[r] = loc[r]
    BY <1>0, <2>1, MovesTo
  <2>3. \A f \in Files, q \in Pages, w \in BOOLEAN : FileHas(f, q, w)' <=> FileHas(f, q, w)
    BY <2>1 DEF FileHas
  <2> QED
    BY <1>1, <2>2, <2>3, Unseen
<1>3. CASE Unused # {}
  <2>1. PICK f \in Files : f = Min(Unused)
    BY <1>0, <1>3, UnusedMin
  <2>2. PICK l : l = [Idle EXCEPT !.pc = "pipealloc", !.op = "pipe", !.file = f]
    OBVIOUS
  <2>3. ftable' = [ftable EXCEPT ![f].ref = 1] /\ loc' = [loc EXCEPT ![p] = l]
    BY <1>3, <2>1, <2>2 DEF sys_pipe, filealloc
  <2>4. l.pc = "pipealloc" /\ l.got = <<>>
    BY <2>2 DEF Idle
  <2>5. loc'[p] = l /\ \A r \in Procs : r # p => loc'[r] = loc[r]
    BY <1>0, <2>3, MovesTo
  <2>6. \A x \in Files, q \in Pages, w \in BOOLEAN : FileHas(x, q, w)' <=> FileHas(x, q, w)
    BY <1>0, <2>3, RefsUnseen
  <2> QED
    BY <1>1, <2>4, <2>5, <2>6, Unseen
<1> QED
  BY <1>2, <1>3

LEMMA SysDupSim ==
  ASSUME IOIndInv, NEW p \in Procs, NEW d \in Fds, sys_dup(p, d)
  PROVE  UNCHANGED Shown
<1>0. TypeOK
  BY DEF IOIndInv
<1>1. /\ loc[p] = Idle /\ Idle.pc = "idle" /\ Idle.got = <<>> /\ UNCHANGED <<pipe, input, proc, buf>>
      /\ loc' = [loc EXCEPT ![p] = Idle]
  BY AtIdle DEF sys_dup, Idle, Returned
<1>2. loc'[p] = Idle /\ \A r \in Procs : r # p => loc'[r] = loc[r]
  BY <1>0, <1>1, MovesTo
<1>3. PICK g \in Files : g = ofile[p][d]
  BY <1>0 DEF sys_dup, TypeOK
<1>4. \A x \in Files, q \in Pages, w \in BOOLEAN : FileHas(x, q, w)' <=> FileHas(x, q, w)
  <2>1. CASE UNCHANGED ftable
    BY <2>1 DEF FileHas
  <2>2. CASE ftable' = [ftable EXCEPT ![g].ref = ftable[g].ref + 1]
    BY <1>0, <2>2, RefsUnseen
  <2> QED
    BY <1>3, <2>1, <2>2 DEF sys_dup
<1> QED
  BY <1>1, <1>2, <1>4, Unseen

LEMMA SysReadSim ==
  ASSUME IOIndInv, NEW p \in Procs, NEW d \in Fds, NEW n \in ReadLens, sys_read(p, d, n)
  PROVE  UNCHANGED Shown
<1>0. TypeOK
  BY DEF IOIndInv
<1>1. PICK at : at = (IF ftable[ofile[p][d]].type = "pipe" THEN "piperead" ELSE "consoleread")
                /\ at # "pipewrite"
  OBVIOUS
<1>2. PICK l : l = [Idle EXCEPT !.pc = at, !.op = "read", !.file = ofile[p][d], !.n = n]
  OBVIOUS
<1>3. /\ loc[p] = Idle /\ UNCHANGED <<ftable, pipe, input, proc, buf>> /\ loc' = [loc EXCEPT ![p] = l]
  BY <1>1, <1>2, AtIdle DEF sys_read
<1>4. Idle.pc = "idle" /\ Idle.got = <<>> /\ l.pc = at /\ l.got = <<>>
  BY <1>2 DEF Idle
<1>5. loc'[p] = l /\ \A r \in Procs : r # p => loc'[r] = loc[r]
  BY <1>0, <1>3, MovesTo
<1>6. \A x \in Files, q \in Pages, w \in BOOLEAN : FileHas(x, q, w)' <=> FileHas(x, q, w)
  BY <1>3 DEF FileHas
<1> QED
  BY <1>1, <1>3, <1>4, <1>5, <1>6, Unseen

LEMMA SysCloseSim ==
  ASSUME IOIndInv, NEW p \in Procs, NEW d \in Fds, sys_close(p, d)
  PROVE  UNCHANGED Shown
<1>0. TypeOK
  BY DEF IOIndInv
<1>2. PICK l : l = [Idle EXCEPT !.pc = "fileclose", !.op = "close", !.close = <<ofile[p][d]>>]
  OBVIOUS
<1>3. /\ loc[p] = Idle /\ UNCHANGED <<ftable, pipe, input, proc, buf>> /\ loc' = [loc EXCEPT ![p] = l]
  BY <1>2, AtIdle DEF sys_close
<1>4. Idle.pc = "idle" /\ Idle.got = <<>> /\ l.pc = "fileclose" /\ l.got = <<>>
  BY <1>2 DEF Idle
<1>5. loc'[p] = l /\ \A r \in Procs : r # p => loc'[r] = loc[r]
  BY <1>0, <1>3, MovesTo
<1>6. \A x \in Files, q \in Pages, w \in BOOLEAN : FileHas(x, q, w)' <=> FileHas(x, q, w)
  BY <1>3 DEF FileHas
<1> QED
  BY <1>3, <1>4, <1>5, <1>6, Unseen

LEMMA ExitSim ==
  ASSUME IOIndInv, NEW p \in Procs, exit(p)
  PROVE  UNCHANGED Shown
<1>0. TypeOK /\ Local(p)
  BY DEF IOIndInv
<1>2. PICK l : l = [Idle EXCEPT !.pc = "fileclose", !.op = "exit",
                                !.close = [k \in 1 .. NOFILE |-> ofile[p][k - 1]]]
  OBVIOUS
<1>3. /\ loc[p] = Idle /\ UNCHANGED <<ftable, pipe, input, proc, buf>> /\ loc' = [loc EXCEPT ![p] = l]
  BY <1>0, <1>2 DEF exit, At, Local
<1>4. Idle.pc = "idle" /\ Idle.got = <<>> /\ l.pc = "fileclose" /\ l.got = <<>>
  BY <1>2 DEF Idle
<1>5. loc'[p] = l /\ \A r \in Procs : r # p => loc'[r] = loc[r]
  BY <1>0, <1>3, MovesTo
<1>6. \A x \in Files, q \in Pages, w \in BOOLEAN : FileHas(x, q, w)' <=> FileHas(x, q, w)
  BY <1>3 DEF FileHas
<1> QED
  BY <1>3, <1>4, <1>5, <1>6, Unseen

LEMMA ClosedSim ==
  ASSUME IOIndInv, NEW p \in Procs, closed(p)
  PROVE  UNCHANGED Shown
<1>0. TypeOK /\ Local(p)
  BY DEF IOIndInv
<1>1. /\ loc[p].pc = "fileclose" /\ loc[p].got = <<>> /\ UNCHANGED <<ftable, pipe, input, buf>>
      /\ proc' = IF loc[p].op = "exit" THEN [proc EXCEPT ![p].state = "zombie"] ELSE proc
      /\ loc' = [loc EXCEPT ![p] = Idle]
  BY <1>0 DEF closed, At, Returned, Local
<1>2. Idle.pc = "idle" /\ Idle.got = <<>>
  BY DEF Idle
<1>3. loc'[p] = Idle /\ \A r \in Procs : r # p => loc'[r] = loc[r]
  BY <1>0, <1>1, MovesTo
<1>4. \A r \in Procs : proc'[r].killed = proc[r].killed
  BY <1>0, <1>1 DEF TypeOK, StructProc
<1>5. \A x \in Files, q \in Pages, w \in BOOLEAN : FileHas(x, q, w)' <=> FileHas(x, q, w)
  BY <1>1 DEF FileHas
<1> QED
  BY <1>1, <1>2, <1>3, <1>4, <1>5, Unseen

LEMMA WokenSame ==
  ASSUME TypeOK, NEW ch, proc' = Wake(proc, ch)
  PROVE  UNCHANGED Dead
<1>1. proc \in [Procs -> StructProc]
  BY DEF TypeOK
<1>2. \A r \in Procs : Wake(proc, ch)[r].killed = proc[r].killed
  BY <1>1, WakeIs
<1> QED
  BY <1>2, DeadSame

(* The last end of a pipe goes away: nobody sees the page any more. *)
LEMMA FileclosePipeSim ==
  ASSUME IOIndInv, IOIndInv', NEW p \in Procs, fileclose_pipe(p)
  PROVE  UNCHANGED Shown
<1>0. /\ TypeOK /\ Local(p) /\ RingsOK
      /\ \A q \in Pages : EndsOK(q)'
  BY DEF IOIndInv
<1>1. PICK ff \in StructFile : ff = loc[p].ff
  BY <1>0 DEF TypeOK, Locals
<1>2. PICK l : l = [loc[p] EXCEPT !.pc = "fileclose", !.ff = NoFile]
  OBVIOUS
<1>3. /\ loc[p].pc = "pipeclose" /\ loc[p].got = <<>> /\ ff.pipe \in Pages /\ ff.writable \in BOOLEAN
      /\ UNCHANGED <<ftable, input, buf>>
      /\ pipe' = [pipe EXCEPT ![ff.pipe] = pipeclose(@, ff.writable)]
      /\ proc' = Wake(proc, OtherEnd(ff))
      /\ loc' = [loc EXCEPT ![p] = l]
  BY <1>0, <1>1, <1>2 DEF fileclose_pipe, At, Local, StructFile
<1>4. l.pc = "fileclose" /\ l.got = <<>>
  BY <1>0, <1>2, <1>3 DEF TypeOK, Locals
<1>5. loc'[p] = l /\ \A r \in Procs : r # p => loc'[r] = loc[r]
  BY <1>0, <1>3, MovesTo
<1>6. \A x \in Files, q \in Pages, w \in BOOLEAN : FileHas(x, q, w)' <=> FileHas(x, q, w)
  BY <1>3 DEF FileHas
<1>7. \A q \in Pages, w \in BOOLEAN : HasEnd(q, w)' <=> HasEnd(q, w)
  BY <1>6, FilesSame
<1>8. ASSUME NEW q \in Pages, NEW w \in BOOLEAN, HasEnd(q, w)
      PROVE  pipe'[q].data = pipe[q].data /\ pipe'[q].nread = pipe[q].nread
             /\ pipe'[q].nwrite = pipe[q].nwrite
  <2>1. CASE q # ff.pipe
    BY <1>0, <1>3, <2>1 DEF TypeOK
  <2>2. CASE q = ff.pipe
    <3>1. PICK t \in StructPipe : t = pipe[q] /\ Sub(t.nwrite, t.nread) <= PIPESIZE
      BY <1>0 DEF TypeOK, RingsOK
    <3>2. pipe'[q] = pipeclose(t, ff.writable)
      BY <1>0, <1>3, <2>2, <3>1 DEF TypeOK
    <3>3. Open(q, w)'
      <4>1. \E f \in Files : FileHas(f, q, w)'
        BY <1>7, <1>8, EndIs
      <4> QED
        BY <1>0, <4>1 DEF EndsOK
    <3>4. pipe'[q].readopen \/ pipe'[q].writeopen
      BY <3>3 DEF Open
    <3> QED
      BY <1>3, <3>1, <3>2, <3>4, PipecloseIs
  <2> QED
    BY <2>1, <2>2
<1>9. UNCHANGED <<InPipes, Readable, Writable>>
  BY <1>7, <1>8, PipesSame
<1>10. UNCHANGED <<Complete, Edited>>
  BY <1>3, ConsoleSame
<1>11. UNCHANGED <<SoFar, Unwritten>>
  BY <1>3, <1>4, <1>5, CallsSame
<1>12. UNCHANGED Dead
  <2>1. PICK ch : proc' = Wake(proc, ch)
    BY <1>3
  <2> QED
    BY <1>0, <2>1, WokenSame
<1> QED
  BY <1>3, <1>9, <1>10, <1>11, <1>12 DEF Shown

-----------------------------------------------------------------------------
(* Steps that programs see: descriptors and processes.                     *)

LEMMA KillSim ==
  ASSUME IOIndInv, NEW p \in Procs, NEW v \in Procs, kill(p, v)
  PROVE  Ideal!Next
<1>0. TypeOK
  BY DEF IOIndInv
<1>1. /\ loc[p] = Idle /\ Idle.pc = "idle" /\ Idle.got = <<>> /\ UNCHANGED <<ftable, pipe, input, buf>>
      /\ loc' = [loc EXCEPT ![p] = Idle] /\ proc' = [proc EXCEPT ![v] = Killed(@)]
  BY AtIdle DEF kill, Idle, Returned
<1>2. loc'[p] = Idle /\ \A r \in Procs : r # p => loc'[r] = loc[r]
  BY <1>0, <1>1, MovesTo
<1>3. UNCHANGED <<SoFar, Unwritten>>
  BY <1>1, <1>2, CallsSame
<1>4. UNCHANGED <<InPipes, Readable, Writable>>
  <2>1. \A q \in Pages, w \in BOOLEAN : HasEnd(q, w)' <=> HasEnd(q, w)
    BY <1>1 DEF HasEnd
  <2> QED
    BY <1>1, <2>1, PipesSame
<1>5. UNCHANGED <<Complete, Edited>>
  BY <1>1, ConsoleSame
<1>6. Dead' = [Dead EXCEPT ![v] = TRUE]
  <2>1. proc'[v].killed = TRUE /\ \A r \in Procs : r # v => proc'[r].killed = proc[r].killed
    BY <1>0, <1>1 DEF TypeOK, Killed, StructProc
  <2> QED
    BY <2>1 DEF Dead
<1> QED
  BY <1>1, <1>3, <1>4, <1>5, <1>6, AsKill

LEMMA ForkSim ==
  ASSUME IOIndInv, NEW p \in Procs, NEW np \in Procs, fork(p, np)
  PROVE  Ideal!Next
<1>0. TypeOK /\ Local(np)
  BY DEF IOIndInv
<1>1. /\ loc[p] = Idle /\ Idle.pc = "idle" /\ Idle.got = <<>> /\ UNCHANGED <<pipe, input>>
      /\ loc' = [loc EXCEPT ![p] = Idle] /\ proc' = [proc EXCEPT ![np].state = "run"]
      /\ ftable' = [f \in Files |-> [ftable[f] EXCEPT !.ref = @ + Inherited(p, f)]]
      /\ buf' = [buf EXCEPT ![np] = buf[p]] /\ loc[np].pc = "idle"
  BY <1>0, AtIdle DEF fork, Idle, Returned, Local
<1>2. loc'[p] = Idle /\ \A r \in Procs : r # p => loc'[r] = loc[r]
  BY <1>0, <1>1, MovesTo
<1>3. UNCHANGED <<SoFar, Unwritten>>
  <2>1. \A r \in Procs : loc[r].pc = "pipewrite" => buf'[r] = buf[r]
    BY <1>0, <1>1 DEF TypeOK
  <2> QED
    BY <1>1, <1>2, <2>1, CallsSame
<1>4. UNCHANGED <<InPipes, Readable, Writable>>
  <2>1. ASSUME NEW f \in Files
        PROVE  /\ ftable'[f].type = ftable[f].type /\ ftable'[f].pipe = ftable[f].pipe
               /\ ftable'[f].writable = ftable[f].writable
    <3>0. PICK t \in StructFile : t = ftable[f]
      BY <1>0 DEF TypeOK
    <3>1. PICK n : n = t.ref + Inherited(p, f) /\ t = ftable[f]
      BY <3>0
    <3>2. ftable'[f] = [t EXCEPT !.ref = n]
      BY <1>1, <3>1
    <3>3. ftable'[f].type = t.type /\ ftable'[f].pipe = t.pipe /\ ftable'[f].writable = t.writable
      BY <3>2 DEF StructFile
    <3> QED
      BY <3>1, <3>3
  <2>2. \A q \in Pages, w \in BOOLEAN : HasEnd(q, w)' <=> HasEnd(q, w)
    BY <2>1 DEF HasEnd
  <2> QED
    BY <1>1, <2>2, PipesSame
<1>5. UNCHANGED <<Complete, Edited>>
  BY <1>1, ConsoleSame
<1>6. UNCHANGED Dead
  <2>1. \A r \in Procs : proc'[r].killed = proc[r].killed
    BY <1>0, <1>1 DEF TypeOK, StructProc
  <2> QED
    BY <2>1, DeadSame
<1> QED
  BY <1>1, <1>3, <1>4, <1>5, <1>6, AsFork

LEMMA SysWriteSim ==
  ASSUME IOIndInv, NEW p \in Procs, NEW d \in Fds, sys_write(p, d)
  PROVE  Ideal!Next
<1>0. TypeOK
  BY DEF IOIndInv
<1>1. PICK b \in Seq(Cell) : b = buf[p]
  BY <1>0 DEF TypeOK
<1>2. PICK l : l = [Idle EXCEPT !.pc = "pipewrite", !.op = "write", !.file = ofile[p][d], !.n = Len(b)]
  OBVIOUS
<1>3. /\ loc[p] = Idle /\ UNCHANGED <<ftable, pipe, input, proc, buf>> /\ loc' = [loc EXCEPT ![p] = l]
  BY <1>1, <1>2, AtIdle DEF sys_write
<1>4. /\ Idle.pc = "idle" /\ Idle.got = <<>> /\ l.pc = "pipewrite" /\ l.got = <<>> /\ l.i = 0
      /\ l.n = Len(b)
  BY <1>2 DEF Idle
<1>5. loc'[p] = l /\ \A r \in Procs : r # p => loc'[r] = loc[r]
  BY <1>0, <1>3, MovesTo
<1>6. UNCHANGED SoFar
  <2>1. \A r \in Procs : loc'[r].got = loc[r].got
    BY <1>3, <1>4, <1>5
  <2> QED
    BY <2>1 DEF SoFar
<1>7. Unwritten[p] = <<>> /\ Unwritten' = [Unwritten EXCEPT ![p] = buf[p]]
  <2>1. SubSeq(b, 0 + 1, Len(b)) = b
    BY SubSeqFull
  <2>2. Unwritten[p] = <<>>
    BY <1>3, <1>4 DEF Unwritten
  <2>3. (IF loc'[p].pc = "pipewrite" THEN SubSeq(buf'[p], loc'[p].i + 1, loc'[p].n) ELSE <<>>) = b
    BY <1>1, <1>3, <1>4, <1>5, <2>1
  <2>4. \A r \in Procs : r # p =>
          (IF loc'[r].pc = "pipewrite" THEN SubSeq(buf'[r], loc'[r].i + 1, loc'[r].n) ELSE <<>>)
            = IF loc[r].pc = "pipewrite" THEN SubSeq(buf[r], loc[r].i + 1, loc[r].n) ELSE <<>>
    BY <1>3, <1>5
  <2> QED
    BY <1>1, <2>2, <2>3, <2>4 DEF Unwritten
<1>8. UNCHANGED <<InPipes, Readable, Writable>>
  <2>1. \A q \in Pages, w \in BOOLEAN : HasEnd(q, w)' <=> HasEnd(q, w)
    BY <1>3 DEF HasEnd
  <2> QED
    BY <1>3, <2>1, PipesSame
<1>9. UNCHANGED <<Complete, Edited, Dead>>
  BY <1>3, ConsoleSame, DeadSame
<1> QED
  BY <1>3, <1>6, <1>7, <1>8, <1>9, AsStartWrite

(* A page that is not in use has no ends. *)
LEMMA FreeNoEnds ==
  ASSUME NEW q \in Pages, EndsOK(q), ~pipe[q].used, NEW w \in BOOLEAN
  PROVE  ~HasEnd(q, w)
<1>1. ~Open(q, w)
  BY DEF EndsOK, Open
<1>2. \A f \in Files : ~FileHas(f, q, w)
  BY <1>1 DEF EndsOK
<1> QED
  BY <1>2, EndIs

LEMMA Pipealloc2Sim ==
  ASSUME IOIndInv, IOIndInv', NEW p \in Procs, pipealloc2(p)
  PROVE  Ideal!Next \/ UNCHANGED Shown
<1>0. /\ TypeOK /\ Local(p) /\ TypeOK' /\ Local(p)'
      /\ \A q \in Pages : EndsOK(q)
  BY DEF IOIndInv
<1>1. /\ loc[p].pc = "pipealloc" /\ loc[p].got = <<>> /\ UNCHANGED <<input, proc, buf>>
  BY <1>0 DEF pipealloc2, At, Quiet, Local
<1>2. PICK f0 \in Files : f0 = loc[p].file /\ ftable[f0].type = "none"
  BY <1>1, FirstFile
<1>3. /\ \A r \in Procs : r # p => loc'[r] = loc[r]
      /\ loc'[p].pc # "pipewrite" /\ loc'[p].got = <<>>
  <2>1. ASSUME NEW fs, Closing(p, fs)
        PROVE  /\ \A r \in Procs : r # p => loc'[r] = loc[r]
               /\ loc'[p].pc # "pipewrite" /\ loc'[p].got = <<>>
    <3>1. PICK l : l = [loc[p] EXCEPT !.pc = "fileclose", !.file = NULL, !.close = fs]
      OBVIOUS
    <3>2. l.pc = "fileclose" /\ l.got = <<>>
      BY <1>0, <1>1, <3>1 DEF TypeOK, Locals
    <3>3. loc'[p] = l /\ \A r \in Procs : r # p => loc'[r] = loc[r]
      BY <1>0, <2>1, <3>1, MovesTo DEF Closing
    <3> QED
      BY <3>2, <3>3
  <2>2. CASE Returned(p)
    <3>1. loc'[p] = Idle /\ \A r \in Procs : r # p => loc'[r] = loc[r]
      BY <1>0, <2>2, MovesTo DEF Returned
    <3> QED
      BY <3>1 DEF Idle
  <2>3. Returned(p) \/ \E fs : Closing(p, fs)
    BY DEF pipealloc2
  <2> QED
    BY <2>1, <2>2, <2>3
<1>4. CASE Unused = {}
  <2>1. UNCHANGED <<ftable, pipe>>
    BY <1>4 DEF pipealloc2
  <2>2. \A f \in Files, q \in Pages, w \in BOOLEAN : FileHas(f, q, w)' <=> FileHas(f, q, w)
    BY <2>1 DEF FileHas
  <2> QED
    BY <1>1, <1>3, <2>1, <2>2, Unseen
<1>5. CASE Unused # {}
  <2>1. PICK f1 \in Files : f1 = Min(Unused) /\ ftable[f1].ref = 0
    BY <1>0, <1>5, UnusedMin
  <2>2. f1 # f0 /\ ftable[f1].type = "none"
    <3>1. ftable[f0].ref = 1
      BY <1>1, <1>2, FirstFile
    <3> QED
      BY <2>1, <3>1 DEF IOIndInv, FilesOK
  <2>3. CASE \A q \in Pages : pipe[q].used
    <3>1. ftable' = [ftable EXCEPT ![f1].ref = 1] /\ UNCHANGED pipe
      BY <1>5, <2>1, <2>3 DEF pipealloc2, filealloc
    <3>2. \A f \in Files, q \in Pages, w \in BOOLEAN : FileHas(f, q, w)' <=> FileHas(f, q, w)
      BY <1>0, <3>1, RefsUnseen
    <3> QED
      BY <1>1, <1>3, <3>1, <3>2, Unseen
  <2>4. CASE ~(\A q \in Pages : pipe[q].used)
    <3>1. PICK q \in Pages : q = (CHOOSE x \in {y \in Pages : ~pipe[y].used} : TRUE) /\ ~pipe[q].used
      BY <2>4
    <3>2. /\ ftable' = [ftable EXCEPT ![f0] = PipeFile(q, FALSE), ![f1] = PipeFile(q, TRUE)]
          /\ pipe' = [pipe EXCEPT ![q] = pipealloc(@)]
      BY <1>2, <1>5, <2>1, <3>1 DEF pipealloc2
    <3>3. /\ ftable'[f0] = PipeFile(q, FALSE) /\ ftable'[f1] = PipeFile(q, TRUE)
          /\ \A f \in Files : f \notin {f0, f1} => ftable'[f] = ftable[f]
      <4>1. PICK a, b : a = PipeFile(q, FALSE) /\ b = PipeFile(q, TRUE)
        OBVIOUS
      <4>2. ftable' = [ftable EXCEPT ![f0] = a, ![f1] = b] /\ DOMAIN ftable = Files
        BY <1>0, <3>2, <4>1 DEF TypeOK
      <4>3. /\ ftable'[f0] = a /\ ftable'[f1] = b
            /\ \A f \in Files : f \notin {f0, f1} => ftable'[f] = ftable[f]
        BY <2>2, <4>2
      <4> QED
        BY <4>1, <4>3
    <3>4. \A w \in BOOLEAN : ~HasEnd(q, w)
      BY <1>0, <3>1, FreeNoEnds
    <3>5. HasEnd(q, FALSE)' /\ HasEnd(q, TRUE)'
      BY <3>3 DEF HasEnd, PipeFile
    <3>6. ASSUME NEW x \in Pages, x # q, NEW w \in BOOLEAN PROVE HasEnd(x, w)' <=> HasEnd(x, w)
      <4>1. \A f \in Files : FileHas(f, x, w)' <=> FileHas(f, x, w)
        BY <1>2, <2>2, <3>3, <3>6 DEF FileHas, PipeFile
      <4> QED
        BY <4>1, EndIs
    <3>7. ~Readable[q] /\ ~Writable[q]
      BY <3>4 DEF Readable, Writable
    <3>8. Readable' = [Readable EXCEPT ![q] = TRUE] /\ Writable' = [Writable EXCEPT ![q] = TRUE]
      <4>1. \A x \in Pages : /\ HasEnd(x, FALSE)' = IF x = q THEN TRUE ELSE HasEnd(x, FALSE)
                             /\ HasEnd(x, TRUE)' = IF x = q THEN TRUE ELSE HasEnd(x, TRUE)
        <5> TAKE x \in Pages
        <5>1. CASE x = q
          BY <3>5, <5>1, EndBool
        <5>2. CASE x # q
          BY <3>6, <5>2, EndBool
        <5> QED
          BY <5>1, <5>2
      <4> QED
        BY <4>1 DEF Readable, Writable
    <3>9. InPipes' = [InPipes EXCEPT ![q] = <<>>]
      <4>1. Ring(q)' = <<>>
        <5>1. pipe'[q].nread = 0 /\ pipe'[q].nwrite = 0
          BY <1>0, <3>2, PipeallocIs DEF TypeOK
        <5>2. Sub(0, 0) = 0
          BY Sizes, SubIs DEF Index
        <5> QED
          BY <5>1, <5>2 DEF Ring, Bytes
      <4>2. \A x \in Pages : x # q => Ring(x)' = Ring(x)
        BY <1>0, <3>2 DEF TypeOK, Ring
      <4>3. \A x \in Pages :
              (IF HasEnd(x, FALSE)' \/ HasEnd(x, TRUE)' THEN Ring(x)' ELSE <<>>)
                = IF x = q THEN <<>>
                  ELSE IF HasEnd(x, FALSE) \/ HasEnd(x, TRUE) THEN Ring(x) ELSE <<>>
        BY <3>5, <3>6, <4>1, <4>2
      <4> QED
        BY <4>3 DEF InPipes
    <3>10. UNCHANGED <<Complete, Edited, Dead>>
      BY <1>1, ConsoleSame, DeadSame
    <3>11. UNCHANGED <<SoFar, Unwritten>>
      BY <1>1, <1>3, CallsSame
    <3> QED
      BY <1>1, <3>7, <3>8, <3>9, <3>10, <3>11, AsMake
  <2> QED
    BY <2>3, <2>4
<1> QED
  BY <1>4, <1>5

(* The file of an end is closed for the last time: the end hangs up. *)
LEMMA FilecloseSim ==
  ASSUME IOIndInv, NEW p \in Procs, fileclose(p)
  PROVE  Ideal!Next \/ UNCHANGED Shown
<1>0. TypeOK /\ FilesOK /\ Local(p)
  BY DEF IOIndInv
<1>1. PICK k : k = Min(Left(loc[p])) /\ k \in Left(loc[p])
  BY <1>0, LeftMin DEF fileclose
<1>2. PICK f \in Files : f = loc[p].close[k]
  <2>1. loc[p].close \in Seq(Files \cup {NULL}) /\ k \in DOMAIN loc[p].close /\ loc[p].close[k] # NULL
    BY <1>0, <1>1 DEF TypeOK, Locals, Left
  <2> QED
    BY <2>1
<1>3. PICK l \in Locals : l = loc[p]
  BY <1>0 DEF TypeOK
<1>4. PICK rest, moved : /\ rest = [l EXCEPT !.close[k] = NULL]
                         /\ moved = [rest EXCEPT !.pc = "pipeclose", !.ff = ftable[f]]
  OBVIOUS
<1>5. /\ loc[p].pc = "fileclose" /\ loc[p].got = <<>> /\ UNCHANGED <<pipe, input, proc, buf>>
  BY <1>0 DEF fileclose, At, Quiet, Local
<1>6. /\ ftable[f].ref > 1 => ftable' = [ftable EXCEPT ![f].ref = @ - 1] /\ loc' = [loc EXCEPT ![p] = rest]
      /\ ~(ftable[f].ref > 1) =>
           /\ ftable' = [ftable EXCEPT ![f].ref = 0, ![f].type = "none"]
           /\ loc' = [loc EXCEPT ![p] = IF ftable[f].type = "pipe" THEN moved ELSE rest]
  BY <1>1, <1>2, <1>3, <1>4 DEF fileclose
<1>7. rest.pc = "fileclose" /\ rest.got = <<>> /\ moved.pc = "pipeclose" /\ moved.got = <<>>
  BY <1>3, <1>4, <1>5 DEF Locals
<1>8. /\ \A r \in Procs : r # p => loc'[r] = loc[r]
      /\ loc'[p].pc # "pipewrite" /\ loc'[p].got = <<>>
  <2>1. PICK m : m \in {rest, moved} /\ loc' = [loc EXCEPT ![p] = m]
    BY <1>6
  <2>2. loc'[p] = m /\ \A r \in Procs : r # p => loc'[r] = loc[r]
    BY <1>0, <2>1, MovesTo
  <2> QED
    BY <1>7, <2>1, <2>2
<1>9. ftable \in [Files -> StructFile] /\ ftable[f] \in StructFile
  BY <1>0 DEF TypeOK
<1>10. CASE ftable[f].ref > 1
  <2>1. \A x \in Files, q \in Pages, w \in BOOLEAN : FileHas(x, q, w)' <=> FileHas(x, q, w)
    <3>1. ftable' = [ftable EXCEPT ![f].ref = ftable[f].ref - 1]
      BY <1>6, <1>10
    <3> QED
      BY <1>0, <3>1, RefsUnseen
  <2> QED
    BY <1>5, <1>8, <2>1, Unseen
<1>11. CASE ~(ftable[f].ref > 1)
  <2>1. ftable'[f].type = "none" /\ \A x \in Files : x # f => ftable'[x] = ftable[x]
    BY <1>6, <1>9, <1>11 DEF StructFile
  <2>2. CASE ftable[f].type # "pipe"
    <3>1. \A x \in Files, q \in Pages, w \in BOOLEAN : FileHas(x, q, w)' <=> FileHas(x, q, w)
      BY <2>1, <2>2 DEF FileHas
    <3> QED
      BY <1>5, <1>8, <3>1, Unseen
  <2>3. CASE ftable[f].type = "pipe"
    <3>1. PICK q \in Pages, w \in BOOLEAN : q = ftable[f].pipe /\ w = ftable[f].writable
      BY <1>0, <1>9, <2>3 DEF FilesOK, StructFile
    <3>2. EndsOK(q) /\ FileHas(f, q, w)
      BY <2>3, <3>1 DEF IOIndInv, FileHas
    <3>3. \A x \in Files : FileHas(x, q, w) => x = f
      BY <3>2 DEF EndsOK
    <3>4. HasEnd(q, w) /\ ~HasEnd(q, w)'
      <4>1. \A x \in Files : ~FileHas(x, q, w)'
        BY <2>1, <3>3 DEF FileHas
      <4> QED
        BY <3>2, <4>1, EndIs
    <3>5. ASSUME NEW y \in Pages, NEW v \in BOOLEAN, y # q \/ v # w
          PROVE  HasEnd(y, v)' <=> HasEnd(y, v)
      <4>1. \A x \in Files : FileHas(x, y, v)' <=> FileHas(x, y, v)
        BY <2>1, <3>1, <3>5 DEF FileHas
      <4> QED
        BY <4>1, EndIs
    <3>6. /\ Readable' = IF w THEN Readable ELSE [Readable EXCEPT ![q] = FALSE]
          /\ Writable' = IF w THEN [Writable EXCEPT ![q] = FALSE] ELSE Writable
      <4>1. ASSUME NEW y \in Pages
            PROVE  /\ HasEnd(y, FALSE)' = IF y = q /\ ~w THEN FALSE ELSE HasEnd(y, FALSE)
                   /\ HasEnd(y, TRUE)' = IF y = q /\ w THEN FALSE ELSE HasEnd(y, TRUE)
        <5>1. CASE y = q
          BY <3>4, <3>5, <5>1, EndBool
        <5>2. CASE y # q
          BY <3>5, <5>2, EndBool
        <5> QED
          BY <5>1, <5>2
      <4> QED
        BY <4>1 DEF Readable, Writable
    <3>7. Readable[q] = HasEnd(q, FALSE) /\ Writable[q] = HasEnd(q, TRUE)
      BY DEF Readable, Writable
    <3>8. \/ Readable[q] /\ Readable' = [Readable EXCEPT ![q] = FALSE] /\ UNCHANGED Writable
          \/ Writable[q] /\ Writable' = [Writable EXCEPT ![q] = FALSE] /\ UNCHANGED Readable
      BY <3>4, <3>6, <3>7
    <3>9. /\ Readable'[q] = HasEnd(q, FALSE)' /\ Writable'[q] = HasEnd(q, TRUE)'
      BY DEF Readable, Writable
    <3>10. InPipes' = IF Readable'[q] \/ Writable'[q] THEN InPipes ELSE [InPipes EXCEPT ![q] = <<>>]
      <4>1. \A y \in Pages : Ring(y)' = Ring(y)
        BY <1>5 DEF Ring
      <4>2. \A y \in Pages : y # q =>
              (IF HasEnd(y, FALSE)' \/ HasEnd(y, TRUE)' THEN Ring(y)' ELSE <<>>)
                = IF HasEnd(y, FALSE) \/ HasEnd(y, TRUE) THEN Ring(y) ELSE <<>>
        BY <3>5, <4>1
      <4>3. HasEnd(q, FALSE) \/ HasEnd(q, TRUE)
        BY <3>4
      <4> QED
        BY <3>9, <4>1, <4>2, <4>3 DEF InPipes
    <3>11. UNCHANGED <<Complete, Edited, Dead>>
      BY <1>5, ConsoleSame, DeadSame
    <3>12. UNCHANGED <<SoFar, Unwritten>>
      BY <1>5, <1>8, CallsSame
    <3> QED
      BY <1>5, <3>8, <3>10, <3>11, <3>12, AsHangUp
  <2> QED
    BY <2>2, <2>3
<1> QED
  BY <1>10, <1>11

-----------------------------------------------------------------------------
(* Reading and writing pipes.                                              *)

(* What is left of a part of a sequence. *)
LEMMA PartOfPart ==
  ASSUME NEW T, NEW s \in Seq(T), NEW i \in Nat, i <= Len(s), NEW u, u = SubSeq(s, i + 1, Len(s)),
         NEW k \in 0 .. Len(s) - i
  PROVE  /\ u \in Seq(T) /\ Len(u) = Len(s) - i
         /\ SubSeq(u, 1, k) = SubSeq(s, i + 1, i + k)
         /\ SubSeq(u, k + 1, Len(u)) = SubSeq(s, i + k + 1, Len(s))
<1>1. PICK n \in Nat, m \in Nat, j \in Nat :
        n = Len(s) /\ m = n - i /\ i + m = n /\ k \in Nat /\ k + j = m /\ (i + k) + j = n
  <2>1. PICK n \in Nat : n = Len(s)
    OBVIOUS
  <2>2. n - i \in Nat /\ k \in Nat /\ (n - i) - k \in Nat
    BY <2>1
  <2> QED
    BY <2>1, <2>2
<1>2. /\ SubSeq(s, i + 1, i + m) \in Seq(T) /\ Len(SubSeq(s, i + 1, i + m)) = m
      /\ \A x \in 1 .. m : SubSeq(s, i + 1, i + m)[x] = s[i + x]
  <2>1. i + m <= Len(s)
    BY <1>1
  <2> QED
    BY <2>1, Part
<1>3. u \in Seq(T) /\ Len(u) = m /\ \A x \in 1 .. m : u[x] = s[i + x]
  BY <1>1, <1>2
<1>4. SubSeq(u, 1, k) = SubSeq(s, i + 1, i + k)
  <2>1. 0 + k <= Len(u) /\ i + k <= Len(s) /\ k \in Nat /\ 0 \in Nat
    BY <1>1, <1>3
  <2>2. /\ SubSeq(s, i + 1, i + k) \in Seq(T) /\ Len(SubSeq(s, i + 1, i + k)) = k
        /\ \A x \in 1 .. k : SubSeq(s, i + 1, i + k)[x] = s[i + x]
    BY <2>1, Part
  <2>3. /\ SubSeq(u, 0 + 1, 0 + k) \in Seq(T) /\ Len(SubSeq(u, 0 + 1, 0 + k)) = k
        /\ \A x \in 1 .. k : SubSeq(u, 0 + 1, 0 + k)[x] = u[0 + x]
    <3>1. PICK v \in Seq(T) : v = u
      BY <1>3
    <3>2. 0 + k <= Len(v) /\ k \in Nat /\ 0 \in Nat
      BY <2>1, <3>1
    <3>3. /\ SubSeq(v, 0 + 1, 0 + k) \in Seq(T) /\ Len(SubSeq(v, 0 + 1, 0 + k)) = k
          /\ \A x \in 1 .. k : SubSeq(v, 0 + 1, 0 + k)[x] = v[0 + x]
      BY <3>2, Part
    <3> QED
      BY <3>1, <3>3
  <2>4. 0 + 1 = 1 /\ 0 + k = k /\ \A x \in 1 .. k : 0 + x = x /\ x \in 1 .. m
    BY <1>1
  <2>5. \A x \in 1 .. k : SubSeq(u, 1, k)[x] = SubSeq(s, i + 1, i + k)[x]
    BY <1>3, <2>2, <2>3, <2>4
  <2> QED
    BY <2>2, <2>3, <2>4, <2>5, SeqEqual
<1>5. SubSeq(u, k + 1, k + j) = SubSeq(s, (i + k) + 1, (i + k) + j)
  <2>1. k + j <= Len(u) /\ (i + k) + j <= Len(s) /\ k \in Nat /\ i + k \in Nat
    BY <1>1, <1>3
  <2>2. PICK a \in Nat : a = i + k
    BY <2>1
  <2>3. a + j <= Len(s)
    BY <2>1, <2>2
  <2>4. /\ SubSeq(s, a + 1, a + j) \in Seq(T) /\ Len(SubSeq(s, a + 1, a + j)) = j
        /\ \A x \in 1 .. j : SubSeq(s, a + 1, a + j)[x] = s[a + x]
    BY <2>3, Part
  <2>5. /\ SubSeq(u, k + 1, k + j) \in Seq(T) /\ Len(SubSeq(u, k + 1, k + j)) = j
        /\ \A x \in 1 .. j : SubSeq(u, k + 1, k + j)[x] = u[k + x]
    BY <1>3, <2>1, Part
  <2>6. \A x \in 1 .. j : k + x \in 1 .. m /\ i + (k + x) = a + x
    BY <1>1, <2>2
  <2>7. \A x \in 1 .. j : SubSeq(u, k + 1, k + j)[x] = SubSeq(s, a + 1, a + j)[x]
    BY <1>3, <2>4, <2>5, <2>6
  <2>8. SubSeq(u, k + 1, k + j) = SubSeq(s, a + 1, a + j)
    BY <2>4, <2>5, <2>7, SeqEqual
  <2> QED
    BY <2>2, <2>8
<1> QED
  BY <1>1, <1>3, <1>4, <1>5

(* The end of the pipe that p uses, and what the pipe holds. *)
LEMMA UsedPipeIs ==
  ASSUME IOIndInv, NEW p \in Procs, loc[p].pc \in {"piperead", "pipewrite"},
         NEW q \in Pages, q = ftable[loc[p].file].pipe
  PROVE  /\ HasEnd(q, loc[p].pc = "pipewrite") /\ pipe[q] \in StructPipe
         /\ InPipes[q] = Ring(q) /\ Ring(q) \in Seq(Cell)
         /\ Len(Ring(q)) = Sub(pipe[q].nwrite, pipe[q].nread)
         /\ Len(Ring(q)) \in Nat /\ Len(Ring(q)) <= PIPESIZE
         /\ ~pipe[q].readopen => ~HasEnd(q, FALSE)
         /\ ~pipe[q].writeopen => ~HasEnd(q, TRUE)
<1>0. TypeOK /\ RingsOK /\ EndsOK(q) /\ Local(p)
  BY DEF IOIndInv
<1>1. /\ loc[p].file \in Files /\ ftable[loc[p].file].type = "pipe"
      /\ ftable[loc[p].file].writable <=> loc[p].pc = "pipewrite"
      /\ ftable[loc[p].file].writable \in BOOLEAN
  BY <1>0 DEF Local, Using, TypeOK, StructFile
<1>2. PICK w \in BOOLEAN : w = (loc[p].pc = "pipewrite")
  OBVIOUS
<1>3. HasEnd(q, w)
  BY <1>1, <1>2 DEF HasEnd
<1>4. pipe[q] \in StructPipe /\ Sub(pipe[q].nwrite, pipe[q].nread) <= PIPESIZE
  BY <1>0 DEF TypeOK, RingsOK
<1>5. /\ pipe[q].nwrite \in Index /\ pipe[q].nread \in Index
      /\ pipe[q].data \in [0 .. PIPESIZE - 1 -> Cell]
  BY <1>4 DEF StructPipe
<1>6. /\ Ring(q) \in Seq(Cell) /\ Len(Ring(q)) = Sub(pipe[q].nwrite, pipe[q].nread)
      /\ Sub(pipe[q].nwrite, pipe[q].nread) \in Nat
  <2>1. PICK d \in [0 .. PIPESIZE - 1 -> Cell], i \in Index, j \in Index :
          d = pipe[q].data /\ i = pipe[q].nread /\ j = pipe[q].nwrite
    BY <1>5
  <2>2. RingSize(PIPESIZE)
    BY RingSizes
  <2>3. /\ Bytes(d, PIPESIZE, i, j) \in Seq(Cell) /\ Len(Bytes(d, PIPESIZE, i, j)) = Sub(j, i)
        /\ Sub(j, i) \in Nat
    BY <2>2, RingBytes
  <2> QED
    BY <2>1, <2>3 DEF Ring
<1>7. InPipes[q] = Ring(q)
  BY <1>3 DEF InPipes
<1>8. \A v \in BOOLEAN : HasEnd(q, v) => Open(q, v)
  BY <1>0, EndIs DEF EndsOK
<1>9. (HasEnd(q, FALSE) => pipe[q].readopen) /\ (HasEnd(q, TRUE) => pipe[q].writeopen)
  BY <1>8 DEF Open
<1> QED
  BY <1>2, <1>3, <1>4, <1>6, <1>7, <1>9


(* One pipe changes, and no file does. *)
LEMMA OnePipe ==
  ASSUME TypeOK, NEW q \in Pages, NEW t, pipe' = [pipe EXCEPT ![q] = t], UNCHANGED ftable,
         NEW w \in BOOLEAN, HasEnd(q, w), NEW s, s = Bytes(t.data, PIPESIZE, t.nread, t.nwrite)
  PROVE  InPipes' = [InPipes EXCEPT ![q] = s] /\ UNCHANGED <<Readable, Writable>>
<1>1. \A x \in Pages, v \in BOOLEAN : HasEnd(x, v)' <=> HasEnd(x, v)
  BY DEF HasEnd
<1>2. pipe'[q] = t /\ \A x \in Pages : x # q => pipe'[x] = pipe[x]
  BY DEF TypeOK
<1>3. UNCHANGED <<Readable, Writable>>
  BY <1>1, EndsSame
<1>4. ASSUME NEW x \in Pages
      PROVE  (IF HasEnd(x, FALSE)' \/ HasEnd(x, TRUE)' THEN Ring(x)' ELSE <<>>)
               = IF x = q THEN s ELSE InPipes[x]
  <2>1. (HasEnd(x, FALSE)' <=> HasEnd(x, FALSE)) /\ (HasEnd(x, TRUE)' <=> HasEnd(x, TRUE))
    BY <1>1
  <2>2. x # q => Ring(x)' = Ring(x)
    BY <1>2 DEF Ring
  <2>3. x = q => Ring(x)' = s /\ (HasEnd(x, FALSE) \/ HasEnd(x, TRUE))
    BY <1>2 DEF Ring
  <2>4. InPipes[x] = IF HasEnd(x, FALSE) \/ HasEnd(x, TRUE) THEN Ring(x) ELSE <<>>
    BY DEF InPipes
  <2> QED
    BY <2>1, <2>2, <2>3, <2>4
<1>5. InPipes' = [x \in Pages |-> IF x = q THEN s ELSE InPipes[x]]
  BY <1>4 DEF InPipes
<1>6. InPipes \in [Pages -> {InPipes[x] : x \in Pages}]
  BY DEF InPipes
<1>7. InPipes' = [InPipes EXCEPT ![q] = s]
  BY <1>5, <1>6
<1> QED
  BY <1>3, <1>7

(* p is the only one whose write goes on. *)
LEMMA OneWrite ==
  ASSUME TypeOK, NEW p \in Procs, NEW l, loc' = [loc EXCEPT ![p] = l], UNCHANGED buf,
         l.got = loc[p].got, NEW u,
         u = IF l.pc = "pipewrite" THEN SubSeq(buf[p], l.i + 1, l.n) ELSE <<>>
  PROVE  Unwritten' = [Unwritten EXCEPT ![p] = u] /\ UNCHANGED SoFar
<1>1. loc'[p] = l /\ \A r \in Procs : r # p => loc'[r] = loc[r]
  BY MovesTo
<1>2. SoFar' = SoFar
  BY <1>1 DEF SoFar
<1>3. \A r \in Procs : (IF loc'[r].pc = "pipewrite" THEN SubSeq(buf'[r], loc'[r].i + 1, loc'[r].n) ELSE <<>>)
                         = IF r = p THEN u ELSE Unwritten[r]
  BY <1>1 DEF Unwritten
<1>4. Unwritten' = [r \in Procs |-> IF r = p THEN u ELSE Unwritten[r]]
  BY <1>3 DEF Unwritten
<1>5. Unwritten \in [Procs -> {Unwritten[r] : r \in Procs}]
  BY DEF Unwritten
<1>6. Unwritten' = [Unwritten EXCEPT ![p] = u]
  BY <1>4, <1>5
<1> QED
  BY <1>2, <1>6

LEMMA PipewriteSim ==
  ASSUME IOIndInv, NEW p \in Procs, pipewrite(p)
  PROVE  Ideal!Next
<1>0. TypeOK /\ Local(p) /\ RingsOK
  BY DEF IOIndInv
<1>1. loc[p].pc = "pipewrite" /\ UNCHANGED <<ftable, ofile, input, buf>>
  BY DEF pipewrite, At
<1>2. PICK q \in Pages : q = ftable[loc[p].file].pipe
  BY <1>1, EndInUse
<1>3. PICK l \in Locals : l = loc[p]
  BY <1>0 DEF TypeOK
<1>4. PICK b \in Seq(Cell) : b = buf[p]
  BY <1>0 DEF TypeOK
<1>5. /\ HasEnd(q, TRUE) /\ pipe[q] \in StructPipe /\ InPipes[q] = Ring(q) /\ Ring(q) \in Seq(Cell)
      /\ Len(Ring(q)) = Sub(pipe[q].nwrite, pipe[q].nread)
      /\ Len(Ring(q)) \in Nat /\ Len(Ring(q)) <= PIPESIZE
      /\ ~pipe[q].readopen => ~HasEnd(q, FALSE)
  <2>1. loc[p].pc \in {"piperead", "pipewrite"}
    BY <1>1
  <2>2. HasEnd(q, loc[p].pc = "pipewrite")
    BY <1>2, <2>1, UsedPipeIs
  <2>3. (loc[p].pc = "pipewrite") = TRUE
    BY <1>1
  <2>4. HasEnd(q, TRUE)
    BY <2>2, <2>3
  <2> QED
    BY <1>2, <2>1, <2>4, UsedPipeIs
<1>6. PICK used \in Nat : used = Sub(pipe[q].nwrite, pipe[q].nread) /\ used <= PIPESIZE
  BY <1>5
<1>7. PICK n \in Nat, i \in Nat : n = l.n /\ i = l.i /\ i <= n /\ n = Len(b) /\ n - i \in Nat
  BY <1>0, <1>1, <1>3, <1>4 DEF Locals, Local
<1>8. PICK k \in Nat : k = Min({n - i, Room(pipe[q])})
                       /\ used + k <= PIPESIZE /\ k <= n - i /\ (k # n - i => used + k = PIPESIZE)
  <2>1. PICK want \in Nat : want = n - i
    BY <1>7
  <2>2. PICK room \in Nat : room = Room(pipe[q]) /\ room = PIPESIZE - used
    BY <1>5, <1>6, EmptyFull, Sizes
  <2>3. PICK k \in Nat : k = Min({want, room}) /\ k = IF want <= room THEN want ELSE room
    BY MinOf
  <2>4. PIPESIZE \in Nat
    BY Sizes
  <2>6. used <= PIPESIZE /\ room = PIPESIZE - used /\ k = IF want <= room THEN want ELSE room
    BY <1>6, <2>2, <2>3
  <2>5. used + k <= PIPESIZE /\ k <= want /\ (k # want => used + k = PIPESIZE)
    BY <2>4, <2>6
  <2> QED
    BY <2>1, <2>2, <2>3, <2>5
<1>9. PICK c \in Seq(Cell) : c = SubSeq(b, i + 1, i + k) /\ Len(c) = k
  <2>1. i + k <= Len(b)
    BY <1>7, <1>8
  <2>2. SubSeq(b, i + 1, i + k) \in Seq(Cell) /\ Len(SubSeq(b, i + 1, i + k)) = k
    BY <2>1, Part
  <2> QED
    BY <2>2
<1>10. PICK t : t = CopyIn(pipe[q], c) /\ t.readopen = pipe[q].readopen
  <2>1. Sub(pipe[q].nwrite, pipe[q].nread) + Len(c) <= PIPESIZE
    BY <1>6, <1>8, <1>9
  <2>2. CopyIn(pipe[q], c).readopen = pipe[q].readopen
    BY <1>5, <2>1, CopyInIs
  <2> QED
    BY <2>2
<1>11. PICK s \in Seq(Cell) : s = Ring(q) \o c /\ s = Bytes(t.data, PIPESIZE, t.nread, t.nwrite)
                              /\ Len(s) = used + k
  <2>1. Sub(pipe[q].nwrite, pipe[q].nread) + Len(c) <= PIPESIZE
    BY <1>6, <1>8, <1>9
  <2>2. Bytes(t.data, PIPESIZE, t.nread, t.nwrite) = Ring(q) \o c
    BY <1>5, <1>10, <2>1, CopyInAppends DEF Ring
  <2>3. Ring(q) \o c \in Seq(Cell) /\ Len(Ring(q) \o c) = Len(Ring(q)) + Len(c)
    BY <1>5, <1>9, ConcatProperties
  <2> QED
    BY <1>5, <1>6, <1>9, <2>2, <2>3
<1>12. /\ pipe' = [pipe EXCEPT ![q] = t]
       /\ IF i + k = n THEN proc' = Wake(proc, nread(q)) /\ loc' = [loc EXCEPT ![p] = Idle]
          ELSE IF ~t.readopen \/ MustReturn(p)
          THEN loc' = [loc EXCEPT ![p] = Idle] /\ UNCHANGED proc
          ELSE /\ Sleep(Wake(proc, nread(q)), p, nwrite(q))
               /\ loc' = [loc EXCEPT ![p] = [l EXCEPT !.i = i + k]]
  BY <1>2, <1>3, <1>4, <1>7, <1>8, <1>9, <1>10 DEF pipewrite, Returned
<1>13. InPipes' = [InPipes EXCEPT ![q] = s] /\ UNCHANGED <<Readable, Writable>>
  <2>1. PICK w \in BOOLEAN : HasEnd(q, w)
    BY <1>5
  <2>2. TypeOK /\ UNCHANGED ftable /\ pipe' = [pipe EXCEPT ![q] = t]
    BY <1>0, <1>1, <1>12
  <2>3. s = Bytes(t.data, PIPESIZE, t.nread, t.nwrite)
    BY <1>11
  <2> QED
    BY <2>1, <2>2, <2>3, OnePipe
<1>14. PICK u : u = SubSeq(b, i + 1, n) /\ Unwritten[p] = u
  BY <1>1, <1>3, <1>4, <1>7 DEF Unwritten
<1>15. /\ u \in Seq(Cell) /\ Len(u) = n - i /\ SubSeq(u, 1, k) = c
       /\ SubSeq(u, k + 1, Len(u)) = SubSeq(b, (i + k) + 1, n)
  <2>1. u = SubSeq(b, i + 1, Len(b)) /\ k \in 0 .. Len(b) - i /\ i <= Len(b)
    BY <1>7, <1>8, <1>14
  <2>2. /\ u \in Seq(Cell) /\ Len(u) = Len(b) - i
        /\ SubSeq(u, 1, k) = SubSeq(b, i + 1, i + k)
        /\ SubSeq(u, k + 1, Len(u)) = SubSeq(b, i + k + 1, Len(b))
    BY <2>1, PartOfPart
  <2> QED
    BY <1>7, <1>9, <2>2
<1>16. s = InPipes[q] \o SubSeq(Unwritten[p], 1, k)
  BY <1>5, <1>11, <1>14, <1>15
<1>17. /\ k \in 0 .. PIPESIZE /\ k <= Len(Unwritten[p]) /\ Len(s) <= PIPESIZE /\ Writable[q]
  <2>1. Writable[q]
    BY <1>5 DEF Writable
  <2>2. PIPESIZE \in Nat /\ used + k <= PIPESIZE /\ k <= n - i
    BY <1>8, Sizes
  <2>3. k \in 0 .. PIPESIZE
    BY <2>2
  <2>4. Len(Unwritten[p]) = n - i
    BY <1>14, <1>15
  <2> QED
    BY <1>11, <2>1, <2>2, <2>3, <2>4
<1>18. UNCHANGED <<Complete, Edited>>
  BY <1>1, ConsoleSame
<1>19. l.got = <<>> /\ l.pc = "pipewrite" /\ Idle.got = <<>> /\ Idle.pc = "idle"
  BY <1>0, <1>1, <1>3 DEF Local, Idle
<1>20. CASE i + k = n
  <2>1. Meanwhile(p)
    BY <1>0, <1>12, <1>20, WokenSame DEF Meanwhile
  <2>2. Unwritten' = [Unwritten EXCEPT ![p] = <<>>] /\ UNCHANGED SoFar
    <3>1. loc' = [loc EXCEPT ![p] = Idle] /\ Idle.got = loc[p].got /\ Idle.pc # "pipewrite"
      BY <1>3, <1>12, <1>19, <1>20
    <3> QED
      BY <1>0, <1>1, <3>1, OneWrite
  <2>3. SubSeq(Unwritten[p], k + 1, Len(Unwritten[p])) = <<>>
    <3>0. n - i = k
      BY <1>20
    <3>1. Len(u) = k
      BY <1>15, <3>0
    <3>2. SubSeq(u, k + 1, k) = <<>>
      BY SMT
    <3> QED
      BY <1>14, <3>1, <3>2
  <2>4. Unwritten' = [Unwritten EXCEPT ![p] = SubSeq(Unwritten[p], k + 1, Len(Unwritten[p]))]
    BY <2>2, <2>3
  <2> QED
    BY <1>1, <1>13, <1>16, <1>17, <1>18, <2>1, <2>2, <2>4, AsSend
<1>21. CASE i + k # n /\ (~t.readopen \/ MustReturn(p))
  <2>1. UNCHANGED Dead
    BY <1>12, <1>21, DeadSame
  <2>2. Unwritten' = [Unwritten EXCEPT ![p] = <<>>] /\ UNCHANGED SoFar
    <3>1. loc' = [loc EXCEPT ![p] = Idle] /\ Idle.got = loc[p].got /\ Idle.pc # "pipewrite"
      BY <1>3, <1>12, <1>19, <1>21
    <3> QED
      BY <1>0, <1>1, <3>1, OneWrite
  <2>3. Len(s) = PIPESIZE
    <3>1. k # n - i
      BY <1>7, <1>21
    <3> QED
      BY <1>8, <1>11, <3>1
  <2>4. ~Readable[q] \/ Dead[p]
    BY <1>5, <1>10, <1>21 DEF Readable, Dead, MustReturn
  <2> QED
    BY <1>1, <1>13, <1>16, <1>17, <1>18, <2>1, <2>2, <2>3, <2>4, AsSend
<1>22. CASE i + k # n /\ ~(~t.readopen \/ MustReturn(p))
  <2>1. PICK m : m = [l EXCEPT !.i = i + k]
    OBVIOUS
  <2>2. Sleep(Wake(proc, nread(q)), p, nwrite(q)) /\ loc' = [loc EXCEPT ![p] = m]
    BY <1>12, <1>22, <2>1
  <2>3. Meanwhile(p)
    <3>1. PICK wp \in [Procs -> StructProc] :
            wp = Wake(proc, nread(q)) /\ \A r \in Procs : wp[r].killed = proc[r].killed
      <4>1. proc \in [Procs -> StructProc]
        BY <1>0 DEF TypeOK
      <4>2. /\ Wake(proc, nread(q)) \in [Procs -> StructProc]
            /\ \A r \in Procs : Wake(proc, nread(q))[r].killed = proc[r].killed
        BY <4>1, WakeIs
      <4> QED
        BY <4>2
    <3>2. PICK ch : ch = nwrite(q)
      OBVIOUS
    <3>3. Sleep(wp, p, ch)
      BY <2>2, <3>1, <3>2
    <3> QED
      BY <3>1, <3>3, SleepSeen
  <2>4. m.pc = "pipewrite" /\ m.n = n /\ m.i = i + k /\ m.got = loc[p].got
    BY <1>3, <1>7, <1>19, <2>1 DEF Locals
  <2>5. PICK v : v = SubSeq(b, (i + k) + 1, n)
    OBVIOUS
  <2>6. v = IF m.pc = "pipewrite" THEN SubSeq(buf[p], m.i + 1, m.n) ELSE <<>>
    BY <1>4, <2>4, <2>5
  <2>7. Unwritten' = [Unwritten EXCEPT ![p] = v] /\ UNCHANGED SoFar
    BY <1>0, <1>1, <2>2, <2>4, <2>6, OneWrite
  <2>8. v = SubSeq(Unwritten[p], k + 1, Len(Unwritten[p]))
    BY <1>14, <1>15, <2>5
  <2>9. Unwritten' = [Unwritten EXCEPT ![p] = SubSeq(Unwritten[p], k + 1, Len(Unwritten[p]))]
    BY <2>7, <2>8
  <2> QED
    BY <1>1, <1>13, <1>16, <1>17, <1>18, <2>3, <2>7, <2>9, AsSend
<1> QED
  BY <1>20, <1>21, <1>22


LEMMA PipereadSim ==
  ASSUME IOIndInv, NEW p \in Procs, piperead(p)
  PROVE  Ideal!Next \/ UNCHANGED Shown
<1>0. TypeOK /\ Local(p)
  BY DEF IOIndInv
<1>1. /\ loc[p].pc = "piperead" /\ loc[p].got = <<>> /\ loc[p].n \in Nat /\ loc[p].n > 0
      /\ UNCHANGED <<ftable, ofile, input>>
  BY <1>0 DEF piperead, At, Local, TypeOK, Locals
<1>2. PICK q \in Pages : q = ftable[loc[p].file].pipe
  BY <1>1, EndInUse
<1>3. /\ HasEnd(q, FALSE) /\ pipe[q] \in StructPipe /\ InPipes[q] = Ring(q) /\ Ring(q) \in Seq(Cell)
      /\ Len(Ring(q)) = Sub(pipe[q].nwrite, pipe[q].nread)
      /\ Len(Ring(q)) \in Nat /\ Len(Ring(q)) <= PIPESIZE
      /\ ~pipe[q].writeopen => ~HasEnd(q, TRUE)
  <2>1. loc[p].pc \in {"piperead", "pipewrite"}
    BY <1>1
  <2>2. HasEnd(q, loc[p].pc = "pipewrite")
    BY <1>2, <2>1, UsedPipeIs
  <2>3. (loc[p].pc = "pipewrite") = FALSE
    BY <1>1
  <2>4. HasEnd(q, FALSE)
    BY <2>2, <2>3
  <2> QED
    BY <1>2, <2>1, <2>4, UsedPipeIs
<1>4. Idle.pc = "idle" /\ Idle.got = <<>>
  BY DEF Idle
<1>5. CASE Empty(pipe[q]) /\ pipe[q].writeopen
  <2>1. /\ UNCHANGED <<pipe, buf>>
        /\ \/ loc' = [loc EXCEPT ![p] = Idle] /\ UNCHANGED proc
           \/ Sleep(proc, p, nread(q)) /\ UNCHANGED loc
    BY <1>2, <1>5 DEF piperead, Returned
  <2>2. /\ loc'[p].pc # "pipewrite" /\ loc'[p].got = loc[p].got
        /\ \A r \in Procs : r # p => loc'[r] = loc[r]
    BY <1>0, <1>1, <1>4, <2>1, MovesTo
  <2>3. Meanwhile(p)
    <3>1. proc \in [Procs -> StructProc]
      BY <1>0 DEF TypeOK
    <3>2. CASE Sleep(proc, p, nread(q))
      <4>1. PICK ch : ch = nread(q)
        OBVIOUS
      <4>2. Sleep(proc, p, ch)
        BY <3>2, <4>1
      <4> QED
        BY <3>1, <4>2, SleepSeen
    <3>3. CASE UNCHANGED proc
      BY <3>3, DeadSame DEF Meanwhile
    <3> QED
      BY <2>1, <3>2, <3>3
  <2>4. \A f \in Files, x \in Pages, w \in BOOLEAN : FileHas(f, x, w)' <=> FileHas(f, x, w)
    BY <1>1 DEF FileHas
  <2>5. UNCHANGED <<pipe, input, buf>> /\ loc[p].pc # "pipewrite"
    BY <1>1, <2>1
  <2>6. UNCHANGED <<InPipes, Readable, Writable, Complete, Edited, buf, SoFar, Unwritten>>
    BY <2>2, <2>4, <2>5, CallUnseen
  <2>7. CASE UNCHANGED Dead
    BY <2>6, <2>7 DEF Shown
  <2>8. CASE Dead' = [Dead EXCEPT ![p] = TRUE]
    BY <2>6, <2>8, AsKill
  <2> QED
    BY <2>3, <2>7, <2>8 DEF Meanwhile
<1>6. CASE ~(Empty(pipe[q]) /\ pipe[q].writeopen)
  <2>1. PICK n \in Nat, used \in Nat :
          n = loc[p].n /\ n > 0 /\ used = Sub(pipe[q].nwrite, pipe[q].nread) /\ used = Len(Ring(q))
          /\ used <= PIPESIZE
    BY <1>1, <1>3
  <2>2. PICK d \in [0 .. PIPESIZE - 1 -> Cell], i \in Index, j \in Index :
          d = pipe[q].data /\ i = pipe[q].nread /\ j = pipe[q].nwrite
    BY <1>3 DEF StructPipe
  <2>3. PICK c : c = CopyOut(pipe[q], n)
    OBVIOUS
  <2>4. PICK k \in Nat :
          /\ k = IF n <= used THEN n ELSE used
          /\ c.bytes = Bytes(d, PIPESIZE, i, Add(i, k))
          /\ c.pipe.nread = Add(i, k) /\ c.pipe.nwrite = j /\ c.pipe.data = d
          /\ Sub(c.pipe.nread, i) = k /\ c.pipe \in StructPipe
    <3>1. LET m == Min({n, Sub(pipe[q].nwrite, pipe[q].nread)})
          IN /\ m = (IF n <= Sub(pipe[q].nwrite, pipe[q].nread) THEN n
                     ELSE Sub(pipe[q].nwrite, pipe[q].nread)) /\ m \in Nat
             /\ CopyOut(pipe[q], n).bytes
                  = Bytes(pipe[q].data, PIPESIZE, pipe[q].nread, Add(pipe[q].nread, m))
             /\ CopyOut(pipe[q], n).pipe \in StructPipe
             /\ CopyOut(pipe[q], n).pipe.nread = Add(pipe[q].nread, m)
             /\ CopyOut(pipe[q], n).pipe.nwrite = pipe[q].nwrite
             /\ CopyOut(pipe[q], n).pipe.data = pipe[q].data
             /\ Sub(CopyOut(pipe[q], n).pipe.nread, pipe[q].nread) = m
      BY <1>3, CopyOutIs
    <3> QED
      BY <2>1, <2>2, <2>3, <3>1
  <2>5. PICK x \in Index : x = Add(i, k) /\ x = c.pipe.nread /\ Sub(x, i) = k
    BY <2>4 DEF StructPipe
  <2>6. RingSize(PIPESIZE) /\ k \in 0 .. used /\ k <= used /\ used = Sub(j, i)
    <3>1. k = IF n <= used THEN n ELSE used
      BY <2>4
    <3>2. k \in 0 .. used /\ k <= used
      BY <3>1
    <3> QED
      BY <2>1, <2>2, <3>2, RingSizes
  <2>7. PICK s \in Seq(Cell) : s = Ring(q) /\ s = Bytes(d, PIPESIZE, i, j) /\ Len(s) = used
    BY <1>3, <2>1, <2>2 DEF Ring
  <2>8. Bytes(d, PIPESIZE, i, x) = SubSeq(Bytes(d, PIPESIZE, i, j), 1, k)
    <3>1. RingSize(PIPESIZE) /\ k \in 0 .. Sub(j, i) /\ Sub(x, i) = k
      BY <2>5, <2>6
    <3> QED
      BY <3>1, BytesTake
  <2>9. Bytes(d, PIPESIZE, x, j) = SubSeq(Bytes(d, PIPESIZE, i, j), k + 1, Sub(j, i))
    <3>1. RingSize(PIPESIZE) /\ k \in 0 .. Sub(j, i) /\ x = Add(i, k)
      BY <2>5, <2>6
    <3> QED
      BY <3>1, BytesDrop
  <2>10. /\ pipe' = [pipe EXCEPT ![q] = c.pipe] /\ buf' = [buf EXCEPT ![p] = c.bytes]
         /\ proc' = Wake(proc, nwrite(q)) /\ loc' = [loc EXCEPT ![p] = Idle]
    BY <1>2, <1>6, <2>1, <2>3 DEF piperead, Returned
  <2>11. InPipes' = [InPipes EXCEPT ![q] = SubSeq(InPipes[q], k + 1, Len(InPipes[q]))]
         /\ UNCHANGED <<Readable, Writable>>
    <3>1. PICK w \in BOOLEAN : HasEnd(q, w)
      BY <1>3
    <3>2. PICK t : t = c.pipe
      OBVIOUS
    <3>3. PICK v : v = SubSeq(s, k + 1, used)
      OBVIOUS
    <3>4. v = Bytes(t.data, PIPESIZE, t.nread, t.nwrite)
      BY <2>4, <2>5, <2>6, <2>7, <2>9, <3>2, <3>3
    <3>5. TypeOK /\ UNCHANGED ftable /\ pipe' = [pipe EXCEPT ![q] = t]
      BY <1>0, <1>1, <2>10, <3>2
    <3>6. InPipes' = [InPipes EXCEPT ![q] = v] /\ UNCHANGED <<Readable, Writable>>
      BY <3>1, <3>4, <3>5, OnePipe
    <3>7. v = SubSeq(InPipes[q], k + 1, Len(InPipes[q]))
      BY <1>3, <2>7, <3>3
    <3> QED
      BY <3>6, <3>7
  <2>12. buf' = [buf EXCEPT ![p] = SubSeq(InPipes[q], 1, k)]
    BY <1>3, <2>4, <2>5, <2>7, <2>8, <2>10
  <2>13. UNCHANGED Dead
    BY <1>0, <2>10, WokenSame
  <2>14. UNCHANGED <<Complete, Edited>>
    BY <1>1, ConsoleSame
  <2>15. UNCHANGED <<SoFar, Unwritten>>
    <3>1. loc'[p] = Idle /\ \A r \in Procs : r # p => loc'[r] = loc[r]
      BY <1>0, <2>10, MovesTo
    <3>2. \A r \in Procs : r # p => buf'[r] = buf[r]
      BY <1>0, <2>10 DEF TypeOK
    <3>3. \A r \in Procs : loc[r].pc = "pipewrite" => buf'[r] = buf[r]
      BY <1>1, <3>2
    <3>4. loc'[p].pc # "pipewrite" /\ loc[p].pc # "pipewrite" /\ loc'[p].got = loc[p].got
      BY <1>1, <1>4, <3>1
    <3> QED
      BY <3>1, <3>3, <3>4, CallsSame
  <2>16. Readable[q] /\ k <= Len(InPipes[q]) /\ k \in 0 .. PIPESIZE
    <3>1. Readable[q]
      BY <1>3 DEF Readable
    <3>2. PIPESIZE \in Nat /\ used <= PIPESIZE
      BY <2>1, Sizes
    <3>3. k \in 0 .. PIPESIZE
      BY <2>6, <3>2
    <3> QED
      BY <1>3, <2>1, <2>6, <3>1, <3>3
  <2>17. k = 0 => InPipes[q] = <<>> /\ ~Writable[q]
    <3>1. ASSUME k = 0 PROVE InPipes[q] = <<>> /\ ~Writable[q]
      <4>1. used = 0
        BY <2>1, <2>4, <3>1
      <4>2. Empty(pipe[q])
        BY <1>3, <2>1, <4>1, EmptyFull
      <4>3. ~Writable[q]
        BY <1>3, <1>6, <4>2 DEF Writable
      <4>4. s = <<>>
        BY <2>7, <4>1
      <4> QED
        BY <1>3, <2>7, <4>3, <4>4
    <3> QED
      BY <3>1
  <2>18. Ideal!Next
    BY <2>11, <2>12, <2>13, <2>14, <2>15, <2>16, <2>17, AsRecv
  <2> QED
    BY <2>18
<1> QED
  BY <1>5, <1>6


-----------------------------------------------------------------------------
(* The console.                                                            *)

(* What consoleread takes: k bytes, to the end of a line at most, and ^D   *)
(* with them if there are none.                                            *)
Taken(in, got, ready, c) ==
  \E k \in 0 .. Len(ready), m \in 0 .. Len(ready) :
    /\ c.in = [in EXCEPT !.r = Add(in.r, m)]
    /\ c.got = got \o SubSeq(ready, 1, k)
    /\ \A j \in 1 .. k : ready[j] # EOF /\ (ready[j] = NL => j = k)
    /\ m = IF (k < Len(ready) /\ ready[k + 1] = EOF) /\ c.got = <<>> THEN k + 1 ELSE k
    /\ c.done => c.got # <<>> \/ (k < Len(ready) /\ ready[k + 1] = EOF)
    /\ ~c.done => m = Len(ready)

LEMMA ConsolereadTakes ==
  ASSUME NEW in \in StructInput, NEW got \in Seq(Cell), NEW n \in Nat, n > 0,
         NEW c, c = consoleread(in, got, n),
         NEW ready, ready = Bytes(in.buf, INPUT_BUF, in.r, in.w)
  PROVE  Taken(in, got, ready, c)
<1>1. in.r \in Index /\ in.w \in Index /\ in.buf \in [0 .. INPUT_BUF - 1 -> Cell]
  BY DEF StructInput
<1>2. ready \in Seq(Cell) /\ Len(ready) \in Nat
  BY <1>1, Sizes, BytesIs
<1>3. PICK stops : stops = {k \in 1 .. Len(ready) : ready[k] \in {NL, EOF} \/ Len(got) + k = n}
  OBVIOUS
<1>4. PICK last : last = Min(stops)
  OBVIOUS
<1> DEFINE past(k) == [in EXCEPT !.r = Add(in.r, k)]
           upto(k) == got \o SubSeq(ready, 1, k)
<1>5. c = IF Len(got) = n THEN [in |-> in, got |-> got, done |-> TRUE]
          ELSE IF stops = {}
          THEN [in |-> past(Len(ready)), got |-> upto(Len(ready)), done |-> FALSE]
          ELSE IF ready[last] = EOF
          THEN [in |-> IF upto(last - 1) = <<>> THEN past(last) ELSE past(last - 1),
                got |-> upto(last - 1), done |-> TRUE]
          ELSE [in |-> past(last), got |-> upto(last), done |-> TRUE]
  BY <1>3, <1>4 DEF consoleread, EofTaken
<1>6. stops # {} => last \in 1 .. Len(ready) /\ \A j \in stops : last <= j
  <2>1. stops \subseteq Nat /\ stops \subseteq 1 .. Len(ready)
    BY <1>2, <1>3
  <2> QED
    BY <1>4, <2>1, MinIs
<1>7. \A j \in 1 .. Len(ready) : j \notin stops => ready[j] # EOF /\ ready[j] # NL
  BY <1>3
<1>8. in = past(0)
  <2>1. in.r \in 0 .. UINT - 1
    BY <1>1 DEF Index
  <2>2. Add(in.r, 0) = in.r
    BY <1>1, <2>1, Sizes, AddIs
  <2> QED
    BY <2>2 DEF StructInput
<1>9. \A k \in 0 .. Len(ready) : /\ upto(k) \in Seq(Cell) /\ Len(upto(k)) = Len(got) + k
                                 /\ (k = 0 => upto(k) = got)
  <2>1. ASSUME NEW k \in 0 .. Len(ready)
        PROVE  upto(k) \in Seq(Cell) /\ Len(upto(k)) = Len(got) + k /\ (k = 0 => upto(k) = got)
    <3>1. 0 + k <= Len(ready) /\ k \in Nat /\ 0 \in Nat
      BY <1>2
    <3>2. SubSeq(ready, 0 + 1, 0 + k) \in Seq(Cell) /\ Len(SubSeq(ready, 0 + 1, 0 + k)) = k
      BY <1>2, <3>1, Part
    <3>7. 0 + 1 = 1 /\ 0 + k = k
      BY <3>1
    <3>8. SubSeq(ready, 1, k) \in Seq(Cell) /\ Len(SubSeq(ready, 1, k)) = k
      BY <3>2, <3>7, Zenon
    <3>3. PICK s \in Seq(Cell) : s = SubSeq(ready, 1, k) /\ Len(s) = k
      BY <3>8, Zenon
    <3>4. got \o s \in Seq(Cell) /\ Len(got \o s) = Len(got) + Len(s)
      BY ConcatProperties
    <3>5. k = 0 => s = <<>>
      BY <3>3
    <3>6. got \o <<>> = got
      OBVIOUS
    <3> QED
      BY <3>3, <3>4, <3>5, <3>6
  <2> QED
    BY <2>1
<1>11. PICK N \in Nat : N = Len(ready)
  BY <1>2
<1> HIDE DEF past, upto
<1>10. ASSUME NEW k \in 1 .. N PROVE upto(k) # <<>>
  <2>1. Len(upto(k)) = Len(got) + k /\ Len(got) \in Nat
    BY <1>9, <1>11
  <2>2. Len(upto(k)) # 0
    BY <2>1
  <2> QED
    BY <2>2
<1>12. CASE Len(got) = n
  <2>1. c.in = past(0) /\ c.got = upto(0) /\ c.done
    BY <1>5, <1>8, <1>9, <1>11, <1>12
  <2>2. upto(0) # <<>>
    BY <1>9, <1>11, <1>12
  <2>3. 0 \in 0 .. N
    OBVIOUS
  <2> QED
    BY <1>11, <2>1, <2>2, <2>3 DEF past, upto, Taken
<1>13. CASE Len(got) # n /\ stops = {}
  <2>1. c.in = past(N) /\ c.got = upto(N) /\ ~c.done
    BY <1>5, <1>11, <1>13
  <2>2. \A j \in 1 .. N : ready[j] # EOF /\ ready[j] # NL
    BY <1>7, <1>11, <1>13
  <2>3. N \in 0 .. N /\ ~(N < N)
    OBVIOUS
  <2> QED
    BY <1>11, <2>1, <2>2, <2>3 DEF past, upto, Taken
<1>14. CASE Len(got) # n /\ stops # {} /\ ready[last] = EOF
  <2>1. PICK k \in 0 .. N : k = last - 1 /\ last = k + 1 /\ k < N /\ k + 1 \in 0 .. N
    BY <1>6, <1>11, <1>14
  <2>2. c.in = (IF upto(k) = <<>> THEN past(k + 1) ELSE past(k)) /\ c.got = upto(k) /\ c.done
    BY <1>5, <1>14, <2>1
  <2>3. ready[k + 1] = EOF
    BY <1>14, <2>1
  <2>4. \A j \in 1 .. k : ready[j] # EOF /\ ready[j] # NL
    BY <1>6, <1>7, <1>11, <1>14, <2>1
  <2> QED
    BY <1>11, <2>1, <2>2, <2>3, <2>4 DEF past, upto, Taken
<1>15. CASE Len(got) # n /\ stops # {} /\ ready[last] # EOF
  <2>1. PICK k \in 0 .. N : k = last /\ k \in 1 .. N
    BY <1>6, <1>11, <1>15
  <2>2. c.in = past(k) /\ c.got = upto(k) /\ c.done
    BY <1>5, <1>15, <2>1
  <2>3. upto(k) # <<>>
    BY <1>10, <1>11, <2>1
  <2>4. \A j \in 1 .. k : ready[j] # EOF /\ (ready[j] = NL => j = k)
    <3>1. ASSUME NEW j \in 1 .. k, j # k PROVE ready[j] # EOF /\ ready[j] # NL
      BY <1>6, <1>7, <1>11, <1>15, <2>1, <3>1
    <3> QED
      BY <1>15, <2>1, <3>1
  <2> QED
    BY <1>11, <2>1, <2>2, <2>3, <2>4 DEF past, upto, Taken
<1> QED
  BY <1>12, <1>13, <1>14, <1>15


LEMMA ReadconsoleSim ==
  ASSUME IOIndInv, NEW p \in Procs, readconsole(p)
  PROVE  Ideal!Next
<1>0. TypeOK /\ Local(p) /\ RingsOK
  BY DEF IOIndInv
<1>1. /\ loc[p].pc = "consoleread" /\ loc[p].n > 0 /\ UNCHANGED <<ftable, ofile, pipe>>
      /\ loc \in [Procs -> Locals] /\ proc \in [Procs -> StructProc] /\ buf \in [Procs -> Seq(Cell)]
  BY <1>0 DEF readconsole, At, TypeOK, Local
<1>2. PICK got \in Seq(Cell), n \in Nat : got = loc[p].got /\ n = loc[p].n /\ n > 0
  BY <1>1 DEF Locals
<1>3. PICK c : c = consoleread(input, got, n)
  OBVIOUS
<1>4. /\ input' = c.in
      /\ IF c.done THEN /\ buf' = [buf EXCEPT ![p] = c.got]
                        /\ loc' = [loc EXCEPT ![p] = Idle] /\ UNCHANGED proc
         ELSE IF MustReturn(p) THEN loc' = [loc EXCEPT ![p] = Idle] /\ UNCHANGED <<proc, buf>>
         ELSE /\ Sleep(proc, p, inputr)
              /\ loc' = [loc EXCEPT ![p] = [loc[p] EXCEPT !.got = c.got]] /\ UNCHANGED buf
  BY <1>2, <1>3 DEF readconsole, Returned
<1>5. input \in StructInput
  BY <1>0 DEF TypeOK
<1>6. PICK d \in [0 .. INPUT_BUF - 1 -> Cell], i \in Index, j \in Index :
        d = input.buf /\ i = input.r /\ j = input.w
  BY <1>5 DEF StructInput
<1>7. PICK ready \in Seq(Cell) : /\ ready = Complete /\ ready = Bytes(d, INPUT_BUF, i, j)
                                 /\ Len(ready) = Sub(j, i) /\ Len(ready) \in Nat
  <2>1. RingSize(INPUT_BUF)
    BY RingSizes
  <2>2. /\ Bytes(d, INPUT_BUF, i, j) \in Seq(Cell) /\ Len(Bytes(d, INPUT_BUF, i, j)) = Sub(j, i)
        /\ Sub(j, i) \in Nat
    BY <2>1, RingBytes
  <2> QED
    BY <1>6, <2>2 DEF Complete
<1>8. PICK k \in 0 .. Len(ready), m \in 0 .. Len(ready) :
        /\ c.in = [input EXCEPT !.r = Add(input.r, m)]
        /\ c.got = got \o SubSeq(ready, 1, k)
        /\ \A x \in 1 .. k : ready[x] # EOF /\ (ready[x] = NL => x = k)
        /\ m = IF (k < Len(ready) /\ ready[k + 1] = EOF) /\ c.got = <<>> THEN k + 1 ELSE k
        /\ c.done => c.got # <<>> \/ (k < Len(ready) /\ ready[k + 1] = EOF)
        /\ ~c.done => m = Len(ready)
  <2>1. ready = Bytes(input.buf, INPUT_BUF, input.r, input.w)
    BY <1>6, <1>7
  <2>2. n > 0
    BY <1>2
  <2>3. Taken(input, got, ready, c)
    BY <1>3, <1>5, <2>1, <2>2, ConsolereadTakes
  <2> QED
    BY <2>3, Zenon DEF Taken
<1>9. PICK x \in Index : x = Add(i, m) /\ input'.r = x /\ input'.buf = d /\ input'.w = j
                         /\ input'.e = input.e
  <2>1. m \in 0 .. Sub(j, i)
    BY <1>7
  <2>2. Add(i, m) \in Index
    BY <2>1, Nearer
  <2> QED
    BY <1>4, <1>5, <1>6, <1>8, <2>2 DEF StructInput
<1>10. Complete' = SubSeq(Complete, m + 1, Len(Complete))
  <2>1. RingSize(INPUT_BUF) /\ m \in 0 .. Sub(j, i) /\ x = Add(i, m)
    BY <1>7, <1>9, RingSizes
  <2>2. Bytes(d, INPUT_BUF, x, j) = SubSeq(Bytes(d, INPUT_BUF, i, j), m + 1, Sub(j, i))
    BY <2>1, BytesDrop
  <2>3. Complete' = Bytes(d, INPUT_BUF, x, j)
    BY <1>9 DEF Complete
  <2> QED
    BY <1>7, <2>2, <2>3
<1>11. UNCHANGED Edited
  BY <1>6, <1>9 DEF Edited
<1>12. UNCHANGED <<InPipes, Readable, Writable>>
  <2>1. \A f \in Files, q \in Pages, w \in BOOLEAN : FileHas(f, q, w)' <=> FileHas(f, q, w)
    BY <1>1 DEF FileHas
  <2>2. \A q \in Pages, w \in BOOLEAN : HasEnd(q, w)' <=> HasEnd(q, w)
    BY <2>1, FilesSame
  <2> QED
    BY <1>1, <2>2, PipesSame
<1>13. PICK g : g = c.got /\ g = SoFar[p] \o SubSeq(Complete, 1, k)
  BY <1>2, <1>7, <1>8 DEF SoFar
<1>14. PICK eof \in BOOLEAN : eof <=> k < Len(Complete) /\ Complete[k + 1] = EOF
  OBVIOUS
<1>15. /\ k \in 0 .. Len(Complete)
       /\ \A y \in 1 .. k : Complete[y] # EOF /\ (Complete[y] = NL => y = k)
       /\ Complete' = SubSeq(Complete, (IF eof /\ g = <<>> THEN k + 1 ELSE k) + 1, Len(Complete))
       /\ c.done => g # <<>> \/ eof
  <2>1. m = IF eof /\ g = <<>> THEN k + 1 ELSE k
    BY <1>7, <1>8, <1>13, <1>14
  <2> QED
    BY <1>7, <1>8, <1>10, <1>13, <1>14, <2>1
(* Only p's call goes on. *)
<1>16. ASSUME NEW l, loc' = [loc EXCEPT ![p] = l], l.pc # "pipewrite",
              \A r \in Procs : r # p => buf'[r] = buf[r]
       PROVE  SoFar' = [SoFar EXCEPT ![p] = l.got] /\ UNCHANGED Unwritten
  <2>1. loc'[p] = l /\ \A r \in Procs : r # p => loc'[r] = loc[r]
    BY <1>0, <1>16, MovesTo
  <2>2. SoFar' = [SoFar EXCEPT ![p] = l.got]
    BY <2>1 DEF SoFar
  <2>3. \A r \in Procs :
          (IF loc'[r].pc = "pipewrite" THEN SubSeq(buf'[r], loc'[r].i + 1, loc'[r].n) ELSE <<>>)
            = IF loc[r].pc = "pipewrite" THEN SubSeq(buf[r], loc[r].i + 1, loc[r].n) ELSE <<>>
    <3>1. ASSUME NEW r \in Procs
          PROVE  (IF loc'[r].pc = "pipewrite" THEN SubSeq(buf'[r], loc'[r].i + 1, loc'[r].n) ELSE <<>>)
                   = IF loc[r].pc = "pipewrite" THEN SubSeq(buf[r], loc[r].i + 1, loc[r].n) ELSE <<>>
      <4>1. CASE r = p
        BY <1>1, <1>16, <2>1, <4>1
      <4>2. CASE r # p
        BY <1>16, <2>1, <4>2
      <4> QED
        BY <4>1, <4>2
    <3> QED
      BY <3>1
  <2> QED
    BY <2>2, <2>3 DEF Unwritten
<1>17. Idle.pc = "idle" /\ Idle.got = <<>>
  BY DEF Idle
<1>18. CASE c.done
  <2>1. buf' = [buf EXCEPT ![p] = g] /\ loc' = [loc EXCEPT ![p] = Idle] /\ UNCHANGED proc
    BY <1>4, <1>13, <1>18
  <2>2. \A r \in Procs : r # p => buf'[r] = buf[r]
    BY <1>1, <2>1
  <2>3. SoFar' = [SoFar EXCEPT ![p] = Idle.got] /\ UNCHANGED Unwritten
    <3>1. Idle.pc # "pipewrite"
      BY <1>17
    <3> QED
      BY <1>16, <2>1, <2>2, <3>1
  <2>4. SoFar' = [SoFar EXCEPT ![p] = <<>>]
    BY <1>17, <2>3
  <2>5. UNCHANGED Dead
    BY <2>1, DeadSame
  <2>6. g # <<>> \/ eof
    BY <1>15, <1>18
  <2> QED
    BY <1>11, <1>12, <1>13, <1>14, <1>15, <2>1, <2>3, <2>4, <2>5, <2>6, AsReadConsole
<1>19. CASE ~c.done /\ MustReturn(p)
  <2>1. UNCHANGED buf /\ loc' = [loc EXCEPT ![p] = Idle] /\ UNCHANGED proc
    BY <1>4, <1>19
  <2>3. SoFar' = [SoFar EXCEPT ![p] = Idle.got] /\ UNCHANGED Unwritten
    <3>1. Idle.pc # "pipewrite" /\ \A r \in Procs : r # p => buf'[r] = buf[r]
      BY <1>17, <2>1
    <3> QED
      BY <1>16, <2>1, <3>1
  <2>4. SoFar' = [SoFar EXCEPT ![p] = <<>>]
    BY <1>17, <2>3
  <2>5. UNCHANGED Dead
    BY <2>1, DeadSame
  <2>6. Dead[p]
    BY <1>19 DEF Dead, MustReturn
  <2> QED
    BY <1>11, <1>12, <1>13, <1>14, <1>15, <2>1, <2>3, <2>4, <2>5, <2>6, AsReadConsole
<1>20. CASE ~c.done /\ ~MustReturn(p)
  <2>1. PICK l : l = [loc[p] EXCEPT !.got = c.got]
    OBVIOUS
  <2>2. UNCHANGED buf /\ loc' = [loc EXCEPT ![p] = l] /\ Sleep(proc, p, inputr)
    BY <1>4, <1>20, <2>1
  <2>3. l.got = g /\ l.pc = "consoleread"
    <3>1. loc[p] \in Locals
      BY <1>1
    <3> QED
      BY <1>1, <1>13, <2>1, <3>1 DEF Locals
  <2>4. SoFar' = [SoFar EXCEPT ![p] = l.got] /\ UNCHANGED Unwritten
    <3>1. l.pc # "pipewrite" /\ \A r \in Procs : r # p => buf'[r] = buf[r]
      BY <2>2, <2>3
    <3> QED
      BY <1>16, <2>2, <3>1
  <2>5. SoFar' = [SoFar EXCEPT ![p] = g]
    BY <2>3, <2>4
  <2>6. Meanwhile(p)
    BY <1>1, <2>2, SleepSeen
  <2>7. Complete' = <<>>
    <3>1. m = Len(Complete)
      BY <1>7, <1>8, <1>20
    <3>2. SubSeq(ready, Len(ready) + 1, Len(ready)) = <<>>
      BY <1>7
    <3> QED
      BY <1>7, <1>10, <3>1, <3>2
  <2> QED
    BY <1>11, <1>12, <1>13, <1>14, <1>15, <2>2, <2>4, <2>5, <2>6, <2>7, AsReadConsole
<1> QED
  BY <1>18, <1>19, <1>20


(* No bytes between an index and itself. *)
LEMMA NoBytes ==
  ASSUME NEW m, NEW ring, NEW i \in Index, NEW j \in Index, i = j
  PROVE  Bytes(ring, m, i, j) = <<>>
<1>1. Sub(j, i) = 0
  <2>1. 0 \in 0 .. UINT - 1
    BY Sizes
  <2> QED
    BY <2>1, FullIs
<1>2. Bytes(ring, m, i, j) = [k \in 1 .. 0 |-> ring[Add(i, k - 1) % m]]
  BY <1>1 DEF Bytes
<1> QED
  BY <1>2

(* ^U takes the whole line away, which has no newline. *)
LEMMA KillLineAll ==
  ASSUME NEW in \in StructInput, NoNewline(in)
  PROVE  KillLine(in) = [in EXCEPT !.e = in.w]
<1>1. in.e \in Index /\ in.w \in Index
  BY DEF StructInput
<1>2. PICK n \in Nat : n = Sub(in.e, in.w) /\ n < UINT
  BY <1>1, SubNat
<1>3. PICK stop : stop = {k \in 0 .. n : k = n \/ in.buf[Sub(in.e, k + 1) % INPUT_BUF] = NL}
  OBVIOUS
<1>4. KillLine(in) = [in EXCEPT !.e = Sub(in.e, Min(stop))]
  BY <1>2, <1>3 DEF KillLine
<1>5. ASSUME NEW k \in 0 .. n, k # n PROVE k \notin stop
  <2>1. PICK x \in Index : x = Sub(in.e, k + 1) /\ Sub(x, in.w) = n - (k + 1)
    <3>1. k + 1 \in 0 .. Sub(in.e, in.w)
      BY <1>2, <1>5
    <3> QED
      BY <1>1, <1>2, <3>1, Back
  <2>2. PICK y \in Nat : y = n - (k + 1) /\ y \in 0 .. UINT - 1 /\ y + 1 \in 1 .. n /\ (y + 1) - 1 = y
    BY <1>2, <1>5, Sizes
  <2>3. x = Add(in.w, y)
    BY <1>1, <2>1, <2>2, FullIs
  <2>4. in.buf[Add(in.w, (y + 1) - 1) % INPUT_BUF] # NL
    BY <1>2, <2>2 DEF NoNewline
  <2> QED
    BY <1>3, <1>5, <2>1, <2>2, <2>3, <2>4
<1>6. n \in stop /\ stop \subseteq Nat /\ stop \subseteq 0 .. n
  BY <1>3
<1>7. Min(stop) = n
  <2>1. Min(stop) \in stop
    BY <1>6, MinIs
  <2> QED
    BY <1>5, <1>6, <2>1
<1>8. Sub(in.e, n) = in.w
  <2>1. n \in 0 .. Sub(in.e, in.w)
    BY <1>2
  <2>2. Sub(in.e, n) \in Index /\ Sub(Sub(in.e, n), in.w) = n - n
    BY <1>1, <1>2, <2>1, Back
  <2>3. n - n = 0 /\ 0 \in 0 .. UINT - 1
    BY Sizes
  <2> QED
    BY <1>1, <2>2, <2>3, FullIs
<1> QED
  BY <1>4, <1>7, <1>8

(* A character is put at the end of the line. *)
LEMMA KeyPut ==
  ASSUME NEW m, RingSize(m), NEW d \in [0 .. m - 1 -> Cell],
         NEW r \in Index, NEW w \in Index, NEW e \in Index, Near(r, w, e, m),
         NEW c \in Cell, NEW g \in [0 .. m - 1 -> Cell], PutAt(g, d, m, e, c),
         NEW x \in Index, x = Add(e, 1)
  PROVE  /\ Sub(x, r) = Sub(w, r) + Sub(e, w) + 1
         /\ Bytes(g, m, r, w) = Bytes(d, m, r, w)
         /\ Bytes(g, m, w, x) = Append(Bytes(d, m, w, e), c)
         /\ Joined(Bytes(g, m, r, x), Bytes(d, m, r, w), Bytes(g, m, w, x))
<1>0. m \in Nat /\ UINT \in Nat /\ m < UINT
  BY Sizes DEF RingSize
<1>1. PICK a \in Nat, b \in Nat : a = Sub(w, r) /\ b = Sub(e, w)
  BY SubNat
<1>2. a + b < m /\ Sub(e, r) = a + b
  <2>1. a + b < m
    BY <1>1 DEF Near
  <2>2. Sub(w, r) + Sub(e, w) < UINT
    BY <1>0, <1>1, <2>1
  <2> QED
    BY <1>1, <2>1, <2>2, Between
<1>3. b < m /\ a <= a + b /\ b + 1 < UINT /\ (a + b) + 1 < UINT /\ 1 \in Nat /\ a + (b + 1) < UINT
  BY <1>0, <1>2
<1>4. Sub(x, w) = b + 1 /\ Sub(x, r) = (a + b) + 1
  <2>1. Sub(e, w) + 1 < UINT /\ Sub(e, r) + 1 < UINT
    BY <1>1, <1>2, <1>3
  <2>2. Sub(Add(e, 1), w) = Sub(e, w) + 1
    BY <1>3, <2>1, Ahead
  <2>3. Sub(Add(e, 1), r) = Sub(e, r) + 1
    BY <1>3, <2>1, Ahead
  <2> QED
    BY <1>1, <1>2, <2>2, <2>3
<1>5. Bytes(g, m, r, w) = Bytes(d, m, r, w)
  <2>1. Sub(e, r) < m /\ Sub(w, r) <= Sub(e, r)
    BY <1>1, <1>2, <1>3
  <2> QED
    BY <2>1, PutKeeps
<1>6. Bytes(g, m, w, Add(e, 1)) = Append(Bytes(d, m, w, e), c)
  <2>1. Sub(e, w) < m
    BY <1>1, <1>3
  <2> QED
    BY <2>1, PutAppends
<1>7. Joined(Bytes(g, m, r, x), Bytes(g, m, r, w), Bytes(g, m, w, x))
  <2>1. Near(r, w, x, UINT)
    BY <1>1, <1>3, <1>4 DEF Near
  <2> QED
    BY <2>1, BytesJoin
<1> QED
  BY <1>1, <1>4, <1>5, <1>6, <1>7

(* What a key changes for readers, and in the line. *)
Typed(ready, line, c, r2, l2) ==
  IF c = KILL THEN l2 = <<>> /\ r2 = ready
  ELSE IF c = BS
  THEN l2 = (IF line = <<>> THEN line ELSE SubSeq(line, 1, Len(line) - 1)) /\ r2 = ready
  ELSE IF ~(Len(ready) + Len(line) < INPUT_BUF) THEN l2 = line /\ r2 = ready
  ELSE IF c \in {NL, EOF} \/ Len(ready) + Len(line) + 1 = INPUT_BUF
  THEN r2 = ready \o Append(line, c) /\ l2 = <<>>
  ELSE l2 = Append(line, c) /\ r2 = ready

LEMMA KeySeen ==
  ASSUME NEW in \in StructInput, NEW c \in Byte \cup {BS, KILL}, NoNewline(in),
         Sub(in.w, in.r) + Sub(in.e, in.w) <= INPUT_BUF, NEW o, o = consoleintr(in, c).in
  PROVE  Typed(Bytes(in.buf, INPUT_BUF, in.r, in.w), Bytes(in.buf, INPUT_BUF, in.w, in.e), c,
               Bytes(o.buf, INPUT_BUF, o.r, o.w), Bytes(o.buf, INPUT_BUF, o.w, o.e))
<1>1. PICK d \in [0 .. INPUT_BUF - 1 -> Cell], r \in Index, w \in Index, e \in Index :
        d = in.buf /\ r = in.r /\ w = in.w /\ e = in.e
  BY DEF StructInput
<1>2. PICK a \in Nat, b \in Nat : a = Sub(w, r) /\ b = Sub(e, w) /\ a + b <= INPUT_BUF
  BY <1>1, SubNat
<1>3. PICK ready \in Seq(Cell) : ready = Bytes(d, INPUT_BUF, r, w) /\ Len(ready) = a
  <2>1. RingSize(INPUT_BUF)
    BY RingSizes
  <2> QED
    BY <1>2, <2>1, RingBytes
<1>4. PICK line \in Seq(Cell) : line = Bytes(d, INPUT_BUF, w, e) /\ Len(line) = b
  <2>1. RingSize(INPUT_BUF)
    BY RingSizes
  <2> QED
    BY <1>2, <2>1, RingBytes
<1>5. Sub(e, r) = a + b
  <2>1. Sub(w, r) + Sub(e, w) < UINT
    BY <1>2, Sizes
  <2> QED
    BY <1>2, <2>1, Between
<1>6. SUFFICES Typed(ready, line, c, Bytes(o.buf, INPUT_BUF, o.r, o.w), Bytes(o.buf, INPUT_BUF, o.w, o.e))
  BY <1>1, <1>3, <1>4
<1>7. PICK put : put = [in EXCEPT !.buf[in.e % INPUT_BUF] = c, !.e = Add(in.e, 1)]
  OBVIOUS
<1>8. o = IF c = KILL THEN KillLine(in)
          ELSE IF c = BS THEN (IF in.e # in.w THEN [in EXCEPT !.e = Sub(in.e, 1)] ELSE in)
          ELSE IF Sub(in.e, in.r) >= INPUT_BUF THEN in
          ELSE IF Ready(put, c) THEN [put EXCEPT !.w = put.e] ELSE put
  BY <1>7 DEF consoleintr
<1>9. CASE c = KILL
  <2>1. o = [in EXCEPT !.e = in.w]
    BY <1>8, <1>9, KillLineAll
  <2>2. o.buf = d /\ o.r = r /\ o.w = w /\ o.e = w
    BY <1>1, <2>1 DEF StructInput
  <2>3. Bytes(d, INPUT_BUF, w, w) = <<>>
    BY NoBytes
  <2> QED
    BY <1>3, <1>9, <2>2, <2>3 DEF Typed
<1>10. CASE c # KILL /\ c = BS /\ e = w
  <2>1. o = in
    BY <1>1, <1>8, <1>10
  <2>2. line = <<>>
    BY <1>4, <1>10, NoBytes
  <2> QED
    BY <1>1, <1>3, <1>4, <1>10, <2>1, <2>2 DEF Typed
<1>11. CASE c # KILL /\ c = BS /\ e # w
  <2>1. o = [in EXCEPT !.e = Sub(in.e, 1)]
    BY <1>1, <1>8, <1>11
  <2>2. b # 0
    <3>1. 0 \in 0 .. UINT - 1
      BY Sizes
    <3> QED
      BY <1>2, <1>11, <3>1, FullIs
  <2>3. PICK x \in Index : x = Sub(e, 1) /\ Sub(x, w) = b - 1
    <3>1. 1 \in 0 .. Sub(e, w)
      BY <1>2, <2>2
    <3> QED
      BY <1>2, <3>1, Back
  <2>4. o.buf = d /\ o.r = r /\ o.w = w /\ o.e = x
    BY <1>1, <2>1, <2>3 DEF StructInput
  <2>5. PICK k \in 0 .. Sub(e, w) : k = b - 1
    BY <1>2, <2>2
  <2>6. Bytes(d, INPUT_BUF, w, x) = SubSeq(Bytes(d, INPUT_BUF, w, e), 1, k)
    <3>1. RingSize(INPUT_BUF) /\ Sub(x, w) = k
      BY <2>3, <2>5, RingSizes
    <3> QED
      BY <3>1, BytesTake
  <2>7. line # <<>>
    BY <1>4, <2>2
  <2> QED
    BY <1>3, <1>4, <1>11, <2>4, <2>5, <2>6, <2>7 DEF Typed
<1>12. CASE c # KILL /\ c # BS /\ ~(a + b < INPUT_BUF)
  <2>1. Sub(in.e, in.r) >= INPUT_BUF
    BY <1>1, <1>2, <1>5, <1>12, Sizes
  <2>2. o = in
    BY <1>8, <1>12, <2>1
  <2> QED
    BY <1>1, <1>3, <1>4, <1>12, <2>2 DEF Typed
<1>13. CASE c # KILL /\ c # BS /\ a + b < INPUT_BUF
  <2>1. ~(Sub(in.e, in.r) >= INPUT_BUF)
    BY <1>1, <1>2, <1>5, <1>13, Sizes
  <2>2. o = IF Ready(put, c) THEN [put EXCEPT !.w = put.e] ELSE put
    BY <1>8, <1>13, <2>1
  <2>3. PICK x \in Index : x = Add(e, 1)
    <3>1. e \in Int
      BY Sizes DEF Index
    <3>2. 1 \in Int
      OBVIOUS
    <3>3. Add(e, 1) \in Index
      BY <3>1, <3>2, IndexIn
    <3> QED
      BY <3>3
  <2>5. c \in Cell
    BY <1>13 DEF Cell
  <2>4. PICK g \in [0 .. INPUT_BUF - 1 -> Cell] :
          g = [d EXCEPT ![e % INPUT_BUF] = c] /\ PutAt(g, d, INPUT_BUF, e, c)
    <3>1. e \in Int
      BY Sizes DEF Index
    <3>2. PICK z \in 0 .. INPUT_BUF - 1 : z = e % INPUT_BUF
      BY <3>1, Sizes, ModIn
    <3>3. PICK g : g = [d EXCEPT ![z] = c]
      OBVIOUS
    <3>4. g \in [0 .. INPUT_BUF - 1 -> Cell] /\ g[z] = c
      BY <2>5, <3>3
    <3>5. \A y \in 0 .. INPUT_BUF - 1 : y # z => g[y] = d[y]
      BY <3>3
    <3>6. PutAt(g, d, INPUT_BUF, e, c)
      BY <3>2, <3>4, <3>5 DEF PutAt
    <3> QED
      BY <3>2, <3>3, <3>4, <3>6
  <2>6. /\ Sub(x, r) = a + b + 1
        /\ Bytes(g, INPUT_BUF, r, w) = Bytes(d, INPUT_BUF, r, w)
        /\ Bytes(g, INPUT_BUF, w, x) = Append(Bytes(d, INPUT_BUF, w, e), c)
        /\ Bytes(g, INPUT_BUF, r, x)
             = Bytes(d, INPUT_BUF, r, w) \o Append(Bytes(d, INPUT_BUF, w, e), c)
    <3>1. Near(r, w, e, INPUT_BUF)
      BY <1>2, <1>13 DEF Near
    <3>2. RingSize(INPUT_BUF)
      BY RingSizes
    <3>3. PutAt(g, d, INPUT_BUF, e, c)
      BY <2>4
    <3>5. /\ Sub(x, r) = Sub(w, r) + Sub(e, w) + 1
          /\ Bytes(g, INPUT_BUF, r, w) = Bytes(d, INPUT_BUF, r, w)
          /\ Bytes(g, INPUT_BUF, w, x) = Append(Bytes(d, INPUT_BUF, w, e), c)
          /\ Joined(Bytes(g, INPUT_BUF, r, x), Bytes(d, INPUT_BUF, r, w), Bytes(g, INPUT_BUF, w, x))
      BY <2>3, <2>5, <3>1, <3>2, <3>3, KeyPut
    <3> QED
      BY <1>2, <3>5 DEF Joined
  <2>7. put.buf = g /\ put.r = r /\ put.w = w /\ put.e = x /\ put \in StructInput
    BY <1>1, <1>7, <2>3, <2>4, <2>6 DEF StructInput
  <2>8. Ready(put, c) <=> c \in {NL, EOF} \/ a + b + 1 = INPUT_BUF
    <3>1. INPUT_BUF \in 0 .. UINT - 1
      BY Sizes
    <3>2. x = Add(r, INPUT_BUF) <=> Sub(x, r) = INPUT_BUF
      BY <3>1, FullIs
    <3> QED
      BY <2>6, <2>7, <3>2 DEF Ready
  <2>9. CASE Ready(put, c)
    <3>1. o = [put EXCEPT !.w = put.e]
      BY <2>2, <2>9
    <3>2. o.buf = g /\ o.r = r /\ o.w = x /\ o.e = x
      BY <2>7, <3>1 DEF StructInput
    <3>3. Bytes(g, INPUT_BUF, x, x) = <<>>
      BY <2>6, NoBytes
    <3> QED
      BY <1>3, <1>4, <1>13, <2>6, <2>8, <2>9, <3>2, <3>3 DEF Typed
  <2>10. CASE ~Ready(put, c)
    <3>1. o = put
      BY <2>2, <2>10
    <3> QED
      BY <1>3, <1>4, <1>13, <2>6, <2>7, <2>8, <2>10, <3>1 DEF Typed
  <2> QED
    BY <2>9, <2>10
<1> QED
  BY <1>9, <1>10, <1>11, <1>12, <1>13

LEMMA KbdintrSim ==
  ASSUME IOIndInv, NEW c \in Keys, kbdintr(c)
  PROVE  Ideal!Next \/ UNCHANGED Shown
<1>0. TypeOK /\ RingsOK
  BY DEF IOIndInv
<1>1. PICK i : i = consoleintr(input, c)
  OBVIOUS
<1>2. /\ input' = i.in /\ proc' = IF i.wake THEN Wake(proc, inputr) ELSE proc
      /\ UNCHANGED <<ftable, ofile, pipe, loc, buf>>
  BY <1>1 DEF kbdintr, Event
<1>3. c \in Byte \cup {BS, KILL} /\ c \in Chars \cup {NL, EOF, BS, KILL}
  BY IOAssumption DEF Byte
<1>4. /\ input \in StructInput /\ NoNewline(input)
      /\ Sub(input.w, input.r) + Sub(input.e, input.w) <= INPUT_BUF
  BY <1>0, InputIs, LineShape DEF RingsOK
<1>5. Typed(Complete, Edited, c, Complete', Edited')
  <2>1. PICK o : o = consoleintr(input, c).in /\ o = input'
    BY <1>1, <1>2
  <2>2. Typed(Bytes(input.buf, INPUT_BUF, input.r, input.w), Bytes(input.buf, INPUT_BUF, input.w, input.e), c,
              Bytes(o.buf, INPUT_BUF, o.r, o.w), Bytes(o.buf, INPUT_BUF, o.w, o.e))
    BY <1>3, <1>4, <2>1, KeySeen
  <2> QED
    BY <2>1, <2>2 DEF Complete, Edited
<1>6. UNCHANGED <<InPipes, Readable, Writable>>
  <2>1. \A f \in Files, q \in Pages, w \in BOOLEAN : FileHas(f, q, w)' <=> FileHas(f, q, w)
    BY <1>2 DEF FileHas
  <2>2. \A q \in Pages, w \in BOOLEAN : HasEnd(q, w)' <=> HasEnd(q, w)
    BY <2>1, FilesSame
  <2> QED
    BY <1>2, <2>2, PipesSame
<1>7. UNCHANGED <<SoFar, Unwritten, buf>>
  BY <1>2 DEF SoFar, Unwritten
<1>8. UNCHANGED Dead
  <2>1. CASE i.wake
    BY <1>0, <1>2, <2>1, WokenSame
  <2>2. CASE ~i.wake
    BY <1>2, <2>2, DeadSame
  <2> QED
    BY <2>1, <2>2
<1>9. CASE c # KILL /\ c # BS /\ ~(Len(Complete) + Len(Edited) < INPUT_BUF)
  BY <1>5, <1>6, <1>7, <1>8, <1>9 DEF Typed, Shown
<1>10. CASE ~(c # KILL /\ c # BS /\ ~(Len(Complete) + Len(Edited) < INPUT_BUF))
  <2>1. PICK l : l = Append(Edited, c)
    OBVIOUS
  <2>2. PICK n : n = Len(Complete) + Len(Edited)
    OBVIOUS
  <2>3. IF c = KILL THEN Edited' = <<>> /\ UNCHANGED Complete
        ELSE IF c = BS
        THEN /\ Edited' = IF Edited = <<>> THEN Edited ELSE SubSeq(Edited, 1, Len(Edited) - 1)
             /\ UNCHANGED Complete
        ELSE /\ n < INPUT_BUF
             /\ IF c \in {NL, EOF} \/ n + 1 = INPUT_BUF
                THEN Complete' = Complete \o l /\ Edited' = <<>>
                ELSE Edited' = l /\ UNCHANGED Complete
    BY <1>5, <1>10, <2>1, <2>2 DEF Typed
  <2> QED
    BY <1>3, <1>6, <1>7, <1>8, <2>1, <2>2, <2>3, AsKey
<1> QED
  BY <1>9, <1>10


-----------------------------------------------------------------------------
(* Everything together.                                                    *)

LEMMA StreamStepSim ==
  IOIndInv /\ IOIndInv' /\ [Next]_ioVars => [Ideal!Next]_(Ideal!streamVars)
<1> SUFFICES ASSUME IOIndInv, IOIndInv', [Next]_ioVars PROVE Ideal!Next \/ UNCHANGED Shown
  BY AsStutter
<1>1. ASSUME NEW p \in Procs, Call(p) PROVE Ideal!Next \/ UNCHANGED Shown
  <2>1. CASE sys_pipe(p)
    BY <2>1, SysPipeSim
  <2>2. CASE Enter(p) /\ exit(p)
    BY <2>2, ExitSim
  <2>3. ASSUME NEW np \in Procs, fork(p, np) PROVE Ideal!Next
    BY <2>3, ForkSim
  <2>4. ASSUME NEW np \in Procs, kill(p, np) PROVE Ideal!Next
    BY <2>4, KillSim
  <2>5. ASSUME NEW d \in Fds, sys_dup(p, d) PROVE UNCHANGED Shown
    BY <2>5, SysDupSim
  <2>6. ASSUME NEW d \in Fds, sys_close(p, d) PROVE UNCHANGED Shown
    BY <2>6, SysCloseSim
  <2>7. ASSUME NEW d \in Fds, sys_write(p, d) PROVE Ideal!Next
    BY <2>7, SysWriteSim
  <2>8. ASSUME NEW d \in Fds, NEW n \in ReadLens, sys_read(p, d, n) PROVE UNCHANGED Shown
    BY <2>8, SysReadSim
  <2> QED
    BY <1>1, <2>1, <2>2, <2>3, <2>4, <2>5, <2>6, <2>7, <2>8 DEF Call
<1>2. ASSUME NEW p \in Procs, Step(p) PROVE Ideal!Next \/ UNCHANGED Shown
  <2>1. CASE pipealloc2(p)
    BY <2>1, Pipealloc2Sim
  <2>2. CASE fileclose(p)
    BY <2>2, FilecloseSim
  <2>3. CASE fileclose_pipe(p)
    BY <2>3, FileclosePipeSim
  <2>4. CASE closed(p)
    BY <2>4, ClosedSim
  <2>5. CASE pipewrite(p)
    BY <2>5, PipewriteSim
  <2>6. CASE piperead(p)
    BY <2>6, PipereadSim
  <2>7. CASE readconsole(p)
    BY <2>7, ReadconsoleSim
  <2>8. CASE proc[p].killed /\ exit(p) /\ Quiet
    BY <2>8, ExitSim
  <2> QED
    BY <1>2, <2>1, <2>2, <2>3, <2>4, <2>5, <2>6, <2>7, <2>8 DEF Step
<1>3. ASSUME NEW c \in Keys, kbdintr(c) PROVE Ideal!Next \/ UNCHANGED Shown
  BY <1>3, KbdintrSim
<1>4. CASE UNCHANGED ioVars
  <2>1. UNCHANGED <<ftable, pipe, input, proc, loc, buf>>
    BY <1>4 DEF ioVars
  <2>2. \A q \in Pages, w \in BOOLEAN : HasEnd(q, w)' <=> HasEnd(q, w)
    BY <2>1 DEF HasEnd
  <2>3. UNCHANGED <<InPipes, Readable, Writable>>
    BY <2>1, <2>2, PipesSame
  <2>4. UNCHANGED <<Complete, Edited>>
    BY <2>1, ConsoleSame
  <2>5. UNCHANGED <<SoFar, Unwritten, Dead>>
    BY <2>1 DEF SoFar, Unwritten, Dead
  <2> QED
    BY <2>1, <2>3, <2>4, <2>5 DEF Shown
<1> QED
  BY <1>1, <1>2, <1>3, <1>4 DEF Next

LEMMA StreamInitSim == Init => Ideal!Init
<1> SUFFICES ASSUME Init PROVE Ideal!Init
  OBVIOUS
<1>0. IOIndInv
  BY IOInit
<1>1. loc = [p \in Procs |-> Idle] /\ Idle.pc = "idle" /\ Idle.got = <<>>
  BY DEF Init, Idle
<1>2. /\ proc \in [Procs -> StructProc] /\ \A r \in Procs : ~proc[r].killed
      /\ \A x \in Pages : /\ pipe[x] \in StructPipe /\ pipe[x].nread = pipe[x].nwrite
                          /\ \A w \in BOOLEAN : (\E f \in Files : FileHas(f, x, w)) <=> pipe[x].used
  BY StartIs
<1>3. \A x \in Pages : Ring(x) = <<>>
  BY <1>2, NoBytes DEF Ring, StructPipe
<1>4. InPipes = [q \in Pages |-> <<>>]
  BY <1>3 DEF InPipes
<1>5. Readable \in [Pages -> BOOLEAN]
  BY EndBool DEF Readable
<1>6. Writable = Readable
  <2>1. ASSUME NEW x \in Pages PROVE HasEnd(x, TRUE) = HasEnd(x, FALSE)
    <3>1. HasEnd(x, TRUE) <=> HasEnd(x, FALSE)
      BY <1>2, EndIs
    <3> QED
      BY <3>1, EndBool
  <2> QED
    BY <2>1 DEF Readable, Writable
<1>7. input.r = UINT - 1 /\ input.w = UINT - 1 /\ input.e = UINT - 1 /\ UINT - 1 \in Index
  BY Sizes DEF Init, NoInput, Index
<1>8. Complete = <<>> /\ Edited = <<>>
  BY <1>7, NoBytes DEF Complete, Edited
<1>9. SoFar = [p \in Procs |-> <<>>] /\ Unwritten = [p \in Procs |-> <<>>]
  BY <1>1 DEF SoFar, Unwritten
<1>10. Dead = [p \in Procs |-> FALSE]
  <2>1. \A r \in Procs : proc[r].killed = FALSE
    BY <1>2 DEF StructProc
  <2> QED
    BY <2>1 DEF Dead
<1> QED
  BY <1>4, <1>5, <1>6, <1>8, <1>9, <1>10
  DEF Ideal!Init, InPipes, Readable, Writable, Ring, Complete, Edited, SoFar, Unwritten, Dead

(* Pipes are bounded queues with two ends and the console delivers edited  *)
(* lines, whatever the sizes, the number of processes and their order:     *)
(* bytes come out in order and once, a write is cut short only when nobody *)
(* reads or the writer was killed, and a read gets nothing only when no    *)
(* write descriptor is left (pipe.c 59-121, console.c 191-270, file.c).    *)
THEOREM StreamsImplemented == Spec => Streams
BY IOInductive, StreamInitSim, StreamStepSim, PTL DEF Spec, Streams, Ideal!Spec
=============================================================================
