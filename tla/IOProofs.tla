------------------------------ MODULE IOProofs ------------------------------
(***************************************************************************)
(* Reference counts, pipes and sleeping, for any number of processes,      *)
(* files and pipes and any size of ring: IOIndInv is inductive.            *)
(***************************************************************************)
EXTENDS IOInv, FiniteSetTheorems, SequenceTheorems, WellFoundedInduction, TLAPS

-----------------------------------------------------------------------------
(* Indices that wrap at UINT.                                              *)

LEMMA ModSmall == ASSUME NEW m \in Nat \ {0}, NEW x \in 0 .. m - 1 PROVE x % m = x
OBVIOUS

LEMMA ModWrap == ASSUME NEW m \in Nat \ {0}, NEW x \in m .. 2 * m - 1 PROVE x % m = x - m
OBVIOUS

LEMMA ModNeg == ASSUME NEW m \in Nat \ {0}, NEW x \in -m .. -1 PROVE x % m = x + m
OBVIOUS

LEMMA ModIn == ASSUME NEW m \in Nat \ {0}, NEW x \in Int PROVE x % m \in 0 .. m - 1
OBVIOUS

LEMMA Sizes ==
  /\ UINT \in Nat \ {0} /\ PIPESIZE \in Nat \ {0} /\ INPUT_BUF \in Nat \ {0}
  /\ PIPESIZE < UINT /\ INPUT_BUF < UINT
BY PipeAssumption

LEMMA IndexIn ==
  ASSUME NEW x \in Int, NEW y \in Int
  PROVE  Add(x, y) \in Index /\ Sub(x, y) \in Index
BY Sizes, ModIn DEF Add, Sub, Index

(* The distance from i to j, forward. *)
LEMMA SubIs ==
  ASSUME NEW i \in Index, NEW j \in Index
  PROVE  Sub(j, i) = IF i <= j THEN j - i ELSE j - i + UINT
<1>1. CASE i <= j
  <2>1. j - i \in 0 .. UINT - 1
    BY <1>1, Sizes DEF Index
  <2> QED
    BY <1>1, <2>1, Sizes, ModSmall DEF Sub
<1>2. CASE ~(i <= j)
  <2>1. j - i \in -UINT .. -1
    BY <1>2, Sizes DEF Index
  <2> QED
    BY <1>2, <2>1, Sizes, ModNeg DEF Sub
<1> QED
  BY <1>1, <1>2

LEMMA AddIs ==
  ASSUME NEW i \in Index, NEW n \in 0 .. UINT - 1
  PROVE  Add(i, n) = IF i + n < UINT THEN i + n ELSE i + n - UINT
<1>1. CASE i + n < UINT
  <2>1. i + n \in 0 .. UINT - 1
    BY <1>1, Sizes DEF Index
  <2> QED
    BY <1>1, <2>1, Sizes, ModSmall DEF Add
<1>2. CASE ~(i + n < UINT)
  <2>1. i + n \in UINT .. 2 * UINT - 1
    BY <1>2, Sizes DEF Index
  <2>2. (i + n) % UINT = (i + n) - UINT
    BY <2>1, Sizes, ModWrap
  <2> QED
    BY <1>2, <2>2, Sizes DEF Add, Index
<1> QED
  BY <1>1, <1>2

(* The writer gets n further from the reader. *)
LEMMA Ahead ==
  ASSUME NEW i \in Index, NEW j \in Index, NEW n \in Nat, Sub(j, i) + n < UINT
  PROVE  Add(j, n) \in Index /\ Sub(Add(j, n), i) = Sub(j, i) + n
<1>0. i \in Int /\ j \in Int /\ UINT \in Int
  BY Sizes DEF Index
<1>1. Sub(j, i) \in Index /\ Add(j, n) \in Index
  BY <1>0, IndexIn
<1>2. n \in 0 .. UINT - 1
  BY <1>0, <1>1 DEF Index
<1>3. Sub(j, i) = IF i <= j THEN j - i ELSE j - i + UINT
  BY SubIs
<1>4. Add(j, n) = IF j + n < UINT THEN j + n ELSE j + n - UINT
  BY <1>2, AddIs
<1> DEFINE a == Add(j, n)
           s == Sub(j, i)
<1>5. Sub(a, i) = IF i <= a THEN a - i ELSE a - i + UINT
  BY <1>1, SubIs
<1>6. a \in 0 .. UINT - 1 /\ s \in 0 .. UINT - 1 /\ i \in 0 .. UINT - 1 /\ j \in 0 .. UINT - 1
  BY <1>1 DEF Index
<1>7. /\ s + n < UINT /\ s = IF i <= j THEN j - i ELSE j - i + UINT
      /\ a = IF j + n < UINT THEN j + n ELSE j + n - UINT
  BY <1>3, <1>4
<1> HIDE DEF a, s
<1>8. Sub(a, i) = s + n
  BY <1>0, <1>2, <1>5, <1>6, <1>7
<1> QED
  BY <1>1, <1>8 DEF a, s

(* The reader gets n nearer to the writer. *)
LEMMA Nearer ==
  ASSUME NEW i \in Index, NEW j \in Index, NEW n \in 0 .. Sub(j, i)
  PROVE  /\ Add(i, n) \in Index /\ Sub(j, Add(i, n)) = Sub(j, i) - n
         /\ Sub(Add(i, n), i) = n
<1>0. i \in Int /\ j \in Int /\ UINT \in Int /\ n \in Int
  BY Sizes DEF Index
<1>1. Sub(j, i) \in Index /\ Add(i, n) \in Index
  BY <1>0, IndexIn
<1>2. n \in 0 .. UINT - 1
  BY <1>0, <1>1 DEF Index
<1> DEFINE a == Add(i, n)
           s == Sub(j, i)
<1>3. s = IF i <= j THEN j - i ELSE j - i + UINT
  BY SubIs
<1>4. a = IF i + n < UINT THEN i + n ELSE i + n - UINT
  BY <1>2, AddIs
<1>5. Sub(a, i) = IF i <= a THEN a - i ELSE a - i + UINT
  BY <1>1, SubIs
<1>6. Sub(j, a) = IF a <= j THEN j - a ELSE j - a + UINT
  BY <1>1, SubIs
<1>7. a \in 0 .. UINT - 1 /\ s \in 0 .. UINT - 1 /\ i \in 0 .. UINT - 1 /\ j \in 0 .. UINT - 1
  BY <1>1 DEF Index
<1>8. n \in 0 .. s
  OBVIOUS
<1> HIDE DEF a, s
<1>9. Sub(a, i) = n /\ Sub(j, a) = s - n
  BY <1>0, <1>2, <1>3, <1>4, <1>5, <1>6, <1>7, <1>8
<1> QED
  BY <1>1, <1>9 DEF a, s

LEMMA FullIs ==
  ASSUME NEW i \in Index, NEW j \in Index, NEW n \in 0 .. UINT - 1
  PROVE  /\ j = Add(i, n) <=> Sub(j, i) = n
         /\ i = j <=> Sub(j, i) = 0
<1>0. i \in 0 .. UINT - 1 /\ j \in 0 .. UINT - 1 /\ UINT \in Int
  BY Sizes DEF Index
<1> DEFINE a == Add(i, n)
           s == Sub(j, i)
<1>1. s = IF i <= j THEN j - i ELSE j - i + UINT
  BY SubIs
<1>2. a = IF i + n < UINT THEN i + n ELSE i + n - UINT
  BY AddIs
<1> HIDE DEF a, s
<1>3. (j = a <=> s = n) /\ (i = j <=> s = 0)
  BY <1>0, <1>1, <1>2
<1> QED
  BY <1>3 DEF a, s

(* A non-empty set of naturals has a least element. *)
LEMMA MinIs ==
  ASSUME NEW S, S \subseteq Nat, S # {}
  PROVE  Min(S) \in S /\ \A y \in S : Min(S) <= y
<1>1. IsWellFoundedOn(OpToRel(<, Nat), Nat)
  BY NatLessThanWellFounded
<1>2. PICK x \in S : \A y \in S : ~(<<y, x>> \in OpToRel(<, Nat))
  BY <1>1, WFMin
<1>3. \A y \in S : ~(y < x)
  BY <1>2 DEF OpToRel
<1>4. \E z \in S : \A y \in S : z =< y
  BY <1>3
<1> QED
  BY <1>4 DEF Min

LEMMA Consts ==
  /\ NULL \notin Files /\ NULL \notin Pages /\ Files \subseteq Nat /\ {1, 2, 3} \subseteq Files
  /\ NOFILE \in Nat /\ NOFILE >= 2 /\ IsFiniteSet(Procs) /\ ReadLens \subseteq Nat \ {0}
BY IOAssumption

-----------------------------------------------------------------------------
(* Counting the references to a file.  A place of process r is one of its  *)
(* descriptors, of the files it is closing, or the file of a new pipe, -1. *)
Places == -1 .. 2 * NOFILE
Holds(f, r, x) ==
  \/ x \in Fds /\ ofile[r][x] = f
  \/ x \in NOFILE .. 2 * NOFILE /\ (x - NOFILE + 1) \in DOMAIN loc[r].close
       /\ loc[r].close[x - NOFILE + 1] = f
  \/ x = -1 /\ loc[r].pc = "pipealloc" /\ loc[r].file = f

LEMMA HoldersIs ==
  ASSUME NEW f
  PROVE  /\ Holders(f) = {h \in Procs \X Places : Holds(f, h[1], h[2])}
         /\ Holders(f)' = {h \in Procs \X Places : Holds(f, h[1], h[2])'}
<1>1. Fds \subseteq Places /\ (NOFILE .. 2 * NOFILE) \subseteq Places /\ -1 \in Places
  BY Consts DEF Fds, Places
<1>2. ASSUME NEW h \in Holders(f) PROVE h \in Procs \X Places /\ Holds(f, h[1], h[2])
  BY <1>1, <1>2 DEF Holders, Holds
<1>3. ASSUME NEW h \in Procs \X Places, Holds(f, h[1], h[2]) PROVE h \in Holders(f)
  BY <1>3 DEF Holds, Holders
<1>4. ASSUME NEW h \in Holders(f)' PROVE h \in Procs \X Places /\ Holds(f, h[1], h[2])'
  BY <1>1, <1>4 DEF Holders, Holds
<1>5. ASSUME NEW h \in Procs \X Places, Holds(f, h[1], h[2])' PROVE h \in Holders(f)'
  BY <1>5 DEF Holds, Holders
<1> QED
  BY <1>2, <1>3, <1>4, <1>5

LEMMA HoldersFinite ==
  ASSUME NEW f
  PROVE  IsFiniteSet(Holders(f)) /\ Cardinality(Holders(f)) \in Nat
<1>1. IsFiniteSet(Places)
  BY Consts, FS_Interval DEF Places
<1>2. IsFiniteSet(Procs \X Places)
  BY <1>1, Consts, FS_Product
<1>3. Holders(f) \subseteq Procs \X Places
  BY HoldersIs
<1> QED
  BY <1>2, <1>3, FS_Subset, FS_CardinalityType

LEMMA Counted ==
  ASSUME FileRefs, NEW f \in Files, NEW r \in Procs, NEW x \in Places, Holds(f, r, x)
  PROVE  /\ ftable[f].ref \in Nat /\ ftable[f].ref >= 1
         /\ \A u \in Procs, y \in Places :
              Holds(f, u, y) /\ ftable[f].ref = 1 => u = r /\ y = x
<1>1. <<r, x>> \in Holders(f) /\ ftable[f].ref = Cardinality(Holders(f))
  BY HoldersIs DEF FileRefs
<1>2. Holders(f) # {} /\ Cardinality(Holders(f)) # 0 /\ Cardinality(Holders(f)) \in Nat
  BY <1>1, HoldersFinite, FS_EmptySet
<1>3. ASSUME NEW u \in Procs, NEW y \in Places, Holds(f, u, y), ftable[f].ref = 1
      PROVE  u = r /\ y = x
  <2>1. <<u, y>> \in Holders(f) /\ Cardinality(Holders(f)) = 1
    BY <1>1, <1>3, HoldersIs
  <2>2. IsFiniteSet(Holders(f))
    BY HoldersFinite
  <2>3. \E z : Holders(f) = {z}
    BY <2>1, <2>2, FS_Singleton
  <2>4. <<u, y>> = <<r, x>>
    BY <1>1, <2>1, <2>3
  <2> QED
    BY <2>4
<1> QED
  BY <1>1, <1>2, <1>3

LEMMA NotCounted ==
  ASSUME FileRefs, NEW f \in Files, ftable[f].ref = 0
  PROVE  \A r \in Procs, x \in Places : ~Holds(f, r, x)
BY Counted

LEMMA HoldersSame ==
  ASSUME NEW f, \A r \in Procs, x \in Places : Holds(f, r, x)' <=> Holds(f, r, x)
  PROVE  Holders(f)' = Holders(f)
<1>1. \A h \in Procs \X Places : Holds(f, h[1], h[2])' <=> Holds(f, h[1], h[2])
  OBVIOUS
<1> QED
  BY <1>1, HoldersIs

(* One more reference, one less, and one that changes its place. *)
LEMMA Gains ==
  ASSUME NEW f, NEW p \in Procs, NEW y \in Places, ~Holds(f, p, y), Holds(f, p, y)',
         \A r \in Procs, x \in Places : r # p \/ x # y => (Holds(f, r, x)' <=> Holds(f, r, x))
  PROVE  Cardinality(Holders(f)') = Cardinality(Holders(f)) + 1
<1>1. \A h \in Procs \X Places : h # <<p, y>> => (Holds(f, h[1], h[2])' <=> Holds(f, h[1], h[2]))
  OBVIOUS
<1>2. Holders(f)' = Holders(f) \cup {<<p, y>>} /\ <<p, y>> \notin Holders(f)
  BY <1>1, HoldersIs
<1> QED
  BY <1>2, HoldersFinite, FS_AddElement

LEMMA Loses ==
  ASSUME NEW f, NEW p \in Procs, NEW x \in Places, Holds(f, p, x), ~Holds(f, p, x)',
         \A r \in Procs, y \in Places : r # p \/ y # x => (Holds(f, r, y)' <=> Holds(f, r, y))
  PROVE  Cardinality(Holders(f)') = Cardinality(Holders(f)) - 1
<1>1. \A h \in Procs \X Places : h # <<p, x>> => (Holds(f, h[1], h[2])' <=> Holds(f, h[1], h[2]))
  OBVIOUS
<1>2. Holders(f)' = Holders(f) \ {<<p, x>>} /\ <<p, x>> \in Holders(f)
  BY <1>1, HoldersIs
<1> QED
  BY <1>2, HoldersFinite, FS_RemoveElement

LEMMA Moves ==
  ASSUME NEW f, NEW p \in Procs, NEW x \in Places, NEW y \in Places, x # y,
         Holds(f, p, x), ~Holds(f, p, x)', ~Holds(f, p, y), Holds(f, p, y)',
         \A r \in Procs, z \in Places :
           r # p \/ z \notin {x, y} => (Holds(f, r, z)' <=> Holds(f, r, z))
  PROVE  Cardinality(Holders(f)') = Cardinality(Holders(f))
<1> DEFINE A == Holders(f) \ {<<p, x>>}
<1>1. \A h \in Procs \X Places :
        h \notin {<<p, x>>, <<p, y>>} => (Holds(f, h[1], h[2])' <=> Holds(f, h[1], h[2]))
  OBVIOUS
<1>2. <<p, x>> \in Holders(f) /\ <<p, y>> \notin Holders(f) /\ Holders(f)' = A \cup {<<p, y>>}
  BY <1>1, HoldersIs
<1>3. IsFiniteSet(A) /\ Cardinality(A) = Cardinality(Holders(f)) - 1
  BY <1>2, HoldersFinite, FS_RemoveElement
<1>4. Cardinality(A \cup {<<p, y>>}) = Cardinality(A) + 1
  BY <1>2, <1>3, FS_AddElement
<1> QED
  BY <1>2, <1>3, <1>4, HoldersFinite

(* fork: process c, which had no references, has those of the places D. *)
LEMMA Inherits ==
  ASSUME NEW f, NEW c \in Procs, NEW D \in SUBSET Places,
         \A x \in Places : ~Holds(f, c, x) /\ (Holds(f, c, x)' <=> x \in D),
         \A r \in Procs, x \in Places : r # c => (Holds(f, r, x)' <=> Holds(f, r, x))
  PROVE  Cardinality(Holders(f)') = Cardinality(Holders(f)) + Cardinality(D)
<1> DEFINE C == {c} \X D
<1>1. IsFiniteSet(Places)
  BY Consts, FS_Interval DEF Places
<1>2. IsFiniteSet(D) /\ Cardinality(D) \in Nat
  BY <1>1, FS_Subset, FS_CardinalityType
<1>3. IsFiniteSet({c}) /\ Cardinality({c}) = 1
  BY FS_Singleton
<1>4. IsFiniteSet(C) /\ Cardinality(C) = Cardinality({c}) * Cardinality(D)
  BY <1>2, <1>3, FS_Product
<1>5. Cardinality(C) = Cardinality(D)
  BY <1>2, <1>3, <1>4
<1>6. \A h \in Procs \X Places :
        /\ h[1] # c => (Holds(f, h[1], h[2])' <=> Holds(f, h[1], h[2]))
        /\ h[1] = c => ~Holds(f, h[1], h[2]) /\ (Holds(f, h[1], h[2])' <=> h \in C)
  OBVIOUS
<1>7. Holders(f)' = Holders(f) \cup C /\ Holders(f) \cap C = {}
  BY <1>6, HoldersIs
<1>8. Cardinality(Holders(f) \cup C)
        = Cardinality(Holders(f)) + Cardinality(C) - Cardinality(Holders(f) \cap C)
  BY <1>4, HoldersFinite, FS_Union
<1> QED
  BY <1>2, <1>5, <1>7, <1>8, HoldersFinite, FS_EmptySet

(* exit: the descriptors of p become files that p closes. *)
LEMMA Shifts ==
  ASSUME NEW f, NEW p \in Procs,
         \A x \in Places : Holds(f, p, x) => x \in Fds,
         \A x \in Places : Holds(f, p, x)' <=> x - NOFILE \in Fds /\ Holds(f, p, x - NOFILE),
         \A r \in Procs, x \in Places : r # p => (Holds(f, r, x)' <=> Holds(f, r, x))
  PROVE  Cardinality(Holders(f)') = Cardinality(Holders(f))
<1> DEFINE H == Holders(f)
           G == Holders(f)'
           to(h) == IF h[1] = p THEN <<p, h[2] + NOFILE>> ELSE h
           F == [h \in H |-> to(h)]
<1>1. H = {h \in Procs \X Places : Holds(f, h[1], h[2])}
      /\ G = {h \in Procs \X Places : Holds(f, h[1], h[2])'}
  BY HoldersIs
<1>2. \A x \in Fds : x + NOFILE \in Places /\ (x + NOFILE) - NOFILE = x /\ x \in Places
  BY Consts DEF Fds, Places
<1>3. ASSUME NEW h \in H PROVE to(h) \in G
  BY <1>1, <1>2
<1>4. ASSUME NEW h \in H, NEW g \in H, to(h) = to(g) PROVE h = g
  <2>1. h[1] = g[1]
    BY <1>1, <1>4
  <2>2. CASE h[1] # p
    BY <2>1, <2>2, <1>1, <1>4
  <2>3. CASE h[1] = p
    <3>1. h[2] \in Int /\ g[2] \in Int /\ h[2] + NOFILE = g[2] + NOFILE
      BY <2>1, <2>3, <1>1, <1>4 DEF Places
    <3>2. h[2] = g[2]
      BY <3>1, Consts
    <3> QED
      BY <2>1, <3>2, <1>1
  <2> QED
    BY <2>2, <2>3
<1>5. ASSUME NEW g \in G PROVE \E h \in H : to(h) = g
  <2>1. CASE g[1] # p
    BY <2>1, <1>1
  <2>2. CASE g[1] = p
    <3>1. <<p, g[2] - NOFILE>> \in H
      BY <2>2, <1>1, <1>2
    <3>2. (g[2] - NOFILE) + NOFILE = g[2]
      BY <1>1, Consts DEF Places
    <3>3. to(<<p, g[2] - NOFILE>>) = g
      BY <2>2, <1>1, <3>2
    <3> QED
      BY <3>1, <3>3
  <2> QED
    BY <2>1, <2>2
<1> HIDE DEF H, G, to
<1>6. F \in Bijection(H, G)
  BY <1>3, <1>4, <1>5, Zenon DEF Bijection, Injection, Surjection, IsInjective
<1>7. ExistsBijection(H, G)
  BY <1>6 DEF ExistsBijection
<1>8. IsFiniteSet(H)
  BY HoldersFinite DEF H
<1>9. Cardinality(G) = Cardinality(H)
  BY <1>7, <1>8, FS_Bijection
<1> QED
  BY <1>9 DEF G, H

-----------------------------------------------------------------------------
(* Types.                                                                  *)

LEMMA Constants ==
  /\ NoFile \in StructFile /\ Idle \in Locals /\ NoFds \in [Fds -> Files \cup {NULL}]
  /\ FreePage \in StructPipe /\ Room(FreePage) \in Int
<1>1. 0 \in Index
  BY Sizes DEF Index
<1>2. NoFile \in StructFile
  BY DEF NoFile, StructFile
<1>3. Idle \in Locals
  BY <1>2 DEF Idle, Locals, Points
<1>4. FreePage \in StructPipe
  BY <1>1 DEF FreePage, StructPipe, Cell
<1>5. Room(FreePage) \in Int
  BY Sizes, IndexIn DEF Room, FreePage, Index
<1> QED
  BY <1>2, <1>3, <1>4, <1>5 DEF NoFds

LEMMA WakeIs ==
  ASSUME NEW pr \in [Procs -> StructProc], NEW ch
  PROVE  /\ Wake(pr, ch) \in [Procs -> StructProc]
         /\ \A r \in Procs :
              /\ Wake(pr, ch)[r] = pr[r] \/ Wake(pr, ch)[r].state = "run"
              /\ Wake(pr, ch)[r].killed = pr[r].killed
              /\ Wake(pr, ch)[r].state = "sleep" => Wake(pr, ch)[r] = pr[r] /\ pr[r].chan # ch
              /\ pr[r].state # "sleep" => Wake(pr, ch)[r] = pr[r]
BY DEF Wake, StructProc

(* Whether or not it is killed on the way, p sleeps. *)
LEMMA SleepIs ==
  ASSUME NEW pr \in [Procs -> StructProc], NEW p \in Procs, NEW ch, Sleep(pr, p, ch),
         ch = inputr \/ \E q \in Pages : ch \in {nread(q), nwrite(q)}, events \in Nat
  PROVE  /\ proc' \in [Procs -> StructProc]
         /\ proc'[p].state = "sleep" /\ proc'[p].chan = ch
         /\ \A r \in Procs : r # p => proc'[r] = pr[r]
         /\ events' \in Nat
<1>1. PICK px \in [Procs -> StructProc] :
        proc' = Asleep(px, p, ch) /\ \A r \in Procs : r # p => px[r] = pr[r]
  <2>1. CASE proc' = Asleep(pr, p, ch)
    BY <2>1
  <2>2. CASE proc' = Asleep([pr EXCEPT ![p].killed = TRUE], p, ch)
    <3>1. [pr EXCEPT ![p].killed = TRUE] \in [Procs -> StructProc]
      BY DEF StructProc
    <3> QED
      BY <2>2, <3>1
  <2> QED
    BY <2>1, <2>2 DEF Sleep
<1>2. events' \in Nat
  BY DEF Sleep, Enter, Event, Quiet
<1>3. ch \in {nread(q) : q \in Pages} \cup {nwrite(q) : q \in Pages} \cup {inputr, NULL}
  OBVIOUS
<1> QED
  BY <1>1, <1>2, <1>3 DEF Asleep, StructProc

-----------------------------------------------------------------------------
(* What a step of one process leaves alone.                                *)

LEMMA LocalKept ==
  ASSUME NEW r \in Procs, Local(r), loc'[r] = loc[r], ofile'[r] = ofile[r], buf'[r] = buf[r],
         proc'[r] = proc[r] \/ proc'[r].state \notin {"unused", "sleep"},
         loc[r].pc = "pipealloc" => /\ ftable'[loc[r].file].ref = ftable[loc[r].file].ref
                                    /\ ftable'[loc[r].file].type = ftable[loc[r].file].type,
         Using(r) => /\ ftable'[loc[r].file].type = ftable[loc[r].file].type
                     /\ ftable'[loc[r].file].pipe = ftable[loc[r].file].pipe
                     /\ ftable'[loc[r].file].writable = ftable[loc[r].file].writable
  PROVE  Local(r)'
BY DEF Local, Using

LEMMA EndsKept ==
  ASSUME NEW q \in Pages, EndsOK(q),
         pipe'[q].used = pipe[q].used, pipe'[q].readopen = pipe[q].readopen,
         pipe'[q].writeopen = pipe[q].writeopen,
         \A w \in BOOLEAN, f \in Files : FileHas(f, q, w)' <=> FileHas(f, q, w),
         \A w \in BOOLEAN, r \in Procs : Hangs(r, q, w)' <=> Hangs(r, q, w)
  PROVE  EndsOK(q)'
<1>1. \A w \in BOOLEAN : Open(q, w)' <=> Open(q, w)
  BY DEF Open
<1> QED
  BY <1>1, Zenon DEF EndsOK

LEMMA SleepsKept ==
  ASSUME SleepsForReason, UNCHANGED <<pipe, input, cut>>,
         \A r \in Procs :
           proc'[r].state = "sleep" => proc[r].state = "sleep" /\ proc'[r].chan = proc[r].chan
  PROVE  SleepsForReason'
BY DEF SleepsForReason, Empty, Full

LEMMA RingsKept ==
  ASSUME RingsOK, UNCHANGED input,
         \A q \in Pages : pipe'[q].nread = pipe[q].nread /\ pipe'[q].nwrite = pipe[q].nwrite
  PROVE  RingsOK'
BY DEF RingsOK

LEMMA RefsKept ==
  ASSUME FileRefs, UNCHANGED ofile, \A f \in Files : ftable'[f].ref = ftable[f].ref,
         \A r \in Procs :
           /\ loc'[r].close = loc[r].close \/ (Left(loc'[r]) = {} /\ Left(loc[r]) = {})
           /\ loc'[r].pc = "pipealloc" <=> loc[r].pc = "pipealloc"
           /\ loc'[r].pc = "pipealloc" => loc'[r].file = loc[r].file
  PROVE  FileRefs'
<1>1. ASSUME NEW f \in Files PROVE Holders(f)' = Holders(f)
  <2>1. \A r \in Procs, x \in Places : Holds(f, r, x)' <=> Holds(f, r, x)
    BY Consts DEF Holds, Left
  <2> QED
    BY <2>1, HoldersSame
<1> QED
  BY <1>1 DEF FileRefs

(* The file of a pipe that r is making is unknown to others, and the file  *)
(* that r uses is not free for others.                                     *)
LEMMA NotMine ==
  ASSUME IOIndInv, NEW r \in Procs, NEW p \in Procs, r # p,
         NEW f \in Files, NEW x \in Places, Holds(f, p, x)
  PROVE  /\ loc[r].pc = "pipealloc" => loc[r].file # f
         /\ Using(r) /\ ftable[f].ref = 1 => loc[r].file # f
<1>1. FileRefs /\ Local(r)
  BY DEF IOIndInv
<1>2. -1 \in Places /\ Fds \subseteq Places
  BY Consts DEF Places, Fds
<1>3. ftable[f].ref = 1 => \A y \in Places : ~Holds(f, r, y)
  BY <1>1, Counted
<1>4. loc[r].pc = "pipealloc" /\ loc[r].file = f => ftable[f].ref = 1 /\ Holds(f, r, -1)
  BY <1>1 DEF Local, Holds
<1>5. Using(r) /\ loc[r].file = f => \E d \in Fds : Holds(f, r, d)
  BY <1>1 DEF Local, Holds
<1> QED
  BY <1>2, <1>3, <1>4, <1>5

LEMMA FreeNotMine ==
  ASSUME IOIndInv, NEW r \in Procs, NEW f \in Files, ftable[f].ref = 0
  PROVE  loc[r].pc = "pipealloc" \/ Using(r) => loc[r].file # f
<1>1. FileRefs /\ Local(r)
  BY DEF IOIndInv
<1>2. -1 \in Places /\ Fds \subseteq Places
  BY Consts DEF Places, Fds
<1>3. \A y \in Places : ~Holds(f, r, y)
  BY <1>1, NotCounted
<1>4. loc[r].pc = "pipealloc" /\ loc[r].file = f => Holds(f, r, -1)
  BY <1>1 DEF Local, Holds
<1>5. Using(r) /\ loc[r].file = f => \E d \in Fds : Holds(f, r, d)
  BY <1>1 DEF Local, Holds
<1> QED
  BY <1>2, <1>3, <1>4, <1>5

(* A step that neither opens nor closes anything: what is left to show is  *)
(* about p itself, the rings and sleeping.                                 *)
LEMMA TablesKept ==
  ASSUME IOIndInv, NEW p \in Procs, NEW l, loc' = [loc EXCEPT ![p] = l],
         UNCHANGED <<ftable, ofile>>,
         l.close = loc[p].close \/ (Left(l) = {} /\ Left(loc[p]) = {}),
         {l.pc, loc[p].pc} \cap {"pipealloc", "pipeclose"} = {},
         \A r \in Procs :
           r # p => /\ buf'[r] = buf[r]
                    /\ proc'[r] = proc[r] \/ proc'[r].state \notin {"unused", "sleep"},
         \A q \in Pages : /\ pipe'[q].used = pipe[q].used
                          /\ pipe'[q].readopen = pipe[q].readopen
                          /\ pipe'[q].writeopen = pipe[q].writeopen
  PROVE  /\ FilesOK' /\ FileRefs' /\ \A q \in Pages : EndsOK(q)'
         /\ \A r \in Procs : r # p => Local(r)'
<1>0. /\ TypeOK /\ FilesOK /\ FileRefs /\ \A r \in Procs : Local(r)
      /\ \A q \in Pages : EndsOK(q)
  BY DEF IOIndInv
<1>1. loc'[p] = l /\ \A r \in Procs : r # p => loc'[r] = loc[r]
  BY <1>0 DEF TypeOK
<1>2. FilesOK'
  BY <1>0 DEF FilesOK
<1>3. FileRefs'
  BY <1>0, <1>1, RefsKept
<1>4. ASSUME NEW q \in Pages PROVE EndsOK(q)'
  <2>1. \A w \in BOOLEAN, f \in Files : FileHas(f, q, w)' <=> FileHas(f, q, w)
    BY DEF FileHas
  <2>2. \A w \in BOOLEAN, r \in Procs : Hangs(r, q, w)' <=> Hangs(r, q, w)
    BY <1>1 DEF Hangs
  <2> QED
    BY <1>0, <2>1, <2>2, EndsKept
<1>5. ASSUME NEW r \in Procs, r # p PROVE Local(r)'
  BY <1>0, <1>1, <1>5, LocalKept
<1> QED
  BY <1>2, <1>3, <1>4, <1>5

(* A call that returns at once, or has only begun. *)
LEMMA OnlyEnters ==
  ASSUME IOIndInv, NEW p \in Procs, NEW l \in Locals, loc' = [loc EXCEPT ![p] = l],
         UNCHANGED <<ftable, ofile, pipe, input, proc, buf, cut>>, events' \in Nat,
         l.close = loc[p].close, {l.pc, loc[p].pc} \cap {"pipealloc", "pipeclose"} = {},
         Local(p)'
  PROVE  IOIndInv'
<1>1. TypeOK'
  BY DEF IOIndInv, TypeOK
<1>2. /\ FilesOK' /\ FileRefs' /\ \A q \in Pages : EndsOK(q)'
      /\ \A r \in Procs : r # p => Local(r)'
  BY TablesKept
<1>3. RingsOK' /\ SleepsForReason'
  BY RingsKept, SleepsKept DEF IOIndInv
<1> QED
  BY <1>1, <1>2, <1>3 DEF IOIndInv

LEMMA AtIdle ==
  ASSUME IOIndInv, NEW p \in Procs, Enter(p)
  PROVE  /\ loc[p] = Idle /\ loc[p].pc = "idle" /\ loc[p].close = <<>>
         /\ proc[p].state = "run" /\ events' \in Nat
BY DEF IOIndInv, TypeOK, Local, Enter, At, Event, Idle

LEMMA ReturnsAtOnce ==
  ASSUME IOIndInv, NEW p \in Procs, Enter(p), Returned(p),
         UNCHANGED <<ftable, ofile, pipe, input, proc, buf, cut>>
  PROVE  IOIndInv'
<1>1. loc[p] = Idle /\ loc[p].pc = "idle" /\ proc[p].state = "run" /\ events' \in Nat
  BY AtIdle
<1>2. loc'[p] = Idle /\ loc' = [loc EXCEPT ![p] = Idle]
  BY DEF Returned, IOIndInv, TypeOK
<1>3. Local(p)'
  BY <1>1, <1>2, LocalKept DEF IOIndInv, Using
<1> QED
  BY <1>1, <1>2, <1>3, Constants, OnlyEnters DEF Idle

LEMMA SysReadStep ==
  ASSUME IOIndInv, NEW p \in Procs, NEW d \in Fds, NEW n \in ReadLens, sys_read(p, d, n)
  PROVE  IOIndInv'
<1> DEFINE f == ofile[p][d]
           l == [Idle EXCEPT !.pc = IF ftable[f].type = "pipe" THEN "piperead" ELSE "consoleread",
                             !.op = "read", !.file = f, !.n = n]
<1>1. loc[p] = Idle /\ loc[p].pc = "idle" /\ proc[p].state = "run" /\ events' \in Nat
  BY AtIdle DEF sys_read
<1>2. /\ f # NULL /\ ~(ftable[f].type = "pipe" /\ ftable[f].writable)
      /\ loc' = [loc EXCEPT ![p] = l] /\ UNCHANGED <<ftable, ofile, pipe, input, proc, buf, cut>>
  BY DEF sys_read
<1>3. f \in Files /\ n \in Nat /\ n > 0 /\ loc'[p] = l /\ ftable[f] \in StructFile
  BY <1>2, Consts DEF IOIndInv, TypeOK
<1>4. l \in Locals
  BY <1>3, Constants DEF Locals, Idle, Points
<1>5. Local(p)'
  <2>1. /\ l.pc \in {"piperead", "consoleread"} /\ l.file = f /\ l.n = n /\ l.close = <<>>
        /\ l.got = <<>> /\ l.ff = NoFile
        /\ l.pc = "piperead" <=> ftable[f].type = "pipe"
    BY DEF Idle
  <2> HIDE DEF l
  <2>2. Len(<<>>) <= NOFILE
    BY Consts
  <2>3. ftable[f].writable \in BOOLEAN
    BY <1>3 DEF StructFile
  <2> QED
    BY <1>1, <1>2, <1>3, <2>1, <2>2, <2>3 DEF Local, Using
<1> QED
  BY <1>1, <1>2, <1>4, <1>5, OnlyEnters DEF Idle

LEMMA SysWriteStep ==
  ASSUME IOIndInv, NEW p \in Procs, NEW d \in Fds, sys_write(p, d)
  PROVE  IOIndInv'
<1> DEFINE f == ofile[p][d]
           l == [Idle EXCEPT !.pc = "pipewrite", !.op = "write", !.file = f, !.n = Len(buf[p])]
<1>1. loc[p] = Idle /\ loc[p].pc = "idle" /\ proc[p].state = "run" /\ events' \in Nat
  BY AtIdle DEF sys_write
<1>2. /\ f # NULL /\ ftable[f].type = "pipe" /\ ftable[f].writable
      /\ loc' = [loc EXCEPT ![p] = l] /\ UNCHANGED <<ftable, ofile, pipe, input, proc, buf, cut>>
  BY DEF sys_write
<1>3. f \in Files /\ Len(buf[p]) \in Nat /\ loc'[p] = l
  BY <1>2, Consts DEF IOIndInv, TypeOK
<1>4. l \in Locals
  BY <1>3, Constants DEF Locals, Idle, Points
<1>5. Local(p)'
  <2>1. /\ l.pc = "pipewrite" /\ l.file = f /\ l.n = Len(buf[p]) /\ l.i = 0 /\ l.close = <<>>
        /\ l.got = <<>> /\ l.ff = NoFile
    BY DEF Idle
  <2> HIDE DEF l
  <2>2. Len(<<>>) <= NOFILE
    BY Consts
  <2> QED
    BY <1>1, <1>2, <1>3, <2>1, <2>2 DEF Local, Using
<1> QED
  BY <1>1, <1>2, <1>4, <1>5, OnlyEnters DEF Idle


LEMMA KillStep ==
  ASSUME IOIndInv, NEW p \in Procs, NEW v \in Procs, kill(p, v)
  PROVE  IOIndInv'
<1>1. loc[p] = Idle /\ loc[p].pc = "idle" /\ proc[p].state = "run" /\ events' \in Nat
  BY AtIdle DEF kill
<1>2. /\ proc[v].state \in {"run", "sleep"} /\ loc' = [loc EXCEPT ![p] = Idle]
      /\ proc' = [proc EXCEPT ![v] = Killed(@)]
      /\ UNCHANGED <<ftable, ofile, pipe, input, buf, cut>>
  BY DEF kill, Returned
<1>3. TypeOK
  BY DEF IOIndInv
<1>4. \A r \in Procs :
        /\ r # v => proc'[r] = proc[r]
        /\ proc'[v].state = "run" /\ proc'[v].killed
        /\ loc'[r] = loc[r]
  BY <1>1, <1>2, <1>3 DEF TypeOK, StructProc, Killed
<1>5. TypeOK'
  BY <1>1, <1>2, <1>3, Constants DEF TypeOK, StructProc, Killed
<1>6. /\ FilesOK' /\ FileRefs' /\ \A q \in Pages : EndsOK(q)'
      /\ \A r \in Procs : r # p => Local(r)'
  <2>1. \A r \in Procs : proc'[r] = proc[r] \/ proc'[r].state \notin {"unused", "sleep"}
    BY <1>4
  <2> QED
    BY <1>1, <1>2, <2>1, TablesKept
<1>7. Local(p)'
  BY <1>1, <1>2, <1>4, LocalKept DEF IOIndInv, Using
<1>8. RingsOK' /\ SleepsForReason'
  BY <1>2, <1>4, RingsKept, SleepsKept DEF IOIndInv
<1> QED
  BY <1>5, <1>6, <1>7, <1>8 DEF IOIndInv

LEMMA ClosedStep ==
  ASSUME IOIndInv, NEW p \in Procs, closed(p)
  PROVE  IOIndInv'
<1>1. /\ loc[p].pc = "fileclose" /\ proc[p].state = "run" /\ Left(loc[p]) = {}
      /\ proc' = IF loc[p].op = "exit" THEN [proc EXCEPT ![p].state = "zombie"] ELSE proc
      /\ loc' = [loc EXCEPT ![p] = Idle]
      /\ UNCHANGED <<ftable, ofile, pipe, input, buf, events, cut>>
  BY DEF closed, At, Returned, Quiet
<1>2. TypeOK
  BY DEF IOIndInv
<1>3. /\ loc'[p] = Idle /\ proc'[p].state \in {"run", "zombie"} /\ proc'[p].killed = proc[p].killed
      /\ \A r \in Procs : r # p => proc'[r] = proc[r]
  BY <1>1, <1>2 DEF TypeOK, StructProc
<1>4. TypeOK'
  BY <1>1, <1>2, Constants DEF TypeOK, StructProc
<1>5. Left(Idle) = {} /\ Idle.pc = "idle"
  BY DEF Left, Idle
<1>6. /\ FilesOK' /\ FileRefs' /\ \A q \in Pages : EndsOK(q)'
      /\ \A r \in Procs : r # p => Local(r)'
  BY <1>1, <1>3, <1>5, TablesKept
<1>7. Local(p)'
  <2>1. Len(<<>>) <= NOFILE
    BY Consts
  <2> QED
    BY <1>3, <2>1 DEF Local, Using, Idle
<1>8. RingsOK' /\ SleepsForReason'
  BY <1>1, <1>3, RingsKept, SleepsKept DEF IOIndInv
<1> QED
  BY <1>4, <1>6, <1>7, <1>8 DEF IOIndInv

-----------------------------------------------------------------------------
(* Descriptors: pipe, dup, fork, close and exit.                           *)

LEMMA UnusedMin ==
  ASSUME TypeOK, Unused # {}
  PROVE  Min(Unused) \in Files /\ ftable[Min(Unused)].ref = 0
BY Consts, MinIs DEF Unused

LEMMA SysPipeStep ==
  ASSUME IOIndInv, NEW p \in Procs, sys_pipe(p)
  PROVE  IOIndInv'
<1>1. /\ loc[p] = Idle /\ loc[p].pc = "idle" /\ loc[p].close = <<>> /\ proc[p].state = "run"
      /\ events' \in Nat /\ UNCHANGED <<ofile, pipe, input, proc, buf, cut>>
  BY AtIdle DEF sys_pipe
<1>2. CASE Unused = {}
  BY <1>1, <1>2, ReturnsAtOnce DEF sys_pipe
<1>3. CASE Unused # {}
  <2>0. TypeOK /\ FilesOK /\ FileRefs
    BY DEF IOIndInv
  <2>1. PICK f \in Files : f = Min(Unused) /\ ftable[f].ref = 0
    BY <1>3, <2>0, UnusedMin
  <2> DEFINE l == [Idle EXCEPT !.pc = "pipealloc", !.op = "pipe", !.file = f]
  <2>2. ftable' = [ftable EXCEPT ![f].ref = 1] /\ loc' = [loc EXCEPT ![p] = l]
    BY <1>3, <2>1 DEF sys_pipe, filealloc
  <2>3. /\ l.pc = "pipealloc" /\ l.file = f /\ l.close = <<>> /\ l.got = <<>> /\ l.ff = NoFile
        /\ l \in Locals
    BY <2>1, Constants DEF Idle, Locals, Points
  <2> HIDE DEF l
  <2>4. /\ ftable[f] \in StructFile /\ ftable[f].type = "none"
        /\ ftable'[f] = [ftable[f] EXCEPT !.ref = 1] /\ \A g \in Files : g # f => ftable'[g] = ftable[g]
        /\ loc'[p] = l /\ \A r \in Procs : r # p => loc'[r] = loc[r]
    BY <2>0, <2>1, <2>2 DEF TypeOK, FilesOK
  <2>5. ftable'[f].ref = 1 /\ ftable'[f].type = "none" /\ ftable'[f] \in StructFile
    BY <2>4 DEF StructFile
  <2>6. TypeOK'
    BY <1>1, <2>0, <2>2, <2>3, <2>5 DEF TypeOK
  <2>7. FilesOK'
    BY <2>0, <2>4, <2>5 DEF FilesOK
  <2>8. FileRefs'
    <3>1. -1 \in Places
      BY Consts DEF Places
    <3>2. \A r \in Procs, x \in Places : ~Holds(f, r, x)
      BY <2>0, <2>1, NotCounted
    <3>4. \A g \in Files, r \in Procs, x \in Places :
            r # p \/ x # -1 \/ g # f => (Holds(g, r, x)' <=> Holds(g, r, x))
      <4>1. ASSUME NEW g \in Files, NEW r \in Procs, NEW x \in Places, r # p
            PROVE  Holds(g, r, x)' <=> Holds(g, r, x)
        BY <1>1, <2>4, <4>1 DEF Holds
      <4>2. ASSUME NEW g \in Files, NEW x \in Places, x # -1 \/ g # f
            PROVE  Holds(g, p, x)' <=> Holds(g, p, x)
        BY <1>1, <2>3, <2>4, <4>2 DEF Holds
      <4> QED
        BY <4>1, <4>2
    <3>5. Holds(f, p, -1)'
      BY <2>3, <2>4 DEF Holds
    <3>6. Cardinality(Holders(f)') = Cardinality(Holders(f)) + 1
      BY <2>1, <3>1, <3>2, <3>4, <3>5, Gains
    <3>7. \A g \in Files : g # f => Holders(g)' = Holders(g)
      BY <3>4, HoldersSame
    <3>8. ftable'[f].ref = Cardinality(Holders(f)')
      BY <2>0, <2>1, <2>5, <3>6 DEF FileRefs
    <3>9. \A g \in Files : g # f => ftable'[g].ref = Cardinality(Holders(g)')
      BY <2>0, <2>4, <3>7 DEF FileRefs
    <3> QED
      BY <3>8, <3>9 DEF FileRefs
  <2>9. ASSUME NEW r \in Procs PROVE Local(r)'
    <3>1. CASE r = p
      <4>1. Len(<<>>) <= NOFILE
        BY Consts
      <4> QED
        BY <1>1, <2>1, <2>3, <2>4, <2>5, <3>1, <4>1 DEF Local, Using
    <3>2. CASE r # p
      <4>1. loc[r].pc = "pipealloc" \/ Using(r) => loc[r].file # f
        BY <2>1, FreeNotMine
      <4>2. Local(r) /\ (loc[r].pc = "pipealloc" \/ Using(r) => loc[r].file \in Files)
        BY DEF IOIndInv, Local
      <4> QED
        BY <1>1, <2>4, <3>2, <4>1, <4>2, LocalKept
    <3> QED
      BY <3>1, <3>2
  <2>10. ASSUME NEW q \in Pages PROVE EndsOK(q)'
    <3>1. \A w \in BOOLEAN, g \in Files : FileHas(g, q, w)' <=> FileHas(g, q, w)
      BY <2>4, <2>5 DEF FileHas
    <3>2. \A w \in BOOLEAN, r \in Procs : Hangs(r, q, w)' <=> Hangs(r, q, w)
      BY <1>1, <2>3, <2>4 DEF Hangs
    <3> QED
      BY <1>1, <3>1, <3>2, EndsKept DEF IOIndInv
  <2>11. RingsOK' /\ SleepsForReason'
    BY <1>1, RingsKept, SleepsKept DEF IOIndInv
  <2> QED
    BY <2>6, <2>7, <2>8, <2>9, <2>10, <2>11 DEF IOIndInv
<1> QED
  BY <1>2, <1>3


(* Only numbers of references change, and descriptors of the processes X. *)
LEMMA OnlyRefs ==
  ASSUME IOIndInv, NEW X \in SUBSET Procs, UNCHANGED <<pipe, input, cut>>,
         \A g \in Files : /\ ftable'[g].type = ftable[g].type /\ ftable'[g].pipe = ftable[g].pipe
                          /\ ftable'[g].writable = ftable[g].writable
                          /\ ftable'[g].ref = 0 => ftable'[g].type = "none",
         \A r \in X : {loc[r].pc, loc'[r].pc} \cap {"pipeclose"} = {},
         \A r \in Procs :
           proc'[r] = proc[r] \/ proc'[r].state \notin {"unused", "sleep"},
         \A r \in Procs \ X :
           /\ loc'[r] = loc[r] /\ ofile'[r] = ofile[r] /\ buf'[r] = buf[r]
           /\ loc[r].pc = "pipealloc" => ftable'[loc[r].file].ref = ftable[loc[r].file].ref
  PROVE  /\ FilesOK' /\ RingsOK' /\ SleepsForReason' /\ \A q \in Pages : EndsOK(q)'
         /\ \A r \in Procs \ X : Local(r)'
<1>0. /\ FilesOK /\ RingsOK /\ SleepsForReason /\ \A r \in Procs : Local(r)
      /\ \A q \in Pages : EndsOK(q)
  BY DEF IOIndInv
<1>1. FilesOK'
  BY <1>0 DEF FilesOK
<1>2. RingsOK' /\ SleepsForReason'
  BY <1>0, RingsKept, SleepsKept
<1>3. ASSUME NEW q \in Pages PROVE EndsOK(q)'
  <2>1. \A w \in BOOLEAN, g \in Files : FileHas(g, q, w)' <=> FileHas(g, q, w)
    BY DEF FileHas
  <2>2. \A w \in BOOLEAN, r \in Procs : Hangs(r, q, w)' <=> Hangs(r, q, w)
    BY DEF Hangs
  <2> QED
    BY <1>0, <2>1, <2>2, EndsKept
<1>4. ASSUME NEW r \in Procs \ X PROVE Local(r)'
  <2>1. Local(r) /\ (loc[r].pc = "pipealloc" \/ Using(r) => loc[r].file \in Files)
    BY <1>0 DEF Local
  <2> QED
    BY <2>1, LocalKept
<1> QED
  BY <1>1, <1>2, <1>3, <1>4

LEMMA FreeFdMin ==
  ASSUME TypeOK, NEW p \in Procs, FreeFds(p) # {}
  PROVE  Min(FreeFds(p)) \in Fds /\ ofile[p][Min(FreeFds(p))] = NULL
<1>1. FreeFds(p) \subseteq Nat
  BY Consts DEF FreeFds, Fds
<1> QED
  BY <1>1, MinIs DEF FreeFds

LEMMA SysDupStep ==
  ASSUME IOIndInv, NEW p \in Procs, NEW d \in Fds, sys_dup(p, d)
  PROVE  IOIndInv'
<1>0. TypeOK /\ FileRefs
  BY DEF IOIndInv
<1>1. /\ loc[p] = Idle /\ loc[p].pc = "idle" /\ proc[p].state = "run" /\ events' \in Nat
      /\ UNCHANGED <<pipe, input, proc, buf, cut>>
  BY AtIdle DEF sys_dup
<1>2. CASE FreeFds(p) = {}
  BY <1>1, <1>2, ReturnsAtOnce DEF sys_dup
<1>3. CASE FreeFds(p) # {}
  <2>1. PICK f \in Files : f = ofile[p][d]
    BY <1>0 DEF sys_dup, TypeOK
  <2>2. PICK e \in Fds : e = Min(FreeFds(p)) /\ ofile[p][e] = NULL
    BY <1>0, <1>3, FreeFdMin
  <2>3. /\ ofile' = [ofile EXCEPT ![p][e] = f] /\ ftable' = [ftable EXCEPT ![f].ref = @ + 1]
        /\ loc' = [loc EXCEPT ![p] = Idle]
    BY <1>3, <2>1, <2>2 DEF sys_dup, Returned
  <2>4. Fds \subseteq Places /\ \A x \in Fds : x # -1 /\ x \notin NOFILE .. 2 * NOFILE
    BY Consts DEF Places, Fds
  <2>5. Holds(f, p, d) /\ ftable[f].ref \in Nat /\ ftable[f].ref >= 1
    <3>1. Holds(f, p, d)
      BY <2>1 DEF Holds
    <3> QED
      BY <1>0, <2>4, <3>1, Counted
  <2>6. /\ \A g \in Files : /\ ftable'[g].type = ftable[g].type /\ ftable'[g].pipe = ftable[g].pipe
                            /\ ftable'[g].writable = ftable[g].writable
                            /\ g # f => ftable'[g] = ftable[g]
        /\ ftable'[f].ref = ftable[f].ref + 1 /\ ftable' \in [Files -> StructFile]
    <3>1. /\ ftable \in [Files -> StructFile] /\ ftable[f] \in StructFile
          /\ ftable' = [ftable EXCEPT ![f] = [ftable[f] EXCEPT !.ref = ftable[f].ref + 1]]
      BY <1>0, <2>3 DEF TypeOK
    <3>2. [ftable[f] EXCEPT !.ref = ftable[f].ref + 1] \in StructFile
      BY <2>5, <3>1 DEF StructFile
    <3> QED
      BY <3>1, <3>2 DEF StructFile
  <2>7. /\ \A r \in Procs : loc'[r] = loc[r] /\ (r # p => ofile'[r] = ofile[r])
        /\ \A x \in Fds : ofile'[p][x] = IF x = e THEN f ELSE ofile[p][x]
    BY <1>0, <1>1, <2>2, <2>3 DEF TypeOK
  <2>8. TypeOK'
    BY <1>0, <1>1, <2>3, <2>6, <2>7, Constants DEF TypeOK
  <2>9. FileRefs'
    <3>1. \A g \in Files, r \in Procs, x \in Places :
            r # p \/ x # e \/ g # f => (Holds(g, r, x)' <=> Holds(g, r, x))
      BY <2>2, <2>4, <2>7, Consts DEF Holds
    <3>2. ~Holds(f, p, e) /\ Holds(f, p, e)'
      BY <2>2, <2>4, <2>7, Consts DEF Holds
    <3>3. Cardinality(Holders(f)') = Cardinality(Holders(f)) + 1
      BY <2>4, <3>1, <3>2, Gains
    <3>4. \A g \in Files : g # f => Holders(g)' = Holders(g)
      BY <3>1, HoldersSame
    <3>5. ftable'[f].ref = Cardinality(Holders(f)')
      BY <1>0, <2>6, <3>3 DEF FileRefs
    <3>6. \A g \in Files : g # f => ftable'[g].ref = Cardinality(Holders(g)')
      BY <1>0, <2>6, <3>4 DEF FileRefs
    <3> QED
      BY <3>5, <3>6 DEF FileRefs
  <2>10. /\ FilesOK' /\ RingsOK' /\ SleepsForReason' /\ \A q \in Pages : EndsOK(q)'
         /\ \A r \in Procs \ {p} : Local(r)'
    <3>1. \A g \in Files : ftable'[g].ref = 0 => ftable'[g].type = "none"
      BY <2>5, <2>6 DEF IOIndInv, FilesOK
    <3>2. \A r \in Procs \ {p} : loc[r].pc = "pipealloc" => ftable'[loc[r].file].ref = ftable[loc[r].file].ref
      BY <2>4, <2>5, <2>6, NotMine DEF IOIndInv, Local
    <3>3. {p} \in SUBSET Procs /\ \A r \in {p} : {loc[r].pc, loc'[r].pc} \cap {"pipeclose"} = {}
      BY <1>1, <2>7
    <3> QED
      BY <1>1, <2>6, <2>7, <3>1, <3>2, <3>3, OnlyRefs
  <2>11. Local(p)'
    <3>1. Local(p)
      BY DEF IOIndInv
    <3> QED
      BY <1>1, <2>7, <3>1 DEF Local, Using
  <2> QED
    BY <2>8, <2>9, <2>10, <2>11 DEF IOIndInv
<1> QED
  BY <1>2, <1>3

LEMMA SysCloseStep ==
  ASSUME IOIndInv, NEW p \in Procs, NEW d \in Fds, sys_close(p, d)
  PROVE  IOIndInv'
<1>0. TypeOK /\ FileRefs
  BY DEF IOIndInv
<1>1. /\ loc[p] = Idle /\ loc[p].pc = "idle" /\ loc[p].close = <<>> /\ proc[p].state = "run"
      /\ events' \in Nat /\ UNCHANGED <<ftable, pipe, input, proc, buf, cut>>
  BY AtIdle DEF sys_close
<1>2. PICK f \in Files : f = ofile[p][d]
  BY <1>0 DEF sys_close, TypeOK
<1> DEFINE l == [Idle EXCEPT !.pc = "fileclose", !.op = "close", !.close = <<f>>]
<1>3. ofile' = [ofile EXCEPT ![p][d] = NULL] /\ loc' = [loc EXCEPT ![p] = l]
  BY <1>2 DEF sys_close
<1>4. /\ l.pc = "fileclose" /\ l.close = <<f>> /\ l.got = <<>> /\ l.ff = NoFile /\ l \in Locals
  <2>1. <<f>> \in Seq(Files \cup {NULL})
    OBVIOUS
  <2> QED
    BY <2>1, Constants DEF Idle, Locals, Points
<1> HIDE DEF l
<1>5. /\ loc'[p] = l /\ \A r \in Procs : r # p => loc'[r] = loc[r] /\ ofile'[r] = ofile[r]
      /\ \A x \in Fds : ofile'[p][x] = IF x = d THEN NULL ELSE ofile[p][x]
  BY <1>0, <1>3 DEF TypeOK
<1>6. TypeOK'
  BY <1>0, <1>1, <1>3, <1>4 DEF TypeOK
<1>7. /\ Fds \subseteq Places /\ NOFILE \in Places /\ NOFILE \notin Fds
      /\ NOFILE \in NOFILE .. 2 * NOFILE /\ NOFILE - NOFILE + 1 = 1
      /\ \A x \in Fds : x # -1 /\ x \notin NOFILE .. 2 * NOFILE
      /\ \A x \in NOFILE .. 2 * NOFILE : x - NOFILE + 1 = 1 => x = NOFILE
  BY Consts DEF Places, Fds
<1>8. FileRefs'
  <2>1. \A g \in Files, r \in Procs, x \in Places :
          r # p \/ x \notin {d, NOFILE} \/ g # f => (Holds(g, r, x)' <=> Holds(g, r, x))
    <3>1. DOMAIN <<f>> = {1} /\ DOMAIN <<>> = {} /\ <<f>>[1] = f
      OBVIOUS
    <3> QED
      BY <1>1, <1>2, <1>4, <1>5, <1>7, <3>1, Consts DEF Holds
  <2>2. Holds(f, p, d) /\ ~Holds(f, p, d)' /\ ~Holds(f, p, NOFILE) /\ Holds(f, p, NOFILE)'
    BY <1>1, <1>2, <1>4, <1>5, <1>7, Consts DEF Holds
  <2>3. Cardinality(Holders(f)') = Cardinality(Holders(f))
    BY <1>7, <2>1, <2>2, Moves
  <2>4. \A g \in Files : g # f => Holders(g)' = Holders(g)
    BY <2>1, HoldersSame
  <2>5. \A g \in Files : Cardinality(Holders(g)') = Cardinality(Holders(g))
    BY <2>3, <2>4
  <2> QED
    BY <1>0, <1>1, <2>5 DEF FileRefs
<1>9. /\ FilesOK' /\ RingsOK' /\ SleepsForReason' /\ \A q \in Pages : EndsOK(q)'
      /\ \A r \in Procs \ {p} : Local(r)'
  <2>1. \A g \in Files : ftable[g].ref = 0 => ftable[g].type = "none"
    BY DEF IOIndInv, FilesOK
  <2> QED
    BY <1>1, <1>4, <1>5, <2>1, OnlyRefs
<1>10. Local(p)'
  <2>1. Len(<<f>>) <= NOFILE
    BY Consts
  <2> QED
    BY <1>1, <1>4, <1>5, <2>1 DEF Local, Using
<1> QED
  BY <1>6, <1>8, <1>9, <1>10 DEF IOIndInv


LEMMA ExitStep ==
  ASSUME IOIndInv, NEW p \in Procs, exit(p), events' \in Nat
  PROVE  IOIndInv'
<1>0. TypeOK /\ FileRefs /\ Local(p)
  BY DEF IOIndInv
<1> DEFINE c == [k \in 1 .. NOFILE |-> ofile[p][k - 1]]
           l == [Idle EXCEPT !.pc = "fileclose", !.op = "exit", !.close = c]
<1>1. /\ loc[p].pc = "idle" /\ loc[p].close = <<>> /\ proc[p].state = "run"
      /\ UNCHANGED <<ftable, pipe, input, proc, buf, cut>>
      /\ ofile' = [ofile EXCEPT ![p] = NoFds] /\ loc' = [loc EXCEPT ![p] = l]
  BY <1>0 DEF exit, At, Local, Idle
<1>2. c \in Seq(Files \cup {NULL}) /\ Len(c) = NOFILE /\ DOMAIN c = 1 .. NOFILE
  <2>1. \A k \in 1 .. NOFILE : ofile[p][k - 1] \in Files \cup {NULL}
    BY <1>0, Consts DEF TypeOK, Fds
  <2> QED
    BY <2>1, Consts
<1>3. /\ l.pc = "fileclose" /\ l.close = c /\ l.got = <<>> /\ l.ff = NoFile /\ l \in Locals
  BY <1>2, Constants DEF Idle, Locals, Points
<1> HIDE DEF l
<1>4. /\ loc'[p] = l /\ \A r \in Procs : r # p => loc'[r] = loc[r] /\ ofile'[r] = ofile[r]
      /\ ofile'[p] = NoFds /\ \A x \in Fds : ofile'[p][x] = NULL
  BY <1>0, <1>1 DEF TypeOK, NoFds
<1>5. TypeOK'
  BY <1>0, <1>1, <1>3, Constants DEF TypeOK
<1>6. FileRefs'
  <2>1. /\ \A x \in Places : x - NOFILE \in Fds <=>
             x \in NOFILE .. 2 * NOFILE /\ x - NOFILE + 1 \in 1 .. NOFILE
        /\ \A x \in Places : (x - NOFILE + 1) - 1 = x - NOFILE
        /\ Fds \subseteq Places
        /\ \A x \in Fds : x # -1 /\ x \notin NOFILE .. 2 * NOFILE
    BY Consts DEF Fds, Places
  <2>2. ASSUME NEW f \in Files PROVE Cardinality(Holders(f)') = Cardinality(Holders(f))
    <3>1. \A x \in Places : Holds(f, p, x) => x \in Fds
      BY <1>1 DEF Holds
    <3>2. ASSUME NEW x \in Places
          PROVE  Holds(f, p, x)' <=> x - NOFILE \in Fds /\ Holds(f, p, x - NOFILE)
      <4>1. Holds(f, p, x)' <=> x \in NOFILE .. 2 * NOFILE /\ x - NOFILE + 1 \in 1 .. NOFILE
                                /\ c[x - NOFILE + 1] = f
        BY <1>2, <1>3, <1>4, Consts DEF Holds
      <4>2. x - NOFILE + 1 \in 1 .. NOFILE => c[x - NOFILE + 1] = ofile[p][x - NOFILE]
        BY <2>1
      <4>3. x - NOFILE \in Fds => (Holds(f, p, x - NOFILE) <=> ofile[p][x - NOFILE] = f)
        BY <2>1 DEF Holds
      <4> QED
        BY <2>1, <4>1, <4>2, <4>3
    <3>3. \A r \in Procs, x \in Places : r # p => (Holds(f, r, x)' <=> Holds(f, r, x))
      BY <1>4 DEF Holds
    <3> QED
      BY <3>1, <3>2, <3>3, Shifts
  <2> QED
    BY <1>0, <1>1, <2>2 DEF FileRefs
<1>7. /\ FilesOK' /\ RingsOK' /\ SleepsForReason' /\ \A q \in Pages : EndsOK(q)'
      /\ \A r \in Procs \ {p} : Local(r)'
  <2>1. \A g \in Files : ftable[g].ref = 0 => ftable[g].type = "none"
    BY DEF IOIndInv, FilesOK
  <2>2. {p} \in SUBSET Procs /\ \A r \in {p} : {loc[r].pc, loc'[r].pc} \cap {"pipeclose"} = {}
    BY <1>1, <1>3, <1>4
  <2> QED
    BY <1>1, <1>4, <2>1, <2>2, OnlyRefs
<1>8. Local(p)'
  <2>1. NOFILE <= NOFILE
    BY Consts
  <2> QED
    BY <1>1, <1>2, <1>3, <1>4, <2>1 DEF Local, Using
<1> QED
  BY <1>5, <1>6, <1>7, <1>8 DEF IOIndInv

LEMMA ForkStep ==
  ASSUME IOIndInv, NEW p \in Procs, NEW np \in Procs, fork(p, np)
  PROVE  IOIndInv'
<1>0. TypeOK /\ FileRefs /\ Local(np) /\ Local(p)
  BY DEF IOIndInv
<1>1. /\ loc[p] = Idle /\ loc[p].pc = "idle" /\ proc[p].state = "run" /\ events' \in Nat
      /\ proc[np].state = "unused" /\ p # np
      /\ proc' = [proc EXCEPT ![np].state = "run"] /\ ofile' = [ofile EXCEPT ![np] = ofile[p]]
      /\ ftable' = [f \in Files |-> [ftable[f] EXCEPT !.ref = @ + Inherited(p, f)]]
      /\ buf' = [buf EXCEPT ![np] = buf[p]] /\ UNCHANGED <<pipe, input, cut>>
      /\ loc' = [loc EXCEPT ![p] = Idle]
  BY AtIdle DEF fork, Returned
<1>2. /\ loc[np] = Idle /\ loc[np].pc = "idle" /\ loc[np].close = <<>>
      /\ \A x \in Fds : ofile[np][x] = NULL
  BY <1>0, <1>1 DEF Local, NoFds, Idle
<1>3. /\ \A r \in Procs : loc'[r] = loc[r] /\ (r # np => ofile'[r] = ofile[r] /\ buf'[r] = buf[r])
      /\ ofile'[np] = ofile[p]
  BY <1>0, <1>1 DEF TypeOK
<1>4. /\ proc' \in [Procs -> StructProc] /\ proc'[np].state = "run"
      /\ \A r \in Procs : proc'[r].killed = proc[r].killed /\ (r # np => proc'[r] = proc[r])
  BY <1>0, <1>1 DEF TypeOK, StructProc
<1>5. \A f \in Files : Inherited(p, f) \in Nat
  <2>1. IsFiniteSet(Fds)
    BY Consts, FS_Interval DEF Fds
  <2>2. \A f \in Files : IsFiniteSet({d \in Fds : ofile[p][d] = f})
    BY <2>1, FS_Subset
  <2> QED
    BY <2>2, FS_CardinalityType DEF Inherited
<1>6. /\ ftable' \in [Files -> StructFile]
      /\ \A g \in Files : /\ ftable'[g].type = ftable[g].type /\ ftable'[g].pipe = ftable[g].pipe
                          /\ ftable'[g].writable = ftable[g].writable
                          /\ ftable'[g].ref = ftable[g].ref + Inherited(p, g)
                          /\ ftable[g].ref \in Nat
  <2>1. ftable \in [Files -> StructFile]
    BY <1>0 DEF TypeOK
  <2>2. ASSUME NEW g \in Files
        PROVE  /\ ftable'[g] = [ftable[g] EXCEPT !.ref = ftable[g].ref + Inherited(p, g)]
               /\ ftable[g] \in StructFile /\ ftable'[g] \in StructFile
    <3>1. ftable[g] \in StructFile /\ ftable[g].ref + Inherited(p, g) \in Nat
      BY <1>5, <2>1 DEF StructFile
    <3>2. ftable'[g] = [ftable[g] EXCEPT !.ref = ftable[g].ref + Inherited(p, g)]
      BY <1>1, Zenon
    <3> QED
      BY <3>1, <3>2 DEF StructFile
  <2> QED
    BY <1>1, <2>2 DEF StructFile
<1>7. TypeOK'
  BY <1>0, <1>1, <1>4, <1>6, Constants DEF TypeOK
<1>8. Fds \subseteq Places /\ \A x \in Fds : x # -1 /\ x \notin NOFILE .. 2 * NOFILE
  BY Consts DEF Places, Fds
<1>9. FileRefs'
  <2>1. ASSUME NEW f \in Files PROVE ftable'[f].ref = Cardinality(Holders(f)')
    <3>1. PICK D \in SUBSET Places : D = {d \in Fds : ofile[p][d] = f}
      BY <1>8
    <3>2. \A x \in Places : ~Holds(f, np, x) /\ (Holds(f, np, x)' <=> x \in D)
      BY <1>2, <1>3, <1>8, <3>1, Consts DEF Holds
    <3>3. \A r \in Procs, x \in Places : r # np => (Holds(f, r, x)' <=> Holds(f, r, x))
      BY <1>3 DEF Holds
    <3>4. Cardinality(Holders(f)') = Cardinality(Holders(f)) + Cardinality(D)
      BY <3>2, <3>3, Inherits
    <3>5. ftable[f].ref = Cardinality(Holders(f)) /\ Inherited(p, f) = Cardinality(D)
      BY <1>0, <3>1 DEF FileRefs, Inherited
    <3> QED
      BY <1>6, <3>4, <3>5
  <2> QED
    BY <2>1 DEF FileRefs
<1>10. /\ FilesOK' /\ RingsOK' /\ SleepsForReason' /\ \A q \in Pages : EndsOK(q)'
       /\ \A r \in Procs \ {p, np} : Local(r)'
  <2>1. \A g \in Files : ftable'[g].ref = 0 => ftable'[g].type = "none"
    BY <1>5, <1>6 DEF IOIndInv, FilesOK
  <2>2. ASSUME NEW r \in Procs \ {p, np}, loc[r].pc = "pipealloc"
        PROVE  ftable'[loc[r].file].ref = ftable[loc[r].file].ref
    <3>1. PICK f \in Files : f = loc[r].file
      BY <2>2 DEF IOIndInv, Local
    <3>2. \A d \in Fds : ofile[p][d] # f
      <4>1. ASSUME NEW d \in Fds, ofile[p][d] = f PROVE FALSE
        <5>1. Holds(f, p, d)
          BY <4>1 DEF Holds
        <5> QED
          BY <1>8, <2>2, <3>1, <5>1, NotMine
      <4> QED
        BY <4>1
    <3>3. {d \in Fds : ofile[p][d] = f} = {}
      BY <3>2
    <3>4. Inherited(p, f) = 0
      BY <3>3, FS_EmptySet DEF Inherited
    <3> QED
      BY <1>6, <3>1, <3>4
  <2>3. PICK X \in SUBSET Procs : X = {p, np}
    OBVIOUS
  <2>4. \A r \in X : {loc[r].pc, loc'[r].pc} \cap {"pipeclose"} = {}
    BY <1>1, <1>2, <1>3, <2>3
  <2>5. \A r \in Procs : proc'[r] = proc[r] \/ proc'[r].state \notin {"unused", "sleep"}
    BY <1>4
  <2>6. \A r \in Procs \ X :
          /\ loc'[r] = loc[r] /\ ofile'[r] = ofile[r] /\ buf'[r] = buf[r]
          /\ loc[r].pc = "pipealloc" => ftable'[loc[r].file].ref = ftable[loc[r].file].ref
    BY <1>3, <2>2, <2>3
  <2>7. \A g \in Files : /\ ftable'[g].type = ftable[g].type /\ ftable'[g].pipe = ftable[g].pipe
                         /\ ftable'[g].writable = ftable[g].writable
                         /\ ftable'[g].ref = 0 => ftable'[g].type = "none"
    BY <1>6, <2>1
  <2>8. UNCHANGED <<pipe, input, cut>>
    BY <1>1
  <2>9. /\ FilesOK' /\ RingsOK' /\ SleepsForReason' /\ \A q \in Pages : EndsOK(q)'
        /\ \A r \in Procs \ X : Local(r)'
    BY <2>4, <2>5, <2>6, <2>7, <2>8, OnlyRefs
  <2> QED
    BY <2>3, <2>9
<1>11. Local(p)'
  BY <1>0, <1>1, <1>3, <1>4, LocalKept DEF Using
<1>12. Local(np)'
  <2>1. Len(<<>>) <= NOFILE
    BY Consts
  <2> QED
    BY <1>2, <1>3, <1>4, <2>1 DEF Local, Using, Idle
<1> QED
  BY <1>7, <1>9, <1>10, <1>11, <1>12 DEF IOIndInv


-----------------------------------------------------------------------------
(* The last reference to an end of a pipe goes from the struct file to the *)
(* process that closes it.                                                 *)
LEMMA EndsMoved ==
  ASSUME NEW q \in Pages, EndsOK(q), UNCHANGED pipe, NEW f \in Files, NEW p \in Procs,
         NEW v \in BOOLEAN, FileHas(f, q, v),
         \A w \in BOOLEAN, g \in Files : FileHas(g, q, w)' <=> FileHas(g, q, w) /\ g # f,
         \A w \in BOOLEAN, r \in Procs : r # p => (Hangs(r, q, w)' <=> Hangs(r, q, w)),
         \A w \in BOOLEAN : ~Hangs(p, q, w) /\ (Hangs(p, q, w)' <=> w = v)
  PROVE  EndsOK(q)'
<1>1. \A w \in BOOLEAN : Open(q, w)' <=> Open(q, w)
  BY DEF Open
<1>2. \A w \in BOOLEAN : FileHas(f, q, w) => w = v
  BY DEF FileHas
<1>3. ASSUME NEW w \in BOOLEAN
      PROVE  /\ Open(q, w)' <=> (\E g \in Files : FileHas(g, q, w)') \/ (\E r \in Procs : Hangs(r, q, w)')
             /\ \A g, h \in Files : FileHas(g, q, w)' /\ FileHas(h, q, w)' => g = h
             /\ \A r, s \in Procs : Hangs(r, q, w)' /\ Hangs(s, q, w)' => r = s
             /\ \A g \in Files, r \in Procs : ~(FileHas(g, q, w)' /\ Hangs(r, q, w)')
  <2>1. /\ Open(q, w) <=> (\E g \in Files : FileHas(g, q, w)) \/ (\E r \in Procs : Hangs(r, q, w))
        /\ \A g, h \in Files : FileHas(g, q, w) /\ FileHas(h, q, w) => g = h
        /\ \A r, s \in Procs : Hangs(r, q, w) /\ Hangs(s, q, w) => r = s
        /\ \A g \in Files, r \in Procs : ~(FileHas(g, q, w) /\ Hangs(r, q, w))
    BY Zenon DEF EndsOK
  <2>2. CASE w = v
    BY <1>1, <2>1, <2>2
  <2>3. CASE w # v
    BY <1>1, <1>2, <2>1, <2>3
  <2> QED
    BY <2>2, <2>3
<1>4. pipe'[q].used <=> pipe'[q].readopen \/ pipe'[q].writeopen
  BY DEF EndsOK
<1> QED
  BY <1>3, <1>4, Zenon DEF EndsOK

(* What fileclose does in every case: the reference in place k of the      *)
(* files to close is gone.                                                 *)
LEMMA CloseTaken ==
  ASSUME IOIndInv, NEW p \in Procs, loc[p].pc = "fileclose", NEW k, k \in Left(loc[p]),
         NEW f, f = loc[p].close[k], UNCHANGED ofile,
         loc'[p].close = [loc[p].close EXCEPT ![k] = NULL],
         loc'[p].pc \in {"fileclose", "pipeclose"},
         \A r \in Procs : r # p => loc'[r] = loc[r]
  PROVE  /\ f \in Files /\ ftable[f].ref \in Nat /\ ftable[f].ref >= 1
         /\ \E x \in Places : Holds(f, p, x)
         /\ loc'[p].close \in Seq(Files \cup {NULL}) /\ Len(loc'[p].close) <= NOFILE
         /\ Cardinality(Holders(f)') = ftable[f].ref - 1
         /\ \A g \in Files : g # f => Cardinality(Holders(g)') = ftable[g].ref
<1>0. TypeOK /\ FileRefs /\ Local(p)
  BY DEF IOIndInv
<1>1. loc[p].close \in Seq(Files \cup {NULL}) /\ Len(loc[p].close) <= NOFILE
  BY <1>0 DEF TypeOK, Locals, Local
<1>2. k \in 1 .. Len(loc[p].close) /\ f \in Files
  BY <1>1 DEF Left
<1>3. /\ loc'[p].close \in Seq(Files \cup {NULL}) /\ Len(loc'[p].close) = Len(loc[p].close)
      /\ DOMAIN loc'[p].close = 1 .. Len(loc[p].close) /\ DOMAIN loc[p].close = 1 .. Len(loc[p].close)
      /\ \A j \in 1 .. Len(loc[p].close) :
           loc'[p].close[j] = IF j = k THEN NULL ELSE loc[p].close[j]
  BY <1>1, <1>2
<1>4. PICK x \in Places : x = NOFILE + k - 1
  BY <1>1, <1>2, Consts DEF Places
<1>5. /\ x \in NOFILE .. 2 * NOFILE /\ x \notin Fds /\ x # -1 /\ x - NOFILE + 1 = k
      /\ \A y \in NOFILE .. 2 * NOFILE : y - NOFILE + 1 = k => y = x
  BY <1>1, <1>2, <1>4, Consts DEF Fds
<1>6. Holds(f, p, x) /\ ~Holds(f, p, x)'
  BY <1>2, <1>3, <1>5, Consts DEF Holds
<1>7. \A g \in Files, r \in Procs, y \in Places :
        r # p \/ y # x \/ g # f => (Holds(g, r, y)' <=> Holds(g, r, y))
  BY <1>2, <1>3, <1>5, Consts DEF Holds
<1>8. Cardinality(Holders(f)') = Cardinality(Holders(f)) - 1
  BY <1>2, <1>6, <1>7, Loses
<1>9. \A g \in Files : g # f => Holders(g)' = Holders(g)
  BY <1>7, HoldersSame
<1>10. ftable[f].ref \in Nat /\ ftable[f].ref >= 1
  BY <1>0, <1>2, <1>6, Counted
<1> QED
  BY <1>0, <1>1, <1>2, <1>3, <1>6, <1>8, <1>9, <1>10 DEF FileRefs


LEMMA LeftMin ==
  ASSUME TypeOK, NEW p \in Procs, Left(loc[p]) # {}
  PROVE  Min(Left(loc[p])) \in Left(loc[p])
<1>1. loc[p].close \in Seq(Files \cup {NULL})
  BY DEF TypeOK, Locals
<1>2. Left(loc[p]) \subseteq Nat
  BY <1>1 DEF Left
<1> QED
  BY <1>2, MinIs

LEMMA FilecloseStep ==
  ASSUME IOIndInv, NEW p \in Procs, fileclose(p)
  PROVE  IOIndInv'
<1>0. TypeOK /\ FilesOK /\ FileRefs /\ Local(p)
  BY DEF IOIndInv
<1>1. PICK k : k = Min(Left(loc[p])) /\ k \in Left(loc[p])
  BY <1>0, LeftMin DEF fileclose
<1>2. PICK f : f = loc[p].close[k]
  OBVIOUS
<1>3. PICK l \in Locals : l = loc[p]
  BY <1>0 DEF TypeOK
<1> DEFINE rest == [l EXCEPT !.close[k] = NULL]
           moved == [rest EXCEPT !.pc = "pipeclose", !.ff = ftable[f]]
           last == ~(ftable[f].ref > 1)
           ispipe == ftable[f].type = "pipe"
<1>4. /\ loc[p].pc = "fileclose" /\ proc[p].state = "run"
      /\ UNCHANGED <<ofile, pipe, input, proc, buf, events, cut>>
  BY DEF fileclose, At, Quiet
<1>5. /\ ~last => ftable' = [ftable EXCEPT ![f].ref = @ - 1] /\ loc' = [loc EXCEPT ![p] = rest]
      /\ last => /\ ftable' = [ftable EXCEPT ![f].ref = 0, ![f].type = "none"]
                 /\ loc' = [loc EXCEPT ![p] = IF ispipe THEN moved ELSE rest]
  BY <1>1, <1>2, <1>3 DEF fileclose
<1>6. /\ rest.pc = "fileclose" /\ rest.close = [l.close EXCEPT ![k] = NULL] /\ rest.ff = NoFile
      /\ rest.got = <<>>
      /\ moved.pc = "pipeclose" /\ moved.close = [l.close EXCEPT ![k] = NULL]
      /\ moved.ff = ftable[f] /\ moved.got = <<>>
  BY <1>0, <1>3, <1>4 DEF Locals, Local
<1>7. /\ \A r \in Procs : r # p => loc'[r] = loc[r]
      /\ loc'[p] = IF last /\ ispipe THEN moved ELSE rest
  BY <1>0, <1>5 DEF TypeOK
<1>8. /\ f \in Files /\ ftable[f].ref \in Nat /\ ftable[f].ref >= 1
      /\ \E x \in Places : Holds(f, p, x)
      /\ loc'[p].close \in Seq(Files \cup {NULL}) /\ Len(loc'[p].close) <= NOFILE
      /\ Cardinality(Holders(f)') = ftable[f].ref - 1
      /\ \A g \in Files : g # f => Cardinality(Holders(g)') = ftable[g].ref
  <2>1. loc'[p].close = [loc[p].close EXCEPT ![k] = NULL] /\ loc'[p].pc \in {"fileclose", "pipeclose"}
    BY <1>3, <1>6, <1>7
  <2> HIDE DEF rest, moved
  <2> QED
    BY <1>1, <1>2, <1>4, <1>7, <2>1, CloseTaken
<1>9. loc'[p] \in Locals
  <2>1. ftable[f] \in StructFile
    BY <1>0, <1>8 DEF TypeOK
  <2>2. [l.close EXCEPT ![k] = NULL] \in Seq(Files \cup {NULL})
    BY <1>6, <1>7, <1>8
  <2> QED
    BY <1>3, <1>7, <2>1, <2>2 DEF Locals, Points
<1> HIDE DEF rest, moved
<1>10. loc' \in [Procs -> Locals]
  BY <1>0, <1>5, <1>9 DEF TypeOK
<1>11. CASE ~last
  <2>1. /\ ftable' \in [Files -> StructFile] /\ ftable'[f].ref = ftable[f].ref - 1
        /\ \A g \in Files : /\ ftable'[g].type = ftable[g].type /\ ftable'[g].pipe = ftable[g].pipe
                            /\ ftable'[g].writable = ftable[g].writable
                            /\ g # f => ftable'[g] = ftable[g]
    <3>1. /\ ftable \in [Files -> StructFile] /\ ftable[f] \in StructFile
          /\ ftable' = [ftable EXCEPT ![f] = [ftable[f] EXCEPT !.ref = ftable[f].ref - 1]]
      BY <1>0, <1>5, <1>8, <1>11 DEF TypeOK
    <3>2. [ftable[f] EXCEPT !.ref = ftable[f].ref - 1] \in StructFile
      BY <1>8, <3>1 DEF StructFile
    <3> QED
      BY <1>8, <3>1, <3>2 DEF StructFile
  <2>2. TypeOK'
    BY <1>0, <1>4, <1>10, <2>1 DEF TypeOK
  <2>3. FileRefs'
    <3>1. \A g \in Files : ftable'[g].ref = Cardinality(Holders(g)')
      BY <1>8, <2>1
    <3> QED
      BY <3>1 DEF FileRefs
  <2>4. /\ FilesOK' /\ RingsOK' /\ SleepsForReason' /\ \A q \in Pages : EndsOK(q)'
        /\ \A r \in Procs \ {p} : Local(r)'
    <3>1. \A g \in Files : ftable'[g].ref = 0 => ftable'[g].type = "none"
      BY <1>0, <1>8, <1>11, <2>1 DEF FilesOK
    <3>2. \A r \in Procs \ {p} : loc[r].pc = "pipealloc" => ftable'[loc[r].file].ref = ftable[loc[r].file].ref
      BY <1>8, <2>1, NotMine DEF IOIndInv, Local
    <3>3. {p} \in SUBSET Procs /\ \A r \in {p} : {loc[r].pc, loc'[r].pc} \cap {"pipeclose"} = {}
      BY <1>4, <1>6, <1>7, <1>11
    <3> QED
      BY <1>4, <1>7, <2>1, <3>1, <3>2, <3>3, OnlyRefs
  <2>5. Local(p)'
    BY <1>4, <1>6, <1>7, <1>8, <1>11 DEF Local, Using
  <2> QED
    BY <2>2, <2>3, <2>4, <2>5 DEF IOIndInv
<1>12. CASE last
  <2>1. /\ ftable' \in [Files -> StructFile] /\ ftable'[f].ref = 0 /\ ftable'[f].type = "none"
        /\ \A g \in Files : g # f => ftable'[g] = ftable[g]
        /\ ftable[f].ref = 1 /\ ftable[f] \in StructFile
    <3>1. /\ ftable \in [Files -> StructFile] /\ ftable[f] \in StructFile
          /\ ftable' = [ftable EXCEPT ![f] = [ftable[f] EXCEPT !.ref = 0, !.type = "none"]]
      BY <1>0, <1>5, <1>8, <1>12 DEF TypeOK
    <3>2. [ftable[f] EXCEPT !.ref = 0, !.type = "none"] \in StructFile
      BY <3>1 DEF StructFile
    <3>3. ftable[f].ref = 1
      BY <1>8, <1>12
    <3> QED
      BY <1>8, <3>1, <3>2, <3>3 DEF StructFile
  <2>2. TypeOK'
    BY <1>0, <1>4, <1>10, <2>1 DEF TypeOK
  <2>3. FileRefs'
    <3>1. \A g \in Files : ftable'[g].ref = Cardinality(Holders(g)')
      BY <1>8, <2>1
    <3> QED
      BY <3>1 DEF FileRefs
  <2>4. FilesOK'
    BY <1>0, <2>1 DEF FilesOK
  <2>5. RingsOK' /\ SleepsForReason'
    BY <1>4, RingsKept, SleepsKept DEF IOIndInv
  <2>6. ASSUME NEW r \in Procs, r # p PROVE Local(r)'
    <3>1. Local(r) /\ (loc[r].pc = "pipealloc" \/ Using(r) => loc[r].file \in Files)
      BY DEF IOIndInv, Local
    <3>2. loc[r].pc = "pipealloc" \/ Using(r) => loc[r].file # f
      BY <1>8, <2>1, <2>6, NotMine
    <3> QED
      BY <1>4, <1>7, <2>1, <2>6, <3>1, <3>2, LocalKept
  <2>7. Local(p)'
    <3>1. ispipe => ftable[f].pipe \in Pages
      BY <1>0, <1>8 DEF FilesOK
    <3> QED
      BY <1>4, <1>6, <1>7, <1>8, <3>1 DEF Local, Using
  <2>8. ASSUME NEW q \in Pages PROVE EndsOK(q)'
    <3>1. \A w \in BOOLEAN, g \in Files : FileHas(g, q, w)' <=> FileHas(g, q, w) /\ g # f
      BY <2>1 DEF FileHas
    <3>2. \A w \in BOOLEAN, r \in Procs : r # p => (Hangs(r, q, w)' <=> Hangs(r, q, w))
      BY <1>7 DEF Hangs
    <3>3. CASE ispipe /\ ftable[f].pipe = q
      <4>1. PICK v \in BOOLEAN : v = ftable[f].writable
        BY <2>1 DEF StructFile
      <4>2. FileHas(f, q, v)
        BY <3>3, <4>1 DEF FileHas
      <4>3. \A w \in BOOLEAN : ~Hangs(p, q, w) /\ (Hangs(p, q, w)' <=> w = v)
        BY <1>4, <1>6, <1>7, <1>12, <3>3, <4>1 DEF Hangs
      <4>4. EndsOK(q)
        BY DEF IOIndInv
      <4> QED
        BY <1>4, <1>8, <3>1, <3>2, <4>2, <4>3, <4>4, EndsMoved
    <3>4. CASE ~(ispipe /\ ftable[f].pipe = q)
      <4>1. \A w \in BOOLEAN : ~FileHas(f, q, w)
        BY <3>4 DEF FileHas
      <4>2. \A w \in BOOLEAN : ~Hangs(p, q, w) /\ ~Hangs(p, q, w)'
        BY <1>4, <1>6, <1>7, <3>4 DEF Hangs
      <4>3. /\ \A w \in BOOLEAN, g \in Files : FileHas(g, q, w)' <=> FileHas(g, q, w)
            /\ \A w \in BOOLEAN, r \in Procs : Hangs(r, q, w)' <=> Hangs(r, q, w)
        BY <3>1, <3>2, <4>1, <4>2
      <4> QED
        BY <1>4, <4>3, EndsKept DEF IOIndInv
    <3> QED
      BY <3>3, <3>4
  <2> QED
    BY <2>2, <2>3, <2>4, <2>5, <2>6, <2>7, <2>8 DEF IOIndInv
<1> QED
  BY <1>11, <1>12


LEMMA PipecloseIs ==
  ASSUME NEW t \in StructPipe, NEW v \in BOOLEAN, Sub(t.nwrite, t.nread) <= PIPESIZE
  PROVE  /\ pipeclose(t, v) \in StructPipe
         /\ v => ~pipeclose(t, v).writeopen /\ (pipeclose(t, v).readopen <=> t.readopen)
         /\ ~v => ~pipeclose(t, v).readopen /\ (pipeclose(t, v).writeopen <=> t.writeopen)
         /\ (t.used <=> t.readopen \/ t.writeopen)
              => (pipeclose(t, v).used <=> pipeclose(t, v).readopen \/ pipeclose(t, v).writeopen)
         /\ pipeclose(t, v).readopen \/ pipeclose(t, v).writeopen
              => pipeclose(t, v).nread = t.nread /\ pipeclose(t, v).nwrite = t.nwrite
                 /\ pipeclose(t, v).data = t.data
         /\ Sub(pipeclose(t, v).nwrite, pipeclose(t, v).nread) <= PIPESIZE
<1> DEFINE c == IF v THEN [t EXCEPT !.writeopen = FALSE] ELSE [t EXCEPT !.readopen = FALSE]
<1>1. pipeclose(t, v) = IF c.readopen \/ c.writeopen THEN c ELSE FreePage
  BY DEF pipeclose
<1>2. /\ c \in StructPipe /\ c.nread = t.nread /\ c.nwrite = t.nwrite /\ c.data = t.data
      /\ c.used = t.used
      /\ v => ~c.writeopen /\ c.readopen = t.readopen
      /\ ~v => ~c.readopen /\ c.writeopen = t.writeopen
  BY DEF StructPipe
<1> HIDE DEF c
<1>3. /\ FreePage \in StructPipe /\ ~FreePage.used /\ ~FreePage.readopen /\ ~FreePage.writeopen
      /\ FreePage.nread = 0 /\ FreePage.nwrite = 0
  BY Constants DEF FreePage
<1>4. Sub(0, 0) <= PIPESIZE
  BY Sizes, SubIs DEF Index
<1>5. t.used \in BOOLEAN /\ t.readopen \in BOOLEAN /\ t.writeopen \in BOOLEAN
  BY DEF StructPipe
<1> QED
  BY <1>1, <1>2, <1>3, <1>4, <1>5

LEMMA Chans ==
  ASSUME NEW q, NEW x
  PROVE  /\ nread(q) # nwrite(x) /\ nread(q) # inputr /\ nwrite(q) # inputr
         /\ nread(q) = nread(x) => q = x
         /\ nwrite(q) = nwrite(x) => q = x
BY DEF nread, nwrite, inputr

(* The process that closes an end of a pipe is the only one that has it. *)
LEMMA EndsHungUp ==
  ASSUME NEW q \in Pages, EndsOK(q), NEW p \in Procs, NEW v \in BOOLEAN, Hangs(p, q, v),
         pipe'[q].used <=> pipe'[q].readopen \/ pipe'[q].writeopen,
         \A w \in BOOLEAN : Open(q, w)' <=> Open(q, w) /\ w # v,
         \A w \in BOOLEAN, f \in Files : FileHas(f, q, w)' <=> FileHas(f, q, w),
         \A w \in BOOLEAN, r \in Procs : Hangs(r, q, w)' <=> Hangs(r, q, w) /\ r # p
  PROVE  EndsOK(q)'
<1>1. \A w \in BOOLEAN : Hangs(p, q, w) => w = v
  BY DEF Hangs
<1>2. ASSUME NEW w \in BOOLEAN
      PROVE  /\ Open(q, w)' <=> (\E g \in Files : FileHas(g, q, w)') \/ (\E r \in Procs : Hangs(r, q, w)')
             /\ \A g, h \in Files : FileHas(g, q, w)' /\ FileHas(h, q, w)' => g = h
             /\ \A r, s \in Procs : Hangs(r, q, w)' /\ Hangs(s, q, w)' => r = s
             /\ \A g \in Files, r \in Procs : ~(FileHas(g, q, w)' /\ Hangs(r, q, w)')
  <2>1. /\ Open(q, w) <=> (\E g \in Files : FileHas(g, q, w)) \/ (\E r \in Procs : Hangs(r, q, w))
        /\ \A g, h \in Files : FileHas(g, q, w) /\ FileHas(h, q, w) => g = h
        /\ \A r, s \in Procs : Hangs(r, q, w) /\ Hangs(s, q, w) => r = s
        /\ \A g \in Files, r \in Procs : ~(FileHas(g, q, w) /\ Hangs(r, q, w))
    BY Zenon DEF EndsOK
  <2>2. CASE w = v
    BY <2>1, <2>2
  <2>3. CASE w # v
    BY <1>1, <2>1, <2>3
  <2> QED
    BY <2>2, <2>3
<1> QED
  BY <1>2, Zenon DEF EndsOK

LEMMA FileclosePipeStep ==
  ASSUME IOIndInv, NEW p \in Procs, fileclose_pipe(p)
  PROVE  IOIndInv'
<1>0. TypeOK /\ FilesOK /\ FileRefs /\ Local(p) /\ RingsOK /\ SleepsForReason
  BY DEF IOIndInv
<1>1. /\ loc[p].pc = "pipeclose" /\ proc[p].state = "run"
      /\ UNCHANGED <<ftable, ofile, input, buf, events>>
  BY DEF fileclose_pipe, At, Quiet
<1>2. PICK ff \in StructFile : ff = loc[p].ff
  BY <1>0 DEF TypeOK, Locals
<1>3. PICK q \in Pages : q = ff.pipe
  BY <1>0, <1>1, <1>2 DEF Local
<1>4. PICK v \in BOOLEAN : v = ff.writable
  BY <1>2 DEF StructFile
<1>5. /\ pipe' = [pipe EXCEPT ![q] = pipeclose(pipe[q], v)]
      /\ proc' = Wake(proc, OtherEnd(ff))
      /\ loc' = [loc EXCEPT ![p] = [loc[p] EXCEPT !.pc = "fileclose", !.ff = NoFile]]
      /\ cut' = IF v THEN cut \ {q} ELSE cut
  BY <1>2, <1>3, <1>4 DEF fileclose_pipe
<1>6. /\ \A r \in Procs : r # p => loc'[r] = loc[r]
      /\ loc'[p].pc = "fileclose" /\ loc'[p].ff = NoFile /\ loc'[p].close = loc[p].close
      /\ loc'[p].got = loc[p].got /\ loc'[p] \in Locals
  BY <1>0, <1>5, Constants DEF TypeOK, Locals, Points
<1>7. pipe[q] \in StructPipe /\ Sub(pipe[q].nwrite, pipe[q].nread) <= PIPESIZE
  BY <1>0 DEF TypeOK, RingsOK
<1>8. /\ pipe'[q] \in StructPipe
      /\ v => ~pipe'[q].writeopen /\ (pipe'[q].readopen <=> pipe[q].readopen)
      /\ ~v => ~pipe'[q].readopen /\ (pipe'[q].writeopen <=> pipe[q].writeopen)
      /\ (pipe[q].used <=> pipe[q].readopen \/ pipe[q].writeopen)
           => (pipe'[q].used <=> pipe'[q].readopen \/ pipe'[q].writeopen)
      /\ pipe'[q].readopen \/ pipe'[q].writeopen
           => pipe'[q].nread = pipe[q].nread /\ pipe'[q].nwrite = pipe[q].nwrite
              /\ pipe'[q].data = pipe[q].data
      /\ Sub(pipe'[q].nwrite, pipe'[q].nread) <= PIPESIZE
      /\ \A x \in Pages : x # q => pipe'[x] = pipe[x]
  <2>1. pipe'[q] = pipeclose(pipe[q], v) /\ \A x \in Pages : x # q => pipe'[x] = pipe[x]
    BY <1>0, <1>5 DEF TypeOK
  <2> QED
    BY <1>7, <2>1, PipecloseIs
<1>9. /\ proc' \in [Procs -> StructProc]
      /\ \A r \in Procs :
           /\ proc'[r] = proc[r] \/ proc'[r].state = "run"
           /\ proc'[r].killed = proc[r].killed
           /\ proc'[r].state = "sleep" => proc'[r] = proc[r] /\ proc[r].chan # OtherEnd(ff)
           /\ proc[r].state # "sleep" => proc'[r] = proc[r]
  <2>1. proc \in [Procs -> StructProc]
    BY <1>0 DEF TypeOK
  <2> QED
    BY <1>5, <2>1, WakeIs
<1>10. TypeOK'
  <2>1. pipe' \in [Pages -> StructPipe] /\ loc' \in [Procs -> Locals] /\ cut' \subseteq Pages
    BY <1>0, <1>5, <1>6, <1>8 DEF TypeOK
  <2> QED
    BY <1>0, <1>1, <1>9, <2>1 DEF TypeOK
<1>11. FilesOK' /\ FileRefs'
  BY <1>0, <1>1, <1>6, RefsKept DEF FilesOK
<1>12. RingsOK'
  BY <1>0, <1>1, <1>8 DEF RingsOK
<1>13. SleepsForReason'
  <2>1. ASSUME NEW r \in Procs, NEW x \in Pages, proc'[r].state = "sleep"
        PROVE  /\ proc'[r].chan = nread(x) =>
                    /\ pipe'[x].writeopen
                    /\ Empty(pipe[x])' \/ x \in cut'
               /\ proc'[r].chan = nwrite(x) => Full(pipe[x])' /\ pipe'[x].readopen
               /\ proc'[r].chan = inputr => input'.r = input'.w
    <3>1. proc[r].state = "sleep" /\ proc'[r].chan = proc[r].chan /\ proc[r].chan # OtherEnd(ff)
      BY <1>9, <2>1
    <3>2. /\ proc[r].chan = nread(x) =>
               pipe[x].writeopen /\ (Empty(pipe[x]) \/ x \in cut)
          /\ proc[r].chan = nwrite(x) => Full(pipe[x]) /\ pipe[x].readopen
          /\ proc[r].chan = inputr => input.r = input.w
      BY <1>0, <3>1 DEF SleepsForReason
    <3>3. x \in cut /\ (v => x # q) => x \in cut'
      BY <1>5
    <3>4. CASE x # q
      BY <1>1, <1>8, <3>1, <3>2, <3>3, <3>4 DEF Empty, Full
    <3>5. CASE x = q
      <4>1. IF v THEN proc[r].chan # nread(q) ELSE proc[r].chan # nwrite(q)
        BY <1>3, <1>4, <3>1 DEF OtherEnd
      <4> QED
        BY <1>1, <1>8, <3>1, <3>2, <3>3, <3>5, <4>1 DEF Empty, Full
    <3> QED
      BY <3>4, <3>5
  <2> QED
    BY <2>1 DEF SleepsForReason
<1>14. ASSUME NEW r \in Procs PROVE Local(r)'
  <2>1. CASE r = p
    BY <1>0, <1>1, <1>6, <1>9, <2>1 DEF Local, Using
  <2>2. CASE r # p
    BY <1>1, <1>6, <1>9, <2>2, LocalKept DEF IOIndInv
  <2> QED
    BY <2>1, <2>2
<1>15. ASSUME NEW x \in Pages PROVE EndsOK(x)'
  <2>0. EndsOK(x)
    BY DEF IOIndInv
  <2>1. \A w \in BOOLEAN, f \in Files : FileHas(f, x, w)' <=> FileHas(f, x, w)
    BY <1>1 DEF FileHas
  <2>2. \A w \in BOOLEAN, r \in Procs : Hangs(r, x, w)' <=> Hangs(r, x, w) /\ r # p
    BY <1>6 DEF Hangs
  <2>3. CASE x = q
    <3>1. Hangs(p, q, v)
      BY <1>1, <1>2, <1>3, <1>4 DEF Hangs
    <3>2. \A w \in BOOLEAN : Open(q, w)' <=> Open(q, w) /\ w # v
      BY <1>8 DEF Open
    <3>3. pipe'[q].used <=> pipe'[q].readopen \/ pipe'[q].writeopen
      BY <1>8, <2>0, <2>3 DEF EndsOK
    <3> QED
      BY <2>0, <2>1, <2>2, <2>3, <3>1, <3>2, <3>3, EndsHungUp
  <2>4. CASE x # q
    <3>1. \A w \in BOOLEAN : ~Hangs(p, x, w)
      BY <1>2, <1>3, <2>4 DEF Hangs
    <3> QED
      BY <1>8, <2>0, <2>1, <2>2, <2>4, <3>1, EndsKept
  <2> QED
    BY <2>3, <2>4
<1> QED
  BY <1>10, <1>11, <1>12, <1>13, <1>14, <1>15 DEF IOIndInv


-----------------------------------------------------------------------------
(* A new pipe.                                                             *)

(* Process p has put the two files of its new pipe into the places y0, y1. *)
LEMMA BothPlaced ==
  ASSUME IOIndInv, NEW p \in Procs, loc[p].pc = "pipealloc",
         NEW f0 \in Files, f0 = loc[p].file, NEW f1 \in Files, ftable[f1].ref = 0,
         NEW y0 \in Places, NEW y1 \in Places, y0 # y1, y0 # -1, y1 # -1,
         \A g \in Files : ~Holds(g, p, y0) /\ ~Holds(g, p, y1),
         \A g \in Files, x \in Places :
           Holds(g, p, x)' <=> \/ Holds(g, p, x) /\ x # -1
                               \/ g = f0 /\ x = y0
                               \/ g = f1 /\ x = y1,
         \A g \in Files, r \in Procs, x \in Places : r # p => (Holds(g, r, x)' <=> Holds(g, r, x))
  PROVE  \A g \in Files : Cardinality(Holders(g)') = IF g = f1 THEN 1 ELSE ftable[g].ref
<1>0. FileRefs /\ Local(p)
  BY DEF IOIndInv
<1>1. -1 \in Places
  BY Consts DEF Places
<1>2. Holds(f0, p, -1) /\ ftable[f0].ref = 1 /\ f0 # f1
  BY <1>0 DEF Local, Holds
<1>3. \A g \in Files : Holds(g, p, -1) => g = f0
  BY Consts DEF Holds, Fds
<1>4. \A r \in Procs, x \in Places : ~Holds(f1, r, x)
  BY <1>0, NotCounted
<1>5. Cardinality(Holders(f0)') = Cardinality(Holders(f0))
  <2>1. ~Holds(f0, p, -1)' /\ ~Holds(f0, p, y0) /\ Holds(f0, p, y0)'
    BY <1>1
  <2>2. \A r \in Procs, x \in Places :
          r # p \/ x \notin {-1, y0} => (Holds(f0, r, x)' <=> Holds(f0, r, x))
    BY <1>2
  <2> QED
    BY <1>1, <1>2, <2>1, <2>2, Moves
<1>6. Cardinality(Holders(f1)') = Cardinality(Holders(f1)) + 1
  <2>1. Holds(f1, p, y1)'
    OBVIOUS
  <2>2. \A r \in Procs, x \in Places : r # p \/ x # y1 => (Holds(f1, r, x)' <=> Holds(f1, r, x))
    BY <1>2, <1>4
  <2> QED
    BY <1>4, <2>1, <2>2, Gains
<1>7. ASSUME NEW g \in Files, g # f0, g # f1 PROVE Holders(g)' = Holders(g)
  <2>1. \A r \in Procs, x \in Places : Holds(g, r, x)' <=> Holds(g, r, x)
    BY <1>3, <1>7
  <2> QED
    BY <2>1, HoldersSame
<1>8. \A g \in Files : ftable[g].ref = Cardinality(Holders(g))
  BY <1>0 DEF FileRefs
<1>9. ASSUME NEW g \in Files PROVE Cardinality(Holders(g)') = IF g = f1 THEN 1 ELSE ftable[g].ref
  <2>1. CASE g = f1
    BY <1>6, <1>8, <2>1
  <2>2. CASE g = f0
    BY <1>2, <1>5, <1>8, <2>2
  <2>3. CASE g # f0 /\ g # f1
    BY <1>7, <1>8, <2>3
  <2> QED
    BY <2>1, <2>2, <2>3
<1> QED
  BY <1>9

(* Two free descriptors. *)
LEMMA TwoFds ==
  ASSUME TypeOK, NEW p \in Procs, ~(Cardinality(FreeFds(p)) < 2)
  PROVE  LET d0 == Min(FreeFds(p))
             d1 == Min(FreeFds(p) \ {d0})
         IN d0 \in Fds /\ d1 \in Fds /\ d0 # d1 /\ ofile[p][d0] = NULL /\ ofile[p][d1] = NULL
<1> DEFINE F == FreeFds(p)
           d0 == Min(F)
           d1 == Min(F \ {d0})
<1>1. F \subseteq Fds /\ F \subseteq Nat /\ \A d \in F : ofile[p][d] = NULL
  BY Consts DEF FreeFds, Fds
<1>2. IsFiniteSet(Fds)
  BY Consts, FS_Interval DEF Fds
<1>3. IsFiniteSet(F) /\ Cardinality(F) \in Nat
  BY <1>1, <1>2, FS_Subset, FS_CardinalityType
<1> HIDE DEF F
<1>4. ~(Cardinality(F) < 2)
  BY DEF F
<1>5. F # {}
  BY <1>3, <1>4, FS_EmptySet
<1>6. d0 \in F
  BY <1>1, <1>5, MinIs
<1>7. IsFiniteSet(F \ {d0}) /\ Cardinality(F \ {d0}) = Cardinality(F) - 1
  BY <1>3, <1>6, FS_RemoveElement
<1>8. F \ {d0} # {}
  <2>1. Cardinality(F \ {d0}) # 0
    BY <1>3, <1>4, <1>7
  <2> QED
    BY <2>1, FS_EmptySet
<1>9. d1 \in F \ {d0}
  BY <1>1, <1>8, MinIs
<1>10. d0 \in Fds /\ d1 \in Fds /\ d0 # d1 /\ ofile[p][d0] = NULL /\ ofile[p][d1] = NULL
  BY <1>1, <1>6, <1>9
<1> QED
  BY <1>10 DEF F

LEMMA ClosingIs ==
  ASSUME IOIndInv, NEW p \in Procs, loc[p].pc = "pipealloc", NEW fs \in Seq(Files \cup {NULL}),
         Closing(p, fs)
  PROVE  /\ loc' \in [Procs -> Locals] /\ \A r \in Procs : r # p => loc'[r] = loc[r]
         /\ loc'[p].pc = "fileclose" /\ loc'[p].close = fs /\ loc'[p].ff = NoFile
         /\ loc'[p].got = <<>>
<1>1. loc \in [Procs -> Locals] /\ loc[p] \in Locals /\ loc[p].ff = NoFile /\ loc[p].got = <<>>
  BY DEF IOIndInv, TypeOK, Local
<1> DEFINE l == [loc[p] EXCEPT !.pc = "fileclose", !.file = NULL, !.close = fs]
<1>2. loc' = [loc EXCEPT ![p] = l]
  BY DEF Closing
<1>3. /\ l \in Locals /\ l.pc = "fileclose" /\ l.close = fs /\ l.ff = loc[p].ff
      /\ l.got = loc[p].got
  BY <1>1 DEF Locals, Points
<1> HIDE DEF l
<1> QED
  BY <1>1, <1>2, <1>3

(* The first file, in any case. *)
LEMMA FirstFile ==
  ASSUME IOIndInv, NEW p \in Procs, loc[p].pc = "pipealloc"
  PROVE  /\ loc[p].file \in Files /\ ftable[loc[p].file].ref = 1
         /\ ftable[loc[p].file].type = "none" /\ loc[p].close = <<>>
         /\ \A r \in Procs : r # p /\ (loc[r].pc = "pipealloc" \/ Using(r)) => loc[r].file # loc[p].file
<1>1. /\ loc[p].file \in Files /\ ftable[loc[p].file].ref = 1
      /\ ftable[loc[p].file].type = "none" /\ loc[p].close = <<>>
  BY DEF IOIndInv, Local
<1>2. PICK f \in Files : f = loc[p].file
  BY <1>1
<1>3. -1 \in Places /\ Holds(f, p, -1)
  BY <1>2, Consts DEF Places, Holds
<1>4. \A r \in Procs : r # p /\ (loc[r].pc = "pipealloc" \/ Using(r)) => loc[r].file # f
  BY <1>1, <1>2, <1>3, NotMine
<1> QED
  BY <1>1, <1>2, <1>4

(* The places of files about to be closed. *)
LEMMA ClosePlaces ==
  /\ NOFILE \in Places /\ NOFILE + 1 \in Places /\ -1 \in Places /\ Fds \subseteq Places
  /\ NOFILE # -1 /\ NOFILE + 1 # -1 /\ NOFILE # NOFILE + 1
  /\ \A x \in Fds : x # -1 /\ x \notin NOFILE .. 2 * NOFILE
  /\ \A x \in Places : x \in NOFILE .. 2 * NOFILE => x \notin Fds /\ x # -1
  /\ \A x \in Places : /\ x \in NOFILE .. 2 * NOFILE /\ x - NOFILE + 1 = 1 <=> x = NOFILE
                       /\ x \in NOFILE .. 2 * NOFILE /\ x - NOFILE + 1 = 2 <=> x = NOFILE + 1
BY Consts DEF Places, Fds


LEMMA HoldsIs ==
  ASSUME NEW g, NEW r \in Procs, NEW x \in Places
  PROVE  /\ x \in Fds => /\ Holds(g, r, x) <=> ofile[r][x] = g
                         /\ Holds(g, r, x)' <=> ofile'[r][x] = g
         /\ x = -1 => /\ Holds(g, r, x) <=> loc[r].pc = "pipealloc" /\ loc[r].file = g
                      /\ Holds(g, r, x)' <=> loc'[r].pc = "pipealloc" /\ loc'[r].file = g
         /\ x \in NOFILE .. 2 * NOFILE =>
              /\ Holds(g, r, x) <=> /\ x - NOFILE + 1 \in DOMAIN loc[r].close
                                   /\ loc[r].close[x - NOFILE + 1] = g
              /\ Holds(g, r, x)' <=> /\ x - NOFILE + 1 \in DOMAIN loc'[r].close
                                    /\ loc'[r].close[x - NOFILE + 1] = g
         /\ x \in Fds \/ x = -1 \/ x \in NOFILE .. 2 * NOFILE
<1>1. x \in Fds \/ x = -1 \/ x \in NOFILE .. 2 * NOFILE
  BY Consts DEF Fds, Places
<1> QED
  BY <1>1, ClosePlaces DEF Holds

(* The two files f0 and f1 are in place, as files of pipe q or to be       *)
(* closed; q was free.                                                     *)
LEMMA EndsMade ==
  ASSUME NEW q \in Pages, EndsOK(q), ~pipe[q].used, NEW f0 \in Files, NEW f1 \in Files, f0 # f1,
         pipe'[q].used, pipe'[q].readopen, pipe'[q].writeopen,
         \A g \in Files \ {f0, f1} : ftable'[g] = ftable[g],
         ftable'[f0] = PipeFile(q, FALSE), ftable'[f1] = PipeFile(q, TRUE),
         \A w \in BOOLEAN, r \in Procs : Hangs(r, q, w)' <=> Hangs(r, q, w)
  PROVE  EndsOK(q)'
<1>1. \A w \in BOOLEAN : ~Open(q, w)
  BY DEF EndsOK, Open
<1>2. \A w \in BOOLEAN : (\A g \in Files : ~FileHas(g, q, w)) /\ (\A r \in Procs : ~Hangs(r, q, w))
  BY <1>1, Zenon DEF EndsOK
<1>3. \A w \in BOOLEAN, r \in Procs : ~Hangs(r, q, w)'
  BY <1>2
<1>4. \A w \in BOOLEAN, g \in Files :
        FileHas(g, q, w)' <=> (g = f0 /\ w = FALSE) \/ (g = f1 /\ w = TRUE)
  <2>1. \A w \in BOOLEAN, g \in Files \ {f0, f1} : ~FileHas(g, q, w)'
    BY <1>2 DEF FileHas
  <2>2. \A w \in BOOLEAN : FileHas(f0, q, w)' <=> w = FALSE
    <3>1. /\ ftable'[f0].type = "pipe" /\ ftable'[f0].pipe = q
          /\ ftable'[f0].writable = FALSE
      BY DEF PipeFile
    <3> QED
      BY <3>1, Zenon DEF FileHas
  <2>3. \A w \in BOOLEAN : FileHas(f1, q, w)' <=> w = TRUE
    <3>1. /\ ftable'[f1].type = "pipe" /\ ftable'[f1].pipe = q
          /\ ftable'[f1].writable = TRUE
      BY DEF PipeFile
    <3> QED
      BY <3>1, Zenon DEF FileHas
  <2> QED
    BY <2>1, <2>2, <2>3
<1>5. \A w \in BOOLEAN : Open(q, w)'
  BY DEF Open
<1>6. ASSUME NEW w \in BOOLEAN
      PROVE  /\ Open(q, w)' <=> (\E g \in Files : FileHas(g, q, w)') \/ (\E r \in Procs : Hangs(r, q, w)')
             /\ \A g, h \in Files : FileHas(g, q, w)' /\ FileHas(h, q, w)' => g = h
             /\ \A r, s \in Procs : Hangs(r, q, w)' /\ Hangs(s, q, w)' => r = s
             /\ \A g \in Files, r \in Procs : ~(FileHas(g, q, w)' /\ Hangs(r, q, w)')
  BY <1>3, <1>4, <1>5
<1> QED
  BY <1>6, Zenon DEF EndsOK

LEMMA PipeallocIs ==
  ASSUME NEW t \in StructPipe
  PROVE  /\ pipealloc(t) \in StructPipe /\ pipealloc(t).used /\ pipealloc(t).readopen
         /\ pipealloc(t).writeopen /\ Sub(pipealloc(t).nwrite, pipealloc(t).nread) <= PIPESIZE
         /\ pipealloc(t).nwrite = 0 /\ pipealloc(t).nread = 0
<1>1. 0 \in Index /\ Sub(0, 0) <= PIPESIZE
  BY Sizes, SubIs DEF Index
<1> QED
  BY <1>1 DEF pipealloc, StructPipe

LEMMA Pipealloc2Step ==
  ASSUME IOIndInv, NEW p \in Procs, pipealloc2(p)
  PROVE  IOIndInv'
<1>0. TypeOK /\ FilesOK /\ FileRefs /\ RingsOK /\ SleepsForReason
  BY DEF IOIndInv
<1>1. /\ loc[p].pc = "pipealloc" /\ proc[p].state = "run"
      /\ UNCHANGED <<input, proc, buf, events, cut>>
  BY DEF pipealloc2, At, Quiet
<1>2. PICK f0 \in Files :
        /\ f0 = loc[p].file /\ ftable[f0].ref = 1 /\ ftable[f0].type = "none" /\ loc[p].close = <<>>
        /\ \A r \in Procs : r # p /\ (loc[r].pc = "pipealloc" \/ Using(r)) => loc[r].file # f0
  BY <1>1, FirstFile
<1>3. \A r \in Procs : Local(r) /\ (loc[r].pc = "pipealloc" \/ Using(r) => loc[r].file \in Files)
  BY DEF IOIndInv, Local
<1>4. CASE Unused = {}
  <2>1. Closing(p, <<f0>>) /\ UNCHANGED <<ftable, ofile, pipe, cut>>
    BY <1>2, <1>4 DEF pipealloc2
  <2>2. /\ loc' \in [Procs -> Locals] /\ \A r \in Procs : r # p => loc'[r] = loc[r]
        /\ loc'[p].pc = "fileclose" /\ loc'[p].close = <<f0>> /\ loc'[p].ff = NoFile
        /\ loc'[p].got = <<>>
    <3>1. <<f0>> \in Seq(Files \cup {NULL})
      OBVIOUS
    <3> QED
      BY <1>1, <2>1, <3>1, ClosingIs
  <2>3. TypeOK'
    BY <1>0, <1>1, <2>1, <2>2 DEF TypeOK
  <2>4. FileRefs'
    <3>1. DOMAIN <<f0>> = {1} /\ DOMAIN <<>> = {} /\ <<f0>>[1] = f0
      OBVIOUS
    <3>2. \A g \in Files, r \in Procs, x \in Places :
            r # p \/ x \notin {-1, NOFILE} \/ g # f0 => (Holds(g, r, x)' <=> Holds(g, r, x))
      <4> TAKE g \in Files, r \in Procs, x \in Places
      <4> HAVE r # p \/ x \notin {-1, NOFILE} \/ g # f0
      <4>1. CASE r # p
        BY <2>1, <2>2, <4>1, HoldsIs
      <4>2. CASE r = p /\ x \in Fds
        BY <2>1, <4>2, HoldsIs
      <4>3. CASE r = p /\ x = -1
        BY <1>2, <2>2, <4>3, HoldsIs
      <4>4. CASE r = p /\ x \in NOFILE .. 2 * NOFILE
        BY <1>2, <2>2, <3>1, <4>4, HoldsIs, ClosePlaces
      <4> QED
        BY <4>1, <4>2, <4>3, <4>4, HoldsIs
    <3>3. Holds(f0, p, -1) /\ ~Holds(f0, p, -1)' /\ ~Holds(f0, p, NOFILE) /\ Holds(f0, p, NOFILE)'
      BY <1>1, <1>2, <2>1, <2>2, <3>1, ClosePlaces, Consts DEF Holds
    <3>4. Cardinality(Holders(f0)') = Cardinality(Holders(f0))
      BY <3>2, <3>3, ClosePlaces, Moves
    <3>5. \A g \in Files : g # f0 => Holders(g)' = Holders(g)
      BY <3>2, HoldersSame
    <3>6. \A g \in Files : Cardinality(Holders(g)') = Cardinality(Holders(g))
      BY <3>4, <3>5
    <3> QED
      BY <1>0, <2>1, <3>6 DEF FileRefs
  <2>5. /\ FilesOK' /\ RingsOK' /\ SleepsForReason' /\ \A q \in Pages : EndsOK(q)'
        /\ \A r \in Procs \ {p} : Local(r)'
    <3>1. \A g \in Files : ftable[g].ref = 0 => ftable[g].type = "none"
      BY <1>0 DEF FilesOK
    <3>2. {p} \in SUBSET Procs /\ \A r \in {p} : {loc[r].pc, loc'[r].pc} \cap {"pipeclose"} = {}
      BY <1>1, <2>2
    <3> QED
      BY <1>1, <2>1, <2>2, <3>1, <3>2, OnlyRefs
  <2>6. Local(p)'
    <3>1. Len(<<f0>>) <= NOFILE
      BY Consts
    <3> QED
      BY <1>1, <2>2, <3>1 DEF Local, Using
  <2> QED
    BY <2>3, <2>4, <2>5, <2>6 DEF IOIndInv
<1>5. CASE Unused # {}
  <2>1. PICK f1 \in Files : f1 = Min(Unused) /\ ftable[f1].ref = 0
    BY <1>0, <1>5, UnusedMin
  <2>2. /\ f0 # f1 /\ ftable[f1].type = "none"
        /\ \A r \in Procs : loc[r].pc = "pipealloc" \/ Using(r) => loc[r].file # f1
    BY <1>0, <1>2, <2>1, FreeNotMine DEF FilesOK
  <2> DEFINE free == {q \in Pages : ~pipe[q].used}
             q0 == CHOOSE x \in free : TRUE
             d0 == Min(FreeFds(p))
             d1 == Min(FreeFds(p) \ {d0})
  <2>3. IF free = {}
        THEN ftable' = filealloc /\ Closing(p, <<f0, f1>>) /\ UNCHANGED <<ofile, pipe, cut>>
        ELSE /\ ftable' = [ftable EXCEPT ![f0] = PipeFile(q0, FALSE), ![f1] = PipeFile(q0, TRUE)]
             /\ pipe' = [pipe EXCEPT ![q0] = pipealloc(@)]
             /\ IF Cardinality(FreeFds(p)) < 2
                THEN Closing(p, <<f0, f1>>) /\ UNCHANGED ofile
                ELSE /\ ofile' = [ofile EXCEPT ![p][d0] = f0, ![p][d1] = f1]
                     /\ Returned(p)
    BY <1>2, <1>5, <2>1, Zenon DEF pipealloc2
  <2>4. DOMAIN <<f0, f1>> = {1, 2} /\ DOMAIN <<>> = {} /\ <<f0, f1>>[1] = f0 /\ <<f0, f1>>[2] = f1
    OBVIOUS
  (* The files go into the list of files to close, or into descriptors. *)
  <2>5. ASSUME Closing(p, <<f0, f1>>), UNCHANGED ofile
        PROVE  /\ loc' \in [Procs -> Locals] /\ \A r \in Procs : r # p => loc'[r] = loc[r]
               /\ loc'[p].pc \notin {"pipealloc", "pipeclose"}
               /\ ofile' \in [Procs -> [Fds -> Files \cup {NULL}]]
               /\ \A r \in Procs : r # p => ofile'[r] = ofile[r]
               /\ \A g \in Files : Cardinality(Holders(g)') = IF g = f1 THEN 1 ELSE ftable[g].ref
               /\ Local(p)'
    <3>1. <<f0, f1>> \in Seq(Files \cup {NULL}) /\ Len(<<f0, f1>>) = 2
      OBVIOUS
    <3>2. /\ loc' \in [Procs -> Locals] /\ \A r \in Procs : r # p => loc'[r] = loc[r]
          /\ loc'[p].pc = "fileclose" /\ loc'[p].close = <<f0, f1>> /\ loc'[p].ff = NoFile
          /\ loc'[p].got = <<>>
      BY <1>1, <2>5, <3>1, ClosingIs
    <3>3. \A g \in Files : Cardinality(Holders(g)') = IF g = f1 THEN 1 ELSE ftable[g].ref
      <4>1. \A g \in Files : ~Holds(g, p, NOFILE) /\ ~Holds(g, p, NOFILE + 1)
        BY <1>2, <2>4, ClosePlaces DEF Holds
      <4>2. \A g \in Files, x \in Places :
              Holds(g, p, x)' <=> \/ Holds(g, p, x) /\ x # -1
                                  \/ g = f0 /\ x = NOFILE
                                  \/ g = f1 /\ x = NOFILE + 1
        BY <1>2, <2>4, <2>5, <3>2, ClosePlaces DEF Holds
      <4>3. \A g \in Files, r \in Procs, x \in Places : r # p => (Holds(g, r, x)' <=> Holds(g, r, x))
        BY <2>5, <3>2 DEF Holds
      <4> QED
        BY <1>1, <1>2, <2>1, <4>1, <4>2, <4>3, ClosePlaces, BothPlaced
    <3>4. Local(p)'
      BY <1>1, <3>1, <3>2, Consts DEF Local, Using
    <3> QED
      BY <1>0, <2>5, <3>2, <3>3, <3>4 DEF TypeOK
  <2>6. ASSUME ofile' = [ofile EXCEPT ![p][d0] = f0, ![p][d1] = f1], Returned(p),
               ~(Cardinality(FreeFds(p)) < 2)
        PROVE  /\ loc' \in [Procs -> Locals] /\ \A r \in Procs : r # p => loc'[r] = loc[r]
               /\ loc'[p].pc \notin {"pipealloc", "pipeclose"}
               /\ ofile' \in [Procs -> [Fds -> Files \cup {NULL}]]
               /\ \A r \in Procs : r # p => ofile'[r] = ofile[r]
               /\ \A g \in Files : Cardinality(Holders(g)') = IF g = f1 THEN 1 ELSE ftable[g].ref
               /\ Local(p)'
    <3>1. PICK e0 \in Fds, e1 \in Fds :
            e0 = d0 /\ e1 = d1 /\ e0 # e1 /\ ofile[p][e0] = NULL /\ ofile[p][e1] = NULL
      BY <1>0, <2>6, TwoFds
    <3>2. /\ ofile' \in [Procs -> [Fds -> Files \cup {NULL}]]
          /\ \A r \in Procs : r # p => ofile'[r] = ofile[r]
          /\ \A x \in Fds : ofile'[p][x] = IF x = e0 THEN f0 ELSE IF x = e1 THEN f1 ELSE ofile[p][x]
      BY <1>0, <2>6, <3>1 DEF TypeOK
    <3>3. /\ loc' \in [Procs -> Locals] /\ \A r \in Procs : r # p => loc'[r] = loc[r]
          /\ loc'[p] = Idle
      BY <1>0, <2>6, Constants DEF TypeOK, Returned
    <3>4. loc'[p].pc = "idle" /\ loc'[p].close = <<>> /\ Idle.close = <<>>
      BY <3>3 DEF Idle
    <3>5. \A g \in Files : Cardinality(Holders(g)') = IF g = f1 THEN 1 ELSE ftable[g].ref
      <4>1. \A g \in Files : ~Holds(g, p, e0) /\ ~Holds(g, p, e1)
        BY <1>2, <3>1, ClosePlaces, Consts DEF Holds
      <4>2. \A g \in Files, x \in Places :
              Holds(g, p, x)' <=> \/ Holds(g, p, x) /\ x # -1
                                  \/ g = f0 /\ x = e0
                                  \/ g = f1 /\ x = e1
        <5> TAKE g \in Files, x \in Places
        <5>1. CASE x \in Fds
          <6>1. (Holds(g, p, x) <=> ofile[p][x] = g) /\ (Holds(g, p, x)' <=> ofile'[p][x] = g)
            BY <5>1, HoldsIs
          <6>2. x # -1 /\ g # NULL
            BY <5>1, ClosePlaces, Consts
          <6> QED
            BY <3>1, <3>2, <5>1, <6>1, <6>2
        <5>2. CASE x = -1
          BY <3>1, <3>4, <5>2, HoldsIs, ClosePlaces
        <5>3. CASE x \in NOFILE .. 2 * NOFILE
          BY <1>2, <2>4, <3>1, <3>4, <5>3, HoldsIs, ClosePlaces
        <5> QED
          BY <5>1, <5>2, <5>3, HoldsIs
      <4>3. \A g \in Files, r \in Procs, x \in Places : r # p => (Holds(g, r, x)' <=> Holds(g, r, x))
        BY <3>2, <3>3 DEF Holds
      <4>4. e0 \in Places /\ e1 \in Places /\ e0 # -1 /\ e1 # -1 /\ e0 # e1
        BY <3>1, ClosePlaces
      <4> QED
        BY <1>1, <1>2, <2>1, <4>1, <4>2, <4>3, <4>4, BothPlaced
    <3>6. Local(p)'
      <4>1. Len(<<>>) <= NOFILE
        BY Consts
      <4> QED
        BY <1>1, <3>3, <4>1 DEF Local, Using, Idle
    <3> QED
      BY <3>2, <3>3, <3>4, <3>5, <3>6
  <2>7. /\ loc' \in [Procs -> Locals] /\ \A r \in Procs : r # p => loc'[r] = loc[r]
        /\ loc'[p].pc \notin {"pipealloc", "pipeclose"}
        /\ ofile' \in [Procs -> [Fds -> Files \cup {NULL}]]
        /\ \A r \in Procs : r # p => ofile'[r] = ofile[r]
        /\ \A g \in Files : Cardinality(Holders(g)') = IF g = f1 THEN 1 ELSE ftable[g].ref
        /\ Local(p)'
    BY <2>3, <2>5, <2>6
  <2>8. ASSUME \A g \in Files \ {f0, f1} : ftable'[g] = ftable[g] PROVE \A r \in Procs : Local(r)'
    <3>1. ASSUME NEW r \in Procs, r # p PROVE Local(r)'
      BY <1>1, <1>2, <1>3, <2>2, <2>7, <2>8, <3>1, LocalKept
    <3> QED
      BY <2>7, <3>1
  <2>9. \A w \in BOOLEAN, q \in Pages, r \in Procs : Hangs(r, q, w)' <=> Hangs(r, q, w)
    BY <1>1, <2>7 DEF Hangs
  <2>10. CASE free = {}
    <3>1. ftable' = [ftable EXCEPT ![f1].ref = 1] /\ UNCHANGED pipe
      BY <2>1, <2>3, <2>10 DEF filealloc
    <3>2. /\ ftable' \in [Files -> StructFile] /\ ftable'[f1].ref = 1 /\ ftable'[f1].type = "none"
          /\ \A g \in Files : g # f1 => ftable'[g] = ftable[g]
      BY <1>0, <2>1, <2>2, <3>1 DEF TypeOK, StructFile
    <3>3. TypeOK'
      BY <1>0, <1>1, <2>7, <3>1, <3>2 DEF TypeOK
    <3>4. FilesOK'
      BY <1>0, <3>2 DEF FilesOK
    <3>5. FileRefs'
      BY <2>7, <3>2 DEF FileRefs
    <3>6. RingsOK' /\ SleepsForReason'
      BY <1>0, <1>1, <3>1, RingsKept, SleepsKept
    <3>7. \A r \in Procs : Local(r)'
      BY <2>8, <3>2
    <3>8. ASSUME NEW q \in Pages PROVE EndsOK(q)'
      <4>1. \A w \in BOOLEAN, g \in Files : FileHas(g, q, w)' <=> FileHas(g, q, w)
        BY <2>2, <3>2 DEF FileHas
      <4> QED
        BY <2>9, <3>1, <4>1, EndsKept DEF IOIndInv
    <3> QED
      BY <3>3, <3>4, <3>5, <3>6, <3>7, <3>8 DEF IOIndInv
  <2>11. CASE free # {}
    <3>1. PICK q \in Pages : q = q0 /\ ~pipe[q].used
      BY <2>11
    <3>2. /\ ftable' = [ftable EXCEPT ![f0] = PipeFile(q, FALSE), ![f1] = PipeFile(q, TRUE)]
          /\ pipe' = [pipe EXCEPT ![q] = pipealloc(pipe[q])]
      BY <2>3, <2>11, <3>1
    <3>3. PipeFile(q, FALSE) \in StructFile /\ PipeFile(q, TRUE) \in StructFile
      BY DEF PipeFile, StructFile
    <3>4. /\ ftable' \in [Files -> StructFile] /\ ftable'[f0] = PipeFile(q, FALSE)
          /\ ftable'[f1] = PipeFile(q, TRUE)
          /\ \A g \in Files \ {f0, f1} : ftable'[g] = ftable[g]
      BY <1>0, <2>2, <3>2, <3>3 DEF TypeOK
    <3>5. /\ pipe' \in [Pages -> StructPipe] /\ \A x \in Pages : x # q => pipe'[x] = pipe[x]
          /\ pipe'[q].used /\ pipe'[q].readopen /\ pipe'[q].writeopen
          /\ Sub(pipe'[q].nwrite, pipe'[q].nread) <= PIPESIZE
      <4>1. pipe \in [Pages -> StructPipe] /\ pipe[q] \in StructPipe
        BY <1>0 DEF TypeOK
      <4>2. /\ pipealloc(pipe[q]) \in StructPipe /\ pipealloc(pipe[q]).used
            /\ pipealloc(pipe[q]).readopen /\ pipealloc(pipe[q]).writeopen
            /\ Sub(pipealloc(pipe[q]).nwrite, pipealloc(pipe[q]).nread) <= PIPESIZE
        BY <4>1, PipeallocIs
      <4> QED
        BY <3>2, <4>1, <4>2
    <3>6. TypeOK'
      BY <1>0, <1>1, <2>7, <3>4, <3>5 DEF TypeOK
    <3>7. FilesOK'
      BY <1>0, <3>4 DEF FilesOK, PipeFile
    <3>8. FileRefs'
      BY <1>2, <2>7, <3>4 DEF FileRefs, PipeFile
    <3>9. RingsOK'
      BY <1>0, <1>1, <3>5 DEF RingsOK
    <3>10. SleepsForReason'
      <4>1. ~pipe[q].readopen /\ ~pipe[q].writeopen
        BY <3>1 DEF IOIndInv, EndsOK
      <4> QED
        BY <1>0, <1>1, <3>5, <4>1 DEF SleepsForReason, Empty, Full
    <3>11. \A r \in Procs : Local(r)'
      BY <2>8, <3>4
    <3>12. ASSUME NEW x \in Pages PROVE EndsOK(x)'
      <4>1. CASE x = q
        BY <2>2, <2>9, <3>1, <3>4, <3>5, <4>1, EndsMade DEF IOIndInv
      <4>2. CASE x # q
        <5>1. \A w \in BOOLEAN, g \in Files : FileHas(g, x, w)' <=> FileHas(g, x, w)
          BY <1>2, <2>2, <3>4, <4>2 DEF FileHas, PipeFile
        <5> QED
          BY <2>9, <3>5, <4>2, <5>1, EndsKept DEF IOIndInv
      <4> QED
        BY <4>1, <4>2
    <3> QED
      BY <3>6, <3>7, <3>8, <3>9, <3>10, <3>11, <3>12 DEF IOIndInv
  <2> QED
    BY <2>10, <2>11
<1> QED
  BY <1>4, <1>5


-----------------------------------------------------------------------------
(* The rings.                                                              *)

LEMMA Between ==
  ASSUME NEW i \in Index, NEW j \in Index, NEW k \in Index, Sub(j, i) + Sub(k, j) < UINT
  PROVE  Sub(k, i) = Sub(j, i) + Sub(k, j)
<1> DEFINE a == Sub(j, i)
           b == Sub(k, j)
           c == Sub(k, i)
<1>1. /\ a = IF i <= j THEN j - i ELSE j - i + UINT
      /\ b = IF j <= k THEN k - j ELSE k - j + UINT
      /\ c = IF i <= k THEN k - i ELSE k - i + UINT
      /\ a + b < UINT
  BY SubIs
<1>2. i \in 0 .. UINT - 1 /\ j \in 0 .. UINT - 1 /\ k \in 0 .. UINT - 1 /\ UINT \in Int
  BY Sizes DEF Index
<1> HIDE DEF a, b, c
<1>3. c = a + b
  BY <1>1, <1>2
<1> QED
  BY <1>3 DEF a, b, c

(* The writer goes back by n. *)
LEMMA Back ==
  ASSUME NEW i \in Index, NEW j \in Index, NEW n \in 0 .. Sub(j, i)
  PROVE  Sub(j, n) \in Index /\ Sub(Sub(j, n), i) = Sub(j, i) - n
<1>0. Sub(j, i) \in Index /\ i \in 0 .. UINT - 1 /\ j \in 0 .. UINT - 1 /\ UINT \in Int
  BY Sizes, IndexIn DEF Index
<1>1. n \in Index
  BY <1>0 DEF Index
<1> DEFINE a == Sub(j, i)
           b == Sub(j, n)
<1>2. b \in Index /\ b \in 0 .. UINT - 1
  BY <1>0, <1>1, IndexIn DEF Index
<1>3. /\ a = IF i <= j THEN j - i ELSE j - i + UINT
      /\ b = IF n <= j THEN j - n ELSE j - n + UINT
      /\ Sub(b, i) = IF i <= b THEN b - i ELSE b - i + UINT
  BY <1>1, <1>2, SubIs
<1>4. n \in 0 .. a /\ a \in 0 .. UINT - 1
  BY <1>0 DEF Index
<1> HIDE DEF a, b
<1>5. Sub(b, i) = a - n
  BY <1>0, <1>2, <1>3, <1>4
<1> QED
  BY <1>2, <1>5 DEF a, b

LEMMA SubNat ==
  ASSUME NEW i \in Index, NEW j \in Index
  PROVE  Sub(j, i) \in Nat /\ Sub(j, i) < UINT
<1>1. i \in Int /\ j \in Int /\ UINT \in Int
  BY Sizes DEF Index
<1>2. Sub(j, i) \in Index
  BY <1>1, IndexIn
<1> QED
  BY <1>1, <1>2 DEF Index

LEMMA BytesIs ==
  ASSUME NEW size \in Nat \ {0}, NEW ring \in [0 .. size - 1 -> Cell],
         NEW i \in Index, NEW j \in Index
  PROVE  /\ Bytes(ring, size, i, j) \in Seq(Cell) /\ Len(Bytes(ring, size, i, j)) = Sub(j, i)
         /\ DOMAIN Bytes(ring, size, i, j) = 1 .. Sub(j, i)
         /\ Sub(j, i) \in Nat
         /\ \A k \in 1 .. Sub(j, i) : Bytes(ring, size, i, j)[k] = ring[Add(i, k - 1) % size]
<1>0. i \in Int /\ j \in Int
  BY Sizes DEF Index
<1>1. Sub(j, i) \in Nat
  BY SubNat
<1>2. ASSUME NEW k \in 1 .. Sub(j, i) PROVE ring[Add(i, k - 1) % size] \in Cell
  <2>1. Add(i, k - 1) \in Int
    BY <1>0, <1>1, Sizes, IndexIn DEF Index
  <2>2. Add(i, k - 1) % size \in 0 .. size - 1
    BY <2>1, ModIn
  <2> QED
    BY <2>2
<1>3. Bytes(ring, size, i, j) = [k \in 1 .. Sub(j, i) |-> ring[Add(i, k - 1) % size]]
  BY DEF Bytes
<1> QED
  BY <1>1, <1>2, <1>3

(* The least of two numbers. *)
LEMMA MinOf ==
  ASSUME NEW a \in Nat, NEW b \in Nat
  PROVE  Min({a, b}) = IF a <= b THEN a ELSE b
<1>1. {a, b} \subseteq Nat /\ {a, b} # {}
  OBVIOUS
<1>2. Min({a, b}) \in {a, b} /\ \A y \in {a, b} : Min({a, b}) <= y
  BY <1>1, MinIs
<1> QED
  BY <1>2

LEMMA CopyInIs ==
  ASSUME NEW t \in StructPipe, NEW b \in Seq(Cell), Sub(t.nwrite, t.nread) + Len(b) <= PIPESIZE
  PROVE  /\ CopyIn(t, b) \in StructPipe /\ CopyIn(t, b).nread = t.nread
         /\ CopyIn(t, b).nwrite = Add(t.nwrite, Len(b)) /\ CopyIn(t, b).used = t.used
         /\ CopyIn(t, b).readopen = t.readopen /\ CopyIn(t, b).writeopen = t.writeopen
         /\ Sub(CopyIn(t, b).nwrite, CopyIn(t, b).nread) = Sub(t.nwrite, t.nread) + Len(b)
         /\ \A j \in 0 .. PIPESIZE - 1 :
              CopyIn(t, b).data[j] = IF ((j - t.nwrite) % PIPESIZE) + 1 <= Len(b)
                                     THEN b[((j - t.nwrite) % PIPESIZE) + 1] ELSE t.data[j]
<1> DEFINE number(j) == ((j - t.nwrite) % PIPESIZE) + 1
           data == [j \in 0 .. PIPESIZE - 1 |-> IF number(j) <= Len(b) THEN b[number(j)] ELSE t.data[j]]
<1>1. t.nwrite \in Index /\ t.nread \in Index /\ t.data \in [0 .. PIPESIZE - 1 -> Cell]
  BY DEF StructPipe
<1>2. CopyIn(t, b) = [t EXCEPT !.data = data, !.nwrite = Add(t.nwrite, Len(b))]
  BY DEF CopyIn
<1>3. Sub(t.nwrite, t.nread) \in Nat /\ Len(b) \in Nat
  BY <1>1, SubNat
<1>4. /\ Add(t.nwrite, Len(b)) \in Index
      /\ Sub(Add(t.nwrite, Len(b)), t.nread) = Sub(t.nwrite, t.nread) + Len(b)
  BY <1>1, <1>3, Sizes, Ahead
<1>5. ASSUME NEW j \in 0 .. PIPESIZE - 1 PROVE number(j) \in 1 .. PIPESIZE
  <2>1. j - t.nwrite \in Int
    BY <1>1, Sizes DEF Index
  <2>2. (j - t.nwrite) % PIPESIZE \in 0 .. PIPESIZE - 1
    BY <2>1, Sizes, ModIn
  <2> QED
    BY <2>2, Sizes
<1> HIDE DEF number
<1>6. data \in [0 .. PIPESIZE - 1 -> Cell]
  <2>1. ASSUME NEW j \in 0 .. PIPESIZE - 1, number(j) <= Len(b) PROVE b[number(j)] \in Cell
    <3>1. number(j) \in 1 .. Len(b)
      BY <1>3, <1>5, <2>1, Sizes
    <3> QED
      BY <3>1
  <2> QED
    BY <1>1, <2>1
<1>7. \A j \in 0 .. PIPESIZE - 1 : data[j] = IF number(j) <= Len(b) THEN b[number(j)] ELSE t.data[j]
  OBVIOUS
<1> HIDE DEF data
<1>8. /\ CopyIn(t, b) \in StructPipe /\ CopyIn(t, b).nread = t.nread /\ CopyIn(t, b).data = data
      /\ CopyIn(t, b).nwrite = Add(t.nwrite, Len(b)) /\ CopyIn(t, b).used = t.used
      /\ CopyIn(t, b).readopen = t.readopen /\ CopyIn(t, b).writeopen = t.writeopen
  BY <1>2, <1>4, <1>6 DEF StructPipe
<1> QED
  BY <1>4, <1>7, <1>8 DEF number

LEMMA CopyOutIs ==
  ASSUME NEW t \in StructPipe, NEW n \in Nat
  PROVE  LET k == Min({n, Sub(t.nwrite, t.nread)})
             c == CopyOut(t, n)
         IN /\ k = (IF n <= Sub(t.nwrite, t.nread) THEN n ELSE Sub(t.nwrite, t.nread)) /\ k \in Nat
            /\ c.bytes = Bytes(t.data, PIPESIZE, t.nread, Add(t.nread, k)) /\ c.bytes \in Seq(Cell)
            /\ c.pipe \in StructPipe /\ c.pipe.nread = Add(t.nread, k) /\ c.pipe.nwrite = t.nwrite
            /\ c.pipe.used = t.used /\ c.pipe.readopen = t.readopen
            /\ c.pipe.writeopen = t.writeopen /\ c.pipe.data = t.data
            /\ Sub(c.pipe.nwrite, c.pipe.nread) = Sub(t.nwrite, t.nread) - k
            /\ Sub(c.pipe.nread, t.nread) = k
<1> DEFINE k == Min({n, Sub(t.nwrite, t.nread)})
<1>1. t.nwrite \in Index /\ t.nread \in Index /\ t.data \in [0 .. PIPESIZE - 1 -> Cell]
  BY DEF StructPipe
<1>2. Sub(t.nwrite, t.nread) \in Nat
  BY <1>1, SubNat
<1>3. k = (IF n <= Sub(t.nwrite, t.nread) THEN n ELSE Sub(t.nwrite, t.nread))
  BY <1>2, MinOf
<1>4. k \in 0 .. Sub(t.nwrite, t.nread) /\ k \in Nat
  BY <1>2, <1>3
<1> HIDE DEF k
<1>5. /\ Add(t.nread, k) \in Index /\ Sub(t.nwrite, Add(t.nread, k)) = Sub(t.nwrite, t.nread) - k
      /\ Sub(Add(t.nread, k), t.nread) = k
  BY <1>1, <1>4, Nearer
<1>6. Bytes(t.data, PIPESIZE, t.nread, Add(t.nread, k)) \in Seq(Cell)
  BY <1>1, <1>5, Sizes, BytesIs
<1>7. CopyOut(t, n) = [bytes |-> Bytes(t.data, PIPESIZE, t.nread, Add(t.nread, k)),
                       pipe |-> [t EXCEPT !.nread = Add(t.nread, k)]]
  BY DEF CopyOut, k
<1>8. /\ CopyOut(t, n).bytes = Bytes(t.data, PIPESIZE, t.nread, Add(t.nread, k))
      /\ CopyOut(t, n).pipe = [t EXCEPT !.nread = Add(t.nread, k)]
  BY <1>7
<1>9. /\ CopyOut(t, n).pipe \in StructPipe /\ CopyOut(t, n).pipe.nread = Add(t.nread, k)
      /\ CopyOut(t, n).pipe.nwrite = t.nwrite /\ CopyOut(t, n).pipe.used = t.used
      /\ CopyOut(t, n).pipe.readopen = t.readopen /\ CopyOut(t, n).pipe.data = t.data
      /\ CopyOut(t, n).pipe.writeopen = t.writeopen
  BY <1>5, <1>8 DEF StructPipe
<1>10. /\ k = (IF n <= Sub(t.nwrite, t.nread) THEN n ELSE Sub(t.nwrite, t.nread)) /\ k \in Nat
       /\ CopyOut(t, n).bytes = Bytes(t.data, PIPESIZE, t.nread, Add(t.nread, k))
       /\ CopyOut(t, n).bytes \in Seq(Cell)
       /\ Sub(CopyOut(t, n).pipe.nwrite, CopyOut(t, n).pipe.nread) = Sub(t.nwrite, t.nread) - k
       /\ Sub(CopyOut(t, n).pipe.nread, t.nread) = k
  BY <1>3, <1>4, <1>5, <1>6, <1>8, <1>9
<1> QED
  BY <1>9, <1>10 DEF k

(* Empty and full, by what is in the pipe. *)
LEMMA EmptyFull ==
  ASSUME NEW t \in StructPipe
  PROVE  /\ Empty(t) <=> Sub(t.nwrite, t.nread) = 0
         /\ Full(t) <=> Sub(t.nwrite, t.nread) = PIPESIZE
         /\ Room(t) = PIPESIZE - Sub(t.nwrite, t.nread) /\ Sub(t.nwrite, t.nread) \in Nat
<1>1. t.nwrite \in Index /\ t.nread \in Index /\ PIPESIZE \in 0 .. UINT - 1
  BY Sizes DEF StructPipe
<1>2. Sub(t.nwrite, t.nread) \in Nat
  BY <1>1, SubNat
<1> QED
  BY <1>1, <1>2, FullIs DEF Empty, Full, Room


-----------------------------------------------------------------------------
(* Reading and writing.                                                    *)

(* A part of a sequence: k elements after the first i. *)
LEMMA Part ==
  ASSUME NEW T, NEW s \in Seq(T), NEW i \in Nat, NEW k \in Nat, i + k <= Len(s)
  PROVE  /\ SubSeq(s, i + 1, i + k) \in Seq(T) /\ Len(SubSeq(s, i + 1, i + k)) = k
         /\ \A j \in 1 .. k : SubSeq(s, i + 1, i + k)[j] = s[i + j]
<1>1. \A j \in i + 1 .. i + k : s[j] \in T
  OBVIOUS
<1>2. /\ SubSeq(s, i + 1, i + k) \in Seq(T)
      /\ Len(SubSeq(s, i + 1, i + k)) = IF i + 1 <= i + k THEN (i + k) - (i + 1) + 1 ELSE 0
      /\ \A j \in 1 .. (i + k) - (i + 1) + 1 : SubSeq(s, i + 1, i + k)[j] = s[(i + 1) + j - 1]
  BY <1>1, SubSeqProperties
<1>3. (i + k) - (i + 1) + 1 = k /\ (i + 1 <= i + k \/ k = 0) /\ \A j \in 1 .. k : (i + 1) + j - 1 = i + j
  OBVIOUS
<1> QED
  BY <1>2, <1>3

(* As many bytes as fit. *)
LEMMA Fits ==
  ASSUME NEW want \in Nat, NEW s \in Nat, NEW size \in Nat, s <= size, NEW room, room = size - s,
         NEW k, k = IF want <= room THEN want ELSE room
  PROVE  /\ k \in Nat /\ s + k <= size /\ k <= want
         /\ k # want => s + k = size
         /\ s = size => k = 0
OBVIOUS

(* The file of a process inside piperead or pipewrite has that end of the  *)
(* pipe, which is therefore open.                                          *)
LEMMA EndInUse ==
  ASSUME IOIndInv, NEW r \in Procs, loc[r].pc \in {"piperead", "pipewrite"}
  PROVE  /\ loc[r].file \in Files /\ ftable[loc[r].file].pipe \in Pages
         /\ Open(ftable[loc[r].file].pipe, loc[r].pc = "pipewrite")
<1>1. /\ loc[r].file \in Files /\ ftable[loc[r].file].type = "pipe"
      /\ ftable[loc[r].file].writable <=> loc[r].pc = "pipewrite"
  BY DEF IOIndInv, Local, Using
<1>2. PICK f \in Files : f = loc[r].file
  BY <1>1
<1>3. ftable[f].pipe \in Pages /\ ftable[f] \in StructFile
  BY <1>1, <1>2 DEF IOIndInv, FilesOK, TypeOK
<1>4. PICK q \in Pages : q = ftable[f].pipe
  BY <1>3
<1>5. PICK w \in BOOLEAN : w = ftable[f].writable
  BY <1>3 DEF StructFile
<1>6. FileHas(f, q, w)
  BY <1>1, <1>2, <1>4, <1>5 DEF FileHas
<1>7. EndsOK(q)
  BY DEF IOIndInv
<1>8. Open(q, w)
  BY <1>6, <1>7, Zenon DEF EndsOK
<1>9. Open(q, loc[r].pc = "pipewrite")
  BY <1>1, <1>2, <1>5, <1>8 DEF Open
<1> QED
  BY <1>1, <1>2, <1>4, <1>9

(* p has read or written: what remains to show. *)
LEMMA Transfers ==
  ASSUME IOIndInv, NEW p \in Procs, NEW l \in Locals, NEW q \in Pages, NEW t \in StructPipe,
         loc[p].pc \in {"piperead", "pipewrite"}, l.pc \in {"idle", loc[p].pc}, l.close = <<>>,
         loc' = [loc EXCEPT ![p] = l], pipe' = [pipe EXCEPT ![q] = t],
         t.used = pipe[q].used, t.readopen = pipe[q].readopen, t.writeopen = pipe[q].writeopen,
         Sub(t.nwrite, t.nread) <= PIPESIZE, buf' \in [Procs -> Seq(Cell)],
         UNCHANGED <<ftable, ofile, input>>, proc' \in [Procs -> StructProc],
         cut' \subseteq Pages, events' \in Nat,
         \A r \in Procs :
           r # p => /\ buf'[r] = buf[r]
                    /\ proc'[r] = proc[r] \/ proc'[r].state \notin {"unused", "sleep"},
         SleepsForReason', Local(p)'
  PROVE  IOIndInv'
<1>0. TypeOK /\ Local(p) /\ RingsOK
  BY DEF IOIndInv
<1>1. /\ pipe'[q] = t /\ \A x \in Pages : x # q => pipe'[x] = pipe[x]
      /\ pipe' \in [Pages -> StructPipe] /\ loc' \in [Procs -> Locals]
  BY <1>0 DEF TypeOK
<1>2. TypeOK'
  BY <1>0, <1>1 DEF TypeOK
<1>3. RingsOK'
  BY <1>0, <1>1 DEF RingsOK
<1>4. loc[p].close = <<>>
  BY <1>0 DEF Local
<1>5. /\ FilesOK' /\ FileRefs' /\ \A x \in Pages : EndsOK(x)'
      /\ \A r \in Procs : r # p => Local(r)'
  <2>1. {l.pc, loc[p].pc} \cap {"pipealloc", "pipeclose"} = {}
    OBVIOUS
  <2>2. \A x \in Pages : /\ pipe'[x].used = pipe[x].used
                         /\ pipe'[x].readopen = pipe[x].readopen
                         /\ pipe'[x].writeopen = pipe[x].writeopen
    BY <1>1
  <2> QED
    BY <1>4, <2>1, <2>2, TablesKept
<1> QED
  BY <1>2, <1>3, <1>5 DEF IOIndInv

LEMMA LocalIdle ==
  ASSUME NEW p \in Procs, loc'[p] = Idle, proc'[p].state = "run"
  PROVE  Local(p)'
<1>1. Len(<<>>) <= NOFILE
  BY Consts
<1> QED
  BY <1>1 DEF Local, Using, Idle

LEMMA PipewriteStep ==
  ASSUME IOIndInv, NEW p \in Procs, pipewrite(p)
  PROVE  IOIndInv'
<1>0. TypeOK /\ FilesOK /\ FileRefs /\ Local(p) /\ RingsOK /\ SleepsForReason
  BY DEF IOIndInv
<1>1. /\ loc[p].pc = "pipewrite" /\ proc[p].state = "run"
      /\ UNCHANGED <<ftable, ofile, input, buf>>
  BY DEF pipewrite, At
<1>2. PICK q \in Pages : q = ftable[loc[p].file].pipe
  BY <1>1, EndInUse
<1>3. PICK l \in Locals : l = loc[p]
  BY <1>0 DEF TypeOK
<1>4. pipe[q] \in StructPipe /\ Sub(pipe[q].nwrite, pipe[q].nread) <= PIPESIZE /\ buf[p] \in Seq(Cell)
  BY <1>0 DEF TypeOK, RingsOK
<1>5. Room(pipe[q]) \in Nat /\ Room(pipe[q]) = PIPESIZE - Sub(pipe[q].nwrite, pipe[q].nread)
  BY <1>4, EmptyFull, Sizes
<1>6. l.n \in Nat /\ l.i \in Nat /\ l.i <= l.n /\ l.n = Len(buf[p]) /\ l.n - l.i \in Nat
  BY <1>0, <1>1, <1>3 DEF Locals, Local
<1>7. PICK k \in Nat : /\ k = Min({l.n - l.i, Room(pipe[q])})
                       /\ k = IF l.n - l.i <= Room(pipe[q]) THEN l.n - l.i ELSE Room(pipe[q])
  BY <1>5, <1>6, MinOf
<1>8. PICK used \in Nat : used = Sub(pipe[q].nwrite, pipe[q].nread)
  BY <1>4, EmptyFull
<1>9. /\ used + k <= PIPESIZE /\ k <= l.n - l.i /\ l.i + k <= l.n
      /\ k # l.n - l.i => used + k = PIPESIZE
      /\ used = PIPESIZE => k = 0
  <2>1. PICK want \in Nat : want = l.n - l.i
    BY <1>6
  <2>2. PICK room \in Nat : room = Room(pipe[q]) /\ room = PIPESIZE - used
    BY <1>5, <1>8
  <2>3. used <= PIPESIZE /\ PIPESIZE \in Nat /\ k = IF want <= room THEN want ELSE room
    BY <1>4, <1>7, <1>8, <2>1, <2>2, Sizes
  <2>4. used + k <= PIPESIZE /\ k <= want /\ (k # want => used + k = PIPESIZE)
        /\ (used = PIPESIZE => k = 0)
    BY <2>2, <2>3, Fits
  <2> QED
    BY <1>6, <2>1, <2>4
<1>10. PICK t \in StructPipe :
         /\ t = CopyIn(pipe[q], SubSeq(buf[p], l.i + 1, l.i + k)) /\ t.used = pipe[q].used
         /\ t.readopen = pipe[q].readopen /\ t.writeopen = pipe[q].writeopen
         /\ Sub(t.nwrite, t.nread) = used + k
         /\ Sub(t.nwrite, t.nread) <= PIPESIZE
  <2>1. PICK b \in Seq(Cell) : b = SubSeq(buf[p], l.i + 1, l.i + k) /\ Len(b) = k
    <3>1. l.i + k <= Len(buf[p]) /\ l.i \in Nat /\ buf[p] \in Seq(Cell)
      BY <1>4, <1>6, <1>9
    <3>2. /\ SubSeq(buf[p], l.i + 1, l.i + k) \in Seq(Cell)
          /\ Len(SubSeq(buf[p], l.i + 1, l.i + k)) = k
      BY <3>1, Part
    <3> QED
      BY <3>2
  <2>2. Sub(pipe[q].nwrite, pipe[q].nread) + Len(b) <= PIPESIZE
    BY <1>8, <1>9, <2>1
  <2>3. /\ CopyIn(pipe[q], b) \in StructPipe /\ CopyIn(pipe[q], b).used = pipe[q].used
        /\ CopyIn(pipe[q], b).readopen = pipe[q].readopen
        /\ CopyIn(pipe[q], b).writeopen = pipe[q].writeopen
        /\ Sub(CopyIn(pipe[q], b).nwrite, CopyIn(pipe[q], b).nread) = used + k
    BY <1>4, <1>8, <2>1, <2>2, CopyInIs
  <2> QED
    BY <1>9, <2>1, <2>3
<1>11. /\ pipe' = [pipe EXCEPT ![q] = t]
       /\ IF l.i + k = l.n
          THEN /\ proc' = Wake(proc, nread(q)) /\ cut' = cut \ {q}
               /\ Returned(p) /\ Quiet
          ELSE IF ~t.readopen \/ MustReturn(p)
          THEN /\ cut' = IF k > 0 THEN cut \cup {q} ELSE cut
               /\ Returned(p) /\ Quiet /\ UNCHANGED proc
          ELSE /\ Sleep(Wake(proc, nread(q)), p, nwrite(q)) /\ cut' = cut \ {q}
               /\ loc' = [loc EXCEPT ![p] = [l EXCEPT !.i = l.i + k]]
  BY <1>2, <1>3, <1>7, <1>10 DEF pipewrite
<1>12. pipe'[q] = t /\ \A x \in Pages : x # q => pipe'[x] = pipe[x]
  BY <1>0, <1>11 DEF TypeOK
<1>13. Full(pipe[q]) => Full(t)
  <2>1. (Full(pipe[q]) <=> Sub(pipe[q].nwrite, pipe[q].nread) = PIPESIZE)
        /\ (Full(t) <=> Sub(t.nwrite, t.nread) = PIPESIZE)
    BY <1>4, <1>10, EmptyFull
  <2> QED
    BY <1>8, <1>9, <1>10, <2>1
<1>14. PICK wp : wp = Wake(proc, nread(q))
  OBVIOUS
<1>15. /\ wp \in [Procs -> StructProc]
       /\ \A r \in Procs :
            /\ wp[r] = proc[r] \/ wp[r].state = "run"
            /\ wp[r].killed = proc[r].killed
            /\ wp[r].state = "sleep" => wp[r] = proc[r] /\ proc[r].chan # nread(q)
            /\ proc[r].state # "sleep" => wp[r] = proc[r]
  <2>1. proc \in [Procs -> StructProc]
    BY <1>0 DEF TypeOK
  <2> QED
    BY <1>14, <2>1, WakeIs
(* The others that sleep afterwards have their reason. *)
<1>16. ASSUME NEW r \in Procs, NEW x \in Pages, proc'[r] = proc[r], proc[r].state = "sleep",
              \/ proc[r].chan # nread(q) /\ cut' = cut \ {q}
              \/ cut' = IF k > 0 THEN cut \cup {q} ELSE cut
       PROVE  /\ proc'[r].chan = nread(x) =>
                   /\ pipe'[x].writeopen
                   /\ Empty(pipe[x])' \/ x \in cut'
              /\ proc'[r].chan = nwrite(x) => Full(pipe[x])' /\ pipe'[x].readopen
              /\ proc'[r].chan = inputr => input'.r = input'.w
  <2>1. /\ proc[r].chan = nread(x) =>
             pipe[x].writeopen /\ (Empty(pipe[x]) \/ x \in cut)
        /\ proc[r].chan = nwrite(x) => Full(pipe[x]) /\ pipe[x].readopen
        /\ proc[r].chan = inputr => input.r = input.w
    BY <1>0, <1>16 DEF SleepsForReason
  <2>3. CASE x # q
    BY <1>1, <1>12, <1>16, <2>1, <2>3 DEF Empty, Full
  <2>4. CASE x = q
    <3>1. (Full(pipe[q])' <=> Full(t)) /\ (Empty(pipe[q])' <=> Empty(t))
      BY <1>12 DEF Full, Empty
    <3>2. k = 0 => (Empty(t) <=> Empty(pipe[q]))
      BY <1>4, <1>8, <1>10, EmptyFull
    <3>3. proc[r].chan = nread(q) => Empty(t) \/ q \in cut'
      BY <1>16, <2>1, <2>4, <3>2
    <3> QED
      BY <1>1, <1>10, <1>12, <1>13, <1>16, <2>1, <2>4, <3>1, <3>3
  <2> QED
    BY <2>3, <2>4
<1>17. Idle.pc = "idle" /\ Idle.close = <<>> /\ Idle \in Locals /\ buf' \in [Procs -> Seq(Cell)]
  BY <1>0, <1>1, Constants DEF Idle, TypeOK
<1>18. CASE l.i + k = l.n
  <2>1. /\ proc' = wp /\ loc' = [loc EXCEPT ![p] = Idle]
        /\ cut' = cut \ {q} /\ cut' \subseteq Pages /\ events' \in Nat
    BY <1>0, <1>11, <1>14, <1>18 DEF Returned, Quiet, TypeOK
  <2>2. SleepsForReason'
    BY <1>15, <1>16, <2>1 DEF SleepsForReason
  <2>3. Local(p)'
    BY <1>0, <1>1, <1>15, <2>1, LocalIdle DEF TypeOK
  <2> QED
    BY <1>1, <1>10, <1>11, <1>15, <1>17, <2>1, <2>2, <2>3, Transfers
<1>19. CASE l.i + k # l.n /\ (~t.readopen \/ MustReturn(p))
  <2>1. /\ UNCHANGED proc /\ loc' = [loc EXCEPT ![p] = Idle]
        /\ cut' = IF k > 0 THEN cut \cup {q} ELSE cut
        /\ cut' \subseteq Pages /\ events' \in Nat
    BY <1>0, <1>11, <1>19 DEF Returned, Quiet, TypeOK
  <2>2. SleepsForReason'
    BY <1>10, <1>16, <1>19, <2>1 DEF SleepsForReason
  <2>3. Local(p)'
    BY <1>0, <1>1, <2>1, LocalIdle DEF TypeOK
  <2>4. proc' \in [Procs -> StructProc]
    BY <1>0, <2>1 DEF TypeOK
  <2> QED
    BY <1>1, <1>10, <1>11, <1>17, <2>1, <2>2, <2>3, <2>4, Transfers
<1>20. CASE l.i + k # l.n /\ ~(~t.readopen \/ MustReturn(p))
  <2> DEFINE m == [l EXCEPT !.i = l.i + k]
  <2>1. /\ Sleep(wp, p, nwrite(q)) /\ loc' = [loc EXCEPT ![p] = m]
        /\ cut' = cut \ {q} /\ cut' \subseteq Pages /\ events \in Nat
    BY <1>0, <1>11, <1>14, <1>20 DEF TypeOK
  <2>2. /\ m \in Locals /\ m.pc = "pipewrite" /\ m.close = <<>> /\ m.i = l.i + k /\ m.n = l.n
        /\ m.file = l.file /\ m.ff = l.ff /\ m.got = l.got
    <3>1. l.i + k \in Nat
      BY <1>6
    <3>2. l.pc = "pipewrite" /\ l.close = <<>>
      BY <1>0, <1>1, <1>3 DEF Local
    <3> QED
      BY <3>1, <3>2 DEF Locals
  <2> HIDE DEF m
  <2>3. /\ proc' \in [Procs -> StructProc] /\ proc'[p].state = "sleep" /\ proc'[p].chan = nwrite(q)
        /\ events' \in Nat /\ \A r \in Procs : r # p => proc'[r] = wp[r]
    BY <1>15, <2>1, SleepIs
  <2>4. Full(t) /\ t.readopen
    <3>1. Full(t) <=> Sub(t.nwrite, t.nread) = PIPESIZE
      BY EmptyFull
    <3>2. k # l.n - l.i
      BY <1>6, <1>20
    <3> QED
      BY <1>9, <1>10, <1>20, <3>1, <3>2
  <2>5. SleepsForReason'
    <3>1. ASSUME NEW x \in Pages
          PROVE  /\ proc'[p].chan = nread(x) => FALSE
                 /\ proc'[p].chan = nwrite(x) => Full(pipe[x])' /\ pipe'[x].readopen
                 /\ proc'[p].chan = inputr => FALSE
      BY <1>12, <2>3, <2>4, Chans DEF Full
    <3>2. \A r \in Procs : r # p /\ proc'[r].state = "sleep" =>
            proc'[r] = proc[r] /\ proc[r].state = "sleep" /\ proc[r].chan # nread(q)
      BY <1>15, <2>3
    <3> QED
      BY <1>16, <2>1, <3>1, <3>2 DEF SleepsForReason
  <2>6. Local(p)'
    <3>1. loc'[p] = m
      BY <1>0, <2>1 DEF TypeOK
    <3>2. l.i + k <= l.n
      BY <1>9
    <3> QED
      BY <1>0, <1>1, <1>2, <1>3, <1>6, <2>2, <2>3, <3>1, <3>2 DEF Local, Using
  <2>7. \A r \in Procs : r # p => proc'[r] = proc[r] \/ proc'[r].state \notin {"unused", "sleep"}
    BY <1>15, <2>3
  <2> QED
    BY <1>1, <1>10, <1>11, <1>17, <2>1, <2>2, <2>3, <2>5, <2>6, <2>7, Transfers
<1> QED
  BY <1>18, <1>19, <1>20


LEMMA PipereadStep ==
  ASSUME IOIndInv, NEW p \in Procs, piperead(p)
  PROVE  IOIndInv'
<1>0. TypeOK /\ FilesOK /\ FileRefs /\ Local(p) /\ RingsOK /\ SleepsForReason
  BY DEF IOIndInv
<1>1. /\ loc[p].pc = "piperead" /\ proc[p].state = "run" /\ loc[p].n \in Nat
      /\ loc[p].close = <<>>
      /\ UNCHANGED <<ftable, ofile, input, cut>>
      /\ cut' \subseteq Pages /\ events \in Nat
  BY <1>0 DEF piperead, At, TypeOK, Locals, Local
<1>2. PICK q \in Pages : q = ftable[loc[p].file].pipe
  BY <1>1, EndInUse
<1>3. /\ pipe[q] \in StructPipe /\ Sub(pipe[q].nwrite, pipe[q].nread) <= PIPESIZE
      /\ proc \in [Procs -> StructProc] /\ proc[p] \in StructProc
      /\ loc \in [Procs -> Locals] /\ buf \in [Procs -> Seq(Cell)]
  BY <1>0 DEF TypeOK, RingsOK
<1>4. Idle.pc = "idle" /\ Idle.close = <<>> /\ Idle \in Locals
  BY Constants DEF Idle
<1>5. CASE Empty(pipe[q]) /\ pipe[q].writeopen
  <2>1. /\ UNCHANGED <<pipe, buf, cut>>
        /\ IF MustReturn(p) THEN Returned(p) /\ Quiet /\ UNCHANGED proc
           ELSE Sleep(proc, p, nread(q)) /\ UNCHANGED loc
    BY <1>2, <1>5 DEF piperead
  <2>2. pipe' = [pipe EXCEPT ![q] = pipe[q]]
    BY <1>0, <2>1 DEF TypeOK
  <2>3. CASE MustReturn(p)
    <3>1. UNCHANGED proc /\ loc' = [loc EXCEPT ![p] = Idle] /\ loc'[p] = Idle /\ events' \in Nat
      BY <1>1, <1>3, <2>1, <2>3 DEF Returned, Quiet
    <3>2. SleepsForReason'
      BY <1>0, <1>1, <2>1, <3>1, SleepsKept
    <3>3. Local(p)'
      BY <1>1, <3>1, LocalIdle
    <3> QED
      BY <1>1, <1>3, <1>4, <2>1, <2>2, <3>1, <3>2, <3>3, Transfers
  <2>4. CASE ~MustReturn(p)
    <3>1. loc' = loc /\ loc' = [loc EXCEPT ![p] = loc[p]] /\ Sleep(proc, p, nread(q))
      BY <1>3, <2>1, <2>4
    <3>2. /\ proc' \in [Procs -> StructProc] /\ proc'[p].state = "sleep" /\ proc'[p].chan = nread(q)
          /\ events' \in Nat /\ \A r \in Procs : r # p => proc'[r] = proc[r]
      <4>1. PICK ch : ch = nread(q)
        OBVIOUS
      <4>2. Sleep(proc, p, ch) /\ \E x \in Pages : ch \in {nread(x), nwrite(x)}
        BY <3>1, <4>1
      <4> QED
        BY <1>1, <1>3, <4>1, <4>2, SleepIs
    <3>3. SleepsForReason'
      <4>1. ASSUME NEW x \in Pages
            PROVE  /\ proc'[p].chan = nread(x) => pipe'[x].writeopen /\ Empty(pipe[x])'
                   /\ proc'[p].chan = nwrite(x) => FALSE
                   /\ proc'[p].chan = inputr => FALSE
        BY <1>5, <2>1, <3>2, Chans DEF Empty
      <4>2. ASSUME NEW x \in Pages, NEW r \in Procs, r # p, proc'[r].state = "sleep"
            PROVE  /\ proc'[r].chan = nread(x) =>
                        /\ pipe'[x].writeopen
                        /\ Empty(pipe[x])' \/ x \in cut'
                   /\ proc'[r].chan = nwrite(x) => Full(pipe[x])' /\ pipe'[x].readopen
                   /\ proc'[r].chan = inputr => input'.r = input'.w
        <5>1. /\ proc[r].chan = nread(x) =>
                   pipe[x].writeopen /\ (Empty(pipe[x]) \/ x \in cut)
              /\ proc[r].chan = nwrite(x) => Full(pipe[x]) /\ pipe[x].readopen
              /\ proc[r].chan = inputr => input.r = input.w
          BY <1>0, <3>2, <4>2 DEF SleepsForReason
        <5> QED
          BY <1>1, <2>1, <3>2, <4>2, <5>1 DEF Empty, Full
      <4> QED
        BY <4>1, <4>2 DEF SleepsForReason
    <3>4. Local(p)'
      BY <1>0, <1>1, <1>2, <2>1, <3>1, <3>2 DEF Local, Using
    <3>5. loc[p] \in Locals /\ loc[p].pc \in {"idle", loc[p].pc}
      BY <1>3
    <3>6. \A r \in Procs : r # p => buf'[r] = buf[r] /\ proc'[r] = proc[r]
      BY <2>1, <3>2
    <3>7. buf' \in [Procs -> Seq(Cell)] /\ UNCHANGED <<ftable, ofile, input, cut>>
      BY <1>1, <1>3, <2>1
    <3> QED
      BY <1>1, <1>3, <2>2, <3>1, <3>2, <3>3, <3>4, <3>5, <3>6, <3>7, Transfers
  <2> QED
    BY <2>3, <2>4
<1>6. CASE ~(Empty(pipe[q]) /\ pipe[q].writeopen)
  <2>1. PICK t \in StructPipe :
          /\ t = CopyOut(pipe[q], loc[p].n).pipe /\ t.used = pipe[q].used
          /\ t.readopen = pipe[q].readopen /\ t.writeopen = pipe[q].writeopen
          /\ Sub(t.nwrite, t.nread) <= PIPESIZE
          /\ Empty(pipe[q]) => Empty(t)
    <3> DEFINE k == Min({loc[p].n, Sub(pipe[q].nwrite, pipe[q].nread)})
               c == CopyOut(pipe[q], loc[p].n)
    <3>1. /\ k = (IF loc[p].n <= Sub(pipe[q].nwrite, pipe[q].nread) THEN loc[p].n
                  ELSE Sub(pipe[q].nwrite, pipe[q].nread)) /\ k \in Nat
          /\ c.pipe \in StructPipe
          /\ c.pipe.used = pipe[q].used /\ c.pipe.readopen = pipe[q].readopen
          /\ c.pipe.writeopen = pipe[q].writeopen
          /\ Sub(c.pipe.nwrite, c.pipe.nread) = Sub(pipe[q].nwrite, pipe[q].nread) - k
      BY <1>1, <1>3, CopyOutIs
    <3> HIDE DEF k, c
    <3>2. /\ Empty(pipe[q]) <=> Sub(pipe[q].nwrite, pipe[q].nread) = 0
          /\ Empty(c.pipe) <=> Sub(c.pipe.nwrite, c.pipe.nread) = 0
          /\ Sub(pipe[q].nwrite, pipe[q].nread) \in Nat
      BY <1>3, <3>1, EmptyFull
    <3>3. PICK u \in Nat : u = Sub(pipe[q].nwrite, pipe[q].nread) /\ u <= PIPESIZE
      BY <1>3, <3>2
    <3>4. u - k <= PIPESIZE /\ (u = 0 => u - k = 0)
      BY <1>1, <3>1, <3>3, Sizes
    <3> QED
      BY <3>1, <3>2, <3>3, <3>4 DEF c
  <2>2. /\ pipe' = [pipe EXCEPT ![q] = t] /\ buf' = [buf EXCEPT ![p] = CopyOut(pipe[q], loc[p].n).bytes]
        /\ proc' = Wake(proc, nwrite(q)) /\ loc' = [loc EXCEPT ![p] = Idle]
        /\ events' \in Nat
    BY <1>1, <1>2, <1>6, <2>1 DEF piperead, Returned, Quiet
  <2>3. buf' \in [Procs -> Seq(Cell)] /\ \A r \in Procs : r # p => buf'[r] = buf[r]
    <3>1. CopyOut(pipe[q], loc[p].n).bytes \in Seq(Cell)
      BY <1>1, <1>3, CopyOutIs
    <3> QED
      BY <1>3, <2>2, <3>1
  <2>4. /\ proc' \in [Procs -> StructProc]
        /\ \A r \in Procs :
             /\ proc'[r] = proc[r] \/ proc'[r].state = "run"
             /\ proc'[r].killed = proc[r].killed
             /\ proc'[r].state = "sleep" => proc'[r] = proc[r] /\ proc[r].chan # nwrite(q)
             /\ proc[r].state # "sleep" => proc'[r] = proc[r]
    <3>1. proc \in [Procs -> StructProc] /\ proc' = Wake(proc, nwrite(q))
      BY <1>3, <2>2
    <3> QED
      BY <3>1, WakeIs
  <2>5. pipe'[q] = t /\ \A x \in Pages : x # q => pipe'[x] = pipe[x]
    BY <1>0, <2>2 DEF TypeOK
  <2>6. SleepsForReason'
    <3>1. ASSUME NEW x \in Pages, NEW r \in Procs, proc'[r].state = "sleep"
          PROVE  /\ proc'[r].chan = nread(x) =>
                      /\ pipe'[x].writeopen
                      /\ Empty(pipe[x])' \/ x \in cut'
                 /\ proc'[r].chan = nwrite(x) => Full(pipe[x])' /\ pipe'[x].readopen
                 /\ proc'[r].chan = inputr => input'.r = input'.w
      <4>1. proc'[r] = proc[r] /\ proc[r].state = "sleep" /\ proc[r].chan # nwrite(q)
        BY <2>4, <3>1
      <4>2. /\ proc[r].chan = nread(x) =>
                 pipe[x].writeopen /\ (Empty(pipe[x]) \/ x \in cut)
            /\ proc[r].chan = nwrite(x) => Full(pipe[x]) /\ pipe[x].readopen
            /\ proc[r].chan = inputr => input.r = input.w
        BY <1>0, <4>1 DEF SleepsForReason
      <4>4. CASE x # q
        BY <1>1, <2>5, <4>1, <4>2, <4>4 DEF Empty, Full
      <4>5. CASE x = q
        <5>1. Empty(pipe[q])' <=> Empty(t)
          BY <2>5 DEF Empty
        <5> QED
          BY <1>1, <2>1, <2>5, <4>1, <4>2, <4>5, <5>1
      <4> QED
        BY <4>4, <4>5
    <3> QED
      BY <3>1 DEF SleepsForReason
  <2>7. Local(p)'
    BY <1>1, <1>3, <2>2, <2>4, LocalIdle
  <2>8. \A r \in Procs : r # p => /\ buf'[r] = buf[r]
                                  /\ proc'[r] = proc[r] \/ proc'[r].state \notin {"unused", "sleep"}
    BY <2>3, <2>4
  <2> QED
    BY <1>1, <1>4, <2>1, <2>2, <2>3, <2>4, <2>6, <2>7, <2>8, Transfers
<1> QED
  BY <1>5, <1>6


-----------------------------------------------------------------------------
(* The console.                                                            *)

(* Steps that only touch the console's buffer. *)
LEMMA InputIs ==
  ASSUME TypeOK, RingsOK
  PROVE  /\ input \in StructInput /\ input.r \in Index /\ input.w \in Index /\ input.e \in Index
         /\ input.buf \in [0 .. INPUT_BUF - 1 -> Cell]
         /\ Sub(input.w, input.r) \in Nat /\ Sub(input.e, input.w) \in Nat
         /\ Sub(input.w, input.r) + Sub(input.e, input.w) <= INPUT_BUF
         /\ Sub(input.e, input.r) = Sub(input.w, input.r) + Sub(input.e, input.w)
         /\ input.r = input.w <=> Sub(input.w, input.r) = 0
<1>1. /\ input \in StructInput /\ input.r \in Index /\ input.w \in Index /\ input.e \in Index
      /\ input.buf \in [0 .. INPUT_BUF - 1 -> Cell]
  BY DEF TypeOK, StructInput
<1>2. Sub(input.w, input.r) \in Nat /\ Sub(input.e, input.w) \in Nat
  BY <1>1, SubNat
<1>3. Sub(input.w, input.r) + Sub(input.e, input.w) <= INPUT_BUF
  BY DEF RingsOK
<1>4. Sub(input.w, input.r) + Sub(input.e, input.w) < UINT
  BY <1>2, <1>3, Sizes
<1>5. Sub(input.e, input.r) = Sub(input.w, input.r) + Sub(input.e, input.w)
  BY <1>1, <1>4, Between
<1>6. input.r = input.w <=> Sub(input.w, input.r) = 0
  BY <1>1, Sizes, FullIs
<1> QED
  BY <1>1, <1>2, <1>3, <1>5, <1>6

(* consoleread takes some of what is ready, everything if it is to sleep. *)
LEMMA ConsolereadIs ==
  ASSUME NEW in \in StructInput, NEW got \in Seq(Cell), NEW n \in Nat
  PROVE  LET c == consoleread(in, got, n)
         IN /\ c.got \in Seq(Cell)
            /\ \E m \in 0 .. Sub(in.w, in.r) :
                 /\ c.in = [in EXCEPT !.r = Add(in.r, m)]
                 /\ ~c.done => m = Sub(in.w, in.r)
<1> DEFINE c == consoleread(in, got, n)
           ready == Bytes(in.buf, INPUT_BUF, in.r, in.w)
           stops == {k \in 1 .. Len(ready) : ready[k] \in {NL, EOF} \/ Len(got) + k = n}
           last == Min(stops)
           past(k) == [in EXCEPT !.r = Add(in.r, k)]
           upto(k) == got \o SubSeq(ready, 1, k)
<1>1. in.r \in Index /\ in.w \in Index /\ in.buf \in [0 .. INPUT_BUF - 1 -> Cell]
  BY DEF StructInput
<1>2. ready \in Seq(Cell) /\ Len(ready) = Sub(in.w, in.r) /\ Sub(in.w, in.r) \in Nat
  BY <1>1, Sizes, BytesIs
<1>3. c = IF Len(got) = n THEN [in |-> in, got |-> got, done |-> TRUE]
          ELSE IF stops = {}
          THEN [in |-> past(Len(ready)), got |-> upto(Len(ready)), done |-> FALSE]
          ELSE IF ready[last] = EOF
          THEN [in |-> EofTaken(past(last - 1), upto(last - 1), past(last)),
                got |-> upto(last - 1), done |-> TRUE]
          ELSE [in |-> past(last), got |-> upto(last), done |-> TRUE]
  BY Zenon DEF consoleread
<1>4. stops # {} => last \in 1 .. Len(ready)
  <2>1. stops \subseteq Nat /\ stops \subseteq 1 .. Len(ready)
    BY <1>2
  <2> HIDE DEF stops
  <2> QED
    BY <2>1, MinIs
<1>5. \A k \in 0 .. Len(ready) : upto(k) \in Seq(Cell)
  <2>1. ASSUME NEW k \in 0 .. Len(ready) PROVE SubSeq(ready, 1, k) \in Seq(Cell)
    <3>1. \A i \in 1 .. k : ready[i] \in Cell
      BY <1>2
    <3> QED
      BY <3>1, SubSeqProperties
  <2> QED
    BY <2>1
<1>6. in = past(0)
  <2>1. in.r \in 0 .. UINT - 1
    BY <1>1 DEF Index
  <2>2. Add(in.r, 0) = in.r
    BY <1>1, <2>1, Sizes, AddIs
  <2> QED
    BY <2>2 DEF StructInput
<1> HIDE DEF ready, stops, last, past, upto, c
<1>7. CASE Len(got) = n
  BY <1>2, <1>3, <1>6, <1>7 DEF c, past
<1>8. CASE Len(got) # n /\ stops = {}
  <2>1. c.in = past(Len(ready)) /\ c.got = upto(Len(ready))
    BY <1>3, <1>8
  <2> QED
    BY <1>2, <1>5, <2>1 DEF c, past
<1>9. CASE Len(got) # n /\ stops # {} /\ ready[last] = EOF
  <2>1. /\ c.in = EofTaken(past(last - 1), upto(last - 1), past(last)) /\ c.got = upto(last - 1)
        /\ c.done
    BY <1>3, <1>9
  <2>2. c.in = past(last - 1) \/ c.in = past(last)
    BY <2>1 DEF EofTaken
  <2>3. last \in 0 .. Len(ready) /\ last - 1 \in 0 .. Len(ready)
    BY <1>2, <1>4, <1>9
  <2> QED
    BY <1>2, <1>5, <2>1, <2>2, <2>3 DEF c, past
<1>10. CASE Len(got) # n /\ stops # {} /\ ready[last] # EOF
  <2>1. c.in = past(last) /\ c.got = upto(last) /\ c.done
    BY <1>3, <1>10
  <2>2. last \in 0 .. Len(ready)
    BY <1>2, <1>4, <1>10
  <2> QED
    BY <1>2, <1>5, <2>1, <2>2 DEF c, past
<1> QED
  BY <1>7, <1>8, <1>9, <1>10

LEMMA ReadconsoleStep ==
  ASSUME IOIndInv, NEW p \in Procs, readconsole(p)
  PROVE  IOIndInv'
<1>0. TypeOK /\ FilesOK /\ FileRefs /\ Local(p) /\ RingsOK /\ SleepsForReason
  BY DEF IOIndInv
<1>1. /\ loc[p].pc = "consoleread" /\ proc[p].state = "run" /\ loc[p].n \in Nat
      /\ loc[p].got \in Seq(Cell) /\ loc[p].close = <<>>
      /\ UNCHANGED <<ftable, ofile, pipe, cut>> /\ events \in Nat
      /\ loc \in [Procs -> Locals] /\ proc \in [Procs -> StructProc] /\ buf \in [Procs -> Seq(Cell)]
  BY <1>0 DEF readconsole, At, TypeOK, Locals, Local
<1>2. PICK c : c = consoleread(input, loc[p].got, loc[p].n)
  OBVIOUS
<1>3. /\ input' = c.in
      /\ IF c.done THEN /\ buf' = [buf EXCEPT ![p] = c.got]
                        /\ Returned(p) /\ Quiet /\ UNCHANGED proc
         ELSE IF MustReturn(p) THEN Returned(p) /\ Quiet /\ UNCHANGED <<proc, buf>>
         ELSE /\ Sleep(proc, p, inputr)
              /\ loc' = [loc EXCEPT ![p] = [loc[p] EXCEPT !.got = c.got]] /\ UNCHANGED buf
  BY <1>2 DEF readconsole
<1>4. /\ input \in StructInput /\ input.r \in Index /\ input.w \in Index
      /\ Sub(input.w, input.r) \in Nat /\ Sub(input.e, input.w) \in Nat
      /\ Sub(input.w, input.r) + Sub(input.e, input.w) <= INPUT_BUF
      /\ input.r = input.w <=> Sub(input.w, input.r) = 0
  BY <1>0, InputIs
<1>5. c.got \in Seq(Cell)
  BY <1>1, <1>2, <1>4, ConsolereadIs
<1>6. PICK m \in 0 .. Sub(input.w, input.r) :
        /\ input' = [input EXCEPT !.r = Add(input.r, m)]
        /\ ~c.done => m = Sub(input.w, input.r)
  <2>1. \E m \in 0 .. Sub(input.w, input.r) :
          /\ c.in = [input EXCEPT !.r = Add(input.r, m)]
          /\ ~c.done => m = Sub(input.w, input.r)
    BY <1>1, <1>2, <1>4, ConsolereadIs
  <2> QED
    BY <1>3, <2>1
<1>7. Add(input.r, m) \in Index /\ Sub(input.w, Add(input.r, m)) = Sub(input.w, input.r) - m
  BY <1>4, Nearer
<1>8. /\ input' \in StructInput /\ input'.w = input.w /\ input'.e = input.e /\ input'.buf = input.buf
      /\ input'.r = Add(input.r, m) /\ input'.r \in Index
  BY <1>4, <1>6, <1>7 DEF StructInput
<1>9. RingsOK'
  <2>1. Sub(input.w, input'.r) + Sub(input.e, input.w) <= INPUT_BUF
    <3>1. PICK a \in Nat, b \in Nat : a = Sub(input.w, input.r) /\ b = Sub(input.e, input.w)
      BY <1>4
    <3>2. (a - m) + b <= INPUT_BUF
      BY <1>4, <3>1, Sizes
    <3> QED
      BY <1>7, <1>8, <3>1, <3>2
  <2> QED
    BY <1>0, <1>1, <1>8, <2>1 DEF RingsOK
<1>10. /\ input.r = input.w => input'.r = input'.w
       /\ ~c.done => input'.r = input'.w
  <2>1. input'.r = input.w <=> Sub(input.w, input'.r) = 0
    BY <1>4, <1>8, Sizes, FullIs
  <2> QED
    BY <1>4, <1>6, <1>7, <1>8, <2>1
<1>11. ASSUME NEW x \in Pages, NEW r \in Procs, proc'[r] = proc[r], proc[r].state = "sleep"
       PROVE  /\ proc'[r].chan = nread(x) =>
                   /\ pipe'[x].writeopen
                   /\ Empty(pipe[x])' \/ x \in cut'
              /\ proc'[r].chan = nwrite(x) => Full(pipe[x])' /\ pipe'[x].readopen
              /\ proc'[r].chan = inputr => input'.r = input'.w
  <2>1. /\ proc[r].chan = nread(x) =>
             pipe[x].writeopen /\ (Empty(pipe[x]) \/ x \in cut)
        /\ proc[r].chan = nwrite(x) => Full(pipe[x]) /\ pipe[x].readopen
        /\ proc[r].chan = inputr => input.r = input.w
    BY <1>0, <1>11 DEF SleepsForReason
  <2> QED
    BY <1>1, <1>10, <1>11, <2>1 DEF Empty, Full
<1>12. Idle.pc = "idle" /\ Idle.close = <<>> /\ Idle \in Locals
  BY Constants DEF Idle
<1>13. CASE c.done \/ MustReturn(p)
  <2>1. /\ UNCHANGED proc /\ loc' = [loc EXCEPT ![p] = Idle] /\ buf' \in [Procs -> Seq(Cell)]
        /\ \A r \in Procs : r # p => buf'[r] = buf[r]
        /\ events' \in Nat
    BY <1>1, <1>3, <1>5, <1>13 DEF Returned, Quiet
  <2>2. TypeOK'
    BY <1>0, <1>1, <1>8, <1>12, <2>1 DEF TypeOK
  <2>3. SleepsForReason'
    BY <1>11, <2>1 DEF SleepsForReason
  <2>4. Local(p)'
    BY <1>1, <2>1, LocalIdle
  <2>5. /\ FilesOK' /\ FileRefs' /\ \A x \in Pages : EndsOK(x)'
        /\ \A r \in Procs : r # p => Local(r)'
    BY <1>1, <1>12, <2>1, TablesKept
  <2> QED
    BY <1>9, <2>2, <2>3, <2>4, <2>5 DEF IOIndInv
<1>14. CASE ~(c.done \/ MustReturn(p))
  <2> DEFINE l == [loc[p] EXCEPT !.got = c.got]
  <2>1. Sleep(proc, p, inputr) /\ loc' = [loc EXCEPT ![p] = l] /\ UNCHANGED buf
    BY <1>3, <1>14
  <2>2. /\ l \in Locals /\ l.pc = "consoleread" /\ l.close = <<>> /\ l.file = loc[p].file
        /\ l.ff = loc[p].ff /\ l.n = loc[p].n
    BY <1>1, <1>5 DEF Locals
  <2> HIDE DEF l
  <2>3. /\ proc' \in [Procs -> StructProc] /\ proc'[p].state = "sleep" /\ proc'[p].chan = inputr
        /\ events' \in Nat /\ \A r \in Procs : r # p => proc'[r] = proc[r]
    BY <1>1, <2>1, SleepIs
  <2>4. TypeOK'
    BY <1>0, <1>1, <1>8, <2>1, <2>2, <2>3 DEF TypeOK
  <2>5. SleepsForReason'
    <3>1. ASSUME NEW x \in Pages
          PROVE  /\ proc'[p].chan = nread(x) => FALSE
                 /\ proc'[p].chan = nwrite(x) => FALSE
                 /\ proc'[p].chan = inputr => input'.r = input'.w
      BY <1>10, <1>14, <2>3, Chans
    <3>3. \A r \in Procs : r # p /\ proc'[r].state = "sleep" =>
            proc'[r] = proc[r] /\ proc[r].state = "sleep"
      BY <2>3
    <3> QED
      BY <1>11, <3>1, <3>3 DEF SleepsForReason
  <2>6. Local(p)'
    <3>1. loc'[p] = l
      BY <1>1, <2>1
    <3> QED
      BY <1>0, <1>1, <2>1, <2>2, <2>3, <3>1 DEF Local, Using
  <2>7. /\ FilesOK' /\ FileRefs' /\ \A x \in Pages : EndsOK(x)'
        /\ \A r \in Procs : r # p => Local(r)'
    BY <1>1, <2>1, <2>2, <2>3, TablesKept
  <2> QED
    BY <1>9, <2>4, <2>5, <2>6, <2>7 DEF IOIndInv
<1> QED
  BY <1>13, <1>14


(* The line being edited has no newline, said without Bytes. *)
NoNewline(in) == \A k \in 1 .. Sub(in.e, in.w) : in.buf[Add(in.w, k - 1) % INPUT_BUF] # NL

LEMMA KillLineIs ==
  ASSUME NEW in \in StructInput
  PROVE  \E m \in 0 .. Sub(in.e, in.w) : KillLine(in) = [in EXCEPT !.e = Sub(in.e, m)]
<1> DEFINE n == Sub(in.e, in.w)
           stop == {k \in 0 .. n : k = n \/ in.buf[Sub(in.e, k + 1) % INPUT_BUF] = NL}
<1>1. KillLine(in) = [in EXCEPT !.e = Sub(in.e, Min(stop))]
  BY DEF KillLine
<1>2. n \in Nat
  BY SubNat DEF StructInput
<1> HIDE DEF n
<1>3. n \in stop /\ stop \subseteq Nat /\ stop \subseteq 0 .. n
  BY <1>2
<1> HIDE DEF stop
<1>4. Min(stop) \in 0 .. n
  BY <1>3, MinIs
<1> QED
  BY <1>1, <1>4 DEF n

(* Going back by m leaves a part of the line. *)
LEMMA Erased ==
  ASSUME NEW in \in StructInput, NoNewline(in), NEW m \in 0 .. Sub(in.e, in.w),
         NEW out, out = [in EXCEPT !.e = Sub(in.e, m)]
  PROVE  /\ out \in StructInput /\ out.r = in.r /\ out.w = in.w /\ out.buf = in.buf
         /\ Sub(out.e, out.w) = Sub(in.e, in.w) - m /\ NoNewline(out)
<1>1. in.e \in Index /\ in.w \in Index /\ Sub(in.e, in.w) \in Nat
  BY SubNat DEF StructInput
<1>2. Sub(in.e, m) \in Index /\ Sub(Sub(in.e, m), in.w) = Sub(in.e, in.w) - m
  BY <1>1, Back
<1>3. /\ out \in StructInput /\ out.r = in.r /\ out.w = in.w /\ out.buf = in.buf
      /\ out.e = Sub(in.e, m)
  BY <1>2 DEF StructInput
<1>4. 1 .. Sub(out.e, out.w) \subseteq 1 .. Sub(in.e, in.w)
  BY <1>1, <1>2, <1>3
<1> QED
  BY <1>2, <1>3, <1>4 DEF NoNewline

LEMMA ConsoleintrIs ==
  ASSUME NEW in \in StructInput, NEW c \in Byte \cup {BS, KILL}, NoNewline(in),
         Sub(in.w, in.r) + Sub(in.e, in.w) <= INPUT_BUF
  PROVE  LET i == consoleintr(in, c)
         IN /\ i.in \in StructInput /\ i.in.r = in.r /\ NoNewline(i.in)
            /\ Sub(i.in.w, i.in.r) + Sub(i.in.e, i.in.w) <= INPUT_BUF
            /\ ~i.wake => i.in.w = in.w
<1> DEFINE i == consoleintr(in, c)
           put == [in EXCEPT !.buf[in.e % INPUT_BUF] = c, !.e = Add(in.e, 1)]
           Good(x) == /\ x \in StructInput /\ x.r = in.r /\ NoNewline(x)
                      /\ Sub(x.w, x.r) + Sub(x.e, x.w) <= INPUT_BUF
<1>1. i = IF c = KILL THEN [in |-> KillLine(in), wake |-> FALSE]
          ELSE IF c = BS THEN [in |-> IF in.e # in.w THEN [in EXCEPT !.e = Sub(in.e, 1)] ELSE in,
                               wake |-> FALSE]
          ELSE IF Sub(in.e, in.r) >= INPUT_BUF THEN [in |-> in, wake |-> FALSE]
          ELSE IF Ready(put, c) THEN [in |-> [put EXCEPT !.w = put.e], wake |-> TRUE]
          ELSE [in |-> put, wake |-> FALSE]
  BY DEF consoleintr
<1>2. /\ in.r \in Index /\ in.w \in Index /\ in.e \in Index /\ in.buf \in [0 .. INPUT_BUF - 1 -> Cell]
      /\ Sub(in.e, in.w) \in Nat /\ Sub(in.w, in.r) \in Nat
  BY SubNat DEF StructInput
<1>3. Sub(in.e, in.r) = Sub(in.w, in.r) + Sub(in.e, in.w)
  <2>1. Sub(in.w, in.r) + Sub(in.e, in.w) < UINT
    BY <1>2, Sizes
  <2> QED
    BY <1>2, <2>1, Between
<1> HIDE DEF i, put
<1>4. ASSUME NEW m \in 0 .. Sub(in.e, in.w), i.in = [in EXCEPT !.e = Sub(in.e, m)]
      PROVE  Good(i.in) /\ i.in.w = in.w
  <2>1. PICK x : x = i.in
    OBVIOUS
  <2>2. x = [in EXCEPT !.e = Sub(in.e, m)]
    BY <1>4, <2>1
  <2>3. /\ x \in StructInput /\ x.r = in.r /\ x.w = in.w
        /\ Sub(x.e, x.w) = Sub(in.e, in.w) - m /\ NoNewline(x)
    BY <2>2, Erased
  <2>4. PICK a \in Nat, b \in Nat : a = Sub(in.w, in.r) /\ b = Sub(in.e, in.w)
    BY <1>2
  <2>5. a + (b - m) <= INPUT_BUF
    BY <2>4, Sizes
  <2> QED
    BY <2>1, <2>3, <2>4, <2>5
<1>5. CASE c = KILL
  <2>1. i.in = KillLine(in)
    BY <1>1, <1>5
  <2> QED
    BY <1>4, <2>1, KillLineIs DEF i
<1>6. CASE c # KILL /\ c = BS
  <2>1. CASE in.e # in.w
    <3>1. Sub(in.e, in.w) # 0
      BY <1>2, <2>1, Sizes, FullIs
    <3>2. 1 \in 0 .. Sub(in.e, in.w)
      BY <1>2, <3>1
    <3>3. i.in = [in EXCEPT !.e = Sub(in.e, 1)]
      BY <1>1, <1>6, <2>1
    <3> QED
      BY <1>4, <3>2, <3>3 DEF i
  <2>2. CASE in.e = in.w
    <3>1. i.in = in
      BY <1>1, <1>6, <2>2
    <3> QED
      BY <3>1 DEF i
  <2> QED
    BY <2>1, <2>2
<1>7. CASE c # KILL /\ c # BS /\ Sub(in.e, in.r) >= INPUT_BUF
  <2>1. i.in = in
    BY <1>1, <1>7
  <2> QED
    BY <2>1 DEF i
<1>8. CASE c # KILL /\ c # BS /\ ~(Sub(in.e, in.r) >= INPUT_BUF)
  <2>1. c \in Cell
    BY <1>8 DEF Cell
  <2>2. in.e % INPUT_BUF \in 0 .. INPUT_BUF - 1
    <3>1. in.e \in Int
      BY <1>2, Sizes DEF Index
    <3> QED
      BY <3>1, Sizes, ModIn
  <2>3. PICK a \in Nat, b \in Nat :
          a = Sub(in.w, in.r) /\ b = Sub(in.e, in.w) /\ a + b + 1 <= INPUT_BUF
    BY <1>2, <1>3, <1>8, Sizes
  <2>4. a + b + 1 < UINT /\ b + 1 < UINT /\ a \in Nat /\ b \in Nat
    BY <2>3, Sizes
  <2>5. PICK e \in Index : e = Add(in.e, 1) /\ Sub(e, in.w) = b + 1 /\ Sub(e, in.r) = a + b + 1
    <3>1. Add(in.e, 1) \in Index /\ Sub(Add(in.e, 1), in.w) = b + 1
      BY <1>2, <2>3, <2>4, Ahead
    <3>2. Sub(Add(in.e, 1), in.r) = Sub(in.e, in.r) + 1
      BY <1>2, <1>3, <2>3, <2>4, Ahead
    <3> QED
      BY <1>3, <2>3, <3>1, <3>2
  <2>6. /\ put \in StructInput /\ put.r = in.r /\ put.w = in.w /\ put.e = e
        /\ put.buf = [in.buf EXCEPT ![in.e % INPUT_BUF] = c]
    BY <1>2, <2>1, <2>2, <2>5 DEF put, StructInput
  <2>7. CASE Ready(put, c)
    <3>1. i.in = [put EXCEPT !.w = put.e] /\ i.wake
      BY <1>1, <1>8, <2>7
    <3>2. /\ i.in \in StructInput /\ i.in.r = in.r /\ i.in.w = e /\ i.in.e = e
      BY <2>6, <3>1 DEF StructInput
    <3>3. Sub(e, e) = 0
      BY Sizes, FullIs
    <3>4. NoNewline(i.in)
      BY <3>2, <3>3 DEF NoNewline
    <3> QED
      BY <2>3, <2>5, <3>1, <3>2, <3>3, <3>4 DEF i
  <2>8. CASE ~Ready(put, c)
    <3>1. i.in = put
      BY <1>1, <1>8, <2>8
    <3>2. c # NL
      BY <2>8 DEF Ready
    <3>3. ASSUME NEW k \in 1 .. b + 1 PROVE put.buf[Add(in.w, k - 1) % INPUT_BUF] # NL
      <4>1. PICK x \in 0 .. INPUT_BUF - 1 : x = Add(in.w, k - 1) % INPUT_BUF
        <5>1. in.w \in Int /\ k - 1 \in Int /\ UINT \in Int
          BY <1>2, Sizes DEF Index
        <5>2. Add(in.w, k - 1) \in Index
          BY <5>1, IndexIn
        <5>3. Add(in.w, k - 1) \in Int
          BY <5>2, Sizes DEF Index
        <5> QED
          BY <5>3, Sizes, ModIn
      <4>2. CASE x = in.e % INPUT_BUF
        BY <1>2, <2>2, <2>6, <3>2, <4>1, <4>2
      <4>3. CASE x # in.e % INPUT_BUF
        <5>1. k # b + 1
          <6>1. ASSUME k = b + 1 PROVE FALSE
            <7>1. in.e = Add(in.w, b)
              <8>1. b \in 0 .. UINT - 1
                BY <2>4, Sizes
              <8> QED
                BY <1>2, <2>3, <8>1, FullIs
            <7>2. k - 1 = b
              BY <2>4, <6>1
            <7> QED
              BY <4>1, <4>3, <7>1, <7>2
          <6> QED
            BY <6>1
        <5>2. k \in 1 .. Sub(in.e, in.w)
          BY <2>3, <5>1
        <5>3. in.buf[x] # NL
          BY <4>1, <5>2 DEF NoNewline
        <5> QED
          BY <1>2, <2>2, <2>6, <4>1, <4>3, <5>3
      <4> QED
        BY <4>2, <4>3
    <3>4. NoNewline(put)
      BY <2>5, <2>6, <3>3 DEF NoNewline
    <3>5. a + (b + 1) <= INPUT_BUF
      BY <2>3
    <3> QED
      BY <2>3, <2>5, <2>6, <3>1, <3>4, <3>5 DEF i
  <2> QED
    BY <2>7, <2>8
<1> QED
  BY <1>5, <1>6, <1>7, <1>8

LEMMA LineShape ==
  NoNewline(input) <=> \A k \in DOMAIN Bytes(input.buf, INPUT_BUF, input.w, input.e) :
                          Bytes(input.buf, INPUT_BUF, input.w, input.e)[k] # NL
<1>2. PICK s : s = Bytes(input.buf, INPUT_BUF, input.w, input.e)
  OBVIOUS
<1>3. /\ DOMAIN s = 1 .. Sub(input.e, input.w)
      /\ \A k \in DOMAIN s : s[k] = input.buf[Add(input.w, k - 1) % INPUT_BUF]
  BY <1>2 DEF Bytes
<1> QED
  BY <1>2, <1>3 DEF NoNewline

LEMMA LineShapeNext ==
  ASSUME input' \in StructInput, NoNewline(input')
  PROVE  \A k \in DOMAIN Bytes(input'.buf, INPUT_BUF, input'.w, input'.e) :
           Bytes(input'.buf, INPUT_BUF, input'.w, input'.e)[k] # NL
<1>1. PICK s : s = Bytes(input'.buf, INPUT_BUF, input'.w, input'.e)
  OBVIOUS
<1>2. /\ DOMAIN s = 1 .. Sub(input'.e, input'.w)
      /\ \A k \in DOMAIN s : s[k] = input'.buf[Add(input'.w, k - 1) % INPUT_BUF]
  BY <1>1 DEF Bytes
<1> QED
  BY <1>1, <1>2 DEF NoNewline

LEMMA KbdintrStep ==
  ASSUME IOIndInv, NEW c \in Keys, kbdintr(c)
  PROVE  IOIndInv'
<1>0. /\ TypeOK /\ FilesOK /\ FileRefs /\ RingsOK /\ SleepsForReason
      /\ \A r \in Procs : Local(r)
      /\ \A q \in Pages : EndsOK(q)
  BY DEF IOIndInv
<1>1. PICK i : i = consoleintr(input, c)
  OBVIOUS
<1>2. /\ input' = i.in /\ proc' = IF i.wake THEN Wake(proc, inputr) ELSE proc
      /\ UNCHANGED <<ftable, ofile, pipe, loc, buf, cut>> /\ events' = events + 1
  BY <1>1 DEF kbdintr, Event
<1>3. c \in Byte \cup {BS, KILL}
  BY IOAssumption
<1>4. /\ input \in StructInput /\ NoNewline(input)
      /\ Sub(input.w, input.r) + Sub(input.e, input.w) <= INPUT_BUF
  BY <1>0, InputIs, LineShape DEF RingsOK
<1>5. /\ input' \in StructInput /\ input'.r = input.r /\ NoNewline(input')
      /\ Sub(input'.w, input'.r) + Sub(input'.e, input'.w) <= INPUT_BUF
      /\ ~i.wake => input'.w = input.w
  BY <1>1, <1>2, <1>3, <1>4, ConsoleintrIs
<1>6. RingsOK'
  BY <1>0, <1>2, <1>5, LineShapeNext DEF RingsOK
<1>7. /\ proc' \in [Procs -> StructProc]
      /\ \A r \in Procs :
           /\ proc'[r] = proc[r] \/ proc'[r].state = "run"
           /\ proc'[r].killed = proc[r].killed
           /\ proc'[r].state = "sleep" => proc'[r] = proc[r] /\ (i.wake => proc[r].chan # inputr)
  <2>1. proc \in [Procs -> StructProc]
    BY <1>0 DEF TypeOK
  <2>2. CASE i.wake
    <3>1. proc' = Wake(proc, inputr)
      BY <1>2, <2>2
    <3> QED
      BY <2>1, <3>1, WakeIs
  <2>3. CASE ~i.wake
    BY <1>2, <2>1, <2>3
  <2> QED
    BY <2>2, <2>3
<1>8. TypeOK'
  BY <1>0, <1>2, <1>5, <1>7 DEF TypeOK
<1>9. FilesOK' /\ FileRefs'
  BY <1>0, <1>2, RefsKept DEF FilesOK
<1>10. SleepsForReason'
  <2>1. ASSUME NEW x \in Pages, NEW r \in Procs, proc'[r].state = "sleep"
        PROVE  /\ proc'[r].chan = nread(x) =>
                    /\ pipe'[x].writeopen
                    /\ Empty(pipe[x])' \/ x \in cut'
               /\ proc'[r].chan = nwrite(x) => Full(pipe[x])' /\ pipe'[x].readopen
               /\ proc'[r].chan = inputr => input'.r = input'.w
    <3>1. proc'[r] = proc[r] /\ proc[r].state = "sleep" /\ (i.wake => proc[r].chan # inputr)
      BY <1>7, <2>1
    <3>2. /\ proc[r].chan = nread(x) =>
               pipe[x].writeopen /\ (Empty(pipe[x]) \/ x \in cut)
          /\ proc[r].chan = nwrite(x) => Full(pipe[x]) /\ pipe[x].readopen
          /\ proc[r].chan = inputr => input.r = input.w
      BY <1>0, <3>1 DEF SleepsForReason
    <3> QED
      BY <1>2, <1>5, <3>1, <3>2 DEF Empty, Full
  <2> QED
    BY <2>1 DEF SleepsForReason
<1>11. ASSUME NEW r \in Procs PROVE Local(r)'
  BY <1>0, <1>2, <1>7, LocalKept
<1>12. ASSUME NEW q \in Pages PROVE EndsOK(q)'
  <2>1. /\ \A w \in BOOLEAN, f \in Files : FileHas(f, q, w)' <=> FileHas(f, q, w)
        /\ \A w \in BOOLEAN, r \in Procs : Hangs(r, q, w)' <=> Hangs(r, q, w)
    BY <1>2 DEF FileHas, Hangs
  <2> QED
    BY <1>0, <1>2, <2>1, EndsKept
<1> QED
  BY <1>6, <1>8, <1>9, <1>10, <1>11, <1>12 DEF IOIndInv

-----------------------------------------------------------------------------
(* The initial states. *)
LEMMA StartRings ==
  ASSUME input = [NoInput EXCEPT !.r = UINT - 1, !.w = UINT - 1, !.e = UINT - 1],
         \A q \in Pages : pipe[q].nwrite \in Index /\ pipe[q].nread = pipe[q].nwrite
  PROVE  input \in StructInput /\ RingsOK /\ Sub(input.w, input.r) = 0
<1>1. UINT - 1 \in Index /\ NULL \in Cell
  BY Sizes DEF Index, Cell
<1>2. input.r = UINT - 1 /\ input.w = UINT - 1 /\ input.e = UINT - 1 /\ input \in StructInput
  BY <1>1 DEF NoInput, StructInput
<1>3. 0 \in 0 .. UINT - 1
  BY Sizes
<1>4. \A i \in Index : Sub(i, i) = 0
  BY <1>3, FullIs
<1>5. Sub(input.e, input.w) = 0 /\ Sub(input.w, input.r) = 0
  BY <1>1, <1>2, <1>4
<1>6. NoNewline(input)
  BY <1>5 DEF NoNewline
<1>7. \A q \in Pages : Sub(pipe[q].nwrite, pipe[q].nread) <= PIPESIZE
  BY <1>4, Sizes
<1> QED
  BY <1>2, <1>5, <1>6, <1>7, LineShape, Sizes DEF RingsOK

LEMMA StartCounted ==
  ASSUME loc = [p \in Procs |-> Idle], NEW f
  PROVE  /\ Holders(f) = {h \in Procs \X Fds : ofile[h[1]][h[2]] = f}
         /\ Cardinality(Holders(f)) \in Nat
         /\ Cardinality(Holders(f)) = 0 => \A p \in Procs, d \in Fds : ofile[p][d] # f
<1>1. \A p \in Procs : DOMAIN loc[p].close = {} /\ loc[p].pc = "idle"
  BY DEF Idle
<1>2. Holders(f) = {h \in Procs \X Fds : ofile[h[1]][h[2]] = f}
  BY <1>1 DEF Holders
<1>3. IsFiniteSet(Holders(f)) /\ Cardinality(Holders(f)) \in Nat
  BY HoldersFinite
<1>4. ASSUME NEW p \in Procs, NEW d \in Fds, ofile[p][d] = f PROVE Cardinality(Holders(f)) # 0
  <2>1. <<p, d>> \in Holders(f)
    BY <1>2, <1>4
  <2> QED
    BY <1>3, <2>1, FS_EmptySet
<1> QED
  BY <1>2, <1>3, <1>4

(* What both kinds of initial state have in common. *)
LEMMA StartIs ==
  ASSUME Init
  PROVE  /\ ofile \in [Procs -> [Fds -> Files \cup {NULL}]] /\ ftable \in [Files -> StructFile]
         /\ FileRefs /\ FilesOK
         /\ proc \in [Procs -> StructProc] /\ pipe \in [Pages -> StructPipe]
         /\ \A r \in Procs : /\ proc[r].state \in {"run", "unused"} /\ ~proc[r].killed
                             /\ proc[r].state = "unused" => ofile[r] = NoFds
         /\ \A x \in Pages : /\ pipe[x].nread = pipe[x].nwrite
                             /\ pipe[x].readopen <=> pipe[x].writeopen
                             /\ pipe[x].used <=> pipe[x].readopen
                             /\ \A w \in BOOLEAN :
                                  /\ (\E f \in Files : FileHas(f, x, w)) <=> pipe[x].used
                                  /\ \A f, g \in Files : FileHas(f, x, w) /\ FileHas(g, x, w) => f = g
<1>1. /\ loc = [p \in Procs |-> Idle] /\ First \in Procs
      /\ \A d : d \in {0, 1} => d \in Fds
      /\ 1 \in Files /\ 2 \in Files /\ 3 \in Files /\ NULL \notin Files
  BY Consts, IOAssumption DEF Init, First, Fds
<1>2. NoFile \in StructFile /\ UINT - 1 \in Index /\ 0 \in Index /\ NULL \in Cell
  BY Sizes DEF NoFile, StructFile, Index, Cell
<1>3. FreePage \in StructPipe /\ UsedPipe \in StructPipe
      /\ UsedPipe.used /\ UsedPipe.readopen /\ UsedPipe.writeopen
      /\ UsedPipe.nread = UsedPipe.nwrite /\ FreePage.nread = FreePage.nwrite
      /\ ~FreePage.used /\ ~FreePage.readopen /\ ~FreePage.writeopen
  BY <1>2 DEF FreePage, UsedPipe, pipealloc, StructPipe
<1>4. ASSUME NEW types \in [Files -> StructFile],
             ftable = [f \in Files |->
               [types[f] EXCEPT !.ref = Cardinality({h \in Procs \X Fds : ofile[h[1]][h[2]] = f})]],
             \A f \in Files : /\ types[f].type # "none" => \E p \in Procs, d \in Fds : ofile[p][d] = f
                              /\ types[f].type = "pipe" => types[f].pipe \in Pages
      PROVE  /\ ftable \in [Files -> StructFile] /\ FileRefs /\ FilesOK
             /\ \A f \in Files : /\ ftable[f].type = types[f].type /\ ftable[f].pipe = types[f].pipe
                                 /\ ftable[f].writable = types[f].writable
  <2>1. ASSUME NEW f \in Files
        PROVE  /\ Cardinality(Holders(f)) \in Nat
               /\ ftable[f] = [types[f] EXCEPT !.ref = Cardinality(Holders(f))]
               /\ Cardinality(Holders(f)) = 0 => \A p \in Procs, d \in Fds : ofile[p][d] # f
    BY <1>1, <1>4, StartCounted
  <2>2. ASSUME NEW f \in Files
        PROVE  /\ ftable[f] \in StructFile /\ ftable[f].ref = Cardinality(Holders(f))
               /\ ftable[f].type = types[f].type /\ ftable[f].pipe = types[f].pipe
               /\ ftable[f].writable = types[f].writable
    <3>1. PICK t \in StructFile, c \in Nat : t = types[f] /\ c = Cardinality(Holders(f))
      BY <2>1
    <3>2. ftable[f] = [t EXCEPT !.ref = c]
      BY <2>1, <3>1
    <3>3. /\ ftable[f] \in StructFile /\ ftable[f].ref = c /\ ftable[f].type = t.type
          /\ ftable[f].pipe = t.pipe /\ ftable[f].writable = t.writable
      BY <3>2 DEF StructFile
    <3> QED
      BY <3>1, <3>3
  <2>3. ftable \in [Files -> StructFile]
    <3> DEFINE T(f) == [types[f] EXCEPT !.ref =
                          Cardinality({h \in Procs \X Fds : ofile[h[1]][h[2]] = f})]
    <3>1. ftable = [f \in Files |-> T(f)]
      BY <1>4
    <3> HIDE DEF T
    <3> QED
      BY <2>2, <3>1
  <2>4. FileRefs
    BY <2>2 DEF FileRefs
  <2>5. FilesOK
    <3>1. ASSUME NEW f \in Files
          PROVE  /\ types[f].type # "none" => \E p \in Procs, d \in Fds : ofile[p][d] = f
                 /\ types[f].type = "pipe" => types[f].pipe \in Pages
      BY <1>4
    <3>2. ASSUME NEW f \in Files, ftable[f].ref = 0 PROVE types[f].type = "none"
      <4>1. \A p \in Procs, d \in Fds : ofile[p][d] # f
        BY <2>1, <2>2, <3>2
      <4> QED
        BY <3>1, <4>1
    <3> QED
      BY <2>2, <3>1, <3>2 DEF FilesOK
  <2> QED
    BY <2>2, <2>3, <2>4, <2>5
<1>5. ASSUME NEW ps, NEW fds, NEW types, NEW page, Started(ps, fds, types, page)
      PROVE  /\ proc \in [Procs -> StructProc]
             /\ \A r \in Procs : /\ proc[r].state \in {"run", "unused"} /\ ~proc[r].killed
                                 /\ proc[r].state = "unused" => r \notin ps
  BY <1>5 DEF Started, StructProc
<1>6. /\ Console \in [Files -> StructFile]
      /\ \A f \in Files : Console[f].type # "pipe"
      /\ \A f \in Files : f # 1 => Console[f].type = "none"
  BY <1>1, <1>2 DEF Console, NoFile, StructFile
<1>7. NoFds \in [Fds -> Files \cup {NULL}]
  BY DEF NoFds
<1>8. CASE Started({First}, [p \in Procs |-> IF p = First THEN [NoFds EXCEPT ![0] = 1] ELSE NoFds],
                   Console, [q \in Pages |-> FreePage])
  <2>1. /\ ofile = [p \in Procs |-> IF p = First THEN [NoFds EXCEPT ![0] = 1] ELSE NoFds]
        /\ pipe = [q \in Pages |-> FreePage]
    BY <1>8 DEF Started
  <2>2. ofile \in [Procs -> [Fds -> Files \cup {NULL}]] /\ ofile[First][0] = 1
    BY <1>1, <1>7, <2>1
  <2>3. ftable = [f \in Files |->
          [Console[f] EXCEPT !.ref = Cardinality({h \in Procs \X Fds : ofile[h[1]][h[2]] = f})]]
    BY <1>8 DEF Started
  <2>4. \A f \in Files : /\ Console[f].type # "none" => \E p \in Procs, d \in Fds : ofile[p][d] = f
                         /\ Console[f].type = "pipe" => Console[f].pipe \in Pages
    BY <1>1, <1>6, <2>2
  <2>5. /\ ftable \in [Files -> StructFile] /\ FileRefs /\ FilesOK
        /\ \A f \in Files : ftable[f].type # "pipe"
    BY <1>4, <1>6, <2>3, <2>4
  <2>6. /\ proc \in [Procs -> StructProc]
        /\ \A r \in Procs : /\ proc[r].state \in {"run", "unused"} /\ ~proc[r].killed
                            /\ proc[r].state = "unused" => r \notin {First}
    BY <1>5, <1>8
  <2>7. \A r \in Procs : r \notin {First} => ofile[r] = NoFds
    BY <2>1
  <2>8. pipe \in [Pages -> StructPipe] /\ \A x \in Pages : pipe[x] = FreePage
    BY <1>3, <2>1
  <2> QED
    BY <1>3, <2>2, <2>5, <2>6, <2>7, <2>8 DEF FileHas
<1>9. ASSUME NEW q \in Pages,
             Started(Procs, [p \in Procs |-> [NoFds EXCEPT ![0] = 1,
                                                          ![1] = IF p = First THEN 3 ELSE 2]],
                     [Console EXCEPT ![2] = PipeFile(q, FALSE), ![3] = PipeFile(q, TRUE)],
                     [x \in Pages |-> IF x = q THEN UsedPipe ELSE FreePage])
      PROVE  /\ ofile \in [Procs -> [Fds -> Files \cup {NULL}]] /\ ftable \in [Files -> StructFile]
             /\ FileRefs /\ FilesOK
             /\ proc \in [Procs -> StructProc] /\ pipe \in [Pages -> StructPipe]
             /\ \A r \in Procs : proc[r].state = "run" /\ ~proc[r].killed
             /\ \A x \in Pages : pipe[x] = IF x = q THEN UsedPipe ELSE FreePage
             /\ \A f \in Files, w \in BOOLEAN, x \in Pages :
                  FileHas(f, x, w) <=> x = q /\ f = IF w THEN 3 ELSE 2
  <2> DEFINE types == [Console EXCEPT ![2] = PipeFile(q, FALSE), ![3] = PipeFile(q, TRUE)]
  <2>1. /\ ofile = [p \in Procs |-> [NoFds EXCEPT ![0] = 1, ![1] = IF p = First THEN 3 ELSE 2]]
        /\ pipe = [x \in Pages |-> IF x = q THEN UsedPipe ELSE FreePage]
    BY <1>9 DEF Started
  <2>2. ftable = [f \in Files |->
          [types[f] EXCEPT !.ref = Cardinality({h \in Procs \X Fds : ofile[h[1]][h[2]] = f})]]
    BY <1>9 DEF Started
  <2>3. /\ proc \in [Procs -> StructProc]
        /\ \A r \in Procs : proc[r].state = "run" /\ ~proc[r].killed
    BY <1>5, <1>9
  <2>4. /\ ofile \in [Procs -> [Fds -> Files \cup {NULL}]]
        /\ \A p \in Procs : ofile[p][0] = 1 /\ ofile[p][1] = IF p = First THEN 3 ELSE 2
    BY <1>1, <1>7, <2>1
  <2>5. PipeFile(q, FALSE) \in StructFile /\ PipeFile(q, TRUE) \in StructFile
    BY DEF PipeFile, StructFile
  <2>6. /\ types \in [Files -> StructFile] /\ types[2] = PipeFile(q, FALSE)
        /\ types[3] = PipeFile(q, TRUE)
        /\ \A f \in Files : f \notin {2, 3} => types[f] = Console[f]
    <3>1. PICK a \in StructFile, b \in StructFile : a = PipeFile(q, FALSE) /\ b = PipeFile(q, TRUE)
      BY <2>5
    <3>2. types = [Console EXCEPT ![2] = a, ![3] = b]
      BY <3>1
    <3> HIDE DEF types
    <3>3. PICK g \in [Files -> StructFile] :
            g = [Console EXCEPT ![2] = a]
      BY <1>1, <1>6
    <3>4. types = [g EXCEPT ![3] = b]
      BY <3>2, <3>3
    <3>5. /\ types \in [Files -> StructFile] /\ types[3] = b
          /\ \A f \in Files : f # 3 => types[f] = g[f]
      BY <1>1, <3>4
    <3>6. /\ g[2] = a
          /\ \A f \in Files : f # 2 => g[f] = Console[f]
      BY <1>1, <1>6, <3>3
    <3>7. types[2] = g[2]
      BY <1>1, <3>5
    <3> QED
      BY <3>1, <3>5, <3>6, <3>7
  <2> HIDE DEF types
  <2>7. PICK r \in Procs : r # First
    BY IOAssumption
  <2>8. \A f \in Files : f \in {1, 2, 3} => \E p \in Procs, d \in Fds : ofile[p][d] = f
    BY <1>1, <2>4, <2>7
  <2>9. \A f \in Files : /\ types[f].type = "pipe" <=> f \in {2, 3}
                         /\ types[f].type # "none" => f \in {1, 2, 3}
                         /\ f \in {2, 3} => types[f].pipe = q /\ (types[f].writable <=> f = 3)
    BY <1>6, <2>6 DEF PipeFile
  <2>10. /\ ftable \in [Files -> StructFile] /\ FileRefs /\ FilesOK
         /\ \A f \in Files : /\ ftable[f].type = types[f].type /\ ftable[f].pipe = types[f].pipe
                             /\ ftable[f].writable = types[f].writable
    BY <1>4, <2>2, <2>6, <2>8, <2>9
  <2>11. \A f \in Files, w \in BOOLEAN, x \in Pages :
           FileHas(f, x, w) <=> x = q /\ f = IF w THEN 3 ELSE 2
    <3>1. \A f \in Files : ftable[f].writable \in BOOLEAN
      BY <2>10 DEF StructFile
    <3> QED
      BY <2>9, <2>10, <3>1 DEF FileHas
  <2>12. pipe \in [Pages -> StructPipe] /\ \A x \in Pages : pipe[x] = IF x = q THEN UsedPipe ELSE FreePage
    BY <1>3, <2>1
  <2> QED
    BY <2>3, <2>4, <2>10, <2>11, <2>12
<1>10. CASE \E q \in Pages :
          Started(Procs, [p \in Procs |-> [NoFds EXCEPT ![0] = 1,
                                                       ![1] = IF p = First THEN 3 ELSE 2]],
                  [Console EXCEPT ![2] = PipeFile(q, FALSE), ![3] = PipeFile(q, TRUE)],
                  [x \in Pages |-> IF x = q THEN UsedPipe ELSE FreePage])
  <2>1. PICK q \in Pages :
          Started(Procs, [p \in Procs |-> [NoFds EXCEPT ![0] = 1,
                                                       ![1] = IF p = First THEN 3 ELSE 2]],
                  [Console EXCEPT ![2] = PipeFile(q, FALSE), ![3] = PipeFile(q, TRUE)],
                  [x \in Pages |-> IF x = q THEN UsedPipe ELSE FreePage])
    BY <1>10
  <2>2. /\ ofile \in [Procs -> [Fds -> Files \cup {NULL}]] /\ ftable \in [Files -> StructFile]
        /\ FileRefs /\ FilesOK
        /\ proc \in [Procs -> StructProc] /\ pipe \in [Pages -> StructPipe]
        /\ \A r \in Procs : proc[r].state = "run" /\ ~proc[r].killed
        /\ \A x \in Pages : pipe[x] = IF x = q THEN UsedPipe ELSE FreePage
        /\ \A f \in Files, w \in BOOLEAN, x \in Pages :
             FileHas(f, x, w) <=> x = q /\ f = IF w THEN 3 ELSE 2
    BY <1>9, <2>1
  <2>3. ASSUME NEW x \in Pages, NEW w \in BOOLEAN
        PROVE  /\ (\E f \in Files : FileHas(f, x, w)) <=> x = q
               /\ \A f, g \in Files : FileHas(f, x, w) /\ FileHas(g, x, w) => f = g
    BY <1>1, <2>2
  <2>4. ASSUME NEW x \in Pages
        PROVE  /\ pipe[x].nread = pipe[x].nwrite
               /\ pipe[x].readopen <=> pipe[x].writeopen
               /\ pipe[x].used <=> pipe[x].readopen
               /\ pipe[x].used <=> x = q
    BY <1>3, <2>2
  <2> QED
    BY <2>2, <2>3, <2>4
<1> QED
  BY <1>8, <1>10 DEF Init

(* The initial states satisfy the invariant. *)
LEMMA IOInit == Init => IOIndInv
<1> SUFFICES ASSUME Init PROVE IOIndInv
  OBVIOUS
<1>1. /\ input = [NoInput EXCEPT !.r = UINT - 1, !.w = UINT - 1, !.e = UINT - 1]
      /\ loc = [p \in Procs |-> Idle] /\ buf = [p \in Procs |-> UserData] /\ events = 0
      /\ cut = {}
  BY DEF Init
<1>2. Idle \in Locals /\ Idle.pc = "idle" /\ Idle.close = <<>> /\ Idle.ff = NoFile /\ Idle.got = <<>>
  BY Constants DEF Idle
<1>3. \A q \in Pages : pipe[q].nwrite \in Index /\ pipe[q].nread = pipe[q].nwrite
  BY StartIs DEF StructPipe
<1>4. input \in StructInput /\ RingsOK
  BY <1>1, <1>3, StartRings
<1>5. UserData \in Seq(Cell)
  BY IOAssumption, SeqMonotonic DEF Cell
<1>6. TypeOK
  BY <1>1, <1>2, <1>4, <1>5, StartIs DEF TypeOK
<1>7. SleepsForReason
  BY StartIs DEF SleepsForReason
<1>8. ASSUME NEW p \in Procs PROVE Local(p)
  <2>1. loc[p] = Idle /\ proc[p].state # "sleep" /\ (proc[p].state = "unused" => ofile[p] = NoFds)
    BY <1>1, StartIs
  <2>2. Len(<<>>) <= NOFILE
    BY Consts
  <2> QED
    BY <1>2, <2>1, <2>2 DEF Local, Using
<1>9. ASSUME NEW q \in Pages PROVE EndsOK(q)
  <2>1. \A p \in Procs, w \in BOOLEAN : ~Hangs(p, q, w)
    BY <1>1, <1>2 DEF Hangs
  <2>2. \A w \in BOOLEAN : Open(q, w) <=> pipe[q].used
    BY StartIs DEF Open
  <2>3. pipe[q].used <=> pipe[q].readopen \/ pipe[q].writeopen
    BY StartIs
  <2>4. \A w \in BOOLEAN : /\ (\E f \in Files : FileHas(f, q, w)) <=> pipe[q].used
                           /\ \A f, g \in Files : FileHas(f, q, w) /\ FileHas(g, q, w) => f = g
    BY StartIs
  <2> QED
    BY <2>1, <2>2, <2>3, <2>4 DEF EndsOK
<1> QED
  BY <1>4, <1>6, <1>7, <1>8, <1>9, StartIs DEF IOIndInv

(* Every step of every process, and every key, keeps it. *)
LEMMA IONext == IOIndInv /\ [Next]_ioVars => IOIndInv'
<1> SUFFICES ASSUME IOIndInv, [Next]_ioVars PROVE IOIndInv'
  OBVIOUS
<1>1. ASSUME NEW p \in Procs, Call(p) PROVE IOIndInv'
  <2>1. CASE sys_pipe(p)
    BY <2>1, SysPipeStep
  <2>2. CASE Enter(p) /\ exit(p)
    BY <2>2, AtIdle, ExitStep
  <2>3. ASSUME NEW np \in Procs, fork(p, np) PROVE IOIndInv'
    BY <2>3, ForkStep
  <2>4. ASSUME NEW np \in Procs, kill(p, np) PROVE IOIndInv'
    BY <2>4, KillStep
  <2>5. ASSUME NEW d \in Fds, sys_dup(p, d) PROVE IOIndInv'
    BY <2>5, SysDupStep
  <2>6. ASSUME NEW d \in Fds, sys_close(p, d) PROVE IOIndInv'
    BY <2>6, SysCloseStep
  <2>7. ASSUME NEW d \in Fds, sys_write(p, d) PROVE IOIndInv'
    BY <2>7, SysWriteStep
  <2>8. ASSUME NEW d \in Fds, NEW n \in ReadLens, sys_read(p, d, n) PROVE IOIndInv'
    BY <2>8, SysReadStep
  <2> QED
    BY <1>1, <2>1, <2>2, <2>3, <2>4, <2>5, <2>6, <2>7, <2>8 DEF Call
<1>2. ASSUME NEW p \in Procs, Step(p) PROVE IOIndInv'
  <2>1. CASE pipealloc2(p)
    BY <2>1, Pipealloc2Step
  <2>2. CASE fileclose(p)
    BY <2>2, FilecloseStep
  <2>3. CASE fileclose_pipe(p)
    BY <2>3, FileclosePipeStep
  <2>4. CASE closed(p)
    BY <2>4, ClosedStep
  <2>5. CASE pipewrite(p)
    BY <2>5, PipewriteStep
  <2>6. CASE piperead(p)
    BY <2>6, PipereadStep
  <2>7. CASE readconsole(p)
    BY <2>7, ReadconsoleStep
  <2>8. CASE proc[p].killed /\ exit(p) /\ Quiet
    <3>1. events' \in Nat
      BY <2>8 DEF Quiet, IOIndInv, TypeOK
    <3> QED
      BY <2>8, <3>1, ExitStep
  <2> QED
    BY <1>2, <2>1, <2>2, <2>3, <2>4, <2>5, <2>6, <2>7, <2>8 DEF Step
<1>3. ASSUME NEW c \in Keys, kbdintr(c) PROVE IOIndInv'
  BY <1>3, KbdintrStep
<1>4. CASE UNCHANGED ioVars
  <2>1. UNCHANGED <<ftable, ofile, pipe, input, proc, loc, buf, events, cut>>
    BY <1>4 DEF ioVars
  <2>2. TypeOK' /\ FilesOK' /\ RingsOK' /\ FileRefs' /\ SleepsForReason'
    BY <2>1 DEF IOIndInv, TypeOK, FilesOK, RingsOK, FileRefs, Holders, SleepsForReason, Empty, Full
  <2>3. ASSUME NEW p \in Procs PROVE Local(p)'
    BY <2>1 DEF IOIndInv, Local, Using
  <2>4. ASSUME NEW q \in Pages PROVE EndsOK(q)'
    BY <2>1 DEF IOIndInv, EndsOK, Open, FileHas, Hangs
  <2> QED
    BY <2>2, <2>3, <2>4 DEF IOIndInv
<1> QED
  BY <1>1, <1>2, <1>3, <1>4 DEF Next

-----------------------------------------------------------------------------
(* The invariant of descriptors, pipes and the console holds in every      *)
(* reachable state, for every number of processes, files, pages and bytes: *)
(* fork, exit, kill, dup, close and pipe, with their error paths, in any   *)
(* order with reads, writes and keys.                                      *)
THEOREM IOInductive == Spec => []IOIndInv
<1>1. Init => IOIndInv
  BY IOInit
<1>2. IOIndInv /\ [Next]_ioVars => IOIndInv'
  BY IONext
<1> QED
  BY <1>1, <1>2, PTL DEF Spec

(* f->ref is the number of descriptors and calls in progress that refer to *)
(* a struct file (file.c 27-80).                                           *)
THEOREM FileRefsExact == Spec => []FileRefs
<1>1. IOIndInv => FileRefs
  BY DEF IOIndInv
<1> QED
  BY <1>1, IOInductive, PTL

(* No page of a pipe is freed while a file or a process uses the pipe      *)
(* (pipe.c 59-75).                                                         *)
THEOREM PipeNeverLost == Spec => []PipeKept
<1>1. ASSUME IOIndInv PROVE PipeKept
  <2>1. TypeOK /\ FilesOK /\ (\A p \in Procs : Local(p)) /\ (\A q \in Pages : EndsOK(q))
    BY <1>1 DEF IOIndInv
  <2>2. ASSUME NEW f \in Files, ftable[f].type = "pipe" PROVE pipe[ftable[f].pipe].used
    <3>1. PICK q \in Pages, w \in BOOLEAN : q = ftable[f].pipe /\ w = ftable[f].writable
      BY <2>1, <2>2 DEF FilesOK, TypeOK, StructFile
    <3>2. FileHas(f, q, w)
      BY <2>2, <3>1 DEF FileHas
    <3>3. Open(q, w)
      BY <2>1, <3>2 DEF EndsOK
    <3> QED
      BY <2>1, <3>1, <3>3 DEF EndsOK, Open
  <2>3. ASSUME NEW p \in Procs, loc[p].ff.pipe # NULL PROVE pipe[loc[p].ff.pipe].used
    <3>1. loc[p].pc = "pipeclose" /\ loc[p].ff.pipe \in Pages /\ loc[p].ff.writable \in BOOLEAN
      BY <2>1, <2>3 DEF Local, NoFile, TypeOK, Locals, StructFile
    <3>2. PICK q \in Pages, w \in BOOLEAN : q = loc[p].ff.pipe /\ w = loc[p].ff.writable
      BY <3>1
    <3>3. Hangs(p, q, w)
      BY <3>1, <3>2 DEF Hangs
    <3>4. Open(q, w)
      BY <2>1, <3>3 DEF EndsOK
    <3> QED
      BY <2>1, <3>2, <3>4 DEF EndsOK, Open
  <2> QED
    BY <2>1, <2>2, <2>3 DEF PipeKept, Local
<1> QED
  BY <1>1, IOInductive, PTL

(* Who sleeps in piperead, pipewrite or consoleread has a reason to, and   *)
(* somebody at the other end (pipe.c 59-121, console.c), with the one      *)
(* exception the code makes: bytes of a pipewrite that returns from the    *)
(* middle (pipe.c 86-88) lie in a pipe whose reader sleeps on, until the   *)
(* readers are next woken (cut).                                           *)
THEOREM SleepersHaveReason == Spec => []SleepsForReason
<1>1. IOIndInv => SleepsForReason
  BY DEF IOIndInv
<1> QED
  BY <1>1, IOInductive, PTL
=============================================================================
