---------------------------- MODULE KernelProofs ----------------------------
(***************************************************************************)
(* What the operators of Mlfq compute; then every step of scheduler(), of  *)
(* the timer and of every system call keeps IndInv, as long as nobody      *)
(* calls kill; hence every variable keeps its type and the run queues stay *)
(* intact, for every number of slots, CPUs, ticks and shares.              *)
(***************************************************************************)
EXTENDS KernelInv, FiniteSetTheorems, FunctionTheorems, TLAPS

-----------------------------------------------------------------------------
(* The facts about the run queues that the proofs about the kernel rest    *)
(* on.                                                                     *)
Arrays == [Slots -> SlotOrNull]

(* A non-empty set of naturals has a least element.                        *)
LEMMA LeastExists ==
  ASSUME NEW S, S \subseteq Nat, S # {}
  PROVE  \E x \in S : \A y \in S : x <= y
<1>1. IsWellFoundedOn(OpToRel(<, Nat), Nat)
  BY NatLessThanWellFounded
<1>2. PICK x \in S : \A y \in S : ~(<<y, x>> \in OpToRel(<, Nat))
  BY <1>1, WFMin
<1>3. \A y \in S : ~(y < x)
  BY <1>2 DEF OpToRel
<1> QED
  BY <1>3

(* NULL is no slot, and 0 is one.                                          *)
LEMMA NullIsNoSlot == NULL \notin Slots /\ 0 \in Slots /\ (NPROC - 1) \in Slots
BY NullAssumption, NprocAssumption DEF Slots

-----------------------------------------------------------------------------
(* FirstFree is the first empty place of an array that is not full.        *)
LEMMA FirstFreeIs ==
  ASSUME NEW a, ~Full(a)
  PROVE  /\ FirstFree(a) \in Slots /\ a[FirstFree(a)] = NULL
         /\ \A k \in Slots : k < FirstFree(a) => a[k] # NULL
<1> DEFINE S == {i \in Slots : a[i] = NULL}
<1>1. S # {} /\ S \subseteq Nat
  BY NprocAssumption DEF Full, Slots
<1>2. PICK i \in S : \A y \in S : i <= y
  BY <1>1, LeastExists
<1>3. i \in Slots /\ a[i] = NULL /\ \A k \in Slots : k < i => a[k] # NULL
  BY <1>2, NprocAssumption DEF Slots
<1> QED
  BY <1>3 DEF FirstFree

(* initpush: the array holds what it held and p, without gap or repetition.*)
LEMMA InitPushedIs ==
  ASSUME NEW a \in Arrays, NEW p \in Slots, ~Full(a), Compact(a)
  PROVE  /\ InitPushed(a, p) \in Arrays
         /\ Compact(InitPushed(a, p))
         /\ \A s \in Slots : Holds(InitPushed(a, p), s) <=> Holds(a, s) \/ s = p
         /\ InitPushed(a, p)[0] = p
         /\ \A k \in Slots : k # 0 /\ InitPushed(a, p)[k] # NULL =>
              k - 1 \in Slots /\ InitPushed(a, p)[k] = a[k - 1]
<1> DEFINE i == FirstFree(a)
           b == InitPushed(a, p)
<1>1. i \in Slots /\ a[i] = NULL /\ \A k \in Slots : k < i => a[k] # NULL
  BY FirstFreeIs
<1>2. \A k \in Slots : i <= k => a[k] = NULL
  BY <1>1 DEF Compact, Slots
<1> HIDE DEF i
<1>3. b = [k \in Slots |-> IF k = 0 THEN p ELSE IF k <= i THEN a[k - 1] ELSE a[k]]
  BY DEF InitPushed, i
<1>4. \A k \in Slots : k # 0 => k - 1 \in Slots
  BY NprocAssumption DEF Slots
<1> HIDE DEF b
<1>5. b \in Arrays
  BY <1>3, <1>4 DEF Arrays, SlotOrNull
<1>6. Compact(b)
  <2> SUFFICES ASSUME NEW j \in Slots, NEW k \in Slots, j < k, b[j] = NULL PROVE b[k] = NULL
    BY DEF Compact
  <2>1. j > i
    BY <1>1, <1>3, <1>4, NullIsNoSlot, NprocAssumption DEF Slots
  <2> QED
    BY <1>1, <1>2, <1>3, <2>1 DEF Slots
<1>7. ASSUME NEW s \in Slots PROVE Holds(b, s) <=> Holds(a, s) \/ s = p
  <2>1. CASE Holds(b, s)
    BY <2>1, <1>3, <1>4 DEF Holds
  <2>2. CASE s = p
    BY <2>2, <1>3, NullIsNoSlot DEF Holds
  <2>3. ASSUME Holds(a, s) PROVE Holds(b, s)
    <3>1. PICK k \in Slots : a[k] = s
      BY <2>3 DEF Holds
    <3>2. k < i
      BY <3>1, <1>1, <1>2, NullIsNoSlot, NprocAssumption DEF Slots
    <3>3. k + 1 \in Slots /\ k + 1 # 0 /\ k + 1 <= i /\ (k + 1) - 1 = k
      BY <3>2, <1>1, NprocAssumption DEF Slots
    <3>4. b[k + 1] = s
      BY <3>1, <3>3, <1>3
    <3> QED
      BY <3>3, <3>4 DEF Holds
  <2> QED
    BY <2>1, <2>2, <2>3
<1>8. b[0] = p
  BY <1>3, NullIsNoSlot
<1>9. \A k \in Slots : k # 0 /\ b[k] # NULL => k - 1 \in Slots /\ b[k] = a[k - 1]
  BY <1>1, <1>2, <1>3, <1>4, NprocAssumption DEF Slots
<1> QED
  BY <1>5, <1>6, <1>7, <1>8, <1>9 DEF b

(* push: likewise.                                                         *)
LEMMA PushedIs ==
  ASSUME NEW a \in Arrays, NEW p \in Slots, ~Full(a), Compact(a)
  PROVE  /\ Pushed(a, p) \in Arrays
         /\ Compact(Pushed(a, p))
         /\ \A s \in Slots : Holds(Pushed(a, p), s) <=> Holds(a, s) \/ s = p
         /\ \A k \in Slots : Pushed(a, p)[k] = IF k = FirstFree(a) THEN p ELSE a[k]
<1> DEFINE i == FirstFree(a)
           b == Pushed(a, p)
<1>1. i \in Slots /\ a[i] = NULL /\ \A k \in Slots : k < i => a[k] # NULL
  BY FirstFreeIs
<1>2. \A k \in Slots : i <= k => a[k] = NULL
  BY <1>1 DEF Compact, Slots
<1> HIDE DEF i
<1>3. b = [a EXCEPT ![i] = p]
  BY DEF Pushed, i
<1> HIDE DEF b
<1>4. b \in Arrays
  BY <1>1, <1>3 DEF Arrays, SlotOrNull
<1>5. Compact(b)
  BY <1>1, <1>2, <1>3, NullIsNoSlot, NprocAssumption DEF Compact, Arrays, Slots
<1>6. ASSUME NEW s \in Slots PROVE Holds(b, s) <=> Holds(a, s) \/ s = p
  BY <1>1, <1>3, NullIsNoSlot DEF Holds, Arrays
<1>7. \A k \in Slots : b[k] = IF k = i THEN p ELSE a[k]
  BY <1>1, <1>3 DEF Arrays
<1> QED
  BY <1>4, <1>5, <1>6, <1>7 DEF b, i

(* Where pop finds p: the first place of the first level that holds it.    *)
LEMMA PlaceOfIs ==
  ASSUME NEW a, NEW p, Holds(a, p)
  PROVE  PlaceOf(a, p) \in Slots /\ a[PlaceOf(a, p)] = p
<1> DEFINE S == {j \in Slots : a[j] = p}
<1>1. S # {} /\ S \subseteq Nat
  BY NprocAssumption DEF Holds, Slots
<1>2. PICK j \in S : \A y \in S : j <= y
  BY <1>1, LeastExists
<1>3. j \in Slots /\ a[j] = p /\ \A k \in Slots : k < j => a[k] # p
  BY <1>2, NprocAssumption DEF Slots
<1> QED
  BY <1>3 DEF PlaceOf

LEMMA LevelOfIs ==
  ASSUME NEW q, NEW p, Queued(q, p)
  PROVE  LevelOf(q, p) \in Levels /\ Holds(q[LevelOf(q, p)], p)
<1> DEFINE S == {l \in Levels : Holds(q[l], p)}
<1>1. S # {} /\ S \subseteq Nat
  BY DEF Queued, Levels
<1>2. PICK l \in S : \A y \in S : l <= y
  BY <1>1, LeastExists
<1>3. l \in Levels /\ Holds(q[l], p) /\ \A h \in Levels : h < l => ~Holds(q[h], p)
  BY <1>2 DEF Levels
<1> QED
  BY <1>3 DEF LevelOf

(* The shift of pop: the array holds what it held but for place j, in the  *)
(* same order and without a gap.                                           *)
LEMMA RemovedIs ==
  ASSUME NEW a \in Arrays, NEW j \in Slots, Compact(a)
  PROVE  /\ Removed(a, j) \in Arrays
         /\ Compact(Removed(a, j))
         /\ \A k \in Slots : Removed(a, j)[k] # NULL =>
              \E i \in Slots : i # j /\ a[i] = Removed(a, j)[k] /\ i = IF k < j THEN k ELSE k + 1
         /\ \A i \in Slots : i # j /\ a[i] # NULL =>
              \E k \in Slots : Removed(a, j)[k] = a[i]
<1> DEFINE b == Removed(a, j)
<1>1. b = [k \in Slots |-> IF k < j THEN a[k] ELSE IF k < NPROC - 1 THEN a[k + 1] ELSE NULL]
  BY DEF Removed
<1>2. \A k \in Slots : k < NPROC - 1 => k + 1 \in Slots
  BY NprocAssumption DEF Slots
<1> HIDE DEF b
<1>3. b \in Arrays
  BY <1>1, <1>2 DEF Arrays, SlotOrNull
<1>4. Compact(b)
  <2> SUFFICES ASSUME NEW x \in Slots, NEW k \in Slots, x < k, b[x] = NULL PROVE b[k] = NULL
    BY DEF Compact
  <2>1. CASE k = NPROC - 1
    BY <2>1, <1>1, NprocAssumption DEF Compact, Slots
  <2>2. CASE k < NPROC - 1
    BY <2>2, <1>1, <1>2, NprocAssumption DEF Compact, Slots
  <2> QED
    BY <2>1, <2>2, NprocAssumption DEF Slots
<1>5. ASSUME NEW k \in Slots, b[k] # NULL
      PROVE  \E i \in Slots : i # j /\ a[i] = b[k] /\ i = IF k < j THEN k ELSE k + 1
  <2>1. CASE k < j
    BY <2>1, <1>1, NprocAssumption DEF Slots
  <2>2. CASE ~(k < j)
    <3>1. k < NPROC - 1 /\ b[k] = a[k + 1] /\ k + 1 \in Slots /\ k + 1 # j
      BY <2>2, <1>1, <1>2, <1>5, NprocAssumption DEF Slots
    <3> QED
      BY <2>2, <3>1
  <2> QED
    BY <2>1, <2>2
<1>6. ASSUME NEW i \in Slots, i # j, a[i] # NULL PROVE \E k \in Slots : b[k] = a[i]
  <2>1. CASE i < j
    BY <2>1, <1>1
  <2>2. CASE i > j
    <3>1. i - 1 \in Slots /\ ~(i - 1 < j) /\ i - 1 < NPROC - 1 /\ (i - 1) + 1 = i
      BY <2>2, NprocAssumption DEF Slots
    <3>2. b[i - 1] = a[i]
      BY <3>1, <1>1
    <3> QED
      BY <3>1, <3>2
  <2> QED
    BY <2>1, <2>2, <1>6, NprocAssumption DEF Slots
<1> QED
  BY <1>3, <1>4, <1>5, <1>6 DEF b

-----------------------------------------------------------------------------
(* The same for the three queues together.                                 *)
Queues == [Levels -> Arrays]
InitPushedIn(q, p) == [q EXCEPT ![0] = InitPushed(@, p)]
PushedIn(q, n, p)  == [q EXCEPT ![n] = Pushed(@, p)]

(* There is room for a process that a queue does not hold: NPROC places,   *)
(* and each of the others is in at most one of them.                       *)
LEMMA RoomLeft ==
  ASSUME NEW q \in Queues, Once(q), NEW p \in Slots, NEW l \in Levels, ~Holds(q[l], p)
  PROVE  ~Full(q[l])
<1> SUFFICES ASSUME Full(q[l]) PROVE FALSE
  OBVIOUS
<1>1. \A k \in Slots : q[l][k] \in Slots \ {p}
  BY DEF Queues, Arrays, SlotOrNull, Full, Holds
<1>2. \A j, k \in Slots : q[l][j] = q[l][k] => j = k
  BY DEF Once, Full
<1> DEFINE f == [k \in Slots |-> q[l][k]]
<1>3. f \in Injection(Slots, Slots \ {p})
  BY <1>1, <1>2 DEF Injection, IsInjective
<1>4. IsFiniteSet(Slots) /\ Cardinality(Slots) = NPROC
  BY FS_Interval, NprocAssumption DEF Slots
<1>5. IsFiniteSet(Slots \ {p}) /\ Cardinality(Slots \ {p}) = NPROC - 1
  BY <1>4, FS_RemoveElement
<1>6. Cardinality(Slots) <= Cardinality(Slots \ {p})
  BY <1>3, <1>5, FS_Injection
<1> QED
  BY <1>4, <1>5, <1>6, NprocAssumption

LEMMA InitPushQueue ==
  ASSUME NEW q \in Queues, NEW p \in Slots,
         ~Full(q[0]), Compact(q[0]), Once(q), ~Queued(q, p)
  PROVE  LET r == InitPushedIn(q, p)
         IN  /\ r \in Queues /\ Once(r)
             /\ Compact(r[0]) /\ r[1] = q[1] /\ r[2] = q[2]
             /\ \A s \in Slots : Queued(r, s) <=> Queued(q, s) \/ s = p
<1> DEFINE r == InitPushedIn(q, p)
           b == InitPushed(q[0], p)
<1>0. 0 \in Levels /\ 1 \in Levels /\ 2 \in Levels /\ q[0] \in Arrays
  BY DEF Levels, Queues
<1>1. /\ b \in Arrays /\ Compact(b) /\ b[0] = p
      /\ \A s \in Slots : Holds(b, s) <=> Holds(q[0], s) \/ s = p
      /\ \A k \in Slots : k # 0 /\ b[k] # NULL => k - 1 \in Slots /\ b[k] = q[0][k - 1]
  BY <1>0, InitPushedIs
<1> HIDE DEF b
<1>2. r = [q EXCEPT ![0] = b]
  BY DEF b, InitPushedIn
<1> HIDE DEF r
<1>3. r \in Queues /\ r[0] = b /\ \A l \in Levels : l # 0 => r[l] = q[l]
  BY <1>0, <1>1, <1>2 DEF Queues
<1>4. \A l \in Levels : \A k \in Slots : q[l][k] # p
  BY DEF Queued, Holds
<1>5. Once(r)
  <2> SUFFICES ASSUME NEW l \in Levels, NEW h \in Levels, NEW j \in Slots, NEW k \in Slots,
                      r[l][j] # NULL, r[l][j] = r[h][k]
               PROVE  l = h /\ j = k
    BY DEF Once
  <2>1. CASE l = 0 /\ h = 0
    BY <2>1, <1>0, <1>1, <1>3, <1>4 DEF Once, Slots
  <2>2. CASE l # 0 /\ h # 0
    BY <2>2, <1>3 DEF Once
  <2>3. CASE l = 0 /\ h # 0
    <3>1. b[j] = q[h][k] /\ b[j] # NULL
      BY <2>3, <1>3
    <3>2. j # 0 /\ j - 1 \in Slots /\ q[0][j - 1] = q[h][k]
      BY <3>1, <1>1, <1>4
    <3> QED
      BY <2>3, <3>1, <3>2, <1>0 DEF Once
  <2>4. CASE l # 0 /\ h = 0
    <3>1. b[k] = q[l][j] /\ b[k] # NULL
      BY <2>4, <1>3
    <3>2. k # 0 /\ k - 1 \in Slots /\ q[0][k - 1] = q[l][j]
      BY <3>1, <1>1, <1>4
    <3>3. q[l][j] # NULL /\ 0 \in Levels
      BY <3>1, <1>0
    <3>4. l = 0
      BY <3>2, <3>3 DEF Once
    <3> QED
      BY <2>4, <3>4
  <2> QED
    BY <2>1, <2>2, <2>3, <2>4
<1>6. ASSUME NEW s \in Slots PROVE Queued(r, s) <=> Queued(q, s) \/ s = p
  BY <1>0, <1>1, <1>3 DEF Queued
<1>7. Compact(r[0]) /\ r[1] = q[1] /\ r[2] = q[2]
  BY <1>0, <1>1, <1>3
<1> QED
  BY <1>3, <1>5, <1>6, <1>7 DEF r

LEMMA PushQueue ==
  ASSUME NEW q \in Queues, NEW p \in Slots, NEW n \in Levels,
         ~Full(q[n]), Compact(q[n]), Once(q), ~Queued(q, p)
  PROVE  LET r == PushedIn(q, n, p)
         IN  /\ r \in Queues /\ Once(r)
             /\ Compact(r[n]) /\ \A l \in Levels : l # n => r[l] = q[l]
             /\ \A s \in Slots : Queued(r, s) <=> Queued(q, s) \/ s = p
<1> DEFINE r == PushedIn(q, n, p)
           b == Pushed(q[n], p)
           i == FirstFree(q[n])
<1>0. q[n] \in Arrays
  BY DEF Queues
<1>1. /\ b \in Arrays /\ Compact(b)
      /\ \A s \in Slots : Holds(b, s) <=> Holds(q[n], s) \/ s = p
      /\ \A k \in Slots : b[k] = IF k = i THEN p ELSE q[n][k]
  BY <1>0, PushedIs
<1> HIDE DEF b, i
<1>2. r = [q EXCEPT ![n] = b]
  BY DEF b, PushedIn
<1> HIDE DEF r
<1>3. r \in Queues /\ r[n] = b /\ \A l \in Levels : l # n => r[l] = q[l]
  BY <1>1, <1>2 DEF Queues
<1>4. \A l \in Levels : \A k \in Slots : q[l][k] # p
  BY DEF Queued, Holds
<1>5. Once(r)
  <2> SUFFICES ASSUME NEW g \in Levels, NEW h \in Levels, NEW y \in Slots, NEW k \in Slots,
                      r[g][y] # NULL, r[g][y] = r[h][k]
               PROVE  g = h /\ y = k
    BY DEF Once
  <2>1. \A h1 \in Levels : \A k1 \in Slots :
           (h1 = n /\ k1 = i /\ r[h1][k1] = p) \/ (r[h1][k1] = q[h1][k1] /\ r[h1][k1] # p)
    BY <1>1, <1>3, <1>4
  <2>2. CASE r[g][y] = p
    <3>1. g = n /\ y = i
      BY <2>1, <2>2
    <3>2. h = n /\ k = i
      BY <2>1, <2>2
    <3> QED
      BY <3>1, <3>2
  <2>3. CASE r[g][y] # p
    <3>1. q[g][y] = r[g][y] /\ q[h][k] = r[g][y]
      BY <2>1, <2>3
    <3> QED
      BY <3>1 DEF Once
  <2> QED
    BY <2>2, <2>3
<1>6. ASSUME NEW s \in Slots PROVE Queued(r, s) <=> Queued(q, s) \/ s = p
  BY <1>1, <1>3 DEF Queued
<1> QED
  BY <1>1, <1>3, <1>5, <1>6 DEF r

LEMMA PopQueue ==
  ASSUME NEW q \in Queues, NEW p \in Slots, Queued(q, p), Once(q),
         Compact(q[0]), Compact(q[1]), Compact(q[2])
  PROVE  LET r == Popped(q, p)
         IN  /\ r \in Queues /\ Once(r)
             /\ Compact(r[0]) /\ Compact(r[1]) /\ Compact(r[2])
             /\ \A s \in Slots : Queued(r, s) <=> Queued(q, s) /\ s # p
             /\ LevelOf(q, p) \in Levels /\ PlaceOf(q[LevelOf(q, p)], p) \in Slots
<1> DEFINE r == Popped(q, p)
           l == LevelOf(q, p)
           j == PlaceOf(q[l], p)
           b == Removed(q[l], j)
<1>1. l \in Levels /\ Holds(q[l], p)
  BY LevelOfIs
<1>2. j \in Slots /\ q[l][j] = p
  BY <1>1, PlaceOfIs
<1>3. q[l] \in Arrays /\ Compact(q[l])
  BY <1>1 DEF Queues, Levels
<1>4. /\ b \in Arrays /\ Compact(b)
      /\ \A k \in Slots : b[k] # NULL =>
           \E i \in Slots : i # j /\ q[l][i] = b[k] /\ i = IF k < j THEN k ELSE k + 1
      /\ \A i \in Slots : i # j /\ q[l][i] # NULL => \E k \in Slots : b[k] = q[l][i]
  BY <1>2, <1>3, RemovedIs
<1>5. r = [q EXCEPT ![l] = b]
  BY <1>1 DEF Queues, Popped
<1> HIDE DEF b, j, l, r
<1>6. r \in Queues /\ r[l] = b /\ \A h \in Levels : h # l => r[h] = q[h]
  BY <1>1, <1>4, <1>5 DEF Queues
<1>7. \A h \in Levels : \A k \in Slots : q[h][k] = p => h = l /\ k = j
  BY <1>1, <1>2, NullIsNoSlot DEF Once
<1>8. Once(r)
  <2> SUFFICES ASSUME NEW g \in Levels, NEW h \in Levels, NEW x \in Slots, NEW k \in Slots,
                      r[g][x] # NULL, r[g][x] = r[h][k]
               PROVE  g = h /\ x = k
    BY DEF Once
  <2>1. CASE g = l /\ h = l
    <3>1. PICK i \in Slots : q[l][i] = b[x] /\ i = IF x < j THEN x ELSE x + 1
      BY <2>1, <1>4, <1>6
    <3>2. PICK e \in Slots : q[l][e] = b[k] /\ e = IF k < j THEN k ELSE k + 1
      BY <2>1, <1>4, <1>6
    <3>3. i = e
      BY <2>1, <3>1, <3>2, <1>1, <1>6 DEF Once
    <3> QED
      BY <2>1, <3>1, <3>2, <3>3, <1>2 DEF Slots
  <2>2. CASE g # l /\ h # l
    BY <2>2, <1>6 DEF Once
  <2>3. CASE g = l /\ h # l
    <3>1. PICK i \in Slots : q[l][i] = b[x]
      BY <2>3, <1>4, <1>6
    <3> QED
      BY <2>3, <3>1, <1>1, <1>6 DEF Once
  <2>4. CASE g # l /\ h = l
    <3>1. PICK i \in Slots : q[l][i] = b[k]
      BY <2>4, <1>4, <1>6
    <3> QED
      BY <2>4, <3>1, <1>1, <1>6 DEF Once
  <2> QED
    BY <2>1, <2>2, <2>3, <2>4
<1>9. ASSUME NEW s \in Slots PROVE Queued(r, s) <=> Queued(q, s) /\ s # p
  <2>1. ASSUME Queued(r, s) PROVE Queued(q, s) /\ s # p
    <3>1. PICK h \in Levels, k \in Slots : r[h][k] = s
      BY <2>1 DEF Queued, Holds
    <3>2. CASE h = l
      <4>1. PICK i \in Slots : i # j /\ q[l][i] = s
        BY <3>1, <3>2, <1>4, <1>6, NullIsNoSlot
      <4> QED
        BY <4>1, <1>1, <1>7 DEF Queued, Holds
    <3>3. CASE h # l
      BY <3>1, <3>3, <1>6, <1>7 DEF Queued, Holds
    <3> QED
      BY <3>2, <3>3
  <2>2. ASSUME Queued(q, s), s # p PROVE Queued(r, s)
    <3>1. PICK h \in Levels, k \in Slots : q[h][k] = s
      BY <2>2 DEF Queued, Holds
    <3>2. CASE h = l
      BY <2>2, <3>1, <3>2, <1>2, <1>4, <1>6, NullIsNoSlot DEF Queued, Holds
    <3>3. CASE h # l
      BY <3>1, <3>3, <1>6 DEF Queued, Holds
    <3> QED
      BY <3>2, <3>3
  <2> QED
    BY <2>1, <2>2
<1>10. Compact(r[0]) /\ Compact(r[1]) /\ Compact(r[2])
  BY <1>4, <1>6 DEF Levels
<1> QED
  BY <1>1, <1>2, <1>6, <1>8, <1>9, <1>10 DEF l, j, r

(* One move of a boost: place x of level l is emptied, and its process is  *)
(* pushed into the highest queue.                                          *)
LEMMA BoostQueue ==
  ASSUME NEW q \in Queues, NEW l \in {1, 2}, NEW x \in Slots, NEW p \in Slots, q[l][x] = p,
         ~Full(q[0]), Compact(q[0]), Once(q),
         NEW r \in Queues, r[0] = Pushed(q[0], p),
         \A k \in Slots : r[l][k] = IF k = x THEN NULL ELSE q[l][k],
         \A h \in Levels : h # 0 /\ h # l => r[h] = q[h]
  PROVE  /\ Once(r) /\ Compact(r[0])
         /\ \A s \in Slots : Queued(r, s) <=> Queued(q, s)
<1> DEFINE b == Pushed(q[0], p)
           i == FirstFree(q[0])
<1>0. 0 \in Levels /\ l \in Levels /\ l # 0 /\ q[0] \in Arrays /\ q[l] \in Arrays
  BY DEF Levels, Queues
<1>1. /\ b \in Arrays /\ Compact(b)
      /\ \A s \in Slots : Holds(b, s) <=> Holds(q[0], s) \/ s = p
      /\ \A k \in Slots : b[k] = IF k = i THEN p ELSE q[0][k]
  BY <1>0, PushedIs
<1>2. i \in Slots
  BY FirstFreeIs
<1> HIDE DEF b, i
<1>4. r[0] = b
  BY DEF b
<1>6. \A h \in Levels : \A k \in Slots : q[h][k] = p => h = l /\ k = x
  BY <1>0, NullIsNoSlot DEF Once
<1>7. Once(r)
  <2> SUFFICES ASSUME NEW g \in Levels, NEW h \in Levels, NEW y \in Slots, NEW k \in Slots,
                      r[g][y] # NULL, r[g][y] = r[h][k]
               PROVE  g = h /\ y = k
    BY DEF Once
  <2>1. \A h1 \in Levels : \A k1 \in Slots : r[h1][k1] # NULL =>
           (h1 = 0 /\ k1 = i /\ r[h1][k1] = p) \/ (r[h1][k1] = q[h1][k1] /\ r[h1][k1] # p)
    <3> SUFFICES ASSUME NEW h1 \in Levels, NEW k1 \in Slots, r[h1][k1] # NULL
                 PROVE  \/ h1 = 0 /\ k1 = i /\ r[h1][k1] = p
                        \/ r[h1][k1] = q[h1][k1] /\ r[h1][k1] # p
      OBVIOUS
    <3>1. CASE h1 = 0
      BY <3>1, <1>0, <1>1, <1>4, <1>6
    <3>2. CASE h1 = l
      BY <3>2, <1>6
    <3>3. CASE h1 # 0 /\ h1 # l
      BY <3>3, <1>6
    <3> QED
      BY <3>1, <3>2, <3>3
  <2>2. CASE r[g][y] = p
    <3>1. g = 0 /\ y = i
      BY <2>1, <2>2
    <3>2. h = 0 /\ k = i
      BY <2>1, <2>2
    <3> QED
      BY <3>1, <3>2
  <2>3. CASE r[g][y] # p
    <3>1. q[g][y] = r[g][y] /\ q[h][k] = r[g][y]
      BY <2>1, <2>3
    <3> QED
      BY <3>1 DEF Once
  <2> QED
    BY <2>2, <2>3
<1>8. ASSUME NEW s \in Slots PROVE Queued(r, s) <=> Queued(q, s)
  <2>1. CASE s = p
    <3>1. Holds(r[0], s)
      BY <2>1, <1>1, <1>4
    <3>2. Holds(q[l], s)
      BY <2>1 DEF Holds
    <3> QED
      BY <3>1, <3>2, <1>0 DEF Queued
  <2>2. CASE s # p
    <3>1. \A h \in Levels : Holds(r[h], s) <=> Holds(q[h], s)
      <4> SUFFICES ASSUME NEW h \in Levels PROVE Holds(r[h], s) <=> Holds(q[h], s)
        OBVIOUS
      <4>1. CASE h = 0
        BY <4>1, <2>2, <1>1, <1>4
      <4>2. CASE h = l
        BY <4>2, <2>2, NullIsNoSlot DEF Holds
      <4>3. CASE h # 0 /\ h # l
        BY <4>3
      <4> QED
        BY <4>1, <4>2, <4>3
    <3> QED
      BY <3>1 DEF Queued
  <2> QED
    BY <2>1, <2>2
<1> QED
  BY <1>1, <1>4, <1>7, <1>8

-----------------------------------------------------------------------------
(* The cyclic search stays inside the array, and ends at a place it was    *)
(* looking for if there is one.                                            *)
LEMMA PlaceIs ==
  ASSUME NEW i \in -1 .. (NPROC - 1), NEW d \in 1 .. NPROC
  PROVE  Place(i, d) \in Slots
BY NprocAssumption DEF Place, Slots

LEMMA DistanceIs ==
  ASSUME NEW i \in -1 .. (NPROC - 1), NEW G \in SUBSET Slots
  PROVE  /\ Distance(i, G) \in 1 .. NPROC
         /\ G # {} => Place(i, Distance(i, G)) \in G
<1> DEFINE D == {d \in 1 .. NPROC : Place(i, d) \in G}
<1>0. NPROC \in Nat /\ NPROC \in 1 .. NPROC
  BY NprocAssumption
<1>1. CASE D = {}
  <2>1. Distance(i, G) = NPROC
    BY <1>1 DEF Distance
  <2>2. ASSUME G # {} PROVE FALSE
    <3>1. PICK g \in G : TRUE
      BY <2>2
    <3> DEFINE d == IF g > i THEN g - i ELSE g - i + NPROC
    <3>2. g \in 0 .. (NPROC - 1)
      BY DEF Slots
    <3>3. d \in 1 .. NPROC /\ Place(i, d) = g
      BY <3>2, <1>0 DEF Place
    <3> QED
      BY <3>3, <1>1
  <2> QED
    BY <2>1, <2>2, <1>0
<1>2. CASE D # {}
  <2>0. D \subseteq Nat
    BY <1>0
  <2>1. PICK d \in D : \A e \in D : d <= e
    <3> HIDE DEF D
    <3> QED
      BY <1>2, <2>0, LeastExists
  <2>2. /\ Place(i, d) \in G
        /\ \A e \in 1 .. NPROC : e < d => Place(i, e) \notin G
    BY <2>1
  <2>3. /\ Distance(i, G) \in 1 .. NPROC /\ Place(i, Distance(i, G)) \in G
    BY <2>1, <2>2 DEF Distance
  <2> QED
    BY <2>3
<1> QED
  BY <1>1, <1>2

-----------------------------------------------------------------------------
(* The scheduler and the timer.                                            *)
(* Least(S) is an element of S.                                            *)
LEMMA LeastIs ==
  ASSUME NEW S, S \subseteq Slots, S # {}
  PROVE  Least(S) \in S
<1>1. S \subseteq Nat
  BY NprocAssumption DEF Slots
<1>2. \E x \in S : \A y \in S : x <= y
  BY <1>1, LeastExists
<1> QED
  BY <1>2 DEF Least

(* C division, and a pass that stops falling, give integers.               *)
LEMMA StrideIs ==
  ASSUME NEW n \in Int, n # 0
  PROVE  Stride(n) \in Int
BY TickAssumption DEF Stride

LEMMA FlooredIs ==
  ASSUME NEW n \in Int
  PROVE  Floored(n) \in Passes
BY TickAssumption DEF Floored, Passes

LEMMA AdvanceIs ==
  ASSUME TypeOK, NEW x \in Int, AdvanceMlfq(x)
  PROVE  pass' \in [Slots -> Passes]
<1>1. \A s \in Slots : pass[s] - x \in Int
  BY DEF TypeOK, Passes
<1> QED
  BY <1>1, FlooredIs DEF TypeOK, AdvanceMlfq

(* The process that scheduler() chooses is one of those that are behind.   *)
LEMMA FurthestIs ==
  ASSUME TypeOK, Behind # {}
  PROVE  Furthest \in Behind
<1> DEFINE V == {pass[s] + PassFloor : s \in Behind}
           S == {s \in Behind : \A t \in Behind : pass[s] <= pass[t]}
<1>1. Behind \subseteq Slots /\ \A s \in Slots : pass[s] \in Int /\ pass[s] + PassFloor \in Nat
  BY TickAssumption DEF TypeOK, Passes, Behind
<1>2. V \subseteq Nat /\ V # {}
  BY <1>1
<1>3. PICK v \in V : \A w \in V : v <= w
  <2> HIDE DEF V
  <2> QED
    BY <1>2, LeastExists
<1>4. PICK s \in Behind : v = pass[s] + PassFloor
  BY <1>3
<1>5. s \in S
  <2>1. \A t \in Behind : v <= pass[t] + PassFloor
    BY <1>3
  <2> QED
    BY <2>1, <1>1, <1>4, TickAssumption
<1>6. S \subseteq Slots /\ S # {}
  BY <1>1, <1>5
<1> QED
  BY <1>6, LeastIs DEF Furthest

-----------------------------------------------------------------------------
(* What initpush, pop and push do to the queues and to inqueue, in terms   *)
(* of what the invariant says of them.                                     *)
QueueTypes ==
  /\ queue \in Queues /\ index \in [Levels -> -1 .. (NPROC - 1)]
  /\ inqueue \in [Slots -> BOOLEAN] /\ panic \in Panics
QueueCore == Compact(queue[0]) /\ QueuedOnce /\ InqueueExact
LowerCompact == Compact(queue[1]) /\ Compact(queue[2])

LEMMA InitPushStep ==
  ASSUME QueueTypes, QueueCore, NEW p \in Slots, ~inqueue[p], InitPush(p)
  PROVE  /\ QueueTypes' /\ QueueCore' /\ (LowerCompact => LowerCompact')
         /\ \A s \in Slots : inqueue'[s] <=> inqueue[s] \/ s = p
         /\ panic' = panic
<1>1. /\ queue \in Queues /\ Compact(queue[0]) /\ Once(queue) /\ 0 \in Levels
      /\ ~Queued(queue, p)
  BY DEF QueueTypes, QueueCore, QueuedOnce, InqueueExact, Levels
<1>2. ~Full(queue[0])
  BY <1>1, RoomLeft DEF Queued
<1>3. /\ queue' = InitPushedIn(queue, p)
      /\ index' = [index EXCEPT ![0] = -1]
      /\ inqueue' = [inqueue EXCEPT ![p] = TRUE] /\ panic' = panic
  BY <1>2 DEF InitPush, InitPushedIn
<1>4. /\ queue' \in Queues /\ Once(queue') /\ Compact(queue'[0])
      /\ queue'[1] = queue[1] /\ queue'[2] = queue[2]
      /\ \A s \in Slots : Queued(queue', s) <=> Queued(queue, s) \/ s = p
  BY <1>1, <1>2, <1>3, InitPushQueue
<1>5. InqueueExact' /\ \A s \in Slots : inqueue'[s] <=> inqueue[s] \/ s = p
  BY <1>3, <1>4 DEF QueueTypes, QueueCore, InqueueExact
<1>6. index' \in [Levels -> -1 .. (NPROC - 1)]
  <2>1. -1 \in -1 .. (NPROC - 1)
    BY NprocAssumption
  <2> QED
    BY <1>3, <2>1 DEF QueueTypes
<1> QED
  BY <1>3, <1>4, <1>5, <1>6 DEF QueueTypes, QueueCore, LowerCompact, QueuedOnce

LEMMA PopStep ==
  ASSUME QueueTypes, QueueCore, LowerCompact, NEW p \in Slots, Pop(p)
  PROVE  /\ QueueTypes' /\ QueueCore' /\ LowerCompact'
         /\ \A s \in Slots : inqueue'[s] <=> inqueue[s] /\ s # p
<1>1. CASE ~Queued(queue, p)
  <2>1. panic' = "pop" /\ UNCHANGED <<queue, index, inqueue>>
    BY <1>1 DEF Pop
  <2>2. ~inqueue[p]
    BY <1>1 DEF QueueCore, InqueueExact
  <2> QED
    BY <2>1, <2>2 DEF QueueTypes, QueueCore, LowerCompact, QueuedOnce, InqueueExact, Panics
<1>2. CASE Queued(queue, p)
  <2> DEFINE l == LevelOf(queue, p)
             j == PlaceOf(queue[l], p)
  <2>1. /\ queue' = Popped(queue, p)
        /\ index' = [index EXCEPT ![l] = j]
        /\ inqueue' = [inqueue EXCEPT ![p] = FALSE] /\ panic' = panic
    BY <1>2 DEF Pop
  <2>2. /\ queue' \in Queues /\ Once(queue')
        /\ Compact(queue'[0]) /\ Compact(queue'[1]) /\ Compact(queue'[2])
        /\ \A s \in Slots : Queued(queue', s) <=> Queued(queue, s) /\ s # p
        /\ l \in Levels /\ j \in Slots
    <3>1. /\ queue \in Queues /\ Once(queue)
          /\ Compact(queue[0]) /\ Compact(queue[1]) /\ Compact(queue[2])
      BY DEF QueueTypes, QueueCore, QueuedOnce, LowerCompact
    <3> QED
      BY <1>2, <2>1, <3>1, PopQueue
  <2> HIDE DEF l, j
  <2>3. InqueueExact' /\ \A s \in Slots : inqueue'[s] <=> inqueue[s] /\ s # p
    BY <2>1, <2>2 DEF QueueTypes, QueueCore, InqueueExact
  <2>4. index' \in [Levels -> -1 .. (NPROC - 1)]
    BY <2>1, <2>2, NprocAssumption DEF QueueTypes, Slots
  <2> QED
    BY <2>1, <2>2, <2>3, <2>4 DEF QueueTypes, QueueCore, LowerCompact, QueuedOnce
<1> QED
  BY <1>1, <1>2

LEMMA PopIfQueuedStep ==
  ASSUME QueueTypes, QueueCore, LowerCompact, NEW p \in Slots, PopIfQueued(p)
  PROVE  /\ QueueTypes' /\ QueueCore' /\ LowerCompact'
         /\ \A s \in Slots : inqueue'[s] <=> inqueue[s] /\ s # p
<1>1. CASE inqueue[p]
  <2>1. Pop(p)
    BY <1>1 DEF PopIfQueued
  <2> QED
    BY <2>1, PopStep
<1>2. CASE ~inqueue[p]
  <2>1. UNCHANGED <<queue, index, inqueue, panic>>
    BY <1>2 DEF PopIfQueued
  <2> QED
    BY <1>2, <2>1 DEF QueueTypes, QueueCore, LowerCompact, QueuedOnce, InqueueExact
<1> QED
  BY <1>1, <1>2

(* droppriority: the process is popped and pushed one level below.         *)
LEMMA DropStep ==
  ASSUME QueueTypes, QueueCore, LowerCompact, NEW p \in Slots, priority[p] \in {0, 1},
         DropPriority(p)
  PROVE  /\ QueueTypes' /\ QueueCore' /\ LowerCompact'
         /\ \A s \in Slots : inqueue'[s] <=> inqueue[s]
         /\ panic' = panic \/ ~inqueue[p]
<1>1. CASE ~Queued(queue, p)
  <2>1. panic' = "pop" /\ UNCHANGED <<queue, index, inqueue>>
    BY <1>1 DEF DropPriority
  <2> QED
    BY <1>1, <2>1 DEF QueueTypes, QueueCore, LowerCompact, QueuedOnce, InqueueExact, Panics
<1>2. CASE Queued(queue, p)
  <2> DEFINE l == LevelOf(queue, p)
             j == PlaceOf(queue[l], p)
             q == Popped(queue, p)
             n == priority[p] + 1
  <2>1. /\ index' = [index EXCEPT ![l] = j]
        /\ IF Full(q[n])
           THEN panic' = "push" /\ queue' = q /\ inqueue' = [inqueue EXCEPT ![p] = FALSE]
           ELSE queue' = PushedIn(q, n, p) /\ UNCHANGED <<inqueue, panic>>
    BY <1>2 DEF DropPriority, PushedIn
  <2>2. /\ q \in Queues /\ Once(q)
        /\ Compact(q[0]) /\ Compact(q[1]) /\ Compact(q[2])
        /\ \A s \in Slots : Queued(q, s) <=> Queued(queue, s) /\ s # p
        /\ l \in Levels /\ j \in Slots
    <3>1. /\ queue \in Queues /\ Once(queue)
          /\ Compact(queue[0]) /\ Compact(queue[1]) /\ Compact(queue[2])
      BY DEF QueueTypes, QueueCore, QueuedOnce, LowerCompact
    <3> QED
      BY <1>2, <3>1, PopQueue
  <2>3. n \in {1, 2} /\ n \in Levels
    BY DEF Levels
  <2> HIDE DEF l, j, q, n
  <2>4. index' \in [Levels -> -1 .. (NPROC - 1)]
    BY <2>1, <2>2, NprocAssumption DEF QueueTypes, Slots
  <2>5. \A s \in Slots : inqueue[s] <=> Queued(queue, s)
    BY DEF QueueCore, InqueueExact
  <2>6. Compact(q[n]) /\ ~Queued(q, p)
    BY <2>2, <2>3
  <2>7. ~Full(q[n])
    BY <2>2, <2>3, <2>6, RoomLeft DEF Queued
  <2>8. queue' = PushedIn(q, n, p) /\ UNCHANGED <<inqueue, panic>>
    BY <2>1, <2>7
  <2>9. /\ queue' \in Queues /\ Once(queue')
        /\ Compact(queue'[n]) /\ \A h \in Levels : h # n => queue'[h] = q[h]
        /\ \A s \in Slots : Queued(queue', s) <=> Queued(q, s) \/ s = p
    BY <2>2, <2>3, <2>6, <2>7, <2>8, PushQueue
  <2>10. Compact(queue'[0]) /\ Compact(queue'[1]) /\ Compact(queue'[2])
    BY <2>2, <2>3, <2>9 DEF Levels
  <2>11. InqueueExact'
    BY <1>2, <2>2, <2>5, <2>8, <2>9 DEF InqueueExact
  <2> QED
    BY <2>4, <2>8, <2>9, <2>10, <2>11 DEF QueueTypes, QueueCore, LowerCompact, QueuedOnce
<1> QED
  BY <1>1, <1>2

(* One move of a boost.                                                    *)
LEMMA BoostStep ==
  ASSUME QueueTypes, QueueCore, NEW l \in {1, 2}, NEW x \in Slots, NEW p \in Slots,
         queue[l][x] = p, index' = [index EXCEPT ![l] = x],
         IF Full(queue[0])
         THEN panic' = "push" /\ UNCHANGED <<queue, inqueue>>
         ELSE /\ queue' = [queue EXCEPT ![0] = Pushed(@, p), ![l] = [@ EXCEPT ![x] = NULL]]
              /\ inqueue' = [inqueue EXCEPT ![p] = TRUE]
              /\ UNCHANGED panic
  PROVE  QueueTypes' /\ QueueCore' /\ inqueue' = inqueue /\ panic' = panic
<1>0. index' \in [Levels -> -1 .. (NPROC - 1)]
  <2>1. x \in -1 .. (NPROC - 1) /\ index \in [Levels -> -1 .. (NPROC - 1)]
    BY NprocAssumption DEF QueueTypes, Slots
  <2> QED
    BY <2>1
<1>1. ~Full(queue[0])
  <2>1. queue \in Queues /\ Once(queue) /\ 0 \in Levels /\ l \in Levels
    BY DEF QueueTypes, QueueCore, QueuedOnce, Levels
  <2>2. ~Holds(queue[0], p)
    BY <2>1, NullIsNoSlot DEF Once, Holds
  <2> QED
    BY <2>1, <2>2, RoomLeft
<1>2. CASE ~Full(queue[0])
  <2> DEFINE b == Pushed(queue[0], p)
             a == [queue[l] EXCEPT ![x] = NULL]
  <2>0. /\ queue \in Queues /\ Once(queue) /\ Compact(queue[0])
        /\ \A s \in Slots : inqueue[s] <=> Queued(queue, s)
    BY DEF QueueTypes, QueueCore, QueuedOnce, InqueueExact
  <2>1. 0 \in Levels /\ l \in Levels /\ l # 0 /\ queue[0] \in Arrays /\ queue[l] \in Arrays
    BY <2>0 DEF Levels, Queues
  <2>2. b \in Arrays
    BY <1>2, <2>0, <2>1, PushedIs
  <2>3. a \in Arrays /\ \A k \in Slots : a[k] = IF k = x THEN NULL ELSE queue[l][k]
    BY <2>1 DEF Arrays, SlotOrNull
  <2>4. queue' = [queue EXCEPT ![0] = b, ![l] = a]
    BY <1>2, <2>0, <2>1 DEF Queues
  <2>5. inqueue' = inqueue
    <3>1. Queued(queue, p)
      BY <2>1 DEF Queued, Holds
    <3>2. inqueue[p] = TRUE
      BY <2>0, <3>1 DEF QueueTypes
    <3> QED
      BY <1>2, <3>2, ZenonT(60) DEF QueueTypes
  <2> HIDE DEF b, a
  <2>6. /\ queue' \in Queues /\ queue'[0] = b /\ queue'[l] = a
        /\ \A h \in Levels : h # 0 /\ h # l => queue'[h] = queue[h]
    BY <2>0, <2>1, <2>2, <2>3, <2>4 DEF Queues
  <2>7. \A k \in Slots : queue'[l][k] = IF k = x THEN NULL ELSE queue[l][k]
    BY <2>3, <2>6
  <2>8. /\ Once(queue') /\ Compact(queue'[0])
        /\ \A s \in Slots : Queued(queue', s) <=> Queued(queue, s)
    <3>1. queue'[0] = Pushed(queue[0], p)
      BY <2>6 DEF b
    <3> QED
      BY <1>2, <2>0, <2>6, <2>7, <3>1, BoostQueue
  <2> QED
    BY <1>0, <1>2, <2>0, <2>5, <2>6, <2>8
    DEF QueueTypes, QueueCore, QueuedOnce, InqueueExact
<1> QED
  BY <1>1, <1>2

-----------------------------------------------------------------------------
(* The two halves of QueueInv that a step can disturb: the queues, and the *)
(* slots that are freed.                                                   *)
LEMMA QueueInvIs ==
  QueueInv <=> /\ QueueCore /\ (Boosting \/ LowerCompact)
               /\ \A s \in Slots : state[s] = "UNUSED" => ~inqueue[s]
BY DEF QueueInv, QueueCore, LowerCompact, QueuesCompact

LEMMA QueueTypesIs ==
  ASSUME TypeOK
  PROVE  QueueTypes
BY DEF TypeOK, QueueTypes, Queues, Arrays

LEMMA QueueFrame ==
  ASSUME QueueInv, UNCHANGED <<queue, inqueue>>, Boosting => Boosting',
         \A s \in Slots : state'[s] = "UNUSED" => ~inqueue[s]
  PROVE  QueueInv'
BY DEF QueueInv, QueuesCompact, QueuedOnce, InqueueExact

(* A step that creates, enters, removes or frees no thread keeps what the  *)
(* invariant says about threads and about slots being created.             *)
CreatePoints == {"fork", "forked", "create", "created"}
Named(s) == \E m \in Slots : \E i \in Positive : cthread[m][i] = s
FamilyKept ==
  /\ UNCHANGED <<parent, mthread, cthread>>
  /\ \A s \in Slots :
       /\ state'[s] = state[s] \/ (Live(s) /\ state'[s] \notin {"UNUSED", "EMBRYO"})
       /\ kop'[s] = kop[s] \/ (kop'[s].pc \notin CreatePoints /\ state[s] # "EMBRYO")
       /\ inqueue'[s] => inqueue[s] \/ state[s] # "EMBRYO" \/ Named(s)

LEMMA FamilyFrame ==
  ASSUME TypeOK, Family, FamilyKept
  PROVE  Family'
<1> USE DEF FamilyKept
<1>1. FamOwn'
  BY DEF Family, FamOwn, Live
<1>2. FamArray'
  <2>1. \A m \in Slots : \A i \in Positive : cthread[m][i] # NULL => cthread[m][i] \in Slots
    BY DEF TypeOK, Positive, SlotOrNull
  <2> QED
    BY <2>1 DEF Family, FamArray, Live
<1>3. FamOnce'
  BY DEF Family, FamOnce
<1>4. \A t \in Slots : Creates(t)' => Creates(t) /\ kop'[t] = kop[t]
  BY DEF Creates, Live, CreatePoints
<1>5. NewSlot'
  <2> SUFFICES ASSUME NEW t \in Slots, Creates(t)'
               PROVE  LET np == kop'[t].np
                      IN  /\ np \in Slots /\ np # t /\ state'[np] = "EMBRYO" /\ mthread'[np] = np
                          /\ \A j \in Positive : cthread'[np][j] = NULL
                          /\ kop'[t].pc # "forked" => parent'[np] = NULL
                          /\ kop'[t].pc # "created" => /\ ~inqueue'[np]
                               /\ \A m \in Slots : \A i \in Positive : cthread'[m][i] # np
                          /\ kop'[t].pc = "created" =>
                               \E i \in Positive : cthread'[mthread'[t]][i] = np
    BY DEF NewSlot
  <2>1. Creates(t) /\ kop'[t] = kop[t]
    BY <1>4
  <2> DEFINE np == kop[t].np
  <2>2. /\ np \in Slots /\ np # t /\ state[np] = "EMBRYO" /\ mthread[np] = np
        /\ \A j \in Positive : cthread[np][j] = NULL
        /\ kop[t].pc # "forked" => parent[np] = NULL
        /\ kop[t].pc # "created" =>
             ~inqueue[np] /\ \A m \in Slots : \A i \in Positive : cthread[m][i] # np
        /\ kop[t].pc = "created" => \E i \in Positive : cthread[mthread[t]][i] = np
    BY <2>1 DEF Family, NewSlot
  <2> HIDE DEF np
  <2>3. state'[np] = "EMBRYO"
    BY <2>2 DEF Live
  <2>4. kop[t].pc # "created" => ~inqueue'[np]
    BY <2>2 DEF Named
  <2>5. kop'[t].np = np /\ kop'[t].pc = kop[t].pc
    BY <2>1 DEF np
  <2> QED
    BY <2>2, <2>3, <2>4, <2>5
<1>6. NewOnce'
  BY <1>4 DEF Family, NewOnce
<1>7. FreeSlot'
  BY DEF Family, FreeSlot, Live
<1>8. EmbryoIdle'
  BY DEF Family, EmbryoIdle, Live
<1> QED
  BY <1>1, <1>2, <1>3, <1>5, <1>6, <1>7, <1>8 DEF Family

-----------------------------------------------------------------------------
(* A CPU in a thread runs a slot whose process is known; a lock-held loop  *)
(* runs on such a CPU, for a process it knows.                             *)
LEMMA OnCpu ==
  ASSUME TypeOK, Structure, NEW c \in CPUs, Running(c)
  PROVE  /\ cproc[c] \in Slots /\ Main(c) \in Slots /\ state[cproc[c]] # "UNUSED"
         /\ loop.op = "none" => state[cproc[c]] = "RUNNING"
<1>1. cproc[c] \in Slots /\ state[cproc[c]] \in {"RUNNING", "ZOMBIE"}
  BY DEF Structure, Control, CtlProc, Running
<1>2. mthread[cproc[c]] \in Slots
  BY <1>1 DEF Structure, Family, FamOwn
<1>3. loop.op = "none" => state[cproc[c]] = "RUNNING"
  BY DEF Structure, Control, CtlProc, Running
<1> QED
  BY <1>1, <1>2, <1>3 DEF Main

LEMMA InLoop ==
  ASSUME TypeOK, Structure, NEW c \in CPUs, Holding(c), loop.op # "none"
  PROVE  Running(c) /\ loop.m \in Slots
BY DEF Structure, Control, CtlLock, Running, Holding

(* Who else can be inside scheduler() or a lock-held loop: nobody.         *)
LEMMA LockIs ==
  ASSUME TypeOK, Control, NEW c \in CPUs, lock \in {c, NULL}
  PROVE  /\ lock = NULL => loop.op = "none" /\ spc[c] \in {"loop", "run"}
         /\ spc[c] # "run" => loop.op = "none"
         /\ \A d \in CPUs : d # c => spc[d] \in {"loop", "run"}
<1>0. NULL \notin CPUs
  BY CpuAssumption
<1>1. \A d \in CPUs : spc[d] \in {"mlfq", "back", "boost"} => lock = d
  BY DEF Control, CtlLock
<1>2. \A d \in CPUs : spc[d] \in {"loop", "mlfq", "run", "back", "boost"}
  BY DEF TypeOK
<1>3. loop.op # "none" => lock \in CPUs /\ spc[lock] = "run"
  BY DEF Control, CtlLock
<1>4. lock = NULL => loop.op = "none" /\ spc[c] \in {"loop", "run"}
  BY <1>0, <1>1, <1>2, <1>3
<1>5. spc[c] # "run" => loop.op = "none"
  BY <1>0, <1>3
<1>6. ASSUME NEW d \in CPUs, d # c PROVE spc[d] \in {"loop", "run"}
  BY <1>0, <1>1, <1>2, <1>6
<1> QED
  BY <1>4, <1>5, <1>6

(* The invariant holds again when its parts do.                            *)
LEMMA IndInvParts ==
  ASSUME TypeOK', QueueInv', panic' = "none" => Control' /\ Family'
  PROVE  IndInv'
BY DEF IndInv, Structure

USE DEF Holding, LockFree, Running, Main

(* swtch to a thread.                                                      *)
LEMMA DispatchTypes ==
  ASSUME TypeOK, NEW c \in CPUs, NEW p \in Slots, Dispatch(c, p)
  PROVE  /\ state' \in [Slots -> States] /\ chan' \in [Slots -> SlotOrNull \cup {IO}]
         /\ lock' \in CPUs \cup {NULL} /\ panic' \in Panics
         /\ spc' \in [CPUs -> {"loop", "mlfq", "run", "back", "boost"}]
         /\ cproc' \in [CPUs -> SlotOrNull]
BY DEF TypeOK, Dispatch, States, SlotOrNull, Panics

LEMMA DispatchControl ==
  ASSUME TypeOK, Control, NEW c \in CPUs, NEW p \in Slots, Dispatch(c, p), panic' = "none",
         state[p] = "RUNNABLE", spc[c] \in {"loop", "mlfq"}, lock \in {c, NULL},
         \A d \in CPUs : d # c => mproc'[d] = mproc[d] /\ branch'[d] = branch[d],
         branch'[c] = "stride" => mproc'[c] \in Slots,
         UNCHANGED <<mthread, parent, cthread, loop>>
  PROVE  Control'
<1>1. /\ cproc' = [cproc EXCEPT ![c] = p] /\ spc' = [spc EXCEPT ![c] = "run"]
      /\ state' = [state EXCEPT ![p] = "RUNNING"] /\ lock' \in {c, NULL}
  BY DEF Dispatch
<1>0. \A d \in CPUs : ~(spc[d] = "run" /\ cproc[d] = p)
  BY DEF Control, CtlProc
<1>2. loop.op = "none" /\ \A d \in CPUs : d # c => spc[d] \in {"loop", "run"}
  BY LockIs
<1>3. CtlLock'
  BY <1>0, <1>1, <1>2 DEF CtlLock, TypeOK
<1>4. CtlProc'
  BY <1>0, <1>1, <1>2 DEF Control, CtlProc, TypeOK
<1>5. CtlLoop'
  BY <1>2 DEF CtlLoop
<1> QED
  BY <1>3, <1>4, <1>5 DEF Control

LEMMA PickMlfqKeeps ==
  ASSUME IndInv, panic = "none", NEW c \in CPUs, PickMlfq(c)
  PROVE  IndInv'
<1>0. TypeOK /\ QueueInv /\ Control /\ Family
  BY DEF IndInv, Structure
<1>1. TypeOK'
  <2>1. pass' \in [Slots -> Passes] /\ minpass' \in Passes
    <3>1. CASE share = 100
      BY <1>0, <3>1, TickAssumption DEF PickMlfq, TypeOK, Passes
    <3>2. CASE share # 100
      <4>1. Stride(share) \in Int /\ -Stride(share) \in Int
        BY <1>0, StrideIs DEF PickMlfq, TypeOK
      <4> QED
        BY <1>0, <3>2, <4>1, FlooredIs, AdvanceIs DEF PickMlfq
    <3> QED
      BY <3>1, <3>2
  <2> QED
    BY <1>0, <2>1 DEF PickMlfq, TypeOK, procVars, threadVars, kernVars
<1>2. QueueInv'
  <2>1. Boosting => Boosting'
    BY <1>0 DEF PickMlfq, Boosting, TypeOK
  <2> QED
    BY <1>0, <2>1, QueueFrame DEF PickMlfq, procVars, QueueInv
<1>3. Control'
  <2>1. loop.op = "none" /\ \A d \in CPUs : d # c => spc[d] \in {"loop", "run"}
    BY <1>0, LockIs DEF PickMlfq
  <2>2. CtlLock' /\ CtlLoop'
    BY <1>0, <2>1 DEF PickMlfq, TypeOK, CtlLock, CtlLoop
  <2>3. CtlProc'
    BY <1>0, <2>1 DEF PickMlfq, TypeOK, Control, CtlProc, procVars
  <2> QED
    BY <2>2, <2>3 DEF Control
<1>4. Family'
  <2>1. FamilyKept
    BY DEF PickMlfq, FamilyKept, procVars, threadVars, kernVars
  <2> QED
    BY <1>0, <2>1, FamilyFrame
<1> QED
  BY <1>1, <1>2, <1>3, <1>4, IndInvParts

LEMMA PickStrideKeeps ==
  ASSUME IndInv, panic = "none", NEW c \in CPUs, PickStride(c)
  PROVE  IndInv'
<1> DEFINE m == Furthest
           G == {i \in Slots : cthread[m][i] # NULL /\ state[cthread[m][i]] = "RUNNABLE"}
           r == Place(rrlast[m], Distance(rrlast[m], G))
           p == cthread[m][r]
<1>0. TypeOK /\ QueueInv /\ Control /\ Family
  BY DEF IndInv, Structure
<1>1. m \in Slots
  BY <1>0, FurthestIs DEF PickStride, Behind
<1>2. rrlast[m] \in -1 .. (NPROC - 1) /\ G \in SUBSET Slots
  <2>1. rrlast[m] \in Slots
    BY <1>1, <1>0 DEF TypeOK
  <2> QED
    BY <2>1, NprocAssumption DEF Slots
<1>3. r \in Slots /\ (G # {} => r \in G)
  BY <1>2, DistanceIs, PlaceIs
<1>4. G # {} => p \in Slots /\ state[p] = "RUNNABLE"
  BY <1>0, <1>1, <1>3 DEF TypeOK, SlotOrNull
<1>5. /\ mproc' = [mproc EXCEPT ![c] = m] /\ minpass' = pass[m]
      /\ branch' = [branch EXCEPT ![c] = "stride"] /\ rrlast' = [rrlast EXCEPT ![m] = r]
      /\ spc[c] = "loop" /\ lock = NULL
      /\ IF G = {} THEN lock' = c /\ panic' = "acquire" /\ UNCHANGED <<spc, cproc, state, chan>>
         ELSE Dispatch(c, p)
      /\ UNCHANGED <<pid, parent, killed, mthread, cthread, schedVars, kernVars,
                     queue, index, share, lvl, done, mono, boostin, loop>>
  BY DEF PickStride
<1> HIDE DEF m, G, r, p
<1>6. TypeOK'
  <2>1. /\ state' \in [Slots -> States] /\ chan' \in [Slots -> SlotOrNull \cup {IO}]
        /\ lock' \in CPUs \cup {NULL} /\ panic' \in Panics
        /\ spc' \in [CPUs -> {"loop", "mlfq", "run", "back", "boost"}]
        /\ cproc' \in [CPUs -> SlotOrNull]
    <3>1. CASE G = {}
      BY <1>0, <1>5, <3>1 DEF TypeOK, Panics
    <3>2. CASE G # {}
      BY <1>0, <1>4, <1>5, <3>2, DispatchTypes
    <3> QED
      BY <3>1, <3>2
  <2> QED
    BY <1>0, <1>1, <1>3, <1>5, <2>1 DEF TypeOK, schedVars, kernVars, SlotOrNull
<1>7. QueueInv'
  <2>1. Boosting => Boosting'
    BY <1>0, <1>5 DEF Boosting, TypeOK, Dispatch
  <2>2. \A s \in Slots : state'[s] = "UNUSED" => state[s] = "UNUSED"
    BY <1>0, <1>5 DEF TypeOK, Dispatch
  <2> QED
    BY <1>0, <1>5, <2>1, <2>2, QueueFrame DEF schedVars, QueueInv
<1>8. ASSUME panic' = "none" PROVE Control' /\ Family'
  <2>1. G # {} /\ Dispatch(c, p) /\ p \in Slots /\ state[p] = "RUNNABLE"
    BY <1>4, <1>5, <1>8
  <2>2. /\ \A d \in CPUs : d # c => mproc'[d] = mproc[d] /\ branch'[d] = branch[d]
        /\ branch'[c] = "stride" => mproc'[c] \in Slots
    BY <1>0, <1>1, <1>5 DEF TypeOK
  <2>3. Control'
    BY <1>0, <1>5, <1>8, <2>1, <2>2, DispatchControl
  <2>4. FamilyKept
    BY <1>0, <1>5, <2>1 DEF FamilyKept, Dispatch, Live, TypeOK, kernVars, schedVars
  <2> QED
    BY <1>0, <2>3, <2>4, FamilyFrame
<1> QED
  BY <1>6, <1>7, <1>8, IndInvParts

LEMMA RunTopKeeps ==
  ASSUME IndInv, panic = "none", NEW c \in CPUs, RunTop(c)
  PROVE  IndInv'
<1> DEFINE l == lvl[c]
           r == Place(index[l], Distance(index[l], Eligible(l)))
           p == queue[l][r]
           run == Eligible(l) # {} /\ (mono[c] \/ ~done[c])
<1>0. TypeOK /\ QueueInv /\ Control /\ Family
  BY DEF IndInv, Structure
<1>1. l \in Levels /\ l + 1 \in 0 .. 3
  BY <1>0 DEF TypeOK, RunTop, Levels
<1>2. index[l] \in -1 .. (NPROC - 1) /\ Eligible(l) \in SUBSET Slots
  BY <1>0, <1>1 DEF TypeOK, Eligible
<1>3. r \in Slots /\ (Eligible(l) # {} => r \in Eligible(l))
  BY <1>2, DistanceIs, PlaceIs
<1>4. r \in -1 .. (NPROC - 1)
  BY <1>3, NprocAssumption DEF Slots
<1>5. run => p \in Slots /\ state[p] = "RUNNABLE"
  <2> HIDE DEF r, l
  <2>1. run => r \in Slots /\ queue[l][r] # NULL /\ state[queue[l][r]] = "RUNNABLE"
    BY <1>3 DEF Eligible
  <2>2. queue[l][r] \in SlotOrNull
    BY <1>0, <1>1, <1>3 DEF TypeOK
  <2> QED
    BY <2>1, <2>2 DEF SlotOrNull
<1>6. /\ spc[c] = "mlfq" /\ lock = c /\ index' = [index EXCEPT ![l] = r]
      /\ IF run THEN Dispatch(c, p) /\ UNCHANGED lvl
         ELSE lvl' = [lvl EXCEPT ![c] = l + 1] /\ UNCHANGED <<lock, spc, cproc, state, chan, panic>>
      /\ UNCHANGED <<pid, parent, killed, threadVars, schedVars, kernVars, queue, share, minpass,
                     mproc, branch, done, mono, boostin, loop>>
  BY DEF RunTop
<1> HIDE DEF l, r, p, run
<1>7. TypeOK'
  <2>1. /\ state' \in [Slots -> States] /\ chan' \in [Slots -> SlotOrNull \cup {IO}]
        /\ lock' \in CPUs \cup {NULL} /\ panic' \in Panics
        /\ spc' \in [CPUs -> {"loop", "mlfq", "run", "back", "boost"}]
        /\ cproc' \in [CPUs -> SlotOrNull]
        /\ lvl' \in [CPUs -> 0 .. 3]
    <3>1. CASE run
      BY <1>0, <1>5, <1>6, <3>1, DispatchTypes DEF TypeOK
    <3>2. CASE ~run
      BY <1>0, <1>1, <1>6, <3>2 DEF TypeOK
    <3> QED
      BY <3>1, <3>2
  <2> QED
    BY <1>0, <1>4, <1>6, <2>1 DEF TypeOK, threadVars, schedVars, kernVars
<1>8. QueueInv'
  <2>1. Boosting => Boosting'
    BY <1>0, <1>6 DEF Boosting, TypeOK, Dispatch
  <2>2. \A s \in Slots : state'[s] = "UNUSED" => state[s] = "UNUSED"
    BY <1>0, <1>6, ZenonT(60) DEF TypeOK, Dispatch
  <2> QED
    BY <1>0, <1>6, <2>1, <2>2, QueueFrame DEF schedVars, QueueInv
<1>9. ASSUME panic' = "none" PROVE Control' /\ Family'
  <2>1. CASE run
    <3>1. Dispatch(c, p) /\ p \in Slots /\ state[p] = "RUNNABLE"
      BY <1>5, <1>6, <2>1
    <3>2. /\ \A d \in CPUs : d # c => mproc'[d] = mproc[d] /\ branch'[d] = branch[d]
          /\ branch'[c] = "stride" => mproc'[c] \in Slots
          /\ UNCHANGED <<mthread, parent, cthread, loop>>
      BY <1>0, <1>6 DEF Control, CtlProc, threadVars
    <3>3. Control'
      BY <1>0, <1>6, <1>9, <3>1, <3>2, DispatchControl
    <3>4. FamilyKept
      BY <1>0, <1>6, <3>1 DEF FamilyKept, Dispatch, Live, TypeOK, threadVars, kernVars, schedVars
    <3> QED
      BY <1>0, <3>3, <3>4, FamilyFrame
  <2>2. CASE ~run
    <3>1. Control'
      BY <1>0, <1>6, <2>2 DEF Control, CtlLock, CtlProc, CtlLoop, threadVars
    <3>2. FamilyKept
      BY <1>6, <2>2 DEF FamilyKept, threadVars, kernVars, schedVars
    <3> QED
      BY <1>0, <3>1, <3>2, FamilyFrame
  <2> QED
    BY <2>1, <2>2
<1> QED
  BY <1>7, <1>8, <1>9, IndInvParts

LEMMA LeaveMlfqKeeps ==
  ASSUME IndInv, panic = "none", NEW c \in CPUs, LeaveMlfq(c)
  PROVE  IndInv'
<1>0. TypeOK /\ QueueInv /\ Control /\ Family
  BY DEF IndInv, Structure
<1>1. TypeOK'
  BY <1>0 DEF TypeOK, LeaveMlfq, procVars, threadVars, schedVars, kernVars, mlfqVars
<1>2. QueueInv'
  <2>1. Boosting => Boosting'
    BY <1>0 DEF LeaveMlfq, Boosting, TypeOK
  <2> QED
    BY <1>0, <2>1, QueueFrame DEF LeaveMlfq, procVars, schedVars, mlfqVars, QueueInv
<1>3. Control'
  <2>1. loop.op = "none" /\ \A d \in CPUs : d # c => spc[d] \in {"loop", "run"}
    BY <1>0, LockIs DEF LeaveMlfq
  <2>2. CtlLock' /\ CtlLoop'
    BY <1>0, <2>1 DEF LeaveMlfq, TypeOK, CtlLock, CtlLoop
  <2>3. CtlProc'
    BY <1>0, <2>1 DEF LeaveMlfq, TypeOK, Control, CtlProc, procVars
  <2> QED
    BY <2>2, <2>3 DEF Control
<1>4. Family'
  <2>1. FamilyKept
    BY DEF LeaveMlfq, FamilyKept, procVars, threadVars, schedVars, kernVars
  <2> QED
    BY <1>0, <2>1, FamilyFrame
<1> QED
  BY <1>1, <1>2, <1>3, <1>4, IndInvParts

(* What a tick counts.                                                     *)
LEMMA CountIs ==
  ASSUME TypeOK, NEW p \in Slots
  PROVE  MoreTicks(p) \in Nat /\ MoreCur(p) \in 0 .. MaxCur
<1>1. ticks[p] \in Nat /\ curticks[p] \in 0 .. MaxCur
  BY DEF TypeOK
<1> QED
  BY <1>1, TickAssumption DEF MoreTicks, MoreCur

LEMMA CountBackIs ==
  ASSUME TypeOK, NEW p \in Slots, share # 0, CountBack(p)
  PROVE  pass' \in [Slots -> Passes] /\ minpass' \in Passes
<1>1. CASE share = 100
  BY <1>1 DEF CountBack, TypeOK
<1>2. CASE share # 100
  <2> DEFINE x == Stride(share) * (MoreCur(p) - 1)
  <2>1. Stride(share) \in Int /\ MoreCur(p) - 1 \in Int
    BY StrideIs, CountIs, TickAssumption DEF TypeOK
  <2>2. x \in Int
    BY <2>1
  <2>3. AdvanceMlfq(x) /\ minpass' = Floored(minpass - x)
    BY <1>2 DEF CountBack
  <2> HIDE DEF x
  <2>4. minpass - x \in Int
    BY <2>2 DEF TypeOK, Passes
  <2> QED
    BY <2>2, <2>3, <2>4, AdvanceIs, FlooredIs
<1> QED
  BY <1>1, <1>2

LEMMA LessBoostIs ==
  ASSUME TypeOK
  PROVE  LessBoost \in [CPUs -> 0 .. PBOOST]
BY TickAssumption DEF TypeOK, LessBoost

LEMMA BackBoostKeeps ==
  ASSUME IndInv, panic = "none", NEW c \in CPUs, BackBoost(c)
  PROVE  IndInv'
<1> DEFINE p == cproc[c]
<1>0. TypeOK /\ QueueInv /\ Control /\ Family
  BY DEF IndInv, Structure
<1>1. p \in Slots
  BY <1>0 DEF BackBoost, Control, CtlProc
<1>2. TypeOK'
  <2>1. pass' \in [Slots -> Passes] /\ minpass' \in Passes
    BY <1>0, <1>1, CountBackIs DEF BackBoost
  <2>2. boostin' \in [CPUs -> 0 .. PBOOST]
    BY <1>0, LessBoostIs, TickAssumption DEF BackBoost
  <2>3. MoreTicks(p) \in Nat /\ MoreCur(p) \in 0 .. MaxCur
    BY <1>0, <1>1, CountIs
  <2>4. ticks' = [ticks EXCEPT ![p] = MoreTicks(p)] /\ curticks' = [curticks EXCEPT ![p] = MoreCur(p)]
    BY DEF BackBoost
  <2>5. ticks' \in [Slots -> Nat] /\ curticks' \in [Slots -> 0 .. MaxCur]
    BY <1>0, <2>3, <2>4 DEF TypeOK
  <2> QED
    BY <1>0, <2>1, <2>2, <2>5 DEF BackBoost, TypeOK, procVars, threadVars, kernVars
<1>3. QueueInv'
  <2>1. Boosting => Boosting'
    BY <1>0 DEF BackBoost, Boosting, TypeOK
  <2> QED
    BY <1>0, <2>1, QueueFrame DEF BackBoost, procVars, QueueInv
<1>4. Control'
  <2>1. loop.op = "none" /\ \A d \in CPUs : d # c => spc[d] \in {"loop", "run"}
    BY <1>0, LockIs DEF BackBoost
  <2>2. CtlLock' /\ CtlLoop'
    BY <1>0, <2>1 DEF BackBoost, TypeOK, CtlLock, CtlLoop
  <2>3. CtlProc'
    BY <1>0, <2>1 DEF BackBoost, TypeOK, Control, CtlProc, procVars
  <2> QED
    BY <2>2, <2>3 DEF Control
<1>5. Family'
  <2>1. FamilyKept
    BY DEF BackBoost, FamilyKept, procVars, threadVars, kernVars
  <2> QED
    BY <1>0, <2>1, FamilyFrame
<1> QED
  BY <1>2, <1>3, <1>4, <1>5, IndInvParts

LEMMA ZeroIs == 0 \in Levels /\ 0 \in Nat /\ 0 \in 0 .. MaxCur /\ 0 \in Passes
BY TickAssumption DEF Levels, Passes

LEMMA BoostMoveKeeps ==
  ASSUME IndInv, panic = "none", NEW c \in CPUs, BoostMove(c)
  PROVE  IndInv'
<1>0. TypeOK /\ QueueInv /\ Control /\ Family
  BY DEF IndInv, Structure
<1>1. PICK l \in {1, 2} :
        /\ Occupied(l) # {}
        /\ LET r == Place(index[l], Distance(index[l], Occupied(l)))
               p == queue[l][r]
           IN  /\ priority' = [priority EXCEPT ![p] = 0]
               /\ ticks' = [ticks EXCEPT ![p] = 0]
               /\ curticks' = [curticks EXCEPT ![p] = 0]
               /\ index' = [index EXCEPT ![l] = r]
               /\ IF Full(queue[0])
                  THEN panic' = "push" /\ UNCHANGED <<queue, inqueue>>
                  ELSE /\ queue' = [queue EXCEPT ![0] = Pushed(@, p), ![l] = [@ EXCEPT ![r] = NULL]]
                       /\ inqueue' = [inqueue EXCEPT ![p] = TRUE]
                       /\ UNCHANGED panic
  BY DEF BoostMove
<1> DEFINE r == Place(index[l], Distance(index[l], Occupied(l)))
           p == queue[l][r]
<1>2. l \in Levels
  BY DEF Levels
<1>3. r \in Slots /\ r \in Occupied(l)
  <2>1. index[l] \in -1 .. (NPROC - 1) /\ Occupied(l) \in SUBSET Slots
    BY <1>0, <1>2 DEF TypeOK, Occupied
  <2> QED
    BY <1>1, <2>1, DistanceIs, PlaceIs
<1>4. p \in Slots
  <2> HIDE DEF r
  <2>1. queue[l][r] # NULL /\ queue[l][r] \in SlotOrNull
    BY <1>0, <1>2, <1>3 DEF Occupied, TypeOK
  <2> QED
    BY <2>1 DEF SlotOrNull
<1>5. /\ priority' = [priority EXCEPT ![p] = 0] /\ ticks' = [ticks EXCEPT ![p] = 0]
      /\ curticks' = [curticks EXCEPT ![p] = 0]
      /\ UNCHANGED <<procVars, threadVars, percentage, pass, kernVars, share, minpass, cpuVars, loop>>
  BY <1>1 DEF BoostMove
<1>6. QueueTypes' /\ QueueCore' /\ inqueue' = inqueue
  <2>1. QueueTypes /\ QueueCore
    BY <1>0, QueueTypesIs, QueueInvIs
  <2>2. queue[l][r] = p
    OBVIOUS
  <2> HIDE DEF r, p
  <2>3. /\ index' = [index EXCEPT ![l] = r]
        /\ IF Full(queue[0])
           THEN panic' = "push" /\ UNCHANGED <<queue, inqueue>>
           ELSE /\ queue' = [queue EXCEPT ![0] = Pushed(@, p), ![l] = [@ EXCEPT ![r] = NULL]]
                /\ inqueue' = [inqueue EXCEPT ![p] = TRUE]
                /\ UNCHANGED panic
    BY <1>1 DEF r, p
  <2> QED
    BY <1>3, <1>4, <2>1, <2>2, <2>3, BoostStep
<1> HIDE DEF r, p
<1>7. TypeOK'
  <2>1. /\ priority' \in [Slots -> Levels] /\ ticks' \in [Slots -> Nat]
        /\ curticks' \in [Slots -> 0 .. MaxCur]
    BY <1>0, <1>5, ZeroIs DEF TypeOK
  <2> QED
    BY <1>0, <1>5, <1>6, <2>1
    DEF TypeOK, QueueTypes, Queues, Arrays, procVars, threadVars, kernVars, cpuVars
<1>8. QueueInv'
  <2>1. Boosting'
    BY <1>5 DEF BoostMove, Boosting, cpuVars
  <2>2. \A s \in Slots : state'[s] = "UNUSED" => ~inqueue'[s]
    BY <1>0, <1>5, <1>6 DEF QueueInv, procVars
  <2> QED
    BY <1>6, <2>1, <2>2 DEF QueueInv, QueueCore, QueuesCompact
<1>9. Control'
  BY <1>0, <1>5 DEF Control, CtlLock, CtlProc, CtlLoop, procVars, threadVars, cpuVars
<1>10. Family'
  <2>1. FamilyKept
    BY <1>5, <1>6 DEF FamilyKept, procVars, threadVars, kernVars
  <2> QED
    BY <1>0, <2>1, FamilyFrame
<1> QED
  BY <1>7, <1>8, <1>9, <1>10, IndInvParts

LEMMA BoostEndKeeps ==
  ASSUME IndInv, panic = "none", NEW c \in CPUs, BoostEnd(c)
  PROVE  IndInv'
<1>0. TypeOK /\ QueueInv /\ Control /\ Family
  BY DEF IndInv, Structure
<1>1. TypeOK'
  <2>1. 0 \in -1 .. (NPROC - 1)
    BY NprocAssumption
  <2>2. index' = [index EXCEPT ![1] = 0, ![2] = 0]
    BY DEF BoostEnd
  <2>3. index' \in [Levels -> -1 .. (NPROC - 1)]
    BY <1>0, <2>1, <2>2 DEF TypeOK
  <2> QED
    BY <1>0, <2>3 DEF TypeOK, BoostEnd, procVars, threadVars, schedVars, kernVars
<1>2. QueueInv'
  <2>1. LowerCompact'
    BY DEF BoostEnd, Occupied, LowerCompact, Compact
  <2> QED
    BY <1>0, <2>1
    DEF BoostEnd, schedVars, procVars, QueueInv, QueuesCompact, QueuedOnce, InqueueExact, LowerCompact
<1>3. Control'
  <2>1. loop.op = "none" /\ \A d \in CPUs : d # c => spc[d] \in {"loop", "run"}
    BY <1>0, LockIs DEF BoostEnd
  <2>2. CtlLock' /\ CtlLoop'
    BY <1>0, <2>1 DEF BoostEnd, TypeOK, CtlLock, CtlLoop
  <2>3. CtlProc'
    BY <1>0, <2>1 DEF BoostEnd, TypeOK, Control, CtlProc, procVars
  <2> QED
    BY <2>2, <2>3 DEF Control
<1>4. Family'
  <2>1. FamilyKept
    BY DEF BoostEnd, FamilyKept, procVars, threadVars, schedVars, kernVars
  <2> QED
    BY <1>0, <2>1, FamilyFrame
<1> QED
  BY <1>1, <1>2, <1>3, <1>4, IndInvParts

LEMMA BackMlfqKeeps ==
  ASSUME IndInv, panic = "none", NEW c \in CPUs, BackMlfq(c)
  PROVE  IndInv'
<1> DEFINE p == cproc[c]
<1>0. TypeOK /\ QueueInv /\ Control /\ Family
  BY DEF IndInv, Structure
<1>1. p \in Slots
  BY <1>0 DEF BackMlfq, Control, CtlProc
<1>2. loop.op = "none" /\ ~Boosting /\ \A d \in CPUs : d # c => spc[d] \in {"loop", "run"}
  <2>1. loop.op = "none" /\ \A d \in CPUs : d # c => spc[d] \in {"loop", "run"}
    BY <1>0, LockIs DEF BackMlfq
  <2> QED
    BY <2>1 DEF Boosting, BackMlfq
<1>3. /\ QueueTypes' /\ QueueCore' /\ LowerCompact'
      /\ \A s \in Slots : inqueue'[s] => inqueue[s]
      /\ priority' \in [Slots -> Levels] /\ ticks' \in [Slots -> Nat]
  <2>1. QueueTypes /\ QueueCore /\ LowerCompact
    BY <1>0, <1>2, QueueTypesIs, QueueInvIs
  <2>2. CASE MustDrop(p)
    <3>1. DropPriority(p)
      BY <2>2 DEF BackMlfq
    <3>2. priority[p] \in {0, 1}
      BY <1>0, <1>1, <2>2 DEF MustDrop, TypeOK, Levels
    <3>3. priority' \in [Slots -> Levels] /\ ticks' \in [Slots -> Nat]
      <4>1. CASE ~Queued(queue, p)
        BY <1>0, <3>1, <4>1 DEF DropPriority, TypeOK
      <4>2. CASE Queued(queue, p)
        <5>1. /\ priority' = [priority EXCEPT ![p] = priority[p] + 1]
              /\ ticks' = [ticks EXCEPT ![p] = 0]
          BY <3>1, <4>2 DEF DropPriority
        <5>2. priority[p] + 1 \in Levels /\ 0 \in Nat
          BY <3>2 DEF Levels
        <5> QED
          BY <1>0, <5>1, <5>2 DEF TypeOK
      <4> QED
        BY <4>1, <4>2
    <3> QED
      BY <1>1, <2>1, <3>1, <3>2, <3>3, DropStep
  <2>3. CASE ~MustDrop(p)
    <3>1. /\ ticks' = [ticks EXCEPT ![p] = MoreTicks(p)]
          /\ UNCHANGED <<priority, queue, index, inqueue, panic>>
      BY <2>3 DEF BackMlfq
    <3>2. MoreTicks(p) \in Nat
      BY <1>0, <1>1, CountIs
    <3>3. priority' \in [Slots -> Levels] /\ ticks' \in [Slots -> Nat]
      BY <1>0, <3>1, <3>2 DEF TypeOK
    <3> QED
      BY <2>1, <3>1, <3>3 DEF QueueTypes, QueueCore, LowerCompact, QueuedOnce, InqueueExact
  <2> QED
    BY <2>2, <2>3
<1>4. TypeOK'
  <2>1. pass' \in [Slots -> Passes] /\ minpass' \in Passes
    BY <1>0, <1>1, CountBackIs DEF BackMlfq
  <2>2. boostin' \in [CPUs -> 0 .. PBOOST]
    BY <1>0, LessBoostIs DEF BackMlfq
  <2>3. mono' \in [CPUs -> BOOLEAN]
    <3>1. PICK b : mono' = [mono EXCEPT ![c] = @ /\ ~b]
      BY DEF BackMlfq
    <3> QED
      BY <1>0, <3>1 DEF TypeOK
  <2>4. curticks' \in [Slots -> 0 .. MaxCur]
    BY <1>0, ZeroIs DEF TypeOK, BackMlfq
  <2>5. /\ done' = [done EXCEPT ![c] = TRUE] /\ cproc' = [cproc EXCEPT ![c] = NULL]
        /\ spc' = [spc EXCEPT ![c] = "mlfq"]
        /\ UNCHANGED <<procVars, threadVars, percentage, kernVars, share, lock, mproc, branch,
                       lvl, loop>>
    BY DEF BackMlfq
  <2> QED
    BY <1>0, <1>3, <2>1, <2>2, <2>3, <2>4, <2>5
    DEF TypeOK, QueueTypes, Queues, Arrays, procVars, threadVars, kernVars, SlotOrNull
<1>5. QueueInv'
  <2>1. \A s \in Slots : state'[s] = "UNUSED" => ~inqueue'[s]
    BY <1>0, <1>3 DEF QueueInv, BackMlfq, procVars
  <2> QED
    BY <1>3, <2>1 DEF QueueInv, QueueCore, LowerCompact, QueuesCompact
<1>6. Control'
  <2>2. CtlLock' /\ CtlLoop'
    BY <1>0, <1>2 DEF BackMlfq, TypeOK, CtlLock, CtlLoop
  <2>3. CtlProc'
    BY <1>0, <1>2 DEF BackMlfq, TypeOK, Control, CtlProc, procVars
  <2> QED
    BY <2>2, <2>3 DEF Control
<1>7. Family'
  <2>1. FamilyKept
    BY <1>3 DEF BackMlfq, FamilyKept, procVars, threadVars, kernVars
  <2> QED
    BY <1>0, <2>1, FamilyFrame
<1> QED
  BY <1>4, <1>5, <1>6, <1>7, IndInvParts

LEMMA BackStrideKeeps ==
  ASSUME IndInv, panic = "none", NEW c \in CPUs, BackStride(c)
  PROVE  IndInv'
<1> DEFINE m == mproc[c]
<1>0. TypeOK /\ QueueInv /\ Control /\ Family
  BY DEF IndInv, Structure
<1>1. m \in Slots
  BY <1>0 DEF BackStride, Control, CtlProc
<1>2. UNCHANGED <<procVars, threadVars, priority, ticks, curticks, percentage, inqueue,
                 kernVars, mlfqVars, mproc, branch, lvl, done, mono, boostin, loop>>
  BY DEF BackStride
<1>3. loop.op = "none" /\ \A d \in CPUs : d # c => spc[d] \in {"loop", "run"}
  BY <1>0, LockIs DEF BackStride
<1>4. CASE percentage[m] = 0
  <2>1. panic' = "divide" /\ UNCHANGED <<pass, spc, lock, cproc>>
    BY <1>4 DEF BackStride
  <2>2. TypeOK'
    BY <1>0, <1>2, <2>1 DEF TypeOK, procVars, threadVars, kernVars, mlfqVars, Panics
  <2>3. QueueInv'
    BY <1>0, <1>2, <2>1, QueueFrame DEF procVars, mlfqVars, Boosting, QueueInv
  <2> QED
    BY <2>1, <2>2, <2>3, IndInvParts
<1>5. CASE percentage[m] # 0
  <2>1. /\ pass' = [pass EXCEPT ![m] = Floored(pass[m] + Stride(percentage[m]))]
        /\ spc' = [spc EXCEPT ![c] = "loop"] /\ lock' = NULL
        /\ cproc' = [cproc EXCEPT ![c] = NULL] /\ panic' = panic
    BY <1>5 DEF BackStride
  <2>2. TypeOK'
    <3>1. pass[m] \in Int /\ percentage[m] \in Int
      BY <1>0, <1>1 DEF TypeOK, Passes
    <3>2. pass[m] + Stride(percentage[m]) \in Int
      BY <1>5, <3>1, StrideIs
    <3>3. pass' \in [Slots -> Passes]
      BY <1>0, <2>1, <3>2, FlooredIs DEF TypeOK
    <3> QED
      BY <1>0, <1>2, <2>1, <3>3
      DEF TypeOK, procVars, threadVars, kernVars, mlfqVars, SlotOrNull
  <2>3. QueueInv'
    <3>1. Boosting => Boosting'
      BY <1>0, <2>1 DEF BackStride, Boosting, TypeOK
    <3> QED
      BY <1>0, <1>2, <3>1, QueueFrame DEF procVars, mlfqVars, QueueInv
  <2>4. Control'
    <3>1. CtlLock' /\ CtlLoop'
      BY <1>0, <1>2, <1>3, <2>1 DEF TypeOK, CtlLock, CtlLoop
    <3>2. CtlProc'
      BY <1>0, <1>2, <1>3, <2>1 DEF TypeOK, Control, CtlProc, procVars
    <3> QED
      BY <3>1, <3>2 DEF Control
  <2>5. Family'
    <3>1. FamilyKept
      BY <1>2 DEF FamilyKept, procVars, threadVars, kernVars
    <3> QED
      BY <1>0, <3>1, FamilyFrame
  <2> QED
    BY <2>2, <2>3, <2>4, <2>5, IndInvParts
<1> QED
  BY <1>4, <1>5

LEMMA PanicKeeps ==
  ASSUME IndInv, panic' \in Panics \ {"none"},
         UNCHANGED <<procVars, threadVars, schedVars, kernVars, mlfqVars, cpuVars, loop>>
  PROVE  IndInv'
<1>1. TypeOK'
  BY DEF IndInv, TypeOK, procVars, threadVars, schedVars, kernVars, mlfqVars, cpuVars
<1>2. QueueInv'
  BY QueueFrame DEF IndInv, QueueInv, procVars, schedVars, mlfqVars, cpuVars, Boosting
<1> QED
  BY <1>1, <1>2, IndInvParts

LEMMA ScheduleKeeps ==
  ASSUME IndInv, panic = "none", NEW c \in CPUs, Schedule(c)
  PROVE  IndInv'
<1>1. CASE MlfqDivide(c)
  BY <1>1, PanicKeeps DEF MlfqDivide, Panics
<1> QED
  BY <1>1, PickMlfqKeeps, PickStrideKeeps, RunTopKeeps, LeaveMlfqKeeps, BackBoostKeeps,
     BoostMoveKeeps, BoostEndKeeps, BackMlfqKeeps, BackStrideKeeps DEF Schedule

-----------------------------------------------------------------------------
(* A thread leaves its CPU: the others are where they were.                *)
LEMMA SwitchControl ==
  ASSUME TypeOK, Control, NEW c \in CPUs, Running(c), lock \in {c, NULL}, ToScheduler(c),
         loop'.op = "none", UNCHANGED <<cproc, mproc, branch>>,
         \A d \in CPUs : d # c /\ spc[d] = "run" => state'[cproc[d]] = state[cproc[d]]
  PROVE  Control'
<1>0. NULL \notin CPUs
  BY CpuAssumption
<1>1. \A d \in CPUs : d # c => spc[d] \in {"loop", "run"}
  BY LockIs
<1>2. CtlLock' /\ CtlLoop'
  BY <1>1 DEF ToScheduler, TypeOK, CtlLock, CtlLoop
<1>3. CtlProc'
  BY <1>0, <1>1 DEF ToScheduler, TypeOK, Control, CtlProc
<1> QED
  BY <1>2, <1>3 DEF Control

LEMMA GiveUpKeeps ==
  ASSUME IndInv, panic = "none", NEW c \in CPUs, Running(c), GiveUp(c),
         intrap' \in [Slots -> BOOLEAN],
         UNCHANGED <<pid, parent, chan, killed, threadVars, schedVars, kop, mlfqVars,
                     cproc, mproc, branch, lvl, done, mono, boostin, loop, panic>>
  PROVE  IndInv'
<1>0. TypeOK /\ QueueInv /\ Control /\ Family
  BY DEF IndInv, Structure
<1>1. lock = NULL /\ loop.op = "none"
  BY <1>0, LockIs DEF GiveUp
<1>2. cproc[c] \in Slots /\ state[cproc[c]] = "RUNNING"
  BY <1>0, <1>1, OnCpu DEF Structure
<1>3. TypeOK'
  BY <1>0 DEF GiveUp, ToScheduler, TypeOK, threadVars, schedVars, mlfqVars, States
<1>4. QueueInv'
  <2>1. Boosting => Boosting'
    BY <1>0 DEF GiveUp, ToScheduler, Boosting, TypeOK
  <2>2. \A s \in Slots : state'[s] = "UNUSED" => state[s] = "UNUSED"
    BY <1>0 DEF GiveUp, TypeOK
  <2> QED
    BY <1>0, <2>1, <2>2, QueueFrame DEF schedVars, mlfqVars, QueueInv
<1>5. Control'
  <2>1. \A d \in CPUs : d # c /\ spc[d] = "run" => state'[cproc[d]] = state[cproc[d]]
    BY <1>0, <1>2 DEF GiveUp, TypeOK, Control, CtlProc
  <2> QED
    BY <1>0, <1>1, <2>1, SwitchControl DEF GiveUp
<1>6. Family'
  <2>1. FamilyKept
    BY <1>0, <1>2 DEF FamilyKept, GiveUp, TypeOK, Live, threadVars, schedVars
  <2> QED
    BY <1>0, <2>1, FamilyFrame
<1> QED
  BY <1>3, <1>4, <1>5, <1>6, IndInvParts

LEMMA CountTickKeeps ==
  ASSUME IndInv, panic = "none", NEW c \in CPUs, Running(c), CountTick(c),
         intrap' \in [Slots -> BOOLEAN],
         UNCHANGED <<procVars, threadVars, priority, percentage, pass, inqueue, kop, mlfqVars,
                     lock, spc, cproc, mproc, branch, lvl, done, mono, loop, panic>>
  PROVE  IndInv'
<1>0. TypeOK /\ QueueInv /\ Control /\ Family
  BY DEF IndInv, Structure
<1>1. cproc[c] \in Slots
  BY <1>0, OnCpu DEF Structure
<1>2. TypeOK'
  <2>1. MoreTicks(cproc[c]) \in Nat /\ MoreCur(cproc[c]) \in 0 .. MaxCur
    BY <1>0, <1>1, CountIs
  <2>2. ticks' \in [Slots -> Nat] /\ curticks' \in [Slots -> 0 .. MaxCur]
    BY <1>0, <2>1 DEF CountTick, TypeOK
  <2>3. boostin' \in [CPUs -> 0 .. PBOOST]
    BY <1>0, LessBoostIs DEF CountTick, TypeOK
  <2> QED
    BY <1>0, <2>2, <2>3 DEF TypeOK, procVars, threadVars, mlfqVars
<1>3. QueueInv'
  BY <1>0, QueueFrame DEF procVars, mlfqVars, Boosting, QueueInv
<1>4. Control'
  BY <1>0 DEF Control, CtlLock, CtlProc, CtlLoop, procVars, threadVars
<1>5. Family'
  <2>1. FamilyKept
    BY DEF FamilyKept, procVars, threadVars
  <2> QED
    BY <1>0, <2>1, FamilyFrame
<1> QED
  BY <1>2, <1>3, <1>4, <1>5, IndInvParts

LEMMA TimerKeeps ==
  ASSUME IndInv, panic = "none", NEW c \in CPUs, Timer(c)
  PROVE  IndInv'
<1>0. intrap \in [Slots -> BOOLEAN]
  BY DEF IndInv, TypeOK
<1>1. CASE TickStride(c)
  BY <1>0, <1>1, GiveUpKeeps DEF TickStride, Interrupted
<1>2. CASE TickYield(c)
  BY <1>0, <1>2, GiveUpKeeps DEF TickYield, Interrupted, kernVars
<1>3. CASE TickCount(c)
  BY <1>0, <1>3, CountTickKeeps DEF TickCount, Interrupted, kernVars
<1>4. CASE TrapYield(c)
  BY <1>0, <1>4, GiveUpKeeps DEF TrapYield
<1>5. CASE TrapCount(c)
  BY <1>0, <1>5, CountTickKeeps DEF TrapCount
<1>6. CASE TickIdle(c)
  BY <1>6, PanicKeeps DEF TickIdle, Panics
<1> QED
  BY <1>1, <1>2, <1>3, <1>4, <1>5, <1>6 DEF Timer

-----------------------------------------------------------------------------

(* The main thread of a thread that may still run is a main thread itself, *)
(* in place 0 of its array and in no other place of any.                   *)
LEMMA MainIs ==
  ASSUME TypeOK, Family, NEW t \in Slots, Live(t)
  PROVE  LET m == mthread[t]
         IN  /\ m \in Slots /\ mthread[m] = m /\ cthread[m][0] = m
             /\ state[m] \notin {"UNUSED", "EMBRYO"} /\ ~Named(m)
             /\ t = m \/ \E i \in Positive : cthread[m][i] = t
<1> DEFINE m == mthread[t]
<1>0. m \in Slots /\ (t = m \/ \E i \in Positive : cthread[m][i] = t)
  BY DEF Family, FamOwn, Live
<1>1. t # m => \E i \in Positive : cthread[m][i] # NULL /\ cthread[m][i] = t
  BY <1>0, NullIsNoSlot
<1>2. state[m] \notin {"UNUSED", "EMBRYO"}
  <2>1. CASE t = m
    BY <2>1 DEF Live
  <2>2. CASE t # m
    BY <1>0, <1>1, <2>2 DEF Family, FamArray
  <2> QED
    BY <2>1, <2>2
<1>3. ~Named(m)
  <2> SUFFICES ASSUME NEW h \in Slots, NEW k \in Positive, cthread[h][k] = m
               PROVE  FALSE
    BY DEF Named
  <2>1. /\ m # h /\ mthread[m] \in {h, m}
        /\ mthread[m] = m => state[m] \in {"EMBRYO", "ZOMBIE"}
        /\ \A j \in Positive : cthread[m][j] = NULL
    BY <1>0, NullIsNoSlot DEF Family, FamArray
  <2>2. t = m
    BY <1>1, <2>1
  <2> QED
    BY <2>1, <2>2 DEF Live
<1>4. mthread[m] = m
  <2>1. mthread[m] \in Slots /\ (mthread[m] # m => \E i \in Positive : cthread[mthread[m]][i] = m)
    BY <1>0, <1>2 DEF Family, FamOwn
  <2> QED
    BY <1>3, <2>1 DEF Named
<1>5. cthread[m][0] = m
  BY <1>0, <1>2, <1>4 DEF Family, FamOwn
<1> QED
  BY <1>0, <1>2, <1>3, <1>4, <1>5

(* What the array of m says of a thread it names.                          *)
LEMMA EntryIs ==
  ASSUME Family, NEW m \in Slots, NEW i \in Positive, NEW x \in Slots, cthread[m][i] = x
  PROVE  /\ x # m /\ state[x] # "UNUSED" /\ state[m] \notin {"UNUSED", "EMBRYO"}
         /\ mthread[x] \in {m, x}
         /\ mthread[x] = x => state[x] \in {"EMBRYO", "ZOMBIE"} /\ parent[x] = NULL
         /\ \A j \in Positive : cthread[x][j] = NULL
<1> DEFINE t == cthread[m][i]
<1>1. t # NULL /\ t = x
  BY NullIsNoSlot
<1>2. /\ t # m /\ state[t] # "UNUSED" /\ state[m] \notin {"UNUSED", "EMBRYO"}
      /\ mthread[t] \in {m, t}
      /\ mthread[t] = t => state[t] \in {"EMBRYO", "ZOMBIE"} /\ parent[t] = NULL
      /\ \A j \in Positive : cthread[t][j] = NULL
  BY <1>1 DEF Family, FamArray
<1> HIDE DEF t
<1> QED
  BY <1>1, <1>2

(* Steps that leave the queues and the threads alone.                      *)
LEMMA FrameKeeps ==
  ASSUME IndInv, panic = "none", TypeOK', FamilyKept, panic' = "none" => Control',
         UNCHANGED <<queue, inqueue, spc>> \/ (UNCHANGED <<queue, inqueue>> /\ ~Boosting)
  PROVE  IndInv'
<1>0. TypeOK /\ QueueInv /\ Control /\ Family
  BY DEF IndInv, Structure
<1>1. \A s \in Slots : state'[s] = "UNUSED" => ~inqueue[s]
  BY <1>0 DEF QueueInv, FamilyKept
<1>2. QueueInv'
  BY <1>0, <1>1, QueueFrame DEF Boosting
<1> QED
  BY <1>0, <1>2, FamilyFrame, IndInvParts

(* A slot that is freed, with the place that named it.                     *)
SlotFreed(s) ==
  /\ state[s] \in {"EMBRYO", "ZOMBIE"} /\ state' = [state EXCEPT ![s] = "UNUSED"]
  /\ parent'[s] = NULL
  /\ \A u \in Slots : u # s =>
       /\ parent'[u] = parent[u] /\ mthread'[u] = mthread[u]
       /\ kop'[u] = kop[u] \/ (kop'[u].pc \notin CreatePoints /\ state[u] # "EMBRYO")
       /\ inqueue'[u] => inqueue[u]
  /\ \A m, i \in Slots : \/ cthread'[m][i] = cthread[m][i]
                         \/ i \in Positive /\ cthread[m][i] = s /\ cthread'[m][i] = NULL
  /\ ~Named(s)'
  /\ \A j \in Positive : cthread[s][j] = NULL
  /\ \A u \in Slots : Creates(u)' => kop[u].np # s

LEMMA FreedFamily ==
  ASSUME TypeOK, Family, NEW s \in Slots, SlotFreed(s)
  PROVE  Family'
<1> USE DEF SlotFreed
<1>0. Positive \subseteq Slots
  BY DEF Positive
<1>1. /\ state'[s] = "UNUSED" /\ \A u \in Slots : u # s => state'[u] = state[u]
  BY DEF TypeOK
<1>2. FamOwn'
  <2> SUFFICES ASSUME NEW u \in Slots, state'[u] # "UNUSED"
               PROVE  /\ mthread'[u] \in Slots
                      /\ mthread'[u] = u => cthread'[u][0] = u
                      /\ mthread'[u] # u => \E i \in Positive : cthread'[mthread'[u]][i] = u
    BY DEF FamOwn
  <2>1. u # s /\ state[u] # "UNUSED" /\ mthread'[u] = mthread[u]
    BY <1>1
  <2>2. /\ mthread[u] \in Slots
        /\ mthread[u] = u => cthread[u][0] = u
        /\ mthread[u] # u => \E i \in Positive : cthread[mthread[u]][i] = u
    BY <2>1 DEF Family, FamOwn
  <2>3. 0 \in Slots /\ 0 \notin Positive
    BY NullIsNoSlot DEF Positive
  <2> QED
    <3>1. mthread[u] = u => cthread'[u][0] = u
      BY <2>2, <2>3
    <3>2. ASSUME mthread[u] # u PROVE \E i \in Positive : cthread'[mthread[u]][i] = u
      <4>1. PICK i \in Positive : cthread[mthread[u]][i] = u
        BY <2>2, <3>2
      <4>2. cthread'[mthread[u]][i] = u
        BY <1>0, <2>1, <2>2, <4>1
      <4> QED
        BY <4>2
    <3> QED
      BY <2>1, <2>2, <3>1, <3>2
<1>3. \A m \in Slots : \A i \in Positive : cthread'[m][i] # NULL =>
        cthread'[m][i] = cthread[m][i] /\ cthread[m][i] \in Slots /\ cthread[m][i] # s
  BY <1>0 DEF Named, TypeOK, SlotOrNull
<1>4. \A m \in Slots : \A i \in Positive : cthread[m][i] = NULL => cthread'[m][i] = NULL
  BY <1>0
<1>5. FamArray'
  <2> SUFFICES ASSUME NEW m \in Slots
               PROVE  /\ cthread'[m][0] \in {m, NULL}
                      /\ \A i \in Positive : cthread'[m][i] # NULL =>
                           LET t == cthread'[m][i]
                           IN  /\ t # m /\ state'[t] # "UNUSED"
                               /\ state'[m] \notin {"UNUSED", "EMBRYO"}
                               /\ mthread'[t] \in {m, t}
                               /\ mthread'[t] = t =>
                                    state'[t] \in {"EMBRYO", "ZOMBIE"} /\ parent'[t] = NULL
                               /\ \A j \in Positive : cthread'[t][j] = NULL
    BY DEF FamArray
  <2>1. cthread'[m][0] \in {m, NULL}
    BY NullIsNoSlot DEF Family, FamArray, Positive
  <2>2. ASSUME NEW i \in Positive, cthread'[m][i] # NULL
        PROVE  LET t == cthread'[m][i]
               IN  /\ t # m /\ state'[t] # "UNUSED" /\ state'[m] \notin {"UNUSED", "EMBRYO"}
                   /\ mthread'[t] \in {m, t}
                   /\ mthread'[t] = t => state'[t] \in {"EMBRYO", "ZOMBIE"} /\ parent'[t] = NULL
                   /\ \A j \in Positive : cthread'[t][j] = NULL
    <3> DEFINE t == cthread[m][i]
    <3>1. cthread'[m][i] = t /\ t \in Slots /\ t # s /\ t # NULL
      BY <1>3, <2>2
    <3>2. /\ t # m /\ state[t] # "UNUSED" /\ state[m] \notin {"UNUSED", "EMBRYO"}
          /\ mthread[t] \in {m, t}
          /\ mthread[t] = t => state[t] \in {"EMBRYO", "ZOMBIE"} /\ parent[t] = NULL
          /\ \A j \in Positive : cthread[t][j] = NULL
      BY <3>1 DEF Family, FamArray
    <3>3. m # s
      BY <3>1
    <3> HIDE DEF t
    <3> QED
      BY <1>1, <1>4, <3>1, <3>2, <3>3
  <2> QED
    BY <2>1, <2>2
<1>6. FamOnce'
  BY <1>3 DEF Family, FamOnce
<1>7. \A u \in Slots : Creates(u)' => Creates(u) /\ kop'[u] = kop[u] /\ u # s
  BY <1>1 DEF Creates, CreatePoints
<1>8. NewSlot'
  <2> SUFFICES ASSUME NEW t \in Slots, Creates(t)'
               PROVE  LET np == kop'[t].np
                      IN  /\ np \in Slots /\ np # t /\ state'[np] = "EMBRYO" /\ mthread'[np] = np
                          /\ \A j \in Positive : cthread'[np][j] = NULL
                          /\ kop'[t].pc # "forked" => parent'[np] = NULL
                          /\ kop'[t].pc # "created" => /\ ~inqueue'[np]
                               /\ \A m \in Slots : \A i \in Positive : cthread'[m][i] # np
                          /\ kop'[t].pc = "created" =>
                               \E i \in Positive : cthread'[mthread'[t]][i] = np
    BY DEF NewSlot
  <2>1. Creates(t) /\ kop'[t] = kop[t] /\ kop[t].np # s /\ t # s /\ mthread'[t] = mthread[t]
    BY <1>7
  <2> DEFINE np == kop[t].np
  <2>2. /\ np \in Slots /\ np # t /\ state[np] = "EMBRYO" /\ mthread[np] = np
        /\ \A j \in Positive : cthread[np][j] = NULL
        /\ kop[t].pc # "forked" => parent[np] = NULL
        /\ kop[t].pc # "created" =>
             ~inqueue[np] /\ \A m \in Slots : \A i \in Positive : cthread[m][i] # np
        /\ kop[t].pc = "created" => \E i \in Positive : cthread[mthread[t]][i] = np
    BY <2>1 DEF Family, NewSlot
  <2>3. kop'[t].np = np /\ kop'[t].pc = kop[t].pc /\ np # s
    BY <2>1
  <2>4. mthread[t] \in Slots
    BY <2>1 DEF Family, FamOwn, Creates
  <2> HIDE DEF np
  <2>5. kop[t].pc # "created" => \A m \in Slots : \A i \in Positive : cthread'[m][i] # np
    BY <1>3, <2>2, NullIsNoSlot
  <2>6. kop[t].pc = "created" => \E i \in Positive : cthread'[mthread[t]][i] = np
    BY <1>0, <2>2, <2>3, <2>4
  <2> QED
    BY <1>1, <1>4, <2>1, <2>2, <2>3, <2>5, <2>6
<1>9. NewOnce'
  BY <1>7 DEF Family, NewOnce
<1>10. FreeSlot'
  BY <1>1 DEF Family, FreeSlot
<1>11. EmbryoIdle'
  BY <1>1 DEF Family, EmbryoIdle
<1> QED
  BY <1>2, <1>5, <1>6, <1>8, <1>9, <1>10, <1>11 DEF Family

(* All threads of a process become ZOMBIE together.                        *)
ProcessEnds(z) ==
  /\ UNCHANGED <<mthread, cthread, kop, inqueue>>
  /\ \A s \in Slots :
       /\ parent[s] = NULL => parent'[s] = NULL
       /\ state'[s] = state[s] \/ (Live(s) /\ Live(s)')
            \/ (state[s] # "UNUSED" /\ state'[s] = "ZOMBIE" /\ (Named(s) \/ state[s] # "EMBRYO"))
  /\ \A s \in Slots : state[s] = "EMBRYO" /\ state'[s] = "ZOMBIE" =>
       \E i \in Positive : cthread[z][i] = s
  /\ state'[z] = "ZOMBIE"
  /\ \A i \in Positive : cthread[z][i] # NULL => state'[cthread[z][i]] = "ZOMBIE"

LEMMA EndsFamily ==
  ASSUME TypeOK, Family, NEW z \in Slots, ProcessEnds(z)
  PROVE  Family'
<1> USE DEF ProcessEnds
<1>0. /\ \A s \in Slots : state'[s] = "UNUSED" <=> state[s] = "UNUSED"
      /\ \A s \in Slots : state'[s] = "EMBRYO" => state[s] = "EMBRYO"
      /\ \A s \in Slots : state[s] = "ZOMBIE" => state'[s] = "ZOMBIE"
      /\ \A s \in Slots : state[s] = "EMBRYO" => state'[s] \in {"EMBRYO", "ZOMBIE"}
  BY DEF Live
<1>1. FamOwn'
  BY <1>0 DEF Family, FamOwn
<1>2. FamArray'
  <2>1. \A m \in Slots : \A i \in Positive : cthread[m][i] # NULL => cthread[m][i] \in Slots
    BY DEF TypeOK, Positive, SlotOrNull
  <2> QED
    BY <1>0, <2>1 DEF Family, FamArray
<1>3. FamOnce'
  BY DEF Family, FamOnce
<1>4. \A t \in Slots : Creates(t)' => Creates(t) /\ Live(t)
  BY <1>0 DEF Creates, Live, Family, EmbryoIdle, TypeOK, States
<1>5. \A t \in Slots : Creates(t)' => state'[kop[t].np] = "EMBRYO"
  <2> SUFFICES ASSUME NEW t \in Slots, Creates(t)', state'[kop[t].np] # "EMBRYO"
               PROVE  FALSE
    OBVIOUS
  <2> DEFINE np == kop[t].np
  <2>1. Creates(t) /\ Live(t) /\ state'[t] # "ZOMBIE"
    BY <1>4 DEF Creates
  <2>2. /\ np \in Slots /\ state[np] = "EMBRYO"
        /\ kop[t].pc # "created" => \A m \in Slots : \A i \in Positive : cthread[m][i] # np
        /\ kop[t].pc = "created" => \E i \in Positive : cthread[mthread[t]][i] = np
    BY <2>1 DEF Family, NewSlot
  <2>3. state'[np] = "ZOMBIE"
    BY <1>0, <2>2
  <2>4. PICK i \in Positive : cthread[z][i] = np
    BY <2>2, <2>3
  <2>5. PICK k \in Positive : cthread[mthread[t]][k] = np
    BY <2>2, <2>4
  <2>6. mthread[t] \in Slots /\ (t = mthread[t] \/ \E j \in Positive : cthread[mthread[t]][j] = t)
    BY <2>1, MainIs
  <2>7. mthread[t] = z
    BY <2>2, <2>4, <2>5, <2>6, NullIsNoSlot DEF Family, FamOnce
  <2>8. state'[t] = "ZOMBIE"
    BY <2>6, <2>7, NullIsNoSlot
  <2> QED
    BY <2>1, <2>8
<1>6. NewSlot'
  BY <1>4, <1>5 DEF Family, NewSlot
<1>7. NewOnce'
  BY <1>4 DEF Family, NewOnce
<1>8. FreeSlot'
  BY <1>0 DEF Family, FreeSlot
<1>9. EmbryoIdle'
  BY <1>0 DEF Family, EmbryoIdle
<1> QED
  BY <1>1, <1>2, <1>3, <1>6, <1>7, <1>8, <1>9 DEF Family

-----------------------------------------------------------------------------
(* The thread on c makes a system call: its CPU is where the invariant     *)
(* says, and nobody is inside the scheduler.                               *)
LEMMA CallIs ==
  ASSUME IndInv, panic = "none", NEW c \in CPUs, Running(c), lock \in {c, NULL}, loop.op = "none"
  PROVE  /\ TypeOK /\ QueueInv /\ Control /\ Family
         /\ cproc[c] \in Slots /\ Main(c) \in Slots /\ state[cproc[c]] = "RUNNING"
         /\ ~Boosting
         /\ \A d \in CPUs : d # c => spc[d] \in {"loop", "run"}
         /\ \A d \in CPUs : spc[d] = "run" =>
              cproc[d] \in Slots /\ state[cproc[d]] = "RUNNING" /\ (d # c => cproc[d] # cproc[c])
<1>1. TypeOK /\ QueueInv /\ Control /\ Family
  BY DEF IndInv, Structure
<1>2. cproc[c] \in Slots /\ Main(c) \in Slots /\ state[cproc[c]] = "RUNNING"
  BY <1>1, OnCpu DEF Structure
<1>3. \A d \in CPUs : d # c => spc[d] \in {"loop", "run"}
  BY <1>1, LockIs
<1>4. ~Boosting
  BY <1>3 DEF Boosting
<1>5. \A d \in CPUs : spc[d] = "run" =>
        cproc[d] \in Slots /\ state[cproc[d]] = "RUNNING" /\ (d # c => cproc[d] # cproc[c])
  BY <1>1 DEF Control, CtlProc
<1> QED
  BY <1>1, <1>2, <1>3, <1>4, <1>5

LEMMA FreeCall ==
  ASSUME IndInv, panic = "none", NEW c \in CPUs, lock = NULL
  PROVE  loop.op = "none"
BY LockIs DEF IndInv, Structure

(* A step after which no loop is in progress keeps the CPUs in order, when *)
(* the threads that run stay RUNNING.                                      *)
LEMMA CallControl ==
  ASSUME TypeOK, Control, NEW c \in CPUs, spc[c] = "run", lock \in {c, NULL},
         lock' = NULL, loop'.op = "none",
         UNCHANGED <<spc, cproc, mproc, branch>>,
         \A d \in CPUs : spc[d] = "run" => state'[cproc[d]] = "RUNNING"
  PROVE  Control'
<1>1. \A d \in CPUs : spc[d] \in {"loop", "run"}
  BY LockIs
<1>2. CtlLock' /\ CtlLoop'
  BY <1>1 DEF CtlLock, CtlLoop
<1>3. CtlProc'
  BY <1>1 DEF Control, CtlProc
<1> QED
  BY <1>2, <1>3 DEF Control

(* A step that begins a loop for process m on c.                           *)
LEMMA LoopControl ==
  ASSUME TypeOK, Control, NEW c \in CPUs, spc[c] = "run", lock \in {c, NULL},
         lock' = c, loop'.op # "none", loop'.m \in Slots, CtlLoop',
         UNCHANGED <<spc, cproc, mproc, branch>>,
         \A d \in CPUs : spc[d] = "run" =>
           state'[cproc[d]] = "RUNNING" \/ (loop'.op = "exit" /\ d = c /\ state'[cproc[d]] = "ZOMBIE")
  PROVE  Control'
<1>1. \A d \in CPUs : spc[d] \in {"loop", "run"}
  BY LockIs
<1>2. CtlLock'
  BY <1>1 DEF CtlLock
<1>3. CtlProc'
  BY <1>1 DEF Control, CtlProc
<1> QED
  BY <1>2, <1>3 DEF Control

LEMMA SetShareKeeps ==
  ASSUME IndInv, panic = "none", NEW c \in CPUs, SetShare(c)
  PROVE  IndInv'
<1>0. Running(c) /\ lock = NULL /\ loop.op = "none"
  BY FreeCall DEF SetShare, Syscall, InUser
<1>1. PICK pct \in Shares : loop' = [op |-> "pop", m |-> Main(c), pct |-> pct]
  BY DEF SetShare
<1>2. /\ lock' = c
      /\ UNCHANGED <<procVars, threadVars, schedVars, kernVars, mlfqVars, spc, cproc, mproc, branch,
                     lvl, done, mono, boostin, panic>>
  BY DEF SetShare
<1>3. TypeOK'
  <2>1. loop' \in Loops
    BY <1>0, <1>1, CallIs, ShareAssumption DEF Loops, SlotOrNull
  <2> QED
    BY <1>0, <1>2, <2>1, CallIs DEF TypeOK, procVars, threadVars, schedVars, kernVars, mlfqVars
<1>4. FamilyKept
  BY <1>2 DEF FamilyKept, procVars, threadVars, schedVars, kernVars
<1>5. Control'
  <2>1. CtlLoop' /\ loop'.op # "none" /\ loop'.m \in Slots
    BY <1>0, <1>1, <1>2, CallIs DEF CtlLoop, threadVars
  <2>2. \A d \in CPUs : spc[d] = "run" => state'[cproc[d]] = "RUNNING"
    BY <1>0, <1>2, CallIs DEF procVars
  <2> QED
    BY <1>0, <1>2, <2>1, <2>2, CallIs, LoopControl
<1> QED
  BY <1>2, <1>3, <1>4, <1>5, FrameKeeps DEF mlfqVars, schedVars

(* The CPU that is in a loop with ptable.lock held.                        *)
LEMMA LoopIs ==
  ASSUME IndInv, panic = "none", NEW c \in CPUs, lock = c, loop.op # "none"
  PROVE  /\ TypeOK /\ QueueInv /\ Control /\ Family
         /\ spc[c] = "run" /\ cproc[c] \in Slots /\ Main(c) \in Slots /\ loop.m \in Slots
         /\ loop.op # "exit" => state[cproc[c]] = "RUNNING"
         /\ ~Boosting /\ QueueTypes /\ QueueCore /\ LowerCompact
         /\ \A d \in CPUs : spc[d] = "run" =>
              /\ cproc[d] \in Slots
              /\ \/ state[cproc[d]] = "RUNNING"
                 \/ loop.op = "exit" /\ d = c /\ state[cproc[d]] = "ZOMBIE"
<1>1. TypeOK /\ QueueInv /\ Control /\ Family
  BY DEF IndInv, Structure
<1>2. spc[c] = "run" /\ loop.m \in Slots
  BY <1>1 DEF Control, CtlLock
<1>3. cproc[c] \in Slots /\ Main(c) \in Slots
  BY <1>1, <1>2, OnCpu DEF Structure
<1>4. ~Boosting
  BY <1>1, <1>2, LockIs DEF Boosting
<1>5. QueueTypes /\ QueueCore /\ LowerCompact
  BY <1>1, <1>4, QueueTypesIs, QueueInvIs
<1>6. \A d \in CPUs : spc[d] = "run" =>
        /\ cproc[d] \in Slots
        /\ \/ state[cproc[d]] = "RUNNING"
           \/ loop.op = "exit" /\ d = c /\ state[cproc[d]] = "ZOMBIE"
  BY <1>1 DEF Control, CtlProc
<1> QED
  BY <1>1, <1>2, <1>3, <1>4, <1>5, <1>6

LEMMA PopShareKeeps ==
  ASSUME IndInv, panic = "none", NEW c \in CPUs, PopShare(c)
  PROVE  IndInv'
<1> DEFINE i == Least(ToPop(loop.m))
           p == cthread[loop.m][i]
<1>0. lock = c /\ loop.op = "pop" /\ ToPop(loop.m) # {}
  BY DEF PopShare
<1>1. p \in Slots
  <2>1. i \in ToPop(loop.m)
    BY <1>0, LeastIs DEF ToPop, Places
  <2> HIDE DEF i
  <2> QED
    BY <1>0, <2>1, LoopIs DEF ToPop, Places, TypeOK, SlotOrNull
<1>2. /\ Pop(p)
      /\ UNCHANGED <<procVars, threadVars, priority, ticks, curticks, percentage, pass, kernVars,
                     share, minpass, cpuVars, loop>>
  BY DEF PopShare
<1> HIDE DEF p
<1>3. /\ QueueTypes' /\ QueueCore' /\ LowerCompact'
      /\ \A s \in Slots : inqueue'[s] => inqueue[s]
  BY <1>0, <1>1, <1>2, LoopIs, PopStep
<1>4. TypeOK'
  BY <1>0, <1>2, <1>3, LoopIs
  DEF TypeOK, QueueTypes, Queues, Arrays, procVars, threadVars, kernVars, cpuVars
<1>5. QueueInv'
  BY <1>0, <1>2, <1>3, LoopIs DEF QueueInv, QueueCore, LowerCompact, QueuesCompact, procVars
<1>6. Control'
  BY <1>0, <1>2, LoopIs DEF Control, CtlLock, CtlProc, CtlLoop, procVars, threadVars, cpuVars
<1>7. Family'
  <2>1. FamilyKept
    BY <1>2, <1>3 DEF FamilyKept, procVars, threadVars, kernVars
  <2> QED
    BY <1>0, <2>1, LoopIs, FamilyFrame
<1> QED
  BY <1>4, <1>5, <1>6, <1>7, IndInvParts

LEMMA TakeShareKeeps ==
  ASSUME IndInv, panic = "none", NEW c \in CPUs, TakeShare(c)
  PROVE  IndInv'
<1>0. lock = c /\ loop.op = "pop"
  BY DEF TakeShare
<1>1. /\ percentage' = [percentage EXCEPT ![loop.m] = loop.pct]
      /\ pass' = [pass EXCEPT ![loop.m] = minpass]
      /\ share' = share - loop.pct /\ loop' = NoLoop /\ lock' = NULL
      /\ UNCHANGED <<procVars, threadVars, priority, ticks, curticks, inqueue, kernVars, queue, index,
                     minpass, spc, cproc, mproc, branch, lvl, done, mono, boostin, panic>>
  BY DEF TakeShare
<1>2. TypeOK'
  <2>1. loop.pct \in Int /\ NoLoop \in Loops
    BY <1>0, LoopIs DEF TypeOK, Loops, NoLoop, SlotOrNull
  <2>2. percentage' \in [Slots -> Int] /\ pass' \in [Slots -> Passes] /\ share' \in Int
    BY <1>0, <1>1, <2>1, LoopIs DEF TypeOK
  <2> QED
    BY <1>0, <1>1, <2>1, <2>2, LoopIs DEF TypeOK, procVars, threadVars, kernVars
<1>3. FamilyKept
  BY <1>1 DEF FamilyKept, procVars, threadVars, kernVars
<1>4. Control'
  <2>1. \A d \in CPUs : spc[d] = "run" => state'[cproc[d]] = "RUNNING"
    BY <1>0, <1>1, LoopIs DEF procVars
  <2> QED
    BY <1>0, <1>1, <2>1, LoopIs, CallControl DEF NoLoop
<1> QED
  BY <1>1, <1>2, <1>3, <1>4, FrameKeeps

LEMMA LeaveShareKeeps ==
  ASSUME IndInv, panic = "none", NEW c \in CPUs, LeaveShare(c)
  PROVE  IndInv'
<1>0. lock = c /\ loop.op = "push"
  BY DEF LeaveShare
<1>1. /\ loop' = NoLoop /\ lock' = NULL
      /\ UNCHANGED <<procVars, threadVars, schedVars, kernVars, mlfqVars, spc, cproc, mproc, branch,
                     lvl, done, mono, boostin, panic>>
  BY DEF LeaveShare
<1>2. TypeOK'
  <2>1. NoLoop \in Loops
    BY DEF Loops, NoLoop, SlotOrNull
  <2> QED
    BY <1>0, <1>1, <2>1, LoopIs DEF TypeOK, procVars, threadVars, schedVars, kernVars, mlfqVars
<1>3. FamilyKept
  BY <1>1 DEF FamilyKept, procVars, threadVars, schedVars, kernVars
<1>4. Control'
  <2>1. \A d \in CPUs : spc[d] = "run" => state'[cproc[d]] = "RUNNING"
    BY <1>0, <1>1, LoopIs DEF procVars
  <2> QED
    BY <1>0, <1>1, <2>1, LoopIs, CallControl DEF NoLoop
<1> QED
  BY <1>1, <1>2, <1>3, <1>4, FrameKeeps DEF schedVars, mlfqVars

LEMMA ChangeShareKeeps ==
  ASSUME IndInv, panic = "none", NEW c \in CPUs, ChangeShare(c)
  PROVE  IndInv'
<1>0. Running(c) /\ lock = NULL /\ loop.op = "none"
  BY FreeCall DEF ChangeShare, Syscall, InUser
<1>1. PICK pct \in Shares :
        /\ percentage' = [percentage EXCEPT ![Main(c)] = pct]
        /\ pass' = [pass EXCEPT ![Main(c)] = IF pct = 0 THEN 0 ELSE @]
        /\ share' = share - (pct - percentage[Main(c)])
        /\ IF pct = 0
           THEN loop' = [op |-> "push", m |-> Main(c), pct |-> 0] /\ lock' = c
           ELSE UNCHANGED <<loop, lock>>
  BY DEF ChangeShare
<1>2. UNCHANGED <<procVars, threadVars, priority, ticks, curticks, inqueue, kernVars,
                 queue, index, minpass, spc, cproc, mproc, branch, lvl, done, mono, boostin, panic>>
  BY DEF ChangeShare
<1>3. TypeOK'
  <2>1. pct \in Int
    BY ShareAssumption
  <2>2. /\ percentage' \in [Slots -> Int] /\ share' \in Int
    BY <1>0, <1>1, <2>1, CallIs DEF TypeOK
  <2>3. pass' \in [Slots -> Passes]
    BY <1>0, <1>1, CallIs, ZeroIs DEF TypeOK
  <2>4. loop' \in Loops /\ lock' \in CPUs \cup {NULL}
    <3>1. CASE pct = 0
      BY <1>0, <1>1, <3>1, CallIs DEF Loops, SlotOrNull
    <3>2. CASE pct # 0
      BY <1>0, <1>1, <3>2, CallIs DEF TypeOK
    <3> QED
      BY <3>1, <3>2
  <2> QED
    BY <1>0, <1>2, <2>2, <2>3, <2>4, CallIs DEF TypeOK, procVars, threadVars, kernVars
<1>4. FamilyKept
  BY <1>2 DEF FamilyKept, procVars, threadVars, kernVars
<1>5. Control'
  <2>0. \A d \in CPUs : spc[d] = "run" => state'[cproc[d]] = "RUNNING"
    BY <1>0, <1>2, CallIs DEF procVars
  <2>1. CASE pct = 0
    <3>1. CtlLoop' /\ loop'.op # "none" /\ loop'.m \in Slots
      BY <1>0, <1>1, <1>2, <2>1, CallIs DEF CtlLoop, threadVars
    <3> QED
      BY <1>0, <1>1, <1>2, <2>0, <2>1, <3>1, CallIs, LoopControl
  <2>2. CASE pct # 0
    BY <1>0, <1>1, <1>2, <2>0, <2>2, CallIs, CallControl
  <2> QED
    BY <2>1, <2>2
<1> QED
  BY <1>2, <1>3, <1>4, <1>5, FrameKeeps

LEMMA PushShareKeeps ==
  ASSUME IndInv, panic = "none", NEW c \in CPUs, PushShare(c)
  PROVE  IndInv'
<1> DEFINE i == Least(ToPush(loop.m))
           p == cthread[loop.m][i]
<1>0. lock = c /\ loop.op = "push" /\ ToPush(loop.m) # {}
  BY DEF PushShare
<1>1. i \in ToPush(loop.m)
  BY <1>0, LeastIs DEF ToPush, Places
<1>2. /\ InitPush(p)
      /\ UNCHANGED <<procVars, threadVars, priority, ticks, curticks, percentage, pass, kernVars,
                     share, minpass, cpuVars, loop>>
  BY DEF PushShare
<1> HIDE DEF i
<1>3. p \in Slots /\ ~inqueue[p] /\ i \in Slots
  BY <1>0, <1>1, LoopIs DEF ToPush, Places, TypeOK, SlotOrNull
<1>4. state[p] # "UNUSED" /\ (state[p] # "EMBRYO" \/ Named(p))
  <2>1. CASE i = 0
    <3>1. p = loop.m
      BY <1>0, <1>3, <2>1, LoopIs, NullIsNoSlot DEF Family, FamArray
    <3>2. loop.m = Main(c)
      BY <1>0, LoopIs DEF Control, CtlLoop
    <3>3. Live(cproc[c]) /\ cproc[c] \in Slots
      BY <1>0, LoopIs DEF Live
    <3>4. state[Main(c)] \notin {"UNUSED", "EMBRYO"}
      BY <1>0, <3>3, LoopIs, MainIs
    <3> QED
      BY <3>1, <3>2, <3>4
  <2>2. CASE i # 0
    <3>1. i \in Positive
      BY <1>3, <2>2 DEF Positive
    <3> QED
      BY <1>0, <1>3, <3>1, LoopIs, NullIsNoSlot DEF Family, FamArray, Named
  <2> QED
    BY <2>1, <2>2
<1> HIDE DEF p
<1>5. /\ QueueTypes' /\ QueueCore' /\ LowerCompact'
      /\ \A s \in Slots : inqueue'[s] => inqueue[s] \/ s = p
  BY <1>0, <1>2, <1>3, LoopIs, InitPushStep
<1>6. TypeOK'
  BY <1>0, <1>2, <1>5, LoopIs
  DEF TypeOK, QueueTypes, Queues, Arrays, procVars, threadVars, kernVars, cpuVars
<1>7. QueueInv'
  <2>1. \A s \in Slots : state'[s] = "UNUSED" => ~inqueue'[s]
    BY <1>0, <1>2, <1>4, <1>5, LoopIs DEF QueueInv, procVars
  <2> QED
    BY <1>5, <2>1 DEF QueueInv, QueueCore, LowerCompact, QueuesCompact
<1>8. Control'
  BY <1>0, <1>2, LoopIs DEF Control, CtlLock, CtlProc, CtlLoop, procVars, threadVars, cpuVars
<1>9. Family'
  <2>1. FamilyKept
    BY <1>2, <1>4, <1>5 DEF FamilyKept, procVars, threadVars, kernVars
  <2> QED
    BY <1>0, <2>1, LoopIs, FamilyFrame
<1> QED
  BY <1>6, <1>7, <1>8, <1>9, IndInvParts

-----------------------------------------------------------------------------
(* A step of a thread on a slot that neither runs nor has exited.          *)
LEMMA StayControl ==
  ASSUME TypeOK, Control, UNCHANGED <<lock, spc, cproc, mproc, branch, loop>>,
         loop.op = "none" \/ UNCHANGED cthread,
         \A s \in Slots : state[s] \in {"RUNNING", "ZOMBIE"} =>
           state'[s] = state[s] /\ mthread'[s] = mthread[s] /\ parent'[s] = parent[s]
  PROVE  Control'
<1>1. CtlLock'
  BY DEF Control, CtlLock
<1>2. CtlProc'
  BY DEF Control, CtlProc
<1>3. CtlLoop'
  <2>1. CASE loop.op \in {"pop", "push", "exit"}
    <3>1. lock \in CPUs /\ spc[lock] = "run" /\ loop.m = mthread[cproc[lock]]
      BY <2>1 DEF Control, CtlLock, CtlLoop
    <3>2. cproc[lock] \in Slots /\ state[cproc[lock]] \in {"RUNNING", "ZOMBIE"}
      BY <3>1 DEF Control, CtlProc
    <3> QED
      BY <2>1, <3>1, <3>2 DEF CtlLoop
  <2>2. CASE loop.op = "reap"
    <3>1. /\ loop.m \in Slots /\ UNCHANGED cthread
          /\ state[loop.m] = "ZOMBIE" /\ mthread[loop.m] = loop.m /\ parent[loop.m] # NULL
          /\ \A i \in Positive : cthread[loop.m][i] # NULL => state[cthread[loop.m][i]] = "ZOMBIE"
      BY <2>2 DEF Control, CtlLock, CtlLoop
    <3>2. \A i \in Positive : cthread[loop.m][i] # NULL => cthread[loop.m][i] \in Slots
      BY <3>1 DEF TypeOK, Positive, SlotOrNull
    <3> QED
      BY <2>2, <3>1, <3>2 DEF CtlLoop
  <2>3. CASE loop.op = "none"
    BY <2>3 DEF CtlLoop
  <2> QED
    BY <2>1, <2>2, <2>3 DEF TypeOK, Loops
<1> QED
  BY <1>1, <1>2, <1>3 DEF Control

(* The thread on c is creating slot np.                                    *)
LEMMA CreatingIs ==
  ASSUME IndInv, panic = "none", NEW c \in CPUs, Running(c), lock # c,
         kop[cproc[c]].pc \in CreatePoints
  PROVE  LET t == cproc[c]
             np == kop[t].np
         IN  /\ TypeOK /\ QueueInv /\ Control /\ Family
             /\ t \in Slots /\ Main(c) \in Slots /\ state[t] = "RUNNING" /\ Creates(t)
             /\ np \in Slots /\ np # t /\ state[np] = "EMBRYO" /\ mthread[np] = np
             /\ \A j \in Positive : cthread[np][j] = NULL
             /\ kop[t].pc # "forked" => parent[np] = NULL
             /\ kop[t].pc # "created" => ~inqueue[np] /\ ~Named(np)
             /\ kop[t].pc = "created" => \E i \in Positive : cthread[Main(c)][i] = np
             /\ \A u \in Slots : Creates(u) /\ kop[u].np = np => u = t
<1>1. TypeOK /\ QueueInv /\ Control /\ Family
  BY DEF IndInv, Structure
<1>2. cproc[c] \in Slots /\ Main(c) \in Slots
  BY <1>1, OnCpu DEF Structure
<1>3. state[cproc[c]] = "RUNNING"
  BY <1>1 DEF Control, CtlProc
<1>4. Creates(cproc[c])
  BY <1>3 DEF Creates, CreatePoints
<1> DEFINE t == cproc[c]
<1>5. LET np == kop[t].np
      IN  /\ np \in Slots /\ np # t /\ state[np] = "EMBRYO" /\ mthread[np] = np
          /\ \A j \in Positive : cthread[np][j] = NULL
          /\ kop[t].pc # "forked" => parent[np] = NULL
          /\ kop[t].pc # "created" =>
               ~inqueue[np] /\ \A m \in Slots : \A i \in Positive : cthread[m][i] # np
          /\ kop[t].pc = "created" => \E i \in Positive : cthread[mthread[t]][i] = np
  BY <1>1, <1>2, <1>4 DEF Family, NewSlot
<1>6. \A u \in Slots : Creates(u) /\ kop[u].np = kop[t].np => u = t
  BY <1>1, <1>2, <1>4 DEF Family, NewOnce
<1> QED
  BY <1>1, <1>2, <1>3, <1>4, <1>5, <1>6 DEF Named

(* A slot that is given back before it was entered anywhere.               *)
GiveBack(c) ==
  /\ Running(c) /\ lock # c /\ kop[cproc[c]].pc \in {"fork", "create"}
  /\ state' = [state EXCEPT ![kop[cproc[c]].np] = "UNUSED"] /\ Return(c, cproc[c])
  /\ UNCHANGED <<pid, parent, chan, killed, threadVars, schedVars, intrap, mlfqVars, cpuVars,
                 loop, panic>>

LEMMA GiveBackKeeps ==
  ASSUME IndInv, panic = "none", NEW c \in CPUs, GiveBack(c)
  PROVE  IndInv'
<1> DEFINE t == cproc[c]
<1>a. PICK np \in Slots : np = kop[t].np
  BY CreatingIs DEF CreatePoints, GiveBack
<1>0. /\ TypeOK /\ QueueInv /\ Control /\ Family
      /\ t \in Slots /\ state[t] = "RUNNING" /\ np # t /\ state[np] = "EMBRYO"
      /\ \A j \in Positive : cthread[np][j] = NULL
      /\ parent[np] = NULL /\ ~inqueue[np] /\ ~Named(np)
      /\ \A u \in Slots : Creates(u) /\ kop[u].np = np => u = t
  BY <1>a, CreatingIs DEF CreatePoints, GiveBack
<1>1. /\ state' = [state EXCEPT ![np] = "UNUSED"] /\ kop' = [kop EXCEPT ![t] = Kop("user", NULL)]
      /\ UNCHANGED <<pid, parent, chan, killed, threadVars, schedVars, intrap, mlfqVars, cpuVars,
                     loop, panic>>
  BY <1>a DEF GiveBack, Return
<1> HIDE DEF t
<1>2. TypeOK'
  <2>1. Kop("user", NULL) \in Kops
    BY DEF Kop, Kops, KernPoints, SlotOrNull
  <2>2. kop' \in [Slots -> Kops]
    BY <1>0, <1>1, <2>1 DEF TypeOK
  <2>3. state' \in [Slots -> States]
    BY <1>0, <1>1 DEF TypeOK, States
  <2> QED
    BY <1>0, <1>1, <2>2, <2>3 DEF TypeOK, threadVars, schedVars, mlfqVars, cpuVars
<1>3. QueueInv'
  <2>1. \A s \in Slots : state'[s] = "UNUSED" => ~inqueue[s]
    BY <1>0, <1>1 DEF TypeOK, QueueInv
  <2> QED
    BY <1>0, <1>1, <2>1, QueueFrame DEF Boosting, mlfqVars, schedVars, cpuVars
<1>4. Control'
  <2>1. \A s \in Slots : state[s] \in {"RUNNING", "ZOMBIE"} => state'[s] = state[s]
    BY <1>0, <1>1 DEF TypeOK
  <2> QED
    BY <1>0, <1>1, <2>1, StayControl DEF threadVars, cpuVars
<1>5. Family'
  <2>1. \A u \in Slots : Creates(u)' => u # np /\ u # t /\ Creates(u)
    BY <1>0, <1>1 DEF Creates, TypeOK, Kop
  <2>2. \A u \in Slots : u # np =>
          kop'[u] = kop[u] \/ (kop'[u].pc \notin CreatePoints /\ state[u] # "EMBRYO")
    BY <1>0, <1>1 DEF TypeOK, Kop, CreatePoints
  <2>3. UNCHANGED <<parent, mthread, cthread, inqueue>>
    BY <1>1 DEF threadVars, schedVars
  <2>4. ~Named(np)'
    BY <1>0, <2>3 DEF Named
  <2>5. \A u \in Slots : Creates(u)' => kop[u].np # np
    BY <1>0, <2>1
  <2>6. SlotFreed(np)
    BY <1>0, <1>1, <2>2, <2>3, <2>4, <2>5 DEF SlotFreed
  <2> QED
    BY <1>0, <2>6, FreedFamily
<1> QED
  BY <1>2, <1>3, <1>4, <1>5, IndInvParts

LEMMA ForkCopyKeeps ==
  ASSUME IndInv, panic = "none", NEW c \in CPUs, ForkCopy(c)
  PROVE  IndInv'
<1> DEFINE t == cproc[c]
           np == kop[t].np
<1>0. /\ TypeOK /\ QueueInv /\ Control /\ Family
      /\ t \in Slots /\ state[t] = "RUNNING" /\ Main(c) \in Slots
      /\ np \in Slots /\ np # t /\ state[np] = "EMBRYO"
      /\ kop[t].pc = "fork" /\ Creates(t) /\ ~Named(np)
      /\ \A u \in Slots : Creates(u) /\ kop[u].np = np => u = t
  BY CreatingIs DEF CreatePoints, ForkCopy
<1>1. /\ parent' = [parent EXCEPT ![np] = Main(c)] /\ kop' = [kop EXCEPT ![t].pc = "forked"]
      /\ UNCHANGED <<state, pid, chan, killed, threadVars, schedVars, intrap, mlfqVars, cpuVars,
                     loop, panic>>
  BY DEF ForkCopy
<1>2. /\ kop'[t].pc = "forked" /\ kop'[t].np = np
      /\ \A u \in Slots : u # t => kop'[u] = kop[u]
      /\ kop' \in [Slots -> Kops]
  BY <1>0, <1>1, ZenonT(60) DEF TypeOK, Kops, KernPoints
<1> HIDE DEF np, t
<1>3. TypeOK'
  <2>1. parent' \in [Slots -> SlotOrNull]
    BY <1>0, <1>1 DEF TypeOK, SlotOrNull
  <2> QED
    BY <1>0, <1>1, <1>2, <2>1 DEF TypeOK, threadVars, schedVars, mlfqVars, cpuVars
<1>4. QueueInv'
  BY <1>0, <1>1, QueueFrame DEF Boosting, mlfqVars, schedVars, cpuVars, QueueInv
<1>5. Control'
  <2>1. \A s \in Slots : state[s] \in {"RUNNING", "ZOMBIE"} => parent'[s] = parent[s]
    BY <1>0, <1>1 DEF TypeOK
  <2> QED
    BY <1>0, <1>1, <2>1, StayControl DEF threadVars, cpuVars
<1>6. Family'
  <2>0. \A s \in Slots : s # np => parent'[s] = parent[s]
    BY <1>0, <1>1 DEF TypeOK
  <2>1. FamOwn' /\ FamOnce'
    BY <1>0, <1>1 DEF Family, FamOwn, FamOnce, threadVars
  <2>2. FamArray'
    <3>1. \A m \in Slots : \A i \in Positive : cthread[m][i] # NULL =>
            cthread[m][i] \in Slots /\ cthread[m][i] # np
      BY <1>0 DEF Named, TypeOK, Positive, SlotOrNull
    <3> QED
      BY <1>0, <1>1, <2>0, <3>1 DEF Family, FamArray, threadVars
  <2>3. \A u \in Slots : Creates(u)' => Creates(u) /\ kop'[u].np = kop[u].np
    BY <1>0, <1>1, <1>2 DEF Creates, np
  <2>4. NewOnce'
    BY <1>0, <2>3 DEF Family, NewOnce
  <2>5. NewSlot'
    <3> SUFFICES ASSUME NEW u \in Slots, Creates(u)'
                 PROVE  LET n == kop'[u].np
                        IN  /\ n \in Slots /\ n # u /\ state'[n] = "EMBRYO" /\ mthread'[n] = n
                            /\ \A j \in Positive : cthread'[n][j] = NULL
                            /\ kop'[u].pc # "forked" => parent'[n] = NULL
                            /\ kop'[u].pc # "created" => /\ ~inqueue'[n]
                                 /\ \A m \in Slots : \A i \in Positive : cthread'[m][i] # n
                            /\ kop'[u].pc = "created" =>
                                 \E i \in Positive : cthread'[mthread'[u]][i] = n
      BY DEF NewSlot
    <3>1. CASE u = t
      BY <1>0, <1>1, <1>2, <3>1, <2>3 DEF Family, NewSlot, threadVars, schedVars
    <3>2. CASE u # t
      <4>1. Creates(u) /\ kop'[u] = kop[u] /\ kop[u].np # np
        BY <1>0, <1>2, <2>3, <3>2
      <4> QED
        BY <1>0, <1>1, <2>0, <4>1 DEF Family, NewSlot, threadVars, schedVars
    <3> QED
      BY <3>1, <3>2
  <2>6. FreeSlot'
    BY <1>0, <1>1, <2>0 DEF Family, FreeSlot
  <2>7. EmbryoIdle'
    BY <1>0, <1>1, <1>2 DEF Family, EmbryoIdle, threadVars
  <2> QED
    BY <2>1, <2>2, <2>4, <2>5, <2>6, <2>7 DEF Family
<1> QED
  BY <1>3, <1>4, <1>5, <1>6, IndInvParts

(* allocproc, by fork or by thread_create.                                 *)
LEMMA StartCreateKeeps ==
  ASSUME IndInv, panic = "none", NEW c \in CPUs, NEW f, NEW pc \in {"fork", "create"},
         StartCreate(c, f, pc)
  PROVE  IndInv'
<1> DEFINE t == cproc[c]
<1>0. Running(c) /\ lock = NULL /\ loop.op = "none"
  BY FreeCall DEF StartCreate, Syscall, InUser
<1>1. /\ TypeOK /\ QueueInv /\ Control /\ Family
      /\ t \in Slots /\ Main(c) \in Slots /\ state[t] = "RUNNING" /\ kop[t].pc = "user"
  BY <1>0, CallIs DEF StartCreate, Syscall, InUser
<1>2. PICK np \in Slots :
        /\ AllocProc(c, np)
        /\ kop' = [kop EXCEPT ![cproc[c]] = Kop(pc, np), ![np] = Kop("user", NULL)]
        /\ intrap' = [intrap EXCEPT ![np] = FALSE]
  BY DEF StartCreate
<1>3. UNCHANGED <<parent, mlfqVars, cpuVars, loop, panic>>
  BY DEF StartCreate
<1> HIDE DEF t
<1>4. state[np] = "UNUSED" /\ np # t
  <2>1. np \in Unused
    BY <1>2, LeastIs DEF AllocProc, Unused
  <2> QED
    BY <1>1, <2>1 DEF Unused
<1>5. /\ ~inqueue[np] /\ parent[np] = NULL /\ ~Named(np)
      /\ \A u \in Slots : Creates(u) => kop[u].np # np
  <2>1. ~inqueue[np] /\ parent[np] = NULL
    BY <1>1, <1>4 DEF QueueInv, Family, FreeSlot
  <2>2. ~Named(np)
    BY <1>1, <1>4, NullIsNoSlot DEF Family, FamArray, Named
  <2>3. \A u \in Slots : Creates(u) => kop[u].np # np
    BY <1>1, <1>4 DEF Family, NewSlot
  <2> QED
    BY <2>1, <2>2, <2>3
<1>6. /\ state' = [state EXCEPT ![np] = "EMBRYO"] /\ mthread' = [mthread EXCEPT ![np] = np]
      /\ cthread' = [cthread EXCEPT ![np] = [i \in Slots |-> IF i = 0 THEN np ELSE NULL]]
      /\ inqueue' = inqueue
      /\ kop' = [kop EXCEPT ![t] = Kop(pc, np), ![np] = Kop("user", NULL)]
  <2>1. inqueue' = [inqueue EXCEPT ![np] = FALSE]
    BY <1>2 DEF AllocProc
  <2>2. inqueue' = inqueue
    BY <1>1, <1>5, <2>1 DEF TypeOK
  <2> QED
    BY <1>2, <2>2 DEF AllocProc, t
<1>7. TypeOK'
  <2>1. Kop("user", NULL) \in Kops /\ Kop(pc, np) \in Kops
    BY DEF Kop, Kops, KernPoints, SlotOrNull
  <2>2. kop' \in [Slots -> Kops]
    BY <1>1, <1>6, <2>1 DEF TypeOK
  <2>3. state' \in [Slots -> States] /\ mthread' \in [Slots -> SlotOrNull]
    BY <1>1, <1>6 DEF TypeOK, States, SlotOrNull
  <2>4. cthread' \in [Slots -> [Slots -> SlotOrNull]]
    BY <1>1, <1>6 DEF TypeOK, SlotOrNull
  <2>5. /\ pid' \in [Slots -> SlotOrNull] /\ chan' \in [Slots -> SlotOrNull \cup {IO}]
        /\ rrlast' \in [Slots -> Slots]
    BY <1>1, <1>2, NullIsNoSlot DEF AllocProc, TypeOK, SlotOrNull
  <2>6. killed' \in [Slots -> BOOLEAN] /\ intrap' \in [Slots -> BOOLEAN]
    BY <1>1, <1>2 DEF AllocProc, TypeOK
  <2>7. /\ ticks' \in [Slots -> Nat] /\ curticks' \in [Slots -> 0 .. MaxCur]
        /\ priority' \in [Slots -> Levels] /\ percentage' \in [Slots -> Int]
        /\ pass' \in [Slots -> Passes]
    BY <1>1, <1>2, ZeroIs DEF AllocProc, TypeOK
  <2> QED
    BY <1>1, <1>3, <1>6, <2>2, <2>3, <2>4, <2>5, <2>6, <2>7 DEF TypeOK, mlfqVars, cpuVars
<1>8. QueueInv'
  <2>1. \A s \in Slots : state'[s] = "UNUSED" => ~inqueue[s]
    BY <1>1, <1>6 DEF TypeOK, QueueInv
  <2> QED
    BY <1>1, <1>3, <1>6, <2>1, QueueFrame DEF Boosting, mlfqVars, cpuVars
<1>9. /\ state'[np] = "EMBRYO" /\ mthread'[np] = np /\ kop'[np].pc = "user"
      /\ cthread'[np][0] = np /\ \A j \in Positive : cthread'[np][j] = NULL
      /\ kop'[t].pc = pc /\ kop'[t].np = np
      /\ \A s \in Slots : s # np => /\ state'[s] = state[s] /\ mthread'[s] = mthread[s]
                                     /\ cthread'[s] = cthread[s]
      /\ \A s \in Slots : s # np /\ s # t => kop'[s] = kop[s]
  <2>1. 0 \in Slots /\ 0 \notin Positive /\ Positive \subseteq Slots
    BY NullIsNoSlot DEF Positive
  <2>2. kop'[np] = Kop("user", NULL) /\ kop'[t] = Kop(pc, np)
    BY <1>1, <1>4, <1>6 DEF TypeOK
  <2>3. \A s \in Slots : s # np /\ s # t => kop'[s] = kop[s]
    BY <1>1, <1>4, <1>6 DEF TypeOK
  <2>4. cthread'[np] = [i \in Slots |-> IF i = 0 THEN np ELSE NULL]
    BY <1>1, <1>6 DEF TypeOK
  <2>5. cthread'[np][0] = np /\ \A j \in Positive : cthread'[np][j] = NULL
    BY <2>1, <2>4
  <2> QED
    BY <1>1, <1>6, <2>2, <2>3, <2>5 DEF TypeOK, Kop
<1>10. Control'
  <2>1. \A s \in Slots : state[s] \in {"RUNNING", "ZOMBIE"} =>
          state'[s] = state[s] /\ mthread'[s] = mthread[s]
    BY <1>4, <1>9
  <2> QED
    BY <1>0, <1>1, <1>3, <2>1, StayControl DEF cpuVars
<1>11. Family'
  <2>0. \A m \in Slots : \A i \in Positive :
          /\ cthread[m][i] # np
          /\ cthread'[m][i] # NULL => m # np /\ cthread'[m][i] = cthread[m][i]
                                     /\ cthread[m][i] \in Slots
    BY <1>1, <1>5, <1>9 DEF Named, TypeOK, Positive, SlotOrNull
  <2>1. FamOwn'
    <3> SUFFICES ASSUME NEW s \in Slots, state'[s] # "UNUSED", s # np
                 PROVE  /\ mthread'[s] \in Slots
                        /\ mthread'[s] = s => cthread'[s][0] = s
                        /\ mthread'[s] # s => \E i \in Positive : cthread'[mthread'[s]][i] = s
      BY <1>9 DEF FamOwn
    <3>1. /\ mthread[s] \in Slots
          /\ mthread[s] = s => cthread[s][0] = s
          /\ mthread[s] # s => \E i \in Positive : cthread[mthread[s]][i] = s
      BY <1>1, <1>9 DEF Family, FamOwn
    <3>2. mthread[s] # s => mthread[s] # np
      BY <1>1, <1>4, <3>1, NullIsNoSlot DEF Family, FamArray
    <3> QED
      BY <1>9, <3>1, <3>2
  <2>2. FamArray'
    <3>1. \A m \in Slots : cthread'[m][0] \in {m, NULL}
      BY <1>1, <1>9 DEF Family, FamArray
    <3>2. ASSUME NEW m \in Slots, NEW i \in Positive, cthread'[m][i] # NULL
          PROVE  LET x == cthread'[m][i]
                 IN  /\ x # m /\ state'[x] # "UNUSED" /\ state'[m] \notin {"UNUSED", "EMBRYO"}
                     /\ mthread'[x] \in {m, x}
                     /\ mthread'[x] = x => state'[x] \in {"EMBRYO", "ZOMBIE"} /\ parent'[x] = NULL
                     /\ \A j \in Positive : cthread'[x][j] = NULL
      <4>1. PICK x \in Slots : x = cthread[m][i] /\ x = cthread'[m][i] /\ x # np /\ m # np
        BY <2>0, <3>2
      <4>2. /\ x # m /\ state[x] # "UNUSED" /\ state[m] \notin {"UNUSED", "EMBRYO"}
            /\ mthread[x] \in {m, x}
            /\ mthread[x] = x => state[x] \in {"EMBRYO", "ZOMBIE"} /\ parent[x] = NULL
            /\ \A j \in Positive : cthread[x][j] = NULL
        <5>1. Family /\ cthread[m][i] = x
          BY <1>1, <4>1
        <5> QED
          BY <5>1, EntryIs
      <4> QED
        BY <1>3, <1>9, <4>1, <4>2
    <3> QED
      BY <3>1, <3>2 DEF FamArray
  <2>3. FamOnce'
    BY <1>1, <2>0 DEF Family, FamOnce
  <2>4. \A u \in Slots : Creates(u)' =>
          u = t \/ (u # t /\ u # np /\ Creates(u) /\ kop'[u] = kop[u] /\ kop[u].np # np)
    BY <1>5, <1>9 DEF Creates
  <2>5. NewOnce'
    BY <1>1, <1>9, <2>4 DEF Family, NewOnce
  <2>6. NewSlot'
    <3> SUFFICES ASSUME NEW u \in Slots, Creates(u)'
                 PROVE  LET n == kop'[u].np
                        IN  /\ n \in Slots /\ n # u /\ state'[n] = "EMBRYO" /\ mthread'[n] = n
                            /\ \A j \in Positive : cthread'[n][j] = NULL
                            /\ kop'[u].pc # "forked" => parent'[n] = NULL
                            /\ kop'[u].pc # "created" => /\ ~inqueue'[n]
                                 /\ \A m \in Slots : \A i \in Positive : cthread'[m][i] # n
                            /\ kop'[u].pc = "created" =>
                                 \E i \in Positive : cthread'[mthread'[u]][i] = n
      BY DEF NewSlot
    <3>1. CASE u = t
      <4>1. \A m \in Slots : \A i \in Positive : cthread'[m][i] # np
        BY <2>0, NullIsNoSlot
      <4>2. kop'[u].np = np /\ kop'[u].pc \notin {"forked", "created"} /\ np # u
        BY <1>4, <1>9, <3>1
      <4>3. /\ state'[np] = "EMBRYO" /\ mthread'[np] = np /\ parent'[np] = NULL
            /\ ~inqueue'[np] /\ \A j \in Positive : cthread'[np][j] = NULL
        BY <1>3, <1>5, <1>6, <1>9
      <4> QED
        BY <4>1, <4>2, <4>3
    <3>2. CASE u # t
      <4>1. PICK n \in Slots : n = kop[u].np /\ n = kop'[u].np /\ n # np
        BY <1>1, <2>4, <3>2 DEF Family, NewSlot
      <4>2. /\ n # u /\ state[n] = "EMBRYO" /\ mthread[n] = n
            /\ \A j \in Positive : cthread[n][j] = NULL
            /\ kop[u].pc # "forked" => parent[n] = NULL
            /\ kop[u].pc # "created" =>
                 ~inqueue[n] /\ \A m \in Slots : \A i \in Positive : cthread[m][i] # n
            /\ kop[u].pc = "created" => \E i \in Positive : cthread[mthread[u]][i] = n
        BY <1>1, <2>4, <3>2, <4>1 DEF Family, NewSlot
      <4>3. kop[u].pc # "created" => \A m \in Slots : \A i \in Positive : cthread'[m][i] # n
        BY <2>0, <4>2, NullIsNoSlot
      <4>4. kop[u].pc = "created" => \E i \in Positive : cthread'[mthread[u]][i] = n
        <5> SUFFICES ASSUME kop[u].pc = "created"
                     PROVE  \E i \in Positive : cthread'[mthread[u]][i] = n
          OBVIOUS
        <5>1. PICK i \in Positive : cthread[mthread[u]][i] = n
          BY <4>2
        <5>2. mthread[u] \in Slots
          BY <1>1, <2>4, <3>2 DEF Family, FamOwn, Creates
        <5>3. mthread[u] # np
          BY <1>1, <1>4, <5>1, <5>2, NullIsNoSlot DEF Family, FamArray
        <5> QED
          BY <1>9, <5>1, <5>2, <5>3
      <4>5. kop'[u].pc = kop[u].pc /\ mthread'[u] = mthread[u]
        BY <1>9, <2>4, <3>2
      <4>6. /\ state'[n] = "EMBRYO" /\ mthread'[n] = n /\ parent'[n] = parent[n]
            /\ inqueue'[n] = inqueue[n] /\ \A j \in Positive : cthread'[n][j] = NULL
        BY <1>3, <1>6, <1>9, <4>1, <4>2, ZenonT(60)
      <4> QED
        BY <4>1, <4>2, <4>3, <4>4, <4>5, <4>6
    <3> QED
      BY <3>1, <3>2
  <2>7. FreeSlot'
    BY <1>1, <1>3, <1>9 DEF Family, FreeSlot
  <2>8. EmbryoIdle'
    BY <1>1, <1>9 DEF Family, EmbryoIdle
  <2> QED
    BY <2>1, <2>2, <2>3, <2>5, <2>6, <2>7, <2>8 DEF Family
<1> QED
  BY <1>7, <1>8, <1>10, <1>11, IndInvParts

LEMMA CreateFailKeeps ==
  ASSUME IndInv, panic = "none", NEW c \in CPUs, CreateFail(c)
  PROVE  IndInv'
<1>1. GiveBack(c)
  BY DEF CreateFail, GiveBack
<1> QED
  BY <1>1, GiveBackKeeps

(* The slot np that t creates becomes RUNNABLE: a process of its own, or a *)
(* thread of the process mt whose array names it.                          *)
SlotBorn(t, np, mt) ==
  /\ state[t] = "RUNNING" /\ state[np] = "EMBRYO" /\ state' = [state EXCEPT ![np] = "RUNNABLE"]
  /\ kop'[t].pc = "user" /\ \A u \in Slots : u # t => kop'[u] = kop[u]
  /\ \A u \in Slots : u # np =>
       /\ parent'[u] = parent[u] /\ mthread'[u] = mthread[u]
       /\ cthread'[u][0] = cthread[u][0]
       /\ inqueue'[u] => inqueue[u]
  /\ \A m \in Slots : \A i \in Positive : cthread'[m][i] = cthread[m][i]
  /\ mthread'[np] = mt /\ cthread'[np][0] \in {np, NULL}
  /\ \/ ~Named(np) /\ mt = np /\ cthread'[np][0] = np
     \/ mt # np /\ \E i \in Positive : cthread[mt][i] = np
  /\ \A u \in Slots : Creates(u) /\ kop[u].np = np => u = t

LEMMA BornFamily ==
  ASSUME TypeOK, Family, NEW t \in Slots, NEW np \in Slots, NEW mt \in Slots, SlotBorn(t, np, mt)
  PROVE  Family'
<1> USE DEF SlotBorn
<1>1. /\ state'[np] = "RUNNABLE" /\ \A u \in Slots : u # np => state'[u] = state[u]
  BY DEF TypeOK
<1>2. FamOwn'
  <2> SUFFICES ASSUME NEW s \in Slots, state'[s] # "UNUSED"
               PROVE  /\ mthread'[s] \in Slots
                      /\ mthread'[s] = s => cthread'[s][0] = s
                      /\ mthread'[s] # s => \E i \in Positive : cthread'[mthread'[s]][i] = s
    BY DEF FamOwn
  <2>1. CASE s = np
    BY <2>1
  <2>2. CASE s # np
    <3>1. /\ mthread[s] \in Slots /\ mthread'[s] = mthread[s]
          /\ mthread[s] = s => cthread[s][0] = s
          /\ mthread[s] # s => \E i \in Positive : cthread[mthread[s]][i] = s
      BY <1>1, <2>2 DEF Family, FamOwn
    <3> QED
      BY <2>2, <3>1
  <2> QED
    BY <2>1, <2>2
<1>3. FamArray'
  <2>1. \A m \in Slots : cthread'[m][0] \in {m, NULL}
    BY DEF Family, FamArray
  <2>2. ASSUME NEW m \in Slots, NEW i \in Positive, cthread'[m][i] # NULL
        PROVE  LET x == cthread'[m][i]
               IN  /\ x # m /\ state'[x] # "UNUSED" /\ state'[m] \notin {"UNUSED", "EMBRYO"}
                   /\ mthread'[x] \in {m, x}
                   /\ mthread'[x] = x => state'[x] \in {"EMBRYO", "ZOMBIE"} /\ parent'[x] = NULL
                   /\ \A j \in Positive : cthread'[x][j] = NULL
    <3>1. PICK x \in Slots : x = cthread[m][i] /\ x = cthread'[m][i]
      BY <2>2 DEF TypeOK, Positive, SlotOrNull
    <3>2. /\ x # m /\ state[x] # "UNUSED" /\ state[m] \notin {"UNUSED", "EMBRYO"}
          /\ mthread[x] \in {m, x}
          /\ mthread[x] = x => state[x] \in {"EMBRYO", "ZOMBIE"} /\ parent[x] = NULL
          /\ \A j \in Positive : cthread[x][j] = NULL
      BY <3>1, EntryIs
    <3>3. x = np => mthread'[x] = m
      <4> SUFFICES ASSUME x = np PROVE mthread'[np] = m
        OBVIOUS
      <4>1. PICK k \in Positive : cthread[mt][k] = np
        BY <3>1 DEF Named
      <4>2. mt = m
        BY <3>1, <4>1, NullIsNoSlot DEF Family, FamOnce
      <4> QED
        BY <4>2
    <3>4. m # np /\ state'[m] = state[m]
      BY <1>1, <3>2
    <3>5. /\ state'[x] # "UNUSED" /\ mthread'[x] \in {m, x}
          /\ mthread'[x] = x => state'[x] \in {"EMBRYO", "ZOMBIE"} /\ parent'[x] = NULL
      <4>1. CASE x = np
        BY <1>1, <3>2, <3>3, <4>1
      <4>2. CASE x # np
        BY <1>1, <3>2, <4>2
      <4> QED
        BY <4>1, <4>2
    <3> QED
      BY <3>1, <3>2, <3>4, <3>5
  <2> QED
    BY <2>1, <2>2 DEF FamArray
<1>4. FamOnce'
  BY DEF Family, FamOnce
<1>5. \A u \in Slots : Creates(u)' =>
        u # np /\ u # t /\ Creates(u) /\ kop'[u] = kop[u] /\ kop[u].np # np
  BY <1>1 DEF Creates, Family, EmbryoIdle
<1>6. NewOnce'
  BY <1>5 DEF Family, NewOnce
<1>7. NewSlot'
  <2> SUFFICES ASSUME NEW u \in Slots, Creates(u)'
               PROVE  LET n == kop'[u].np
                      IN  /\ n \in Slots /\ n # u /\ state'[n] = "EMBRYO" /\ mthread'[n] = n
                          /\ \A j \in Positive : cthread'[n][j] = NULL
                          /\ kop'[u].pc # "forked" => parent'[n] = NULL
                          /\ kop'[u].pc # "created" => /\ ~inqueue'[n]
                               /\ \A m \in Slots : \A i \in Positive : cthread'[m][i] # n
                          /\ kop'[u].pc = "created" =>
                               \E i \in Positive : cthread'[mthread'[u]][i] = n
    BY DEF NewSlot
  <2>1. PICK n \in Slots : n = kop[u].np /\ n = kop'[u].np /\ n # np
    BY <1>5 DEF Family, NewSlot
  <2>2. /\ n # u /\ state[n] = "EMBRYO" /\ mthread[n] = n
        /\ \A j \in Positive : cthread[n][j] = NULL
        /\ kop[u].pc # "forked" => parent[n] = NULL
        /\ kop[u].pc # "created" =>
             ~inqueue[n] /\ \A m \in Slots : \A i \in Positive : cthread[m][i] # n
        /\ kop[u].pc = "created" => \E i \in Positive : cthread[mthread[u]][i] = n
    BY <1>5, <2>1 DEF Family, NewSlot
  <2>3. kop'[u].pc = kop[u].pc /\ mthread'[u] = mthread[u] /\ mthread[u] \in Slots
    BY <1>5 DEF Family, FamOwn, Creates
  <2>4. /\ state'[n] = "EMBRYO" /\ mthread'[n] = n /\ parent'[n] = parent[n]
        /\ inqueue'[n] => inqueue[n]
        /\ \A j \in Positive : cthread'[n][j] = NULL
    BY <1>1, <2>1, <2>2
  <2>5. kop[u].pc # "created" => \A m \in Slots : \A i \in Positive : cthread'[m][i] # n
    BY <2>2
  <2>6. kop[u].pc = "created" => \E i \in Positive : cthread'[mthread[u]][i] = n
    BY <2>2, <2>3
  <2> QED
    BY <2>1, <2>2, <2>3, <2>4, <2>5, <2>6
<1>8. FreeSlot'
  BY <1>1 DEF Family, FreeSlot
<1>9. EmbryoIdle'
  BY <1>1 DEF Family, EmbryoIdle
<1> QED
  BY <1>2, <1>3, <1>4, <1>6, <1>7, <1>8, <1>9 DEF Family

(* The queues after a slot has been made RUNNABLE and pushed, or not.      *)
LEMMA BornQueue ==
  ASSUME TypeOK, QueueInv, ~Boosting, NEW np \in Slots,
         state' = [state EXCEPT ![np] = "RUNNABLE"],
         (InitPush(np) /\ ~inqueue[np]) \/ UNCHANGED <<queue, index, inqueue, panic>>
  PROVE  /\ QueueInv' /\ QueueTypes'
         /\ \A s \in Slots : s # np => (inqueue'[s] => inqueue[s])
<1>0. QueueTypes /\ QueueCore /\ LowerCompact
  BY QueueTypesIs, QueueInvIs
<1>1. /\ QueueTypes' /\ QueueCore' /\ LowerCompact'
      /\ \A s \in Slots : s # np => (inqueue'[s] => inqueue[s])
  <2>1. CASE InitPush(np) /\ ~inqueue[np]
    BY <1>0, <2>1, InitPushStep
  <2>2. CASE UNCHANGED <<queue, index, inqueue, panic>>
    BY <1>0, <2>2 DEF QueueTypes, QueueCore, LowerCompact, QueuedOnce, InqueueExact
  <2> QED
    BY <2>1, <2>2
<1>2. \A s \in Slots : state'[s] = "UNUSED" => s # np /\ ~inqueue[s]
  BY DEF TypeOK, QueueInv
<1>3. \A s \in Slots : state'[s] = "UNUSED" => ~inqueue'[s]
  BY <1>1, <1>2
<1> QED
  BY <1>1, <1>3 DEF QueueInv, QueueCore, LowerCompact, QueuesCompact

LEMMA ForkDoneKeeps ==
  ASSUME IndInv, panic = "none", NEW c \in CPUs, ForkDone(c)
  PROVE  IndInv'
<1> DEFINE t == cproc[c]
<1>a. Running(c) /\ lock = NULL /\ loop.op = "none" /\ kop[t].pc = "forked" /\ lock # c
  BY FreeCall, CpuAssumption DEF ForkDone
<1>b. PICK np \in Slots : np = kop[t].np
  BY <1>a, CreatingIs DEF CreatePoints
<1>0. /\ TypeOK /\ QueueInv /\ Control /\ Family /\ ~Boosting
      /\ t \in Slots /\ state[t] = "RUNNING" /\ np # t /\ state[np] = "EMBRYO" /\ mthread[np] = np
      /\ ~inqueue[np] /\ ~Named(np)
      /\ \A u \in Slots : Creates(u) /\ kop[u].np = np => u = t
  BY <1>a, <1>b, CreatingIs, CallIs DEF CreatePoints
<1>1. /\ state' = [state EXCEPT ![np] = "RUNNABLE"] /\ InitPush(np)
      /\ kop' = [kop EXCEPT ![t] = Kop("user", NULL)]
      /\ UNCHANGED <<pid, parent, chan, killed, threadVars, priority, ticks, curticks, percentage,
                     pass, intrap, share, minpass, cpuVars, loop>>
  BY <1>b DEF ForkDone, Return
<1> HIDE DEF t
<1>2. /\ QueueInv' /\ QueueTypes'
      /\ \A s \in Slots : s # np => (inqueue'[s] => inqueue[s])
  BY <1>0, <1>1, BornQueue
<1>3. TypeOK'
  <2>1. Kop("user", NULL) \in Kops
    BY DEF Kop, Kops, KernPoints, SlotOrNull
  <2>2. kop' \in [Slots -> Kops]
    BY <1>0, <1>1, <2>1 DEF TypeOK
  <2>3. state' \in [Slots -> States]
    BY <1>0, <1>1 DEF TypeOK, States
  <2> QED
    BY <1>0, <1>1, <1>2, <2>2, <2>3 DEF TypeOK, QueueTypes, Queues, Arrays, threadVars, cpuVars
<1>4. Control'
  <2>1. \A s \in Slots : state[s] \in {"RUNNING", "ZOMBIE"} => state'[s] = state[s]
    BY <1>0, <1>1 DEF TypeOK
  <2> QED
    BY <1>0, <1>1, <2>1, StayControl DEF threadVars, cpuVars
<1>5. Family'
  <2>1. UNCHANGED <<parent, mthread, cthread>>
    BY <1>1 DEF threadVars
  <2>2. kop'[t].pc = "user" /\ \A u \in Slots : u # t => kop'[u] = kop[u]
    BY <1>0, <1>1 DEF TypeOK, Kop
  <2>3. cthread[np][0] = np
    BY <1>0 DEF Family, FamOwn
  <2>4. SlotBorn(t, np, np)
    BY <1>0, <1>1, <1>2, <2>1, <2>2, <2>3 DEF SlotBorn
  <2> QED
    BY <1>0, <2>4, BornFamily
<1> QED
  BY <1>2, <1>3, <1>4, <1>5, IndInvParts

LEMMA ThreadStartKeeps ==
  ASSUME IndInv, panic = "none", NEW c \in CPUs, ThreadStart(c)
  PROVE  IndInv'
<1> DEFINE t == cproc[c]
<1>a. Running(c) /\ lock = NULL /\ loop.op = "none" /\ kop[t].pc = "created" /\ lock # c
  BY FreeCall, CpuAssumption DEF ThreadStart
<1>b. PICK np \in Slots : np = kop[t].np
  BY <1>a, CreatingIs DEF CreatePoints
<1>c. PICK m \in Slots : m = mthread[t]
  BY <1>a, CreatingIs DEF CreatePoints
<1>0. /\ TypeOK /\ QueueInv /\ Control /\ Family /\ ~Boosting
      /\ t \in Slots /\ state[t] = "RUNNING" /\ np # t /\ state[np] = "EMBRYO"
      /\ \A j \in Positive : cthread[np][j] = NULL
      /\ \E i \in Positive : cthread[m][i] = np
      /\ \A u \in Slots : Creates(u) /\ kop[u].np = np => u = t
  BY <1>a, <1>b, <1>c, CreatingIs, CallIs DEF CreatePoints
<1>1. /\ state' = [state EXCEPT ![np] = "RUNNABLE"]
      /\ (InitPush(np) /\ ~inqueue[np]) \/ UNCHANGED <<queue, index, inqueue, panic>>
      /\ kop' = [kop EXCEPT ![t] = Kop("user", NULL)]
      /\ pid' = [pid EXCEPT ![np] = pid[m]]
      /\ mthread' = [mthread EXCEPT ![np] = m]
      /\ parent' = [parent EXCEPT ![np] = parent[m]]
      /\ cthread' = [cthread EXCEPT ![np][0] = NULL]
      /\ UNCHANGED <<chan, killed, rrlast, priority, ticks, curticks, percentage,
                     pass, intrap, share, minpass, cpuVars, loop>>
  BY <1>b, <1>c DEF ThreadStart, Return
<1> HIDE DEF t
<1>2. /\ QueueInv' /\ QueueTypes'
      /\ \A s \in Slots : s # np => (inqueue'[s] => inqueue[s])
  BY <1>0, <1>1, BornQueue
<1>3. TypeOK'
  <2>1. Kop("user", NULL) \in Kops
    BY DEF Kop, Kops, KernPoints, SlotOrNull
  <2>2. kop' \in [Slots -> Kops]
    BY <1>0, <1>1, <2>1 DEF TypeOK
  <2>3. state' \in [Slots -> States]
    BY <1>0, <1>1 DEF TypeOK, States
  <2>4. /\ pid' \in [Slots -> SlotOrNull] /\ parent' \in [Slots -> SlotOrNull]
        /\ mthread' \in [Slots -> SlotOrNull]
    BY <1>0, <1>1 DEF TypeOK, SlotOrNull
  <2>5. cthread' \in [Slots -> [Slots -> SlotOrNull]]
    BY <1>0, <1>1 DEF TypeOK, SlotOrNull
  <2> QED
    BY <1>0, <1>1, <1>2, <2>2, <2>3, <2>4, <2>5 DEF TypeOK, QueueTypes, Queues, Arrays, cpuVars
<1>4. Control'
  <2>1. \A s \in Slots : state[s] \in {"RUNNING", "ZOMBIE"} =>
          state'[s] = state[s] /\ mthread'[s] = mthread[s] /\ parent'[s] = parent[s]
    BY <1>0, <1>1 DEF TypeOK
  <2> QED
    BY <1>a, <1>0, <1>1, <2>1, StayControl DEF cpuVars
<1>5. Family'
  <2>1. \A u \in Slots : u # np => parent'[u] = parent[u] /\ mthread'[u] = mthread[u]
    BY <1>0, <1>1 DEF TypeOK
  <2>2. kop'[t].pc = "user" /\ \A u \in Slots : u # t => kop'[u] = kop[u]
    BY <1>0, <1>1 DEF TypeOK, Kop
  <2>3. 0 \in Slots /\ 0 \notin Positive /\ Positive \subseteq Slots
    BY NullIsNoSlot DEF Positive
  <2>4. /\ cthread'[np][0] = NULL
        /\ \A u \in Slots : u # np => cthread'[u][0] = cthread[u][0]
        /\ \A u \in Slots : \A i \in Positive : cthread'[u][i] = cthread[u][i]
    BY <1>0, <1>1, <2>3 DEF TypeOK
  <2>5. m # np /\ mthread'[np] = m
    BY <1>0, <1>1, NullIsNoSlot DEF TypeOK
  <2>6. SlotBorn(t, np, m)
    BY <1>0, <1>1, <1>2, <2>1, <2>2, <2>4, <2>5 DEF SlotBorn
  <2> QED
    BY <1>0, <2>6, BornFamily
<1> QED
  BY <1>2, <1>3, <1>4, <1>5, IndInvParts

-----------------------------------------------------------------------------
LEMMA ExitKeeps ==
  ASSUME IndInv, panic = "none", NEW c \in CPUs, Exit(c)
  PROVE  IndInv'
<1> DEFINE t == cproc[c]
<1>a. Running(c) /\ lock = NULL /\ loop.op = "none"
  BY FreeCall DEF Exit, Syscall, InUser
<1>b. PICK m \in Slots : m = mthread[t]
  BY <1>a, CallIs
<1>0. /\ TypeOK /\ QueueInv /\ Control /\ Family /\ t \in Slots /\ state[t] = "RUNNING"
      /\ mthread[m] = m /\ cthread[m][0] = m /\ state[m] \notin {"UNUSED", "EMBRYO"}
      /\ t = m \/ \E i \in Positive : cthread[m][i] = t
  <2>1. TypeOK /\ QueueInv /\ Control /\ Family /\ t \in Slots /\ state[t] = "RUNNING"
    BY <1>a, CallIs
  <2>2. Live(t)
    BY <2>1 DEF Live
  <2> QED
    BY <1>b, <2>1, <2>2, MainIs
<1> DEFINE st == [s \in Slots |-> IF s \in Threads(m) THEN "ZOMBIE" ELSE state[s]]
           other == \E d \in CPUs \ {c} : Running(d) /\ cproc[d] \in Threads(m)
<1>1. /\ state' = Woken(st, parent[m]) /\ parent' = Reparented(m)
      /\ loop' = [op |-> "exit", m |-> m, pct |-> 0]
      /\ panic' = IF other THEN "freed" ELSE panic
      /\ lock' = c
      /\ UNCHANGED <<pid, chan, killed, threadVars, schedVars, kernVars, mlfqVars, spc, cproc, mproc,
                     branch, lvl, done, mono, boostin>>
  BY <1>b DEF Exit
<1>2. \A s \in Slots : s \in Threads(m) <=> s = m \/ \E i \in Positive : cthread[m][i] = s
  <2>1. Slots = Positive \cup {0}
    BY NullIsNoSlot DEF Positive
  <2>2. \A s \in Slots : s \in Threads(m) <=> \E i \in Slots : cthread[m][i] = s
    BY NullIsNoSlot DEF Threads, Places
  <2> QED
    BY <1>0, <2>1, <2>2
<1>3. \A s \in Slots :
        /\ s \in Threads(m) => state'[s] = "ZOMBIE"
        /\ s \notin Threads(m) => state'[s] = state[s]
                                  \/ (state[s] = "SLEEPING" /\ state'[s] = "RUNNABLE")
  BY <1>1 DEF Woken
<1> HIDE DEF t, st, other
<1>4. TypeOK'
  <2>1. state' \in [Slots -> States]
    BY <1>0, <1>1 DEF Woken, TypeOK, States, st
  <2>2. parent' \in [Slots -> SlotOrNull]
    BY <1>0, <1>1 DEF Reparented, TypeOK
  <2>3. loop' \in Loops /\ panic' \in Panics
    BY <1>0, <1>1 DEF Loops, SlotOrNull, TypeOK, Panics
  <2> QED
    BY <1>0, <1>1, <2>1, <2>2, <2>3
    DEF TypeOK, threadVars, schedVars, kernVars, mlfqVars
<1>5. \A s \in Slots : s \in Threads(m) => state[s] # "UNUSED" /\ (Named(s) \/ state[s] # "EMBRYO")
  <2> SUFFICES ASSUME NEW s \in Slots, s # m, NEW i \in Positive, cthread[m][i] = s
               PROVE  state[s] # "UNUSED" /\ Named(s)
    BY <1>0, <1>2
  <2> QED
    BY <1>0, EntryIs DEF Named
<1>6. QueueInv'
  <2>1. \A s \in Slots : state'[s] = "UNUSED" => ~inqueue[s]
    BY <1>0, <1>3, <1>5 DEF QueueInv
  <2> QED
    BY <1>0, <1>1, <2>1, QueueFrame DEF Boosting, mlfqVars, schedVars
<1>7. Family'
  <2>1. \A s \in Slots : parent[s] = NULL => parent'[s] = NULL
    BY <1>1, NullIsNoSlot DEF Reparented
  <2>2. UNCHANGED <<mthread, cthread, kop, inqueue>>
    BY <1>1 DEF threadVars, kernVars, schedVars
  <2>3. \A s \in Slots :
          state'[s] = state[s] \/ (Live(s) /\ Live(s)')
            \/ (state[s] # "UNUSED" /\ state'[s] = "ZOMBIE" /\ (Named(s) \/ state[s] # "EMBRYO"))
    BY <1>3, <1>5 DEF Live
  <2>4. \A s \in Slots : state[s] = "EMBRYO" /\ state'[s] = "ZOMBIE" =>
          \E i \in Positive : cthread[m][i] = s
    BY <1>0, <1>2, <1>3
  <2>5. \A i \in Positive : cthread[m][i] # NULL => state'[cthread[m][i]] = "ZOMBIE"
    <3>1. \A i \in Positive : cthread[m][i] # NULL => cthread[m][i] \in Slots
      BY <1>0 DEF TypeOK, Positive, SlotOrNull
    <3> QED
      BY <1>2, <1>3, <3>1
  <2>6. state'[m] = "ZOMBIE"
    BY <1>2, <1>3
  <2>7. ProcessEnds(m)
    BY <2>1, <2>2, <2>3, <2>4, <2>5, <2>6 DEF ProcessEnds
  <2> QED
    BY <1>0, <2>7, EndsFamily
<1>8. ASSUME panic' = "none" PROVE Control'
  <2>1. CtlLoop' /\ loop'.op = "exit" /\ loop'.m \in Slots
    BY <1>b, <1>0, <1>1 DEF CtlLoop, threadVars, t
  <2>2. \A d \in CPUs \ {c} : Running(d) => cproc[d] \notin Threads(m)
    BY <1>1, <1>8 DEF other
  <2>3. \A d \in CPUs : spc[d] = "run" => cproc[d] \in Slots /\ state[cproc[d]] = "RUNNING"
    BY <1>a, CallIs
  <2>4. \A d \in CPUs : spc[d] = "run" =>
          state'[cproc[d]] = "RUNNING" \/ (d = c /\ state'[cproc[d]] = "ZOMBIE")
    <3> SUFFICES ASSUME NEW d \in CPUs, spc[d] = "run"
                 PROVE  state'[cproc[d]] = "RUNNING" \/ (d = c /\ state'[cproc[d]] = "ZOMBIE")
      OBVIOUS
    <3>1. CASE d = c
      <4>1. t \in Threads(m)
        BY <1>0, <1>2
      <4> QED
        BY <1>0, <1>3, <3>1, <4>1 DEF t
    <3>2. CASE d # c
      BY <1>3, <2>2, <2>3, <3>2
    <3> QED
      BY <3>1, <3>2
  <2> QED
    BY <1>a, <1>0, <1>1, <2>1, <2>4, LoopControl
<1> QED
  BY <1>4, <1>6, <1>7, <1>8, IndInvParts

LEMMA WaitReapKeeps ==
  ASSUME IndInv, panic = "none", NEW c \in CPUs, WaitReap(c)
  PROVE  IndInv'
<1>a. Running(c) /\ lock \in {c, NULL} /\ loop.op = "none"
  BY DEF WaitReap, Syscall, InUser, InWait
<1>b. PICK z \in Zombies(Main(c)) : z = Least(Zombies(Main(c)))
  BY LeastIs DEF WaitReap, Zombies, Children
<1> DEFINE W == {cthread[z][i] : i \in Places(z) \ {0}}
           other == \E d \in CPUs : Running(d) /\ cproc[d] \in W
<1>0. /\ TypeOK /\ QueueInv /\ Control /\ Family /\ Main(c) \in Slots
      /\ z \in Slots /\ mthread[z] = z /\ state[z] = "ZOMBIE" /\ parent[z] = Main(c)
  BY <1>a, <1>b, CallIs DEF Zombies, Children
<1>1. /\ state' = [s \in Slots |-> IF s \in W THEN "ZOMBIE" ELSE state[s]]
      /\ loop' = [op |-> "reap", m |-> z, pct |-> 0]
      /\ panic' = IF other THEN "freed" ELSE panic
      /\ lock' = c
      /\ UNCHANGED <<pid, parent, chan, killed, threadVars, schedVars, kernVars, mlfqVars, spc, cproc,
                     mproc, branch, lvl, done, mono, boostin>>
  BY <1>b DEF WaitReap
<1>2. \A s \in Slots : s \in W <=> \E i \in Positive : cthread[z][i] = s
  BY NullIsNoSlot DEF Places, Positive
<1> HIDE DEF W, other
<1>3. \A s \in Slots : state'[s] = IF s \in W THEN "ZOMBIE" ELSE state[s]
  BY <1>1
<1>4. TypeOK'
  <2>1. state' \in [Slots -> States]
    BY <1>0, <1>1 DEF TypeOK, States
  <2>2. loop' \in Loops /\ panic' \in Panics
    BY <1>0, <1>1 DEF Loops, SlotOrNull, TypeOK, Panics
  <2> QED
    BY <1>0, <1>1, <2>1, <2>2
    DEF TypeOK, threadVars, schedVars, kernVars, mlfqVars
<1>5. \A s \in W \cap Slots : state[s] # "UNUSED" /\ Named(s)
  <2> SUFFICES ASSUME NEW s \in Slots, NEW i \in Positive, cthread[z][i] = s
               PROVE  state[s] # "UNUSED" /\ Named(s)
    BY <1>2
  <2> QED
    BY <1>0, EntryIs DEF Named
<1>6. QueueInv'
  <2>1. \A s \in Slots : state'[s] = "UNUSED" => ~inqueue[s]
    BY <1>0, <1>3 DEF QueueInv
  <2> QED
    BY <1>0, <1>1, <2>1, QueueFrame DEF Boosting, mlfqVars, schedVars
<1>7. \A i \in Positive : cthread[z][i] # NULL => state'[cthread[z][i]] = "ZOMBIE"
  <2>1. \A i \in Positive : cthread[z][i] # NULL => cthread[z][i] \in Slots
    BY <1>0 DEF TypeOK, Positive, SlotOrNull
  <2> QED
    BY <1>2, <1>3, <2>1
<1>8. Family'
  <2>1. UNCHANGED <<parent, mthread, cthread, kop, inqueue>>
    BY <1>1 DEF threadVars, kernVars, schedVars
  <2>2. \A s \in Slots :
          state'[s] = state[s] \/ (Live(s) /\ Live(s)')
            \/ (state[s] # "UNUSED" /\ state'[s] = "ZOMBIE" /\ (Named(s) \/ state[s] # "EMBRYO"))
    BY <1>3, <1>5
  <2>3. \A s \in Slots : state[s] = "EMBRYO" /\ state'[s] = "ZOMBIE" =>
          \E i \in Positive : cthread[z][i] = s
    BY <1>2, <1>3
  <2>4. state'[z] = "ZOMBIE"
    BY <1>0, <1>3
  <2>5. ProcessEnds(z)
    BY <1>7, <2>1, <2>2, <2>3, <2>4 DEF ProcessEnds
  <2> QED
    BY <1>0, <2>5, EndsFamily
<1>9. ASSUME panic' = "none" PROVE Control'
  <2>1. loop'.op = "reap" /\ loop'.m = z
    BY <1>1
  <2>2. CtlLoop'
    BY <1>0, <1>1, <1>3, <1>7, <2>1, NullIsNoSlot DEF CtlLoop, threadVars
  <2>3. \A d \in CPUs : Running(d) => cproc[d] \notin W
    BY <1>1, <1>9 DEF other
  <2>4. \A d \in CPUs : spc[d] = "run" => cproc[d] \in Slots /\ state[cproc[d]] = "RUNNING"
    BY <1>a, CallIs
  <2>5. \A d \in CPUs : spc[d] = "run" => state'[cproc[d]] = "RUNNING"
    BY <1>3, <2>3, <2>4
  <2> QED
    BY <1>a, <1>0, <1>1, <2>1, <2>2, <2>5, LoopControl
<1> QED
  BY <1>4, <1>6, <1>8, <1>9, IndInvParts

(* The queues and the types after slot s has been freed.                   *)
LEMMA FreeQueue ==
  ASSUME TypeOK, QueueInv, ~Boosting, NEW s \in Slots, PopIfQueued(s),
         state' = [state EXCEPT ![s] = "UNUSED"]
  PROVE  /\ QueueInv' /\ QueueTypes' /\ \A u \in Slots : inqueue'[u] => inqueue[u]
<1>0. QueueTypes /\ QueueCore /\ LowerCompact
  BY QueueTypesIs, QueueInvIs
<1>1. /\ QueueTypes' /\ QueueCore' /\ LowerCompact'
      /\ \A u \in Slots : inqueue'[u] <=> inqueue[u] /\ u # s
  BY <1>0, PopIfQueuedStep
<1>2. \A u \in Slots : state'[u] = "UNUSED" => u = s \/ ~inqueue[u]
  BY DEF TypeOK, QueueInv
<1>3. \A u \in Slots : state'[u] = "UNUSED" => ~inqueue'[u]
  BY <1>1, <1>2
<1> QED
  BY <1>1, <1>3 DEF QueueInv, QueueCore, LowerCompact, QueuesCompact

LEMMA FreeTypes ==
  ASSUME TypeOK, NEW s \in Slots, Free(s)
  PROVE  /\ state' \in [Slots -> States] /\ pid' \in [Slots -> SlotOrNull]
         /\ parent' \in [Slots -> SlotOrNull] /\ chan' \in [Slots -> SlotOrNull \cup {IO}]
         /\ killed' \in [Slots -> BOOLEAN] /\ ticks' \in [Slots -> Nat]
         /\ curticks' \in [Slots -> 0 .. MaxCur] /\ priority' \in [Slots -> Levels]
         /\ percentage' \in [Slots -> Int] /\ pass' \in [Slots -> Passes] /\ share' \in Int
<1>1. state' \in [Slots -> States]
  BY DEF TypeOK, Free, States
<1>2. pid' \in [Slots -> SlotOrNull] /\ parent' \in [Slots -> SlotOrNull]
  BY DEF TypeOK, Free, SlotOrNull
<1>3. chan' \in [Slots -> SlotOrNull \cup {IO}]
  BY DEF TypeOK, Free, SlotOrNull
<1>4. killed' \in [Slots -> BOOLEAN]
  BY DEF TypeOK, Free
<1>5. ticks' \in [Slots -> Nat] /\ curticks' \in [Slots -> 0 .. MaxCur]
  BY ZeroIs DEF TypeOK, Free
<1>6. priority' \in [Slots -> Levels] /\ percentage' \in [Slots -> Int]
  BY ZeroIs DEF TypeOK, Free
<1>7. pass' \in [Slots -> Passes]
  BY ZeroIs DEF TypeOK, Free
<1>8. share' \in Int
  BY DEF TypeOK, Free, Refund
<1> QED
  BY <1>1, <1>2, <1>3, <1>4, <1>5, <1>6, <1>7, <1>8

(* A worker thread s leaves place i of the array of its process m.         *)
LEMMA LeaveFamily ==
  ASSUME TypeOK, Family, NEW m \in Slots, NEW i \in Positive, NEW s \in Slots,
         cthread[m][i] = s, state[s] = "ZOMBIE", state' = [state EXCEPT ![s] = "UNUSED"],
         parent' = [parent EXCEPT ![s] = NULL], cthread' = [cthread EXCEPT ![m][i] = NULL],
         \A u \in Slots : u # s => mthread'[u] = mthread[u],
         \A u \in Slots : inqueue'[u] => inqueue[u],
         \A u \in Slots :
           kop'[u] = kop[u] \/ (kop'[u].pc \notin CreatePoints /\ state[u] # "EMBRYO")
  PROVE  /\ Family' /\ \A k \in Slots : cthread'[m][k] # NULL => cthread'[m][k] = cthread[m][k]
         /\ \A k \in Positive : cthread'[m][k] # s
<1>0. Positive \subseteq Slots
  BY DEF Positive
<1>1. s # m /\ \A j \in Positive : cthread[s][j] = NULL
  BY EntryIs
<1>2. \A n, k \in Slots : \/ cthread'[n][k] = cthread[n][k]
                          \/ n = m /\ k = i /\ cthread'[n][k] = NULL
  BY <1>0 DEF TypeOK
<1>3. \A n \in Slots : \A k \in Positive : cthread'[n][k] # s
  <2> SUFFICES ASSUME NEW n \in Slots, NEW k \in Positive, cthread'[n][k] = s
               PROVE  FALSE
    OBVIOUS
  <2>1. cthread[n][k] = s
    BY <1>0, <1>2, NullIsNoSlot
  <2>2. n = m /\ k = i
    BY <2>1, NullIsNoSlot DEF Family, FamOnce
  <2>3. cthread'[m][i] = NULL
    BY <1>0 DEF TypeOK
  <2> QED
    BY <2>2, <2>3, NullIsNoSlot
<1>4. parent'[s] = NULL /\ \A u \in Slots : u # s => parent'[u] = parent[u]
  BY DEF TypeOK
<1>5. ~Named(s)'
  BY <1>3 DEF Named
<1>6. \A u \in Slots : Creates(u)' => kop[u].np # s
  <2>1. \A u \in Slots : Creates(u)' => Creates(u)
    BY DEF Creates, CreatePoints, TypeOK
  <2> QED
    BY <2>1 DEF Family, NewSlot
<1>7. \A n, k \in Slots : \/ cthread'[n][k] = cthread[n][k]
                          \/ k \in Positive /\ cthread[n][k] = s /\ cthread'[n][k] = NULL
  BY <1>2
<1>8. SlotFreed(s)
  BY <1>1, <1>4, <1>5, <1>6, <1>7 DEF SlotFreed
<1> QED
  BY <1>2, <1>3, <1>8, FreedFamily

LEMMA KillZombieKeeps ==
  ASSUME IndInv, panic = "none", NEW c \in CPUs, KillZombie(c)
  PROVE  IndInv'
<1>a. lock = c /\ loop.op \in {"exit", "reap"} /\ ToKill(loop.m, Keep(c)) # {}
  BY DEF KillZombie
<1>b. PICK m \in Slots : m = loop.m
  BY <1>a, LoopIs
<1>c. PICK i \in ToKill(m, Keep(c)) : i = Least(ToKill(m, Keep(c)))
  BY <1>a, <1>b, LeastIs DEF ToKill, Places
<1>0. /\ TypeOK /\ QueueInv /\ Control /\ Family /\ ~Boosting
      /\ i \in Positive /\ cthread[m][i] \in Slots
      /\ state[cthread[m][i]] = "ZOMBIE" /\ cthread[m][i] # Keep(c)
  <2>1. TypeOK /\ QueueInv /\ Control /\ Family /\ ~Boosting
    BY <1>a, LoopIs
  <2>2. /\ i \in Slots /\ i # 0 /\ cthread[m][i] # NULL
        /\ state[cthread[m][i]] = "ZOMBIE" /\ cthread[m][i] # Keep(c)
    BY <1>c DEF ToKill, Places
  <2> QED
    BY <2>1, <2>2 DEF Positive, TypeOK, SlotOrNull
<1>d. PICK s \in Slots : s = cthread[m][i]
  BY <1>0
<1>1. /\ Free(s) /\ Forget(s) /\ cthread' = [cthread EXCEPT ![m][i] = NULL]
      /\ UNCHANGED <<mthread, rrlast, intrap, minpass, cpuVars, loop>>
  BY <1>b, <1>c, <1>d DEF KillZombie
<1>2. /\ state' = [state EXCEPT ![s] = "UNUSED"] /\ parent' = [parent EXCEPT ![s] = NULL]
      /\ PopIfQueued(s)
  BY <1>1 DEF Free
<1>3. QueueInv' /\ QueueTypes' /\ \A u \in Slots : inqueue'[u] => inqueue[u]
  BY <1>0, <1>2, FreeQueue
<1>4. \A u \in Slots :
        kop'[u] = kop[u] \/ (kop'[u].pc \notin CreatePoints /\ state[u] # "EMBRYO")
  BY <1>0, <1>1 DEF Forget, Kop, CreatePoints, Family, EmbryoIdle
<1>5. TypeOK'
  <2>1. kop' \in [Slots -> Kops]
    BY <1>0, <1>1 DEF Forget, Kop, Kops, KernPoints, SlotOrNull, TypeOK
  <2>2. cthread' \in [Slots -> [Slots -> SlotOrNull]]
    BY <1>0, <1>1 DEF TypeOK, SlotOrNull
  <2>3. /\ state' \in [Slots -> States] /\ pid' \in [Slots -> SlotOrNull]
        /\ parent' \in [Slots -> SlotOrNull] /\ chan' \in [Slots -> SlotOrNull \cup {IO}]
        /\ killed' \in [Slots -> BOOLEAN] /\ ticks' \in [Slots -> Nat]
        /\ curticks' \in [Slots -> 0 .. MaxCur] /\ priority' \in [Slots -> Levels]
        /\ percentage' \in [Slots -> Int] /\ pass' \in [Slots -> Passes] /\ share' \in Int
    BY <1>0, <1>1, FreeTypes
  <2> QED
    BY <1>0, <1>1, <1>3, <2>1, <2>2, <2>3 DEF TypeOK, QueueTypes, Queues, Arrays, cpuVars
<1>6. /\ Family' /\ \A k \in Positive : cthread'[m][k] # s
      /\ \A k \in Slots : cthread'[m][k] # NULL => cthread'[m][k] = cthread[m][k]
  <2>1. cthread[m][i] = s /\ state[s] = "ZOMBIE"
    BY <1>0, <1>d
  <2> QED
    BY <1>0, <1>1, <1>2, <1>3, <1>4, <2>1, LeaveFamily
<1>7. Control'
  <2>0. \A u \in Slots : u # s => state'[u] = state[u] /\ parent'[u] = parent[u]
    BY <1>0, <1>2 DEF TypeOK
  <2>1. CtlLock'
    BY <1>0, <1>1 DEF Control, CtlLock, cpuVars
  <2>2. CtlProc'
    <3>1. \A d \in CPUs : spc[d] = "run" => cproc[d] \in Slots /\ cproc[d] # s
      <4> SUFFICES ASSUME NEW d \in CPUs, spc[d] = "run", cproc[d] = s PROVE FALSE
        BY <1>a, LoopIs
      <4>1. loop.op = "exit" /\ d = c
        BY <1>a, <1>0, <1>d, LoopIs
      <4> QED
        BY <1>0, <1>d, <4>1 DEF Keep
    <3> QED
      BY <1>0, <1>1, <2>0, <3>1 DEF Control, CtlProc, cpuVars
  <2>3. CtlLoop'
    <3>1. CASE loop.op = "exit"
      BY <1>0, <1>1, <3>1 DEF Control, CtlLoop, cpuVars
    <3>2. CASE loop.op = "reap"
      <4>1. /\ state[m] = "ZOMBIE" /\ mthread[m] = m /\ parent[m] # NULL
            /\ \A k \in Positive : cthread[m][k] # NULL => state[cthread[m][k]] = "ZOMBIE"
        BY <1>0, <1>b, <3>2 DEF Control, CtlLoop
      <4>2. m # s
        BY <1>0, <1>d, EntryIs
      <4>3. \A k \in Positive : cthread'[m][k] # NULL => state'[cthread'[m][k]] = "ZOMBIE"
        <5> SUFFICES ASSUME NEW k \in Positive, cthread'[m][k] # NULL
                     PROVE  state'[cthread'[m][k]] = "ZOMBIE"
          OBVIOUS
        <5>1. cthread'[m][k] = cthread[m][k] /\ cthread[m][k] # s /\ cthread[m][k] \in Slots
          BY <1>0, <1>6 DEF Positive, TypeOK, SlotOrNull
        <5> QED
          BY <2>0, <4>1, <5>1
      <4>4. state'[m] = "ZOMBIE" /\ mthread'[m] = m /\ parent'[m] # NULL
        BY <1>1, <2>0, <4>1, <4>2
      <4> QED
        BY <1>b, <1>1, <3>2, <4>3, <4>4 DEF CtlLoop
    <3> QED
      BY <1>a, <3>1, <3>2
  <2> QED
    BY <2>1, <2>2, <2>3 DEF Control
<1> QED
  BY <1>3, <1>5, <1>6, <1>7, IndInvParts

LEMMA WaitDoneKeeps ==
  ASSUME IndInv, panic = "none", NEW c \in CPUs, WaitDone(c)
  PROVE  IndInv'
<1> DEFINE t == cproc[c]
<1>a. lock = c /\ loop.op = "reap" /\ ToKill(loop.m, loop.m) = {}
  BY DEF WaitDone
<1>b. PICK s \in Slots : s = loop.m
  BY <1>a, LoopIs
<1>0. /\ TypeOK /\ QueueInv /\ Control /\ Family /\ ~Boosting
      /\ spc[c] = "run" /\ t \in Slots /\ state[t] = "RUNNING"
      /\ state[s] = "ZOMBIE" /\ mthread[s] = s /\ parent[s] # NULL
      /\ \A i \in Positive : cthread[s][i] # NULL => state[cthread[s][i]] = "ZOMBIE"
  BY <1>a, <1>b, LoopIs DEF Control, CtlLoop
<1>1. /\ Free(s) /\ kop' = [kop EXCEPT ![t] = Kop("user", NULL)]
      /\ loop' = NoLoop /\ lock' = NULL
      /\ UNCHANGED <<threadVars, intrap, minpass, spc, cproc, mproc, branch, lvl, done,
                     mono, boostin>>
  BY <1>b DEF WaitDone, Return
<1> HIDE DEF t
<1>2. /\ state' = [state EXCEPT ![s] = "UNUSED"] /\ parent' = [parent EXCEPT ![s] = NULL]
      /\ PopIfQueued(s)
  BY <1>1 DEF Free
<1>3. QueueInv' /\ QueueTypes' /\ \A u \in Slots : inqueue'[u] => inqueue[u]
  BY <1>0, <1>2, FreeQueue
<1>4. \A u \in Slots :
        kop'[u] = kop[u] \/ (kop'[u].pc \notin CreatePoints /\ state[u] # "EMBRYO")
  BY <1>0, <1>1 DEF Kop, CreatePoints, TypeOK
<1>5. TypeOK'
  <2>0. Kop("user", NULL) \in Kops /\ NoLoop \in Loops
    BY DEF Kop, Kops, KernPoints, SlotOrNull, Loops, NoLoop
  <2>1. kop' \in [Slots -> Kops]
    BY <1>0, <1>1, <2>0 DEF TypeOK
  <2>2. /\ state' \in [Slots -> States] /\ pid' \in [Slots -> SlotOrNull]
        /\ parent' \in [Slots -> SlotOrNull] /\ chan' \in [Slots -> SlotOrNull \cup {IO}]
        /\ killed' \in [Slots -> BOOLEAN] /\ ticks' \in [Slots -> Nat]
        /\ curticks' \in [Slots -> 0 .. MaxCur] /\ priority' \in [Slots -> Levels]
        /\ percentage' \in [Slots -> Int] /\ pass' \in [Slots -> Passes] /\ share' \in Int
    BY <1>0, <1>1, FreeTypes
  <2> QED
    BY <1>0, <1>1, <1>3, <2>0, <2>1, <2>2 DEF TypeOK, QueueTypes, Queues, Arrays, threadVars
<1>6. Family'
  <2>1. ~Named(s)
    <3> SUFFICES ASSUME NEW m \in Slots, NEW i \in Positive, cthread[m][i] = s PROVE FALSE
      BY DEF Named
    <3> QED
      BY <1>0, EntryIs
  <2>2. \A j \in Positive : cthread[s][j] = NULL
    <3> SUFFICES ASSUME NEW j \in Positive, cthread[s][j] # NULL PROVE FALSE
      OBVIOUS
    <3>1. cthread[s][j] \in Slots /\ j \in Slots /\ j # 0
      BY <1>0 DEF TypeOK, Positive, SlotOrNull
    <3>2. cthread[s][j] # s
      BY <1>0, <3>1, EntryIs
    <3>3. j \in ToKill(s, s)
      BY <1>0, <3>1, <3>2 DEF ToKill, Places
    <3> QED
      BY <1>a, <1>b, <3>3
  <2>3. UNCHANGED <<mthread, cthread>>
    BY <1>1 DEF threadVars
  <2>4. ~Named(s)'
    BY <2>1, <2>3 DEF Named
  <2>5. parent'[s] = NULL /\ \A u \in Slots : u # s => parent'[u] = parent[u]
    BY <1>0, <1>2 DEF TypeOK
  <2>6. \A u \in Slots : Creates(u)' => kop[u].np # s
    <3>1. \A u \in Slots : Creates(u)' => Creates(u)
      BY <1>0, <1>2, <1>4 DEF Creates, CreatePoints, TypeOK
    <3> QED
      BY <1>0, <3>1 DEF Family, NewSlot
  <2>7. SlotFreed(s)
    BY <1>0, <1>2, <1>3, <1>4, <2>2, <2>3, <2>4, <2>5, <2>6 DEF SlotFreed
  <2> QED
    BY <1>0, <2>7, FreedFamily
<1>7. Control'
  <2>1. \A d \in CPUs : spc[d] = "run" => state'[cproc[d]] = "RUNNING"
    <3>1. \A d \in CPUs : spc[d] = "run" => cproc[d] \in Slots /\ state[cproc[d]] = "RUNNING"
      BY <1>a, LoopIs
    <3> QED
      BY <1>0, <1>2, <3>1 DEF TypeOK
  <2> QED
    BY <1>a, <1>0, <1>1, <2>1, CallControl DEF NoLoop
<1> QED
  BY <1>3, <1>5, <1>6, <1>7, IndInvParts

LEMMA JoinReapKeeps ==
  ASSUME IndInv, panic = "none", NEW c \in CPUs, JoinReap(c)
  PROVE  IndInv'
<1> DEFINE t == cproc[c]
<1>a. PICK s \in Slots :
        /\ Joining(c, s) /\ JoinPlaces(c, s) # {} /\ state[s] = "ZOMBIE"
        /\ state' = [state EXCEPT ![s] = "UNUSED"]
        /\ pid' = [pid EXCEPT ![s] = NULL]
        /\ parent' = [parent EXCEPT ![s] = NULL]
        /\ killed' = [killed EXCEPT ![s] = FALSE]
        /\ mthread' = [mthread EXCEPT ![s] = NULL]
        /\ cthread' = [cthread EXCEPT ![Main(c)][Least(JoinPlaces(c, s))] = NULL]
        /\ PopIfQueued(s)
        /\ ticks' = [ticks EXCEPT ![s] = 0]
        /\ curticks' = [curticks EXCEPT ![s] = 0]
        /\ priority' = [priority EXCEPT ![s] = 0]
        /\ percentage' = [percentage EXCEPT ![s] = 0]
        /\ pass' = [pass EXCEPT ![s] = 0]
        /\ kop' = [u \in Slots |->
                     IF u = cproc[c] THEN Kop("user", NULL)
                     ELSE IF kop[u].pc = "join" /\ kop[u].np = s THEN Kop("join", NULL)
                     ELSE kop[u]]
  BY DEF JoinReap
<1>b. /\ lock' = NULL
      /\ UNCHANGED <<chan, rrlast, intrap, share, minpass, spc, cproc, mproc, branch, lvl, done,
                     mono, boostin, loop>>
  BY DEF JoinReap
<1>c. Running(c) /\ lock \in {c, NULL} /\ loop.op = "none"
  BY <1>a DEF Joining, Syscall, InUser, InWait
<1>d. PICK m \in Slots : m = Main(c)
  BY <1>c, CallIs
<1>e. PICK i \in JoinPlaces(c, s) : i = Least(JoinPlaces(c, s))
  BY <1>a, LeastIs DEF JoinPlaces, Places
<1>0. /\ TypeOK /\ QueueInv /\ Control /\ Family /\ ~Boosting
      /\ t \in Slots /\ state[t] = "RUNNING"
  BY <1>c, CallIs
<1>1. i \in Positive /\ cthread[m][i] = s
  BY <1>d, <1>e DEF JoinPlaces, Places, Positive
<1>2. cthread' = [cthread EXCEPT ![m][i] = NULL]
  BY <1>a, <1>d, <1>e
<1>3. QueueInv' /\ QueueTypes' /\ \A u \in Slots : inqueue'[u] => inqueue[u]
  BY <1>0, <1>a, FreeQueue
<1> HIDE DEF t
<1>4. \A u \in Slots :
        kop'[u] = kop[u] \/ (kop'[u].pc \notin CreatePoints /\ state[u] # "EMBRYO")
  <2>1. \A u \in Slots :
          \/ kop'[u] = kop[u]
          \/ kop'[u] = Kop("user", NULL) /\ u = t
          \/ kop'[u] = Kop("join", NULL) /\ kop[u].pc = "join"
    BY <1>a DEF t
  <2> QED
    BY <1>0, <2>1 DEF Kop, CreatePoints, Family, EmbryoIdle
<1>5. TypeOK'
  <2>0. Kop("user", NULL) \in Kops /\ Kop("join", NULL) \in Kops
    BY DEF Kop, Kops, KernPoints, SlotOrNull
  <2>1. kop' \in [Slots -> Kops]
    BY <1>0, <1>a, <2>0 DEF TypeOK
  <2>2. cthread' \in [Slots -> [Slots -> SlotOrNull]]
    BY <1>0, <1>2 DEF TypeOK, SlotOrNull
  <2>3. state' \in [Slots -> States]
    BY <1>0, <1>a DEF TypeOK, States
  <2>4. /\ pid' \in [Slots -> SlotOrNull] /\ parent' \in [Slots -> SlotOrNull]
        /\ mthread' \in [Slots -> SlotOrNull]
    BY <1>0, <1>a DEF TypeOK, SlotOrNull
  <2>5. killed' \in [Slots -> BOOLEAN]
    BY <1>0, <1>a DEF TypeOK
  <2>6. /\ ticks' \in [Slots -> Nat] /\ curticks' \in [Slots -> 0 .. MaxCur]
        /\ priority' \in [Slots -> Levels] /\ percentage' \in [Slots -> Int]
        /\ pass' \in [Slots -> Passes]
    BY <1>0, <1>a, ZeroIs DEF TypeOK
  <2> QED
    BY <1>0, <1>b, <1>3, <2>1, <2>2, <2>3, <2>4, <2>5, <2>6 DEF TypeOK, QueueTypes, Queues, Arrays
<1>6. Family'
  <2>1. \A u \in Slots : u # s => mthread'[u] = mthread[u]
    BY <1>0, <1>a DEF TypeOK
  <2> QED
    BY <1>0, <1>a, <1>1, <1>2, <1>3, <1>4, <2>1, LeaveFamily, ZenonT(60)
<1>7. Control'
  <2>1. \A d \in CPUs : spc[d] = "run" => state'[cproc[d]] = "RUNNING"
    <3>1. \A d \in CPUs : spc[d] = "run" => cproc[d] \in Slots /\ state[cproc[d]] = "RUNNING"
      BY <1>c, CallIs
    <3> QED
      BY <1>0, <1>a, <3>1 DEF TypeOK
  <2> QED
    BY <1>b, <1>c, <1>0, <2>1, CallControl
<1> QED
  BY <1>3, <1>5, <1>6, <1>7, IndInvParts

-----------------------------------------------------------------------------
(* A thread leaves its CPU, to sleep or for good.                          *)
Leaves(c) ==
  /\ Running(c) /\ lock \in {c, NULL} /\ ToScheduler(c) /\ loop'.op = "none" /\ loop' \in Loops
  /\ \A s \in Slots : \/ state'[s] = state[s]
                      \/ state[s] = "SLEEPING" /\ state'[s] = "RUNNABLE"
                      \/ s = cproc[c] /\ state[s] = "RUNNING" /\ state'[s] \notin {"UNUSED", "EMBRYO"}
  /\ \A s \in Slots : \/ kop'[s] = kop[s]
                      \/ s = cproc[c] /\ kop'[s].pc \notin CreatePoints
  /\ state' \in [Slots -> States] /\ chan' \in [Slots -> SlotOrNull \cup {IO}]
  /\ kop' \in [Slots -> Kops]
  /\ UNCHANGED <<pid, parent, killed, threadVars, schedVars, intrap, mlfqVars, cproc, mproc,
                 branch, lvl, done, mono, boostin, panic>>

LEMMA LeavesKeeps ==
  ASSUME IndInv, panic = "none", NEW c \in CPUs, Leaves(c)
  PROVE  IndInv'
<1> USE DEF Leaves
<1>0. TypeOK /\ QueueInv /\ Control /\ Family
  BY DEF IndInv, Structure
<1>1. cproc[c] \in Slots /\ state[cproc[c]] \in {"RUNNING", "ZOMBIE"}
  BY <1>0 DEF Control, CtlProc
<1>2. ~Boosting
  BY <1>0, LockIs DEF Boosting
<1>3. TypeOK'
  BY <1>0 DEF ToScheduler, TypeOK, threadVars, schedVars, mlfqVars
<1>4. FamilyKept
  <2>1. UNCHANGED <<parent, mthread, cthread, inqueue>>
    BY DEF threadVars, schedVars
  <2> QED
    BY <1>0, <1>1, <2>1 DEF FamilyKept, Live
<1>5. Control'
  <2>1. \A d \in CPUs : d # c /\ spc[d] = "run" => state'[cproc[d]] = state[cproc[d]]
    <3> SUFFICES ASSUME NEW d \in CPUs, d # c, spc[d] = "run"
                 PROVE  state'[cproc[d]] = state[cproc[d]]
      OBVIOUS
    <3>1. cproc[d] \in Slots /\ cproc[d] # cproc[c] /\ state[cproc[d]] # "SLEEPING"
      BY <1>0 DEF Control, CtlProc
    <3> QED
      BY <3>1
  <2> QED
    BY <1>0, <2>1, SwitchControl
<1>6. UNCHANGED <<queue, inqueue>>
  BY DEF mlfqVars, schedVars
<1> QED
  BY <1>2, <1>3, <1>4, <1>5, <1>6, FrameKeeps

LEMMA ExitDoneKeeps ==
  ASSUME IndInv, panic = "none", NEW c \in CPUs, ExitDone(c)
  PROVE  IndInv'
<1>0. lock = c /\ loop.op = "exit"
  BY DEF ExitDone
<1>1. TypeOK /\ spc[c] = "run" /\ cproc[c] \in Slots
  BY <1>0, LoopIs
<1>2. /\ ToScheduler(c) /\ kop' = [kop EXCEPT ![cproc[c]] = Kop("dead", NULL)] /\ loop' = NoLoop
      /\ UNCHANGED <<procVars, threadVars, schedVars, intrap, mlfqVars, cproc, mproc, branch, lvl,
                     done, mono, boostin, panic>>
  BY DEF ExitDone
<1>3. Kop("dead", NULL) \in Kops /\ NoLoop \in Loops /\ NoLoop.op = "none"
  BY DEF Kop, Kops, KernPoints, SlotOrNull, Loops, NoLoop
<1>4. /\ kop' \in [Slots -> Kops]
      /\ \A s \in Slots : kop'[s] = kop[s] \/ (s = cproc[c] /\ kop'[s].pc \notin CreatePoints)
  BY <1>1, <1>2, <1>3 DEF TypeOK, Kop, CreatePoints
<1>5. UNCHANGED <<state, pid, parent, chan, killed>>
  BY <1>2 DEF procVars
<1>6. Leaves(c)
  BY <1>0, <1>1, <1>2, <1>3, <1>4, <1>5 DEF Leaves, TypeOK
<1> QED
  BY <1>6, LeavesKeeps

(* A RUNNING thread that makes a call which ends in sched().               *)
LEMMA SleepInLeaves ==
  ASSUME IndInv, panic = "none", NEW c \in CPUs, Running(c), lock \in {c, NULL}, loop.op = "none",
         NEW pc \in {"wait", "join"}, NEW np \in SlotOrNull, SleepIn(c, pc, np),
         UNCHANGED <<pid, parent, killed, threadVars, schedVars, intrap, mlfqVars, cproc, mproc,
                     branch, lvl, done, mono, boostin, loop, panic>>
  PROVE  IndInv'
<1>1. TypeOK /\ cproc[c] \in Slots /\ state[cproc[c]] = "RUNNING" /\ Main(c) \in Slots
  BY CallIs
<1>2. Kop(pc, np) \in Kops /\ Kop(pc, np).pc \notin CreatePoints
  BY DEF Kop, Kops, KernPoints, CreatePoints
<1>3. /\ kop' \in [Slots -> Kops]
      /\ \A s \in Slots : kop'[s] = kop[s] \/ (s = cproc[c] /\ kop'[s].pc \notin CreatePoints)
  BY <1>1, <1>2 DEF TypeOK, SleepIn
<1>4. /\ state' \in [Slots -> States]
      /\ \A s \in Slots : state'[s] = state[s] \/ (s = cproc[c] /\ state'[s] = "SLEEPING")
  BY <1>1 DEF TypeOK, SleepIn, States
<1>5. chan' \in [Slots -> SlotOrNull \cup {IO}]
  BY <1>1 DEF TypeOK, SleepIn, SlotOrNull
<1>6. Leaves(c)
  BY <1>1, <1>3, <1>4, <1>5 DEF Leaves, SleepIn, TypeOK
<1> QED
  BY <1>6, LeavesKeeps

LEMMA WaitSleepKeeps ==
  ASSUME IndInv, panic = "none", NEW c \in CPUs, WaitSleep(c)
  PROVE  IndInv'
<1>1. Running(c) /\ lock \in {c, NULL} /\ loop.op = "none" /\ SleepIn(c, "wait", NULL)
  BY DEF WaitSleep, Syscall, InUser, InWait
<1> QED
  BY <1>1, SleepInLeaves DEF WaitSleep, SlotOrNull

LEMMA JoinSleepKeeps ==
  ASSUME IndInv, panic = "none", NEW c \in CPUs, JoinSleep(c)
  PROVE  IndInv'
<1>1. PICK s \in Slots : Joining(c, s) /\ SleepIn(c, "join", s)
  BY DEF JoinSleep
<1>2. Running(c) /\ lock \in {c, NULL} /\ loop.op = "none" /\ s \in SlotOrNull
  BY <1>1 DEF Joining, Syscall, InUser, InWait, SlotOrNull
<1> QED
  BY <1>1, <1>2, SleepInLeaves DEF JoinSleep

LEMMA YieldKeeps ==
  ASSUME IndInv, panic = "none", NEW c \in CPUs, Yield(c)
  PROVE  IndInv'
<1>1. Running(c) /\ lock = NULL /\ loop.op = "none"
  BY FreeCall DEF Yield, Syscall, InUser
<1>2. TypeOK /\ cproc[c] \in Slots /\ state[cproc[c]] = "RUNNING"
  BY <1>1, CallIs
<1>3. /\ state' \in [Slots -> States]
      /\ \A s \in Slots : state'[s] = state[s] \/ (s = cproc[c] /\ state'[s] = "RUNNABLE")
  BY <1>2 DEF TypeOK, Yield, States
<1>4. Leaves(c)
  BY <1>1, <1>2, <1>3 DEF Leaves, Yield, TypeOK, kernVars
<1> QED
  BY <1>4, LeavesKeeps

LEMMA SleepKeeps ==
  ASSUME IndInv, panic = "none", NEW c \in CPUs, Sleep(c)
  PROVE  IndInv'
<1>1. Running(c) /\ lock = NULL /\ loop.op = "none"
  BY FreeCall DEF Sleep, Syscall, InUser
<1>2. TypeOK /\ cproc[c] \in Slots /\ state[cproc[c]] = "RUNNING"
  BY <1>1, CallIs
<1>3. /\ state' \in [Slots -> States]
      /\ \A s \in Slots : state'[s] = state[s] \/ (s = cproc[c] /\ state'[s] = "SLEEPING")
  BY <1>2 DEF TypeOK, Sleep, States
<1>4. chan' \in [Slots -> SlotOrNull \cup {IO}]
  BY <1>2 DEF TypeOK, Sleep
<1>5. Leaves(c)
  BY <1>1, <1>2, <1>3, <1>4 DEF Leaves, Sleep, TypeOK, kernVars
<1> QED
  BY <1>5, LeavesKeeps

LEMMA ThreadExitKeeps ==
  ASSUME IndInv, panic = "none", NEW c \in CPUs, ThreadExit(c)
  PROVE  IndInv'
<1>1. Running(c) /\ lock = NULL /\ loop.op = "none"
  BY FreeCall DEF ThreadExit, Syscall, InUser
<1>2. TypeOK /\ cproc[c] \in Slots /\ state[cproc[c]] = "RUNNING"
  BY <1>1, CallIs
<1>3. /\ state' \in [Slots -> States]
      /\ \A s \in Slots : \/ state'[s] = state[s]
                          \/ state[s] = "SLEEPING" /\ state'[s] = "RUNNABLE"
                          \/ s = cproc[c] /\ state'[s] = "ZOMBIE"
  <2>1. /\ Woken(state, Main(c)) \in [Slots -> States]
        /\ \A s \in Slots : \/ Woken(state, Main(c))[s] = state[s]
                            \/ state[s] = "SLEEPING" /\ Woken(state, Main(c))[s] = "RUNNABLE"
    BY <1>2 DEF TypeOK, Woken, States
  <2>2. state' = [Woken(state, Main(c)) EXCEPT ![cproc[c]] = "ZOMBIE"]
    BY DEF ThreadExit
  <2> QED
    BY <1>2, <2>1, <2>2 DEF States
<1>4. Kop("dead", NULL) \in Kops /\ Kop("dead", NULL).pc \notin CreatePoints
  BY DEF Kop, Kops, KernPoints, CreatePoints, SlotOrNull
<1>5. /\ kop' \in [Slots -> Kops]
      /\ \A s \in Slots : kop'[s] = kop[s] \/ (s = cproc[c] /\ kop'[s].pc \notin CreatePoints)
  BY <1>2, <1>4 DEF TypeOK, ThreadExit
<1>6. Leaves(c)
  BY <1>1, <1>2, <1>3, <1>5 DEF Leaves, ThreadExit, TypeOK
<1> QED
  BY <1>6, LeavesKeeps

(* wait or thread_join gives up.                                           *)
LEMMA GivesUpKeeps ==
  ASSUME IndInv, panic = "none", NEW c \in CPUs, WaitFail(c) \/ JoinFail(c)
  PROVE  IndInv'
<1>1. /\ Running(c) /\ lock = c /\ loop.op = "none" /\ lock' = NULL
      /\ kop' = [kop EXCEPT ![cproc[c]] = Kop("user", NULL)]
      /\ UNCHANGED <<procVars, threadVars, schedVars, intrap, mlfqVars, spc, cproc, mproc, branch,
                     lvl, done, mono, boostin, loop, panic>>
  BY DEF WaitFail, JoinFail, InWait, Return
<1>2. TypeOK /\ Control /\ cproc[c] \in Slots /\ state[cproc[c]] = "RUNNING"
  BY <1>1, CallIs
<1>3. Kop("user", NULL) \in Kops /\ Kop("user", NULL).pc \notin CreatePoints
  BY DEF Kop, Kops, KernPoints, CreatePoints, SlotOrNull
<1>4. /\ kop' \in [Slots -> Kops]
      /\ \A s \in Slots :
           kop'[s] = kop[s] \/ (kop'[s].pc \notin CreatePoints /\ state[s] # "EMBRYO")
  BY <1>1, <1>2, <1>3 DEF TypeOK
<1>5. TypeOK'
  BY <1>1, <1>2, <1>4 DEF TypeOK, procVars, threadVars, schedVars, mlfqVars
<1>6. FamilyKept
  BY <1>1, <1>4 DEF FamilyKept, procVars, threadVars, schedVars
<1>7. Control'
  <2>1. \A d \in CPUs : spc[d] = "run" => state'[cproc[d]] = "RUNNING"
    BY <1>1, CallIs DEF procVars
  <2> QED
    BY <1>1, <1>2, <2>1, CallControl
<1> QED
  BY <1>1, <1>5, <1>6, <1>7, FrameKeeps DEF schedVars, mlfqVars

LEMMA WakeupKeeps ==
  ASSUME IndInv, panic = "none", NEW s \in Slots, Wakeup(s)
  PROVE  IndInv'
<1>0. TypeOK /\ Control
  BY DEF IndInv, Structure
<1>1. /\ state[s] = "SLEEPING" /\ state' = [state EXCEPT ![s] = "RUNNABLE"]
      /\ UNCHANGED <<pid, parent, chan, killed, threadVars, schedVars, kernVars, mlfqVars, cpuVars,
                     loop, panic>>
  BY DEF Wakeup
<1>2. /\ state' \in [Slots -> States] /\ state'[s] = "RUNNABLE"
      /\ \A u \in Slots : u # s => state'[u] = state[u]
  BY <1>0, <1>1 DEF TypeOK, States
<1>3. TypeOK'
  BY <1>0, <1>1, <1>2 DEF TypeOK, threadVars, schedVars, kernVars, mlfqVars, cpuVars
<1>4. FamilyKept
  BY <1>1, <1>2 DEF FamilyKept, Live, threadVars, schedVars, kernVars
<1>5. Control'
  <2>1. \A u \in Slots : state[u] \in {"RUNNING", "ZOMBIE"} => state'[u] = state[u]
    BY <1>1, <1>2
  <2> QED
    BY <1>0, <1>1, <2>1, StayControl DEF threadVars, cpuVars
<1> QED
  BY <1>1, <1>3, <1>4, <1>5, FrameKeeps DEF schedVars, mlfqVars, cpuVars

(* thread_create enters the new slot into the array of its process.        *)
LEMMA ThreadStackKeeps ==
  ASSUME IndInv, panic = "none", NEW c \in CPUs, ThreadStack(c)
  PROVE  IndInv'
<1> DEFINE t == cproc[c]
<1>a. Running(c) /\ lock = NULL /\ loop.op = "none" /\ kop[t].pc = "create" /\ lock # c
  BY FreeCall, CpuAssumption DEF ThreadStack
<1>b. PICK np \in Slots : np = kop[t].np
  BY <1>a, CreatingIs DEF CreatePoints
<1>c. PICK m \in Slots : m = mthread[t]
  BY <1>a, CreatingIs DEF CreatePoints
<1> DEFINE E == Slots \ Places(m)
<1>d. UNCHANGED <<pid, parent, chan, killed, mthread, rrlast, schedVars, intrap, mlfqVars, cpuVars,
                  loop, panic>>
  BY DEF ThreadStack
<1>1. CASE E = {}
  <2>1. GiveBack(c)
    BY <1>a, <1>b, <1>c, <1>1 DEF ThreadStack, GiveBack, threadVars
  <2> QED
    BY <2>1, GiveBackKeeps
<1>2. CASE E # {}
  <2>0. /\ TypeOK /\ QueueInv /\ Control /\ Family
        /\ t \in Slots /\ state[t] = "RUNNING" /\ np # t /\ state[np] = "EMBRYO"
        /\ mthread[np] = np /\ parent[np] = NULL /\ ~Named(np)
        /\ \A j \in Positive : cthread[np][j] = NULL
        /\ \A u \in Slots : Creates(u) /\ kop[u].np = np => u = t
    BY <1>a, <1>b, CreatingIs DEF CreatePoints
  <2>1. cthread[m][0] = m /\ state[m] \notin {"UNUSED", "EMBRYO"} /\ ~Named(m)
    <3>1. Live(t)
      BY <2>0 DEF Live
    <3> QED
      BY <1>c, <2>0, <3>1, MainIs
  <2>2. PICK k \in E : k = Least(E)
    BY <1>2, LeastIs
  <2>3. k \in Positive /\ cthread[m][k] = NULL
    <3>1. k \in Slots /\ cthread[m][k] = NULL
      BY DEF Places
    <3> QED
      BY <2>1, <3>1, NullIsNoSlot DEF Positive
  <2>4. /\ cthread' = [cthread EXCEPT ![m][k] = np] /\ kop' = [kop EXCEPT ![t].pc = "created"]
        /\ UNCHANGED state
    BY <1>b, <1>c, <1>2, <2>2 DEF ThreadStack
  <2> HIDE DEF t, E
  <2>5. /\ kop'[t].pc = "created" /\ kop'[t].np = np /\ \A u \in Slots : u # t => kop'[u] = kop[u]
        /\ kop' \in [Slots -> Kops]
    <3>1. kop[t] \in [pc : KernPoints, np : SlotOrNull] /\ kop[t].np = np
      BY <1>b, <2>0 DEF TypeOK, Kops
    <3> QED
      BY <2>0, <2>4, <3>1 DEF TypeOK, Kops, KernPoints
  <2>6. /\ cthread'[m][k] = np
        /\ \A n, j \in Slots : (n # m \/ j # k) => cthread'[n][j] = cthread[n][j]
        /\ cthread' \in [Slots -> [Slots -> SlotOrNull]]
    BY <2>0, <2>3, <2>4 DEF TypeOK, SlotOrNull, Positive
  <2>7. TypeOK'
    BY <1>d, <2>0, <2>4, <2>5, <2>6 DEF TypeOK, schedVars, mlfqVars, cpuVars
  <2>8. QueueInv'
    BY <1>d, <2>0, <2>4, QueueFrame DEF Boosting, mlfqVars, schedVars, cpuVars, QueueInv
  <2>9. Control'
    BY <1>a, <1>d, <2>0, <2>4, StayControl DEF cpuVars
  <2>10. Family'
    <3>0. 0 \in Slots /\ 0 \notin Positive /\ Positive \subseteq Slots /\ m # np
      BY <2>0, <2>1, NullIsNoSlot DEF Positive
    <3>1. FamOwn'
      <4> SUFFICES ASSUME NEW s \in Slots, state[s] # "UNUSED"
                   PROVE  /\ mthread[s] \in Slots
                          /\ mthread[s] = s => cthread'[s][0] = s
                          /\ mthread[s] # s => \E i \in Positive : cthread'[mthread[s]][i] = s
        BY <1>d, <2>4 DEF FamOwn
      <4>1. /\ mthread[s] \in Slots
            /\ mthread[s] = s => cthread[s][0] = s
            /\ mthread[s] # s => \E i \in Positive : cthread[mthread[s]][i] = s
        BY <2>0 DEF Family, FamOwn
      <4>2. ASSUME NEW i \in Positive, cthread[mthread[s]][i] = s
            PROVE  cthread'[mthread[s]][i] = s
        BY <2>3, <2>6, <3>0, <4>1, <4>2, NullIsNoSlot
      <4> QED
        BY <2>3, <2>6, <3>0, <4>1, <4>2
    <3>2. FamArray'
      <4>1. \A n \in Slots : cthread'[n][0] \in {n, NULL}
        BY <2>0, <2>3, <2>6, <3>0 DEF Family, FamArray
      <4>2. ASSUME NEW n \in Slots, NEW i \in Positive, cthread'[n][i] # NULL
            PROVE  LET x == cthread'[n][i]
                   IN  /\ x # n /\ state'[x] # "UNUSED" /\ state'[n] \notin {"UNUSED", "EMBRYO"}
                       /\ mthread'[x] \in {n, x}
                       /\ mthread'[x] = x => state'[x] \in {"EMBRYO", "ZOMBIE"} /\ parent'[x] = NULL
                       /\ \A j \in Positive : cthread'[x][j] = NULL
        <5>1. CASE n = m /\ i = k
          <6>1. \A j \in Positive : cthread'[np][j] = NULL
            BY <2>0, <2>6, <3>0
          <6> QED
            BY <1>d, <2>0, <2>1, <2>4, <2>6, <3>0, <5>1, <6>1
        <5>2. CASE n # m \/ i # k
          <6>1. PICK x \in Slots : x = cthread[n][i] /\ x = cthread'[n][i]
            BY <2>0, <2>6, <3>0, <4>2, <5>2 DEF TypeOK, SlotOrNull
          <6>2. Family /\ cthread[n][i] = x
            BY <2>0, <6>1
          <6>3. /\ x # n /\ state[x] # "UNUSED" /\ state[n] \notin {"UNUSED", "EMBRYO"}
                /\ mthread[x] \in {n, x}
                /\ mthread[x] = x => state[x] \in {"EMBRYO", "ZOMBIE"} /\ parent[x] = NULL
                /\ \A j \in Positive : cthread[x][j] = NULL
            BY <6>2, EntryIs
          <6>4. x # m
            BY <2>1, <6>2 DEF Named
          <6>5. \A j \in Positive : cthread'[x][j] = NULL
            BY <2>6, <3>0, <6>3, <6>4
          <6> QED
            BY <1>d, <2>4, <6>1, <6>3, <6>5
        <5> QED
          BY <5>1, <5>2
      <4> QED
        BY <4>1, <4>2 DEF FamArray
    <3>3. FamOnce'
      <4> SUFFICES ASSUME NEW p \in Slots, NEW q \in Slots, NEW i \in Positive, NEW j \in Positive,
                          cthread'[p][i] # NULL, cthread'[p][i] = cthread'[q][j]
                   PROVE  p = q /\ i = j
        BY DEF FamOnce
      <4>1. \A n \in Slots : \A l \in Positive : cthread[n][l] # np
        BY <2>0 DEF Named
      <4>2. CASE cthread'[p][i] = np
        <5>1. p = m /\ i = k
          BY <2>6, <3>0, <4>1, <4>2
        <5>2. q = m /\ j = k
          <6>1. cthread'[q][j] = np
            BY <4>2
          <6> QED
            BY <2>6, <3>0, <4>1, <6>1
        <5> QED
          BY <5>1, <5>2
      <4>3. CASE cthread'[p][i] # np
        <5>1. cthread'[p][i] = cthread[p][i] /\ cthread'[q][j] = cthread[q][j]
          BY <2>6, <3>0, <4>3
        <5> QED
          <6>1. FamOnce /\ cthread[p][i] # NULL /\ cthread[p][i] = cthread[q][j]
            BY <2>0, <5>1 DEF Family
          <6> QED
            BY <6>1 DEF FamOnce
      <4> QED
        BY <4>2, <4>3
    <3>4. \A u \in Slots : Creates(u)' =>
            u = t \/ (u # t /\ Creates(u) /\ kop'[u] = kop[u] /\ kop[u].np # np)
      BY <2>0, <2>4, <2>5 DEF Creates
    <3>5. NewOnce'
      BY <2>0, <2>5, <3>4 DEF Family, NewOnce
    <3>6. NewSlot'
      <4> SUFFICES ASSUME NEW u \in Slots, Creates(u)'
                   PROVE  LET n == kop'[u].np
                          IN  /\ n \in Slots /\ n # u /\ state'[n] = "EMBRYO" /\ mthread'[n] = n
                              /\ \A j \in Positive : cthread'[n][j] = NULL
                              /\ kop'[u].pc # "forked" => parent'[n] = NULL
                              /\ kop'[u].pc # "created" => /\ ~inqueue'[n]
                                   /\ \A h \in Slots : \A i \in Positive : cthread'[h][i] # n
                              /\ kop'[u].pc = "created" =>
                                   \E i \in Positive : cthread'[mthread'[u]][i] = n
        BY DEF NewSlot
      <4>1. CASE u = t
        <5>1. kop'[u].np = np /\ kop'[u].pc = "created" /\ np # u /\ mthread'[u] = m
          BY <1>c, <1>d, <2>0, <2>5, <4>1 DEF t
        <5>2. /\ state'[np] = "EMBRYO" /\ mthread'[np] = np /\ parent'[np] = NULL
              /\ \A j \in Positive : cthread'[np][j] = NULL
          BY <1>d, <2>0, <2>4, <2>6, <3>0
        <5>3. \E i \in Positive : cthread'[m][i] = np
          BY <2>3, <2>6
        <5> QED
          BY <5>1, <5>2, <5>3
      <4>2. CASE u # t
        <5>1. PICK n \in Slots : n = kop[u].np /\ n = kop'[u].np /\ n # np
          BY <2>0, <3>4, <4>2 DEF Family, NewSlot
        <5>2. /\ n # u /\ state[n] = "EMBRYO" /\ mthread[n] = n
              /\ \A j \in Positive : cthread[n][j] = NULL
              /\ kop[u].pc # "forked" => parent[n] = NULL
              /\ kop[u].pc # "created" =>
                   ~inqueue[n] /\ \A h \in Slots : \A i \in Positive : cthread[h][i] # n
              /\ kop[u].pc = "created" => \E i \in Positive : cthread[mthread[u]][i] = n
          BY <2>0, <3>4, <4>2, <5>1 DEF Family, NewSlot
        <5>3. kop'[u].pc = kop[u].pc /\ mthread'[u] = mthread[u] /\ mthread[u] \in Slots
          BY <1>d, <2>0, <3>4, <4>2 DEF Family, FamOwn, Creates
        <5>4. /\ state'[n] = "EMBRYO" /\ mthread'[n] = n /\ parent'[n] = parent[n] /\ n # m
              /\ inqueue'[n] = inqueue[n]
          BY <1>d, <2>1, <2>4, <5>2 DEF schedVars
        <5>5. \A j \in Positive : cthread'[n][j] = NULL
          BY <2>6, <3>0, <5>2, <5>4
        <5>6. kop[u].pc # "created" => \A h \in Slots : \A i \in Positive : cthread'[h][i] # n
          BY <2>6, <3>0, <5>1, <5>2
        <5>7. kop[u].pc = "created" => \E i \in Positive : cthread'[mthread[u]][i] = n
          <6> SUFFICES ASSUME kop[u].pc = "created"
                       PROVE  \E i \in Positive : cthread'[mthread[u]][i] = n
            OBVIOUS
          <6>1. PICK i \in Positive : cthread[mthread[u]][i] = n
            BY <5>2
          <6>2. cthread'[mthread[u]][i] = n
            BY <2>3, <2>6, <3>0, <5>3, <6>1, NullIsNoSlot
          <6> QED
            BY <6>2
        <5> QED
          BY <5>1, <5>2, <5>3, <5>4, <5>5, <5>6, <5>7
      <4> QED
        BY <4>1, <4>2
    <3>7. FreeSlot'
      BY <1>d, <2>0, <2>4 DEF Family, FreeSlot
    <3>8. EmbryoIdle'
      BY <1>d, <2>0, <2>4, <2>5 DEF Family, EmbryoIdle
    <3> QED
      BY <3>1, <3>2, <3>3, <3>5, <3>6, <3>7, <3>8 DEF Family
  <2> QED
    BY <2>7, <2>8, <2>9, <2>10, IndInvParts
<1> QED
  BY <1>1, <1>2

-----------------------------------------------------------------------------
LEMMA InitInd == Init => IndInv
<1> SUFFICES ASSUME Init PROVE IndInv
  OBVIOUS
<1> USE DEF InitProc
<1>0. /\ 0 \in Slots /\ NULL \notin Slots /\ Positive \subseteq Slots /\ 0 \notin Positive
      /\ NULL \notin CPUs /\ -1 \in -1 .. (NPROC - 1) /\ 0 \in -1 .. (NPROC - 1)
  BY NullIsNoSlot, CpuAssumption, NprocAssumption DEF Positive
<1>1. TypeOK
  <2>1. /\ state \in [Slots -> States] /\ pid \in [Slots -> SlotOrNull]
        /\ parent \in [Slots -> SlotOrNull] /\ chan \in [Slots -> SlotOrNull \cup {IO}]
        /\ mthread \in [Slots -> SlotOrNull] /\ rrlast \in [Slots -> Slots]
    BY <1>0 DEF Init, States, SlotOrNull
  <2>2. cthread \in [Slots -> [Slots -> SlotOrNull]] /\ queue \in [Levels -> [Slots -> SlotOrNull]]
    BY <1>0 DEF Init, SlotOrNull
  <2>3. /\ killed \in [Slots -> BOOLEAN] /\ inqueue \in [Slots -> BOOLEAN]
        /\ intrap \in [Slots -> BOOLEAN]
    BY DEF Init
  <2>4. /\ priority \in [Slots -> Levels] /\ ticks \in [Slots -> Nat]
        /\ curticks \in [Slots -> 0 .. MaxCur] /\ percentage \in [Slots -> Int]
        /\ pass \in [Slots -> Passes] /\ share \in Int /\ minpass \in Passes
    BY ZeroIs DEF Init
  <2>5. kop \in [Slots -> Kops] /\ loop \in Loops /\ panic \in Panics
    BY DEF Init, Kop, Kops, KernPoints, Loops, NoLoop, SlotOrNull, Panics
  <2>6. index \in [Levels -> -1 .. (NPROC - 1)]
    BY <1>0 DEF Init
  <2>7. /\ lock \in CPUs \cup {NULL} /\ lvl \in [CPUs -> 0 .. 3]
        /\ spc \in [CPUs -> {"loop", "mlfq", "run", "back", "boost"}]
        /\ cproc \in [CPUs -> SlotOrNull] /\ mproc \in [CPUs -> SlotOrNull]
        /\ branch \in [CPUs -> {"mlfq", "stride"}]
    BY DEF Init, SlotOrNull
  <2>8. done \in [CPUs -> BOOLEAN] /\ mono \in [CPUs -> BOOLEAN]
    BY DEF Init
  <2>9. boostin \in [CPUs -> 0 .. PBOOST]
    BY TickAssumption DEF Init
  <2> QED
    BY <2>1, <2>2, <2>3, <2>4, <2>5, <2>6, <2>7, <2>8, <2>9 DEF TypeOK
<1>2. QueueInv
  <2>1. \A l \in Levels : \A k \in Slots : queue[l][k] = IF l = 0 /\ k = 0 THEN 0 ELSE NULL
    BY DEF Init
  <2>2. 0 \in Levels /\ 1 \in Levels /\ 2 \in Levels
    BY DEF Levels
  <2>3. QueuesCompact
    BY <1>0, <2>1, <2>2, NprocAssumption DEF QueuesCompact, Compact, Slots
  <2>4. QueuedOnce
    BY <1>0, <2>1 DEF QueuedOnce, Once
  <2>5. InqueueExact
    <3>1. \A s \in Slots : inqueue[s] <=> s = 0
      BY DEF Init
    <3>2. \A s \in Slots : Queued(queue, s) <=> s = 0
      BY <1>0, <2>1, <2>2 DEF Queued, Holds
    <3> QED
      BY <3>1, <3>2 DEF InqueueExact
  <2>6. \A s \in Slots : state[s] = "UNUSED" => ~inqueue[s]
    BY DEF Init
  <2> QED
    BY <2>3, <2>4, <2>5, <2>6 DEF QueueInv
<1>3. Control
  BY DEF Init, Control, CtlLock, CtlProc, CtlLoop, NoLoop
<1>4. Family
  <2>1. /\ state[0] = "RUNNABLE" /\ mthread[0] = 0 /\ cthread[0][0] = 0
        /\ \A s \in Slots : s # 0 => state[s] = "UNUSED" /\ parent[s] = NULL
        /\ \A s \in Slots : \A i \in Positive : cthread[s][i] = NULL
        /\ \A s \in Slots : cthread[s][0] \in {s, NULL}
        /\ \A s \in Slots : kop[s].pc = "user"
    BY <1>0 DEF Init, Kop
  <2>2. FamOwn /\ FamArray /\ FamOnce
    BY <1>0, <2>1 DEF FamOwn, FamArray, FamOnce
  <2>3. NewSlot /\ NewOnce /\ FreeSlot /\ EmbryoIdle
    BY <2>1 DEF NewSlot, NewOnce, FreeSlot, EmbryoIdle, Creates
  <2> QED
    BY <2>2, <2>3 DEF Family
<1> QED
  BY <1>1, <1>2, <1>3, <1>4 DEF IndInv, Structure

LEMMA ProcessStepKeeps ==
  ASSUME IndInv, panic = "none", "kill" \notin Calls, NEW c \in CPUs, ProcessStep(c)
  PROVE  IndInv'
<1>1. CASE Fork(c)
  BY <1>1, StartCreateKeeps DEF Fork
<1>2. CASE Kill(c)
  BY <1>2 DEF Kill, Syscall
<1>3. CASE \/ SetShare(c) \/ PopShare(c) \/ TakeShare(c) \/ ChangeShare(c) \/ PushShare(c)
           \/ LeaveShare(c)
  BY <1>3, SetShareKeeps, PopShareKeeps, TakeShareKeeps, ChangeShareKeeps, PushShareKeeps,
     LeaveShareKeeps
<1>4. CASE CreateFail(c) \/ ForkCopy(c) \/ ForkDone(c) \/ Exit(c) \/ KillZombie(c) \/ ExitDone(c)
  BY <1>4, CreateFailKeeps, ForkCopyKeeps, ForkDoneKeeps, ExitKeeps, KillZombieKeeps,
     ExitDoneKeeps
<1>5. CASE \/ WaitReap(c) \/ WaitDone(c) \/ WaitSleep(c) \/ WaitFail(c) \/ Yield(c) \/ Sleep(c)
  BY <1>5, WaitReapKeeps, WaitDoneKeeps, WaitSleepKeeps, GivesUpKeeps, YieldKeeps, SleepKeeps
<1> QED
  BY <1>1, <1>2, <1>3, <1>4, <1>5 DEF ProcessStep

LEMMA ThreadStepKeeps ==
  ASSUME IndInv, panic = "none", NEW c \in CPUs, ThreadStep(c)
  PROVE  IndInv'
<1>1. CASE ThreadCreate(c)
  BY <1>1, StartCreateKeeps DEF ThreadCreate
<1>2. CASE ~ThreadCreate(c)
  BY <1>2, ThreadStackKeeps, ThreadStartKeeps, ThreadExitKeeps, JoinReapKeeps, JoinSleepKeeps,
     GivesUpKeeps DEF ThreadStep
<1> QED
  BY <1>1, <1>2

LEMMA StutterKeeps ==
  ASSUME IndInv, UNCHANGED vars
  PROVE  IndInv'
<1>0. UNCHANGED <<procVars, threadVars, schedVars, kernVars, mlfqVars, cpuVars, loop, panic>>
  BY DEF vars
<1>1. TypeOK'
  BY <1>0 DEF IndInv, TypeOK, procVars, threadVars, schedVars, kernVars, mlfqVars, cpuVars
<1>2. QueueInv'
  BY <1>0, QueueFrame DEF IndInv, QueueInv, procVars, schedVars, mlfqVars, cpuVars, Boosting
<1>3. ASSUME panic = "none" PROVE Control' /\ Family'
  <2>1. FamilyKept
    BY <1>0 DEF FamilyKept, procVars, threadVars, schedVars, kernVars
  <2>2. Family'
    BY <1>3, <2>1, FamilyFrame DEF IndInv, Structure
  <2>3. Control'
    BY <1>0, <1>3 DEF IndInv, Structure, Control, CtlLock, CtlProc, CtlLoop, procVars, threadVars,
                      cpuVars
  <2> QED
    BY <2>2, <2>3
<1> QED
  BY <1>0, <1>1, <1>2, <1>3, IndInvParts

(* IndInv is inductive: every step of the kernel keeps it, when no process *)
(* calls kill.                                                             *)
LEMMA NextInd ==
  ASSUME IndInv, [Next]_vars, "kill" \notin Calls
  PROVE  IndInv'
<1>1. CASE Next
  <2>0. panic = "none"
    BY <1>1 DEF Next
  <2>1. CASE \E c \in CPUs : Schedule(c) \/ Timer(c) \/ ProcessStep(c) \/ ThreadStep(c)
    BY <2>0, <2>1, ScheduleKeeps, TimerKeeps, ProcessStepKeeps, ThreadStepKeeps
  <2>2. CASE \E s \in Slots : Wakeup(s)
    BY <2>0, <2>2, WakeupKeeps
  <2> QED
    BY <1>1, <2>1, <2>2 DEF Next
<1>2. CASE UNCHANGED vars
  BY <1>2, StutterKeeps
<1> QED
  BY <1>1, <1>2

-----------------------------------------------------------------------------
(* Every reachable state satisfies the inductive invariant: the lock, the  *)
(* CPUs, the cthread arrays and the slots being created by fork and        *)
(* thread_create are as the holder of ptable.lock assumes.                 *)
THEOREM Inductive ==
  ASSUME "kill" \notin Calls
  PROVE  Spec => []IndInv
<1>1. IndInv /\ [Next]_vars => IndInv'
  BY NextInd
<1> QED
  BY <1>1, InitInd, PTL DEF Spec

(* Every variable of struct proc, struct mlfq and scheduler() keeps its    *)
(* type, whatever the number of slots, CPUs, levels' ticks and shares.     *)
THEOREM TypeCorrect ==
  ASSUME "kill" \notin Calls
  PROVE  Spec => []TypeOK
<1>1. IndInv => TypeOK
  BY DEF IndInv
<1> QED
  BY <1>1, Inductive, PTL

(* The run queues stay intact through every initpush, push, pop,           *)
(* droppriority and boostpriority of every CPU and every system call.      *)
THEOREM RunQueuesIntact ==
  ASSUME "kill" \notin Calls
  PROVE  Spec => []QueueInv
<1>1. IndInv => QueueInv
  BY DEF IndInv
<1> QED
  BY <1>1, Inductive, PTL

(* Only exit and wait free a thread that another CPU runs.                 *)
LEMMA FreedBy ==
  ASSUME Next, panic' = "freed"
  PROVE  \E c \in CPUs : Exit(c) \/ WaitReap(c)
<1>0. panic = "none"
  BY DEF Next
<1>1. ASSUME NEW c \in CPUs, Schedule(c) PROVE FALSE
  BY <1>0, <1>1 DEF Schedule, PickMlfq, PickStride, Dispatch, RunTop, LeaveMlfq, BackBoost, BoostMove,
                    BoostEnd, BackMlfq, DropPriority, MlfqDivide, BackStride
<1>2. ASSUME NEW c \in CPUs, Timer(c) PROVE FALSE
  BY <1>0, <1>2 DEF Timer, TickStride, TickYield, TickCount, TrapYield, TrapCount, TickIdle
<1>3. ASSUME NEW c \in CPUs, ProcessStep(c), ~Exit(c), ~WaitReap(c) PROVE FALSE
  <2>1. CASE SetShare(c) \/ PopShare(c) \/ TakeShare(c) \/ ChangeShare(c) \/ PushShare(c)
             \/ LeaveShare(c)
    BY <1>0, <2>1 DEF SetShare, PopShare, Pop, TakeShare, ChangeShare, PushShare, InitPush, LeaveShare
  <2>2. CASE Fork(c) \/ CreateFail(c) \/ ForkCopy(c) \/ ForkDone(c)
    BY <1>0, <2>2 DEF Fork, StartCreate, CreateFail, ForkCopy, ForkDone, InitPush
  <2>3. CASE KillZombie(c) \/ ExitDone(c) \/ WaitDone(c)
    BY <1>0, <2>3 DEF KillZombie, ExitDone, WaitDone, Free, PopIfQueued, Pop
  <2>4. CASE WaitSleep(c) \/ WaitFail(c) \/ Yield(c) \/ Sleep(c) \/ Kill(c)
    BY <1>0, <2>4 DEF WaitSleep, WaitFail, Yield, Sleep, Kill
  <2> QED
    BY <1>3, <2>1, <2>2, <2>3, <2>4 DEF ProcessStep
<1>4. ASSUME NEW c \in CPUs, ThreadStep(c) PROVE FALSE
  BY <1>0, <1>4 DEF ThreadStep, ThreadCreate, StartCreate, ThreadStack, ThreadStart, InitPush, ThreadExit,
                    JoinReap, PopIfQueued, Pop, JoinSleep, JoinFail
<1>5. ASSUME NEW s \in Slots, Wakeup(s) PROVE FALSE
  BY <1>0, <1>5 DEF Wakeup
<1> QED
  BY <1>1, <1>2, <1>3, <1>4, <1>5 DEF Next

(* Without kill, and up to the first exit or wait that is about to free a  *)
(* thread on another CPU, no slot is run by two CPUs, and what a CPU runs  *)
(* is RUNNING or on its way out of exit (scheduler, sched, exit, wait).    *)
THEOREM OneCpuEach ==
  ASSUME "kill" \notin Calls
  PROVE  Spec => []OneCpu
<1>1. IndInv /\ panic = "none" => OneCpu
  BY DEF IndInv, Structure, Control, CtlProc, OneCpu, Running
<1>2. ASSUME IndInv, IndInv', OneCpu, [Next]_vars PROVE OneCpu'
  <2>1. CASE UNCHANGED vars
    <3>1. UNCHANGED <<panic, spc, cproc, state, loop, lock>>
      BY <2>1 DEF vars, procVars, cpuVars
    <3> QED
      BY <1>2, <3>1 DEF OneCpu, Running
  <2>2. CASE Next /\ panic' = "none"
    BY <1>2, <2>2 DEF IndInv, Structure, Control, CtlProc, OneCpu, Running
  <2>3. CASE Next /\ panic' = "freed"
    <3>1. PICK c \in CPUs : Exit(c) \/ WaitReap(c)
      BY <2>3, FreedBy
    <3>2. UNCHANGED <<spc, cproc>>
      BY <3>1 DEF Exit, WaitReap
    <3>3. panic = "none" /\ TypeOK /\ CtlProc
      BY <1>2, <2>3 DEF Next, IndInv, Structure, Control
    <3>4. \A d \in CPUs : Running(d) => cproc[d] \in Slots
      BY <3>3 DEF CtlProc, Running
    <3>5. loop.op = "none"
      <4>1. lock = NULL => loop.op = "none"
        BY <1>2, <3>3, CpuAssumption DEF IndInv, Structure, Control, CtlLock
      <4> QED
        BY <3>1, <4>1 DEF Exit, WaitReap, Syscall, InUser
    <3>6. \A d \in CPUs : Running(d) => state[cproc[d]] = "RUNNING"
      BY <3>3, <3>5 DEF CtlProc, Running
    <3>7. \A s \in Slots : state[s] = "RUNNING" => state'[s] \in {"RUNNING", "ZOMBIE"}
      BY <3>1, <3>3 DEF Exit, WaitReap, Woken, TypeOK
    <3>8. \A d \in CPUs : Running(d)' => Running(d) /\ state'[cproc'[d]] \in {"RUNNING", "ZOMBIE"}
      BY <3>2, <3>4, <3>6, <3>7 DEF Running
    <3>9. \A d, e \in CPUs : Running(d)' /\ Running(e)' /\ cproc'[d] = cproc'[e] => d = e
      BY <3>2, <3>3 DEF CtlProc, Running
    <3> QED
      BY <2>3, <3>8, <3>9 DEF OneCpu
  <2>4. CASE panic' \notin {"none", "freed"}
    BY <2>4 DEF OneCpu
  <2> QED
    BY <1>2, <2>1, <2>2, <2>3, <2>4
<1>3. Init => OneCpu
  BY <1>1, InitInd DEF Init
<1> QED
  BY <1>2, <1>3, Inductive, PTL DEF Spec

(* Without threads nobody's stack is freed under a CPU: the process that   *)
(* calls exit, and the child that wait frees, have a single thread, and it *)
(* is not on another CPU (exit, wait, killzombie).                         *)
NoThreads ==
  /\ \A m \in Slots : \A i \in Positive : cthread[m][i] = NULL
  /\ \A s \in Slots : kop[s].pc \notin {"create", "created"}

LEMMA NoThreadsStep ==
  ASSUME "thread_create" \notin Calls, IndInv, NoThreads, Next
  PROVE  NoThreads'
<1>0. kop \in [Slots -> Kops] /\ cthread \in [Slots -> [Slots -> SlotOrNull]]
  BY DEF IndInv, TypeOK
<1>1. ASSUME UNCHANGED <<cthread, kop>> PROVE NoThreads'
  BY <1>1 DEF NoThreads
<1>a. TypeOK /\ Structure
  BY DEF Next, IndInv
<1>2. ASSUME NEW p, NEW pc, NEW n, UNCHANGED cthread, kop' = [kop EXCEPT ![p] = Kop(pc, n)],
             pc \notin {"create", "created"}
      PROVE  NoThreads'
  BY <1>0, <1>2 DEF NoThreads, Kop
<1>3. ASSUME NEW f, NEW pc, NEW c \in CPUs, StartCreate(c, f, pc), pc \notin {"create", "created"}
      PROVE  NoThreads'
  <2>1. PICK np \in Slots :
          /\ cthread' = [cthread EXCEPT ![np] = [i \in Slots |-> IF i = 0 THEN np ELSE NULL]]
          /\ kop' = [kop EXCEPT ![cproc[c]] = Kop(pc, np), ![np] = Kop("user", NULL)]
    BY <1>3 DEF StartCreate, AllocProc
  <2>2. \A m \in Slots : \A i \in Positive : cthread'[m][i] = NULL
    BY <1>0, <2>1 DEF NoThreads, Positive
  <2>3. \A s \in Slots : kop'[s].pc \in {kop[s].pc, pc, "user"}
    BY <1>0, <2>1 DEF Kop
  <2> QED
    BY <1>3, <2>2, <2>3 DEF NoThreads
<1>4. ASSUME NEW s, Forget(s) PROVE \A t \in Slots : kop'[t].pc = kop[t].pc
  BY <1>4 DEF Forget, Kop
<1>5. ASSUME NEW c \in CPUs, Schedule(c) PROVE NoThreads'
  BY <1>1, <1>5 DEF Schedule, MlfqDivide, PickMlfq, PickStride, Dispatch, RunTop, LeaveMlfq, BackBoost,
                    BoostMove, BoostEnd, BackMlfq, BackStride, threadVars, kernVars
<1>6. ASSUME NEW c \in CPUs, Timer(c) PROVE NoThreads'
  BY <1>1, <1>6 DEF Timer, TickStride, TickYield, TickCount, TrapYield, TrapCount, TickIdle,
                    threadVars, kernVars
<1>7. ASSUME NEW c \in CPUs, ProcessStep(c) PROVE NoThreads'
  <2>1. CASE SetShare(c) \/ PopShare(c) \/ TakeShare(c) \/ ChangeShare(c) \/ PushShare(c)
             \/ LeaveShare(c) \/ Exit(c) \/ WaitReap(c) \/ Yield(c) \/ Sleep(c) \/ Kill(c)
    BY <1>1, <2>1 DEF SetShare, PopShare, TakeShare, ChangeShare, PushShare, LeaveShare, Exit, WaitReap,
                      Yield, Sleep, Kill, threadVars, kernVars
  <2>2. CASE Fork(c)
    BY <1>3, <2>2 DEF Fork
  <2>3. CASE CreateFail(c) \/ ForkDone(c) \/ WaitDone(c) \/ WaitFail(c)
    BY <1>2, <2>3 DEF CreateFail, ForkDone, WaitDone, WaitFail, Return, threadVars
  <2>4. CASE ForkCopy(c)
    <3>1. UNCHANGED cthread /\ kop' = [kop EXCEPT ![cproc[c]].pc = "forked"]
      BY <2>4 DEF ForkCopy, threadVars
    <3> QED
      BY <1>0, <3>1 DEF NoThreads, Kops
  <2>5. CASE KillZombie(c)
    <3>1. PICK i : cthread' = [cthread EXCEPT ![loop.m][i] = NULL]
      BY <2>5 DEF KillZombie
    <3>2. \A t \in Slots : kop'[t].pc = kop[t].pc
      BY <1>4, <2>5 DEF KillZombie
    <3>3. \A m \in Slots : \A j \in Positive : cthread'[m][j] = NULL
      BY <1>0, <3>1 DEF NoThreads, Positive
    <3> QED
      BY <3>2, <3>3 DEF NoThreads
  <2>6. CASE ExitDone(c)
    BY <1>2, <2>6 DEF ExitDone, threadVars
  <2>7. CASE WaitSleep(c)
    BY <1>2, <2>7 DEF WaitSleep, SleepIn, threadVars
  <2> QED
    BY <1>7, <2>1, <2>2, <2>3, <2>4, <2>5, <2>6, <2>7 DEF ProcessStep
<1>8. ASSUME NEW c \in CPUs, ThreadStep(c) PROVE NoThreads'
  <2>1. CASE ThreadCreate(c)
    BY <2>1 DEF ThreadCreate, StartCreate, Syscall
  <2>2. CASE ThreadStack(c) \/ ThreadStart(c)
    <3>1. kop[cproc[c]].pc \in {"create", "created"} /\ Running(c)
      BY <2>2 DEF ThreadStack, ThreadStart
    <3>2. cproc[c] \in Slots
      BY <1>a, <3>1, OnCpu
    <3> QED
      BY <3>1, <3>2 DEF NoThreads
  <2>3. CASE ThreadExit(c)
    <3>1. UNCHANGED cthread /\ kop' = [kop EXCEPT ![cproc[c]] = Kop("dead", NULL)]
      BY <2>3 DEF ThreadExit, threadVars
    <3> QED
      BY <1>0, <3>1 DEF NoThreads, Kop
  <2>4. CASE JoinReap(c)
    <3>1. PICK t \in Slots :
            /\ cthread' = [cthread EXCEPT ![Main(c)][Least(JoinPlaces(c, t))] = NULL]
            /\ kop' = [s \in Slots |->
                         IF s = cproc[c] THEN Kop("user", NULL)
                         ELSE IF kop[s].pc = "join" /\ kop[s].np = t THEN Kop("join", NULL)
                         ELSE kop[s]]
      BY <2>4 DEF JoinReap
    <3>2. PICK i : cthread' = [cthread EXCEPT ![Main(c)][i] = NULL]
      BY <3>1
    <3>3. \A m \in Slots : \A j \in Positive : cthread'[m][j] = NULL
      BY <1>0, <3>2 DEF NoThreads, Positive
    <3>4. \A s \in Slots : kop'[s].pc \in {"user", "join", kop[s].pc}
      BY <3>1 DEF Kop
    <3> QED
      BY <3>3, <3>4 DEF NoThreads
  <2>5. CASE JoinSleep(c)
    <3>1. PICK t \in Slots : UNCHANGED cthread /\ kop' = [kop EXCEPT ![cproc[c]] = Kop("join", t)]
      BY <2>5 DEF JoinSleep, SleepIn, threadVars
    <3> QED
      BY <1>0, <3>1 DEF NoThreads, Kop
  <2>6. CASE JoinFail(c)
    BY <1>2, <2>6 DEF JoinFail, Return, threadVars
  <2> QED
    BY <1>8, <2>1, <2>2, <2>3, <2>4, <2>5, <2>6 DEF ThreadStep
<1>9. ASSUME NEW s \in Slots, Wakeup(s) PROVE NoThreads'
  BY <1>1, <1>9 DEF Wakeup, threadVars, kernVars
<1> QED
  BY <1>5, <1>6, <1>7, <1>8, <1>9 DEF Next

LEMMA NotFreedStep ==
  ASSUME IndInv, NoThreads, Next
  PROVE  FreedOffCpu'
<1>0. TypeOK /\ panic = "none" /\ CtlProc /\ FamOwn /\ Structure
  BY DEF Next, IndInv, Structure, Control, Family
<1> SUFFICES ASSUME panic' = "freed" PROVE FALSE
  BY DEF FreedOffCpu
<1>1. PICK c \in CPUs : Exit(c) \/ WaitReap(c)
  BY FreedBy
<1>2. ASSUME Exit(c) PROVE FALSE
  <2>1. Running(c) /\ \E d \in CPUs \ {c} : Running(d) /\ cproc[d] \in Threads(Main(c))
    BY <1>0, <1>2 DEF Exit, Syscall, InUser
  <2>2. PICK d \in CPUs \ {c} : Running(d) /\ cproc[d] \in Threads(Main(c))
    BY <2>1
  <2>3. cproc[c] \in Slots /\ Main(c) \in Slots /\ state[cproc[c]] # "UNUSED"
    BY <1>0, <2>1, OnCpu
  <2>4. cproc[c] = Main(c)
    BY <1>0, <2>3, NullIsNoSlot DEF FamOwn, NoThreads
  <2>5. Threads(Main(c)) \subseteq {Main(c)}
    <3>1. cthread[Main(c)][0] \in {Main(c), NULL}
      BY <1>0, <2>3 DEF Structure, Family, FamArray
    <3> QED
      BY <2>3, <3>1 DEF NoThreads, Threads, Places, Positive
  <2> QED
    BY <1>0, <2>1, <2>2, <2>4, <2>5 DEF CtlProc, Running
<1>3. ASSUME WaitReap(c) PROVE FALSE
  <2> DEFINE z == Least(Zombies(Main(c)))
  <2>1. Zombies(Main(c)) # {} /\ Zombies(Main(c)) \subseteq Slots
    BY <1>3 DEF WaitReap, Zombies, Children
  <2>2. z \in Slots
    BY <2>1, LeastIs
  <2>3. \E d \in CPUs : Running(d) /\ cproc[d] \in {cthread[z][i] : i \in Places(z) \ {0}}
    BY <1>0, <1>3 DEF WaitReap
  <2> HIDE DEF z
  <2>4. Places(z) \ {0} = {}
    BY <2>2 DEF NoThreads, Places, Positive
  <2> QED
    BY <2>3, <2>4
<1> QED
  BY <1>1, <1>2, <1>3

(* Hence without threads and kill nobody frees what a CPU runs, and what   *)
(* OneCpu says of the CPUs holds in every state without a panic.           *)
THEOREM FreedOffCpuAlone ==
  ASSUME "kill" \notin Calls, "thread_create" \notin Calls
  PROVE  Spec => []FreedOffCpu
<1>1. Init => NoThreads /\ FreedOffCpu
  BY DEF Init, NoThreads, Positive, FreedOffCpu, Kop
<1>2. IndInv /\ NoThreads /\ [Next]_vars => NoThreads'
  <2>1. CASE UNCHANGED vars
    BY <2>1 DEF NoThreads, vars, threadVars, kernVars
  <2> QED
    BY <2>1, NoThreadsStep
<1>3. IndInv /\ NoThreads /\ FreedOffCpu /\ [Next]_vars => FreedOffCpu'
  <2>1. CASE UNCHANGED vars
    BY <2>1 DEF FreedOffCpu, vars
  <2> QED
    BY <2>1, NotFreedStep
<1> QED
  BY <1>1, <1>2, <1>3, Inductive, PTL DEF Spec

-----------------------------------------------------------------------------
(* The tickets, when no process asks for a negative share: what            *)
(* set_cpu_share tested is still so when it takes the share.               *)
Tickets ==
  /\ share >= 20 /\ \A s \in Slots : percentage[s] >= 0
  /\ loop.op = "pop" => loop.pct >= 0 /\ share - loop.pct >= 20

LEMMA TicketsFrame ==
  ASSUME Tickets, UNCHANGED <<share, percentage>>, loop'.op = "pop" => UNCHANGED loop
  PROVE  Tickets'
BY DEF Tickets

LEMMA FreeTickets ==
  ASSUME TypeOK, Tickets, NEW s \in Slots, Free(s), loop.op # "pop",
         loop'.op = "pop" => UNCHANGED loop
  PROVE  Tickets'
<1>1. share' = share + percentage[s] /\ percentage' = [percentage EXCEPT ![s] = 0]
  BY DEF Free, Refund
<1>2. percentage \in [Slots -> Int] /\ share \in Int
  BY DEF TypeOK
<1>3. \A u \in Slots : percentage'[u] >= 0
  BY <1>1, <1>2 DEF Tickets
<1>4. share' >= 20
  BY <1>1, <1>2 DEF Tickets
<1> QED
  BY <1>3, <1>4 DEF Tickets

LEMMA NextTickets ==
  ASSUME IndInv, Tickets, Next, Shares \subseteq Nat
  PROVE  Tickets'
<1>0. TypeOK /\ panic = "none" /\ Control
  BY DEF Next, IndInv, Structure
<1>a. lock = NULL => loop.op = "none"
  BY <1>0, CpuAssumption DEF Control, CtlLock
<1>1. ASSUME NEW c \in CPUs, SetShare(c) PROVE Tickets'
  <2>1. PICK pct \in Shares : Affords(pct) /\ loop' = [op |-> "pop", m |-> Main(c), pct |-> pct]
    BY <1>1 DEF SetShare
  <2>2. UNCHANGED <<share, percentage>>
    BY <1>1 DEF SetShare, schedVars, mlfqVars
  <2> QED
    BY <2>1, <2>2 DEF Tickets, Affords
<1>2. ASSUME NEW c \in CPUs, TakeShare(c) PROVE Tickets'
  <2>1. /\ loop.op = "pop" /\ loop.m \in Slots /\ loop' = NoLoop /\ share' = share - loop.pct
        /\ percentage' = [percentage EXCEPT ![loop.m] = loop.pct]
    BY <1>0, <1>2 DEF TakeShare, Control, CtlLock
  <2>2. \A s \in Slots : percentage'[s] = IF s = loop.m THEN loop.pct ELSE percentage[s]
    BY <1>0, <2>1 DEF TypeOK
  <2> QED
    BY <2>1, <2>2 DEF Tickets, NoLoop
<1>3. ASSUME NEW c \in CPUs, ChangeShare(c) PROVE Tickets'
  <2>1. Running(c) /\ lock = NULL
    BY <1>3 DEF ChangeShare, Syscall, InUser
  <2>2. Main(c) \in Slots /\ loop.op = "none"
    BY <1>0, <1>a, <2>1, OnCpu DEF IndInv, Structure
  <2>3. PICK pct \in Shares :
          /\ Affords(pct - percentage[Main(c)])
          /\ percentage' = [percentage EXCEPT ![Main(c)] = pct]
          /\ share' = share - (pct - percentage[Main(c)])
          /\ loop' = [op |-> "push", m |-> Main(c), pct |-> 0] \/ UNCHANGED loop
    BY <1>3 DEF ChangeShare
  <2>4. loop'.op # "pop" /\ pct \in Nat
    BY <2>2, <2>3
  <2>5. \A s \in Slots : percentage'[s] >= 0
    BY <1>0, <2>2, <2>3, <2>4 DEF Tickets, TypeOK
  <2>6. share' >= 20
    BY <2>3 DEF Affords
  <2> QED
    BY <2>4, <2>5, <2>6 DEF Tickets
<1>4. ASSUME NEW c \in CPUs, StartCreate(c, "fork", "fork") \/ StartCreate(c, "thread_create", "create")
      PROVE  Tickets'
  <2>1. PICK np \in Slots : percentage' = [percentage EXCEPT ![np] = 0]
    BY <1>4 DEF StartCreate, AllocProc
  <2>2. UNCHANGED <<share, loop>>
    BY <1>4 DEF StartCreate, mlfqVars
  <2>3. \A s \in Slots : percentage'[s] >= 0
    BY <1>0, <2>1 DEF Tickets, TypeOK
  <2> QED
    BY <2>2, <2>3 DEF Tickets
<1>5. ASSUME NEW c \in CPUs, KillZombie(c) PROVE Tickets'
  <2> DEFINE i == Least(ToKill(loop.m, Keep(c)))
  <2>1. /\ ToKill(loop.m, Keep(c)) # {} /\ loop.op \in {"exit", "reap"} /\ UNCHANGED loop
        /\ Free(cthread[loop.m][i])
    BY <1>5 DEF KillZombie
  <2>2. i \in ToKill(loop.m, Keep(c))
    BY <2>1, LeastIs DEF ToKill, Places
  <2> HIDE DEF i
  <2>3. loop.m \in Slots /\ i \in Slots /\ cthread[loop.m][i] # NULL
    BY <1>0, <2>1, <2>2 DEF Control, CtlLock, ToKill, Places
  <2>4. cthread[loop.m][i] \in Slots
    BY <1>0, <2>3 DEF TypeOK, SlotOrNull
  <2> QED
    BY <1>0, <2>1, <2>4, FreeTickets
<1>6. ASSUME NEW c \in CPUs, WaitDone(c) PROVE Tickets'
  <2>1. loop.op = "reap" /\ loop.m \in Slots /\ Free(loop.m) /\ loop'.op = "none"
    BY <1>0, <1>6 DEF WaitDone, NoLoop, Control, CtlLock
  <2> QED
    BY <1>0, <2>1, FreeTickets
<1>7. ASSUME NEW c \in CPUs, JoinReap(c) PROVE Tickets'
  <2>1. PICK s \in Slots : percentage' = [percentage EXCEPT ![s] = 0]
    BY <1>7 DEF JoinReap
  <2>2. UNCHANGED <<share, loop>>
    BY <1>7 DEF JoinReap
  <2>3. \A u \in Slots : percentage'[u] >= 0
    BY <1>0, <2>1 DEF Tickets, TypeOK
  <2> QED
    BY <2>2, <2>3 DEF Tickets
<1>8. ASSUME NEW c \in CPUs, Schedule(c) \/ Timer(c) PROVE Tickets'
  <2>1. UNCHANGED <<share, percentage, loop>>
    <3>1. CASE Schedule(c)
      BY <3>1 DEF Schedule, MlfqDivide, PickMlfq, PickStride, RunTop, LeaveMlfq, BackBoost,
                  BoostMove, BoostEnd, BackMlfq, BackStride, schedVars, mlfqVars
    <3>2. CASE Timer(c)
      BY <3>2 DEF Timer, TickStride, TickYield, TickCount, TrapYield, TrapCount, TickIdle,
                  schedVars, mlfqVars
    <3> QED
      BY <1>8, <3>1, <3>2
  <2> QED
    BY <2>1, TicketsFrame
<1>9. ASSUME NEW c \in CPUs,
             \/ CreateFail(c) \/ ForkCopy(c) \/ ForkDone(c) \/ ThreadStack(c) \/ ThreadStart(c)
             \/ PopShare(c) \/ PushShare(c) \/ Yield(c) \/ Sleep(c) \/ Kill(c) \/ WaitSleep(c)
             \/ WaitFail(c) \/ ThreadExit(c) \/ JoinSleep(c) \/ JoinFail(c)
      PROVE  Tickets'
  <2>1. UNCHANGED <<share, percentage, loop>>
    BY <1>9 DEF CreateFail, ForkCopy, ForkDone, ThreadStack, ThreadStart, PopShare, PushShare, Yield,
                Sleep, Kill, WaitSleep, WaitFail, ThreadExit, JoinSleep, JoinFail, schedVars, mlfqVars
  <2> QED
    BY <2>1, TicketsFrame
<1>10. ASSUME NEW c \in CPUs, LeaveShare(c) \/ Exit(c) \/ ExitDone(c) \/ WaitReap(c) PROVE Tickets'
  <2>1. UNCHANGED <<share, percentage>> /\ loop'.op # "pop"
    BY <1>10 DEF LeaveShare, Exit, ExitDone, WaitReap, NoLoop, schedVars, mlfqVars
  <2> QED
    BY <2>1, TicketsFrame
<1>11. ASSUME NEW s \in Slots, Wakeup(s) PROVE Tickets'
  BY <1>11, TicketsFrame DEF Wakeup, schedVars, mlfqVars
<1>12. ASSUME NEW c \in CPUs, ProcessStep(c) PROVE Tickets'
  BY <1>12, <1>1, <1>2, <1>3, <1>4, <1>5, <1>6, <1>9, <1>10 DEF ProcessStep, Fork
<1>13. ASSUME NEW c \in CPUs, ThreadStep(c) PROVE Tickets'
  BY <1>13, <1>4, <1>7, <1>9 DEF ThreadStep, ThreadCreate
<1> QED
  BY <1>8, <1>11, <1>12, <1>13 DEF Next

(* The guarantee of set_cpu_share, which MlfqKeeps20 fails to be when a    *)
(* share may be negative: the MLFQ keeps 20% of the tickets, whoever gets, *)
(* changes, returns or leaves a share on whatever CPU.                     *)
THEOREM MlfqShareKept ==
  ASSUME "kill" \notin Calls, Shares \subseteq Nat
  PROVE  Spec => []MlfqKeeps20
<1>1. Init => Tickets
  BY DEF Init, Tickets, NoLoop
<1>2. IndInv /\ Tickets /\ [Next]_vars => Tickets'
  <2>1. ASSUME Tickets, UNCHANGED vars PROVE Tickets'
    BY <2>1, TicketsFrame DEF vars, schedVars, mlfqVars
  <2> QED
    BY <2>1, NextTickets
<1>3. Tickets => MlfqKeeps20
  BY DEF Tickets, MlfqKeeps20
<1> QED
  BY <1>1, <1>2, <1>3, Inductive, PTL DEF Spec
=============================================================================
