-------------------------------- MODULE Mlfq --------------------------------
(***************************************************************************)
(* The run queues of the multi-level feedback queue, proc.c 36-173.  Each  *)
(* of the three levels is an array of NPROC slot pointers searched         *)
(* cyclically from an index.  The operators below compute the new array;   *)
(* the actions that use them live in Sched, Process and Thread.            *)
(***************************************************************************)
EXTENDS Integers

CONSTANTS
  NPROC,          \* size of the process table and of every queue (64)
  NULL            \* the null pointer

ASSUME NprocAssumption == NPROC \in Nat /\ NPROC > 1

Slots  == 0 .. (NPROC - 1)      \* the entries of ptable.proc, and array positions
Levels == 0 .. 2                \* 0 is the highest priority

ASSUME NullAssumption == NULL \notin Int

SlotOrNull == Slots \cup {NULL}

-----------------------------------------------------------------------------
(* An array holds p; it has no empty place; the first empty place.         *)
Holds(a, p) == \E k \in Slots : a[k] = p
Full(a)     == \A k \in Slots : a[k] # NULL
FirstFree(a) ==
  CHOOSE i \in Slots : a[i] = NULL /\ \A k \in Slots : k < i => a[k] # NULL

(* initpush: shift everything before the first empty place right by one,   *)
(* and put p in front.                                                     *)
InitPushed(a, p) ==
  LET i == FirstFree(a)
  IN  [k \in Slots |-> IF k = 0 THEN p ELSE IF k <= i THEN a[k - 1] ELSE a[k]]

(* push: p goes to the first empty place.                                  *)
Pushed(a, p) == [a EXCEPT ![FirstFree(a)] = p]

(* pop: the levels are searched from the highest one, each from place 0;   *)
(* everything behind p moves left by one.                                  *)
Queued(q, p)  == \E l \in Levels : Holds(q[l], p)
LevelOf(q, p) ==
  CHOOSE l \in Levels : Holds(q[l], p) /\ \A h \in Levels : h < l => ~Holds(q[h], p)
PlaceOf(a, p) ==
  CHOOSE j \in Slots : a[j] = p /\ \A k \in Slots : k < j => a[k] # p
Removed(a, j) ==
  [k \in Slots |-> IF k < j THEN a[k] ELSE IF k < NPROC - 1 THEN a[k + 1] ELSE NULL]
Popped(q, p) == [q EXCEPT ![LevelOf(q, p)] = Removed(@, PlaceOf(@, p))]

(* The cyclic search of top and of boostpriority.  Place(i, d) is          *)
(* (i + d) % NPROC for an index i in -1 .. NPROC-1 and d in 1 .. NPROC;    *)
(* Distance(i, G) is how far the search from i goes until it reaches a     *)
(* place in G: all the way round when there is none.                       *)
PlaceNoWrap(i, d) == i + d                    \* mutant: no modulo
Place(i, d) == IF i + d < NPROC THEN i + d ELSE i + d - NPROC
Distance(i, G) ==
  IF \E d \in 1 .. NPROC : Place(i, d) \in G
  THEN CHOOSE d \in 1 .. NPROC :
         /\ Place(i, d) \in G
         /\ \A e \in 1 .. NPROC : e < d => Place(i, e) \notin G
  ELSE NPROC

(* An array is filled from place 0 without a gap; the arrays of the levels *)
(* name no slot twice.                                                     *)
Compact(a) == \A j, k \in Slots : j < k /\ a[j] = NULL => a[k] = NULL
Once(q) ==
  \A l, h \in Levels : \A j, k \in Slots :
    q[l][j] # NULL /\ q[l][j] = q[h][k] => l = h /\ j = k
=============================================================================
