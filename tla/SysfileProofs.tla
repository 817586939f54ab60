---------------------------- MODULE SysfileProofs ---------------------------
(***************************************************************************)
(* Names and inodes, for any number of processes, inodes and names, any    *)
(* paths and any number of crashes: SysIndInv is inductive.                *)
(***************************************************************************)
EXTENDS SysfileInv, FiniteSetTheorems, SequenceTheorems, WellFoundedInduction, TLAPS

LEMMA Consts ==
  /\ Inums \subseteq Nat /\ 0 \notin Inums /\ ROOTINO \in Inums /\ ROOTINO = 1
  /\ IsFiniteSet(Inums) /\ IsFiniteSet(Names) /\ IsFiniteSet(Procs)
  /\ NULL \notin Inums /\ NULL \notin Procs /\ Names \cap Dots = {}
  /\ \A path \in Paths : path.abs \in BOOLEAN /\ path.names \in Seq(Names \cup Dots)
BY InodeAssumption, SysfileAssumption DEF Dots

-----------------------------------------------------------------------------
(* What the functions of Inode do, one field of s at a time.               *)

Eq(x, i) == IF x = i THEN 1 ELSE 0

LEMMA FsFields ==
  ASSUME NEW s \in FsType
  PROVE  /\ s.disk \in DiskType /\ s.lock \in [Inums -> Procs \cup {NULL}]
         /\ s.panic \in Panics
         /\ s.inode \in [Inums -> InodeType]
BY DEF FsType

LEMMA DiskFields ==
  ASSUME NEW d \in DiskType, NEW i \in Inums
  PROVE  /\ d[i] \in DinodeType
         /\ d[i].type \in Types /\ d[i].nlink \in Int
         /\ d[i].ent \in [Names \cup Dots -> Inums \cup {0}]
BY DEF DiskType, DinodeType

(* One field of s replaced. *)
LEMMA WithInode ==
  ASSUME NEW s \in FsType, NEW m \in [Inums -> InodeType], NEW t, t = [s EXCEPT !.inode = m]
  PROVE  /\ t \in FsType /\ t.inode = m
         /\ t.disk = s.disk /\ t.lock = s.lock /\ t.panic = s.panic
BY DEF FsType

LEMMA WithDisk ==
  ASSUME NEW s \in FsType, NEW d \in DiskType, NEW t, t = [s EXCEPT !.disk = d]
  PROVE  /\ t \in FsType /\ t.disk = d
         /\ t.inode = s.inode /\ t.lock = s.lock /\ t.panic = s.panic
BY DEF FsType

LEMMA WithLock ==
  ASSUME NEW s \in FsType, NEW k \in [Inums -> Procs \cup {NULL}],
         NEW t, t = [s EXCEPT !.lock = k]
  PROVE  /\ t \in FsType /\ t.lock = k
         /\ t.inode = s.inode /\ t.disk = s.disk /\ t.panic = s.panic
BY DEF FsType

LEMMA WithPanic ==
  ASSUME NEW s \in FsType, NEW x \in Panics, NEW t, t = [s EXCEPT !.panic = x]
  PROVE  /\ t \in FsType /\ t.panic = x
         /\ t.inode = s.inode /\ t.disk = s.disk /\ t.lock = s.lock
BY DEF FsType

IgetTo(s, t, i) ==
  /\ t \in FsType /\ Cached(t)
  /\ t.disk = s.disk /\ t.lock = s.lock /\ t.panic = s.panic
  /\ \A x \in Inums :
       /\ t.inode[x].ref = s.inode[x].ref + Eq(x, i)
       /\ s.inode[x].valid /\ (s.inode[x].ref > 0 \/ x # i) => t.inode[x].valid

(* With the cache full iget leaves a message.                              *)
LEMMA IgetPanics ==
  ASSUME NEW s \in FsType, NEW i \in Inums, NoEntryFor(s, i), NEW t, t = iget(s, i)
  PROVE  /\ t \in FsType /\ t.panic = "iget: no inodes"
         /\ t.inode = s.inode /\ t.disk = s.disk /\ t.lock = s.lock
<1>1. t = [s EXCEPT !.panic = "iget: no inodes"]
  BY DEF iget
<1>2. "iget: no inodes" \in Panics
  BY DEF Panics, LackOfInodes
<1> QED
  BY <1>1, <1>2 DEF FsType

LEMMA IgetIs ==
  ASSUME NEW s \in FsType, Cached(s), NEW i \in Inums, ~NoEntryFor(s, i), NEW t, t = iget(s, i)
  PROVE  IgetTo(s, t, i)
<1> USE DEF IgetTo
<1> DEFINE m == IF s.inode[i].ref > 0 THEN s.inode[i] ELSE NotCached
           e == [m EXCEPT !.ref = m.ref + 1]
<1>1. s.inode \in [Inums -> InodeType] /\ s.inode[i] \in InodeType /\ s.inode[i].ref \in Nat
  BY FsFields DEF InodeType
<1>2. NotCached \in InodeType /\ NotCached.ref = 0 /\ NotCached.valid = FALSE
  BY DEF NotCached, InodeType, Types
<1>3. /\ m \in InodeType /\ m.ref = s.inode[i].ref
      /\ s.inode[i].ref = 0 => m.valid = FALSE
      /\ s.inode[i].ref > 0 => m = s.inode[i]
  BY <1>1, <1>2
<1>4. t = [s EXCEPT !.inode = [s.inode EXCEPT ![i] = e]]
  BY DEF iget
<1> HIDE DEF m
<1>5. /\ e \in InodeType /\ e.ref = s.inode[i].ref + 1 /\ e.valid = m.valid
      /\ e.type = m.type /\ e.nlink = m.nlink
  BY <1>3 DEF InodeType
<1> HIDE DEF e
<1>6. [s.inode EXCEPT ![i] = e] \in [Inums -> InodeType]
  BY <1>1, <1>5
<1>7. /\ t \in FsType /\ t.disk = s.disk /\ t.lock = s.lock /\ t.panic = s.panic
      /\ t.inode = [s.inode EXCEPT ![i] = e]
  BY <1>4, <1>6, FsFields DEF FsType
<1>8. t.inode[i] = e /\ \A x \in Inums : x # i => t.inode[x] = s.inode[x]
  BY <1>1, <1>7
<1>9. \A x \in Inums : t.inode[x].ref = s.inode[x].ref + Eq(x, i)
  <2>1. \A x \in Inums : s.inode[x].ref \in Nat
    BY <1>1 DEF InodeType
  <2> QED
    BY <1>5, <1>8, <2>1 DEF Eq
<1>10. \A x \in Inums : s.inode[x].valid /\ (s.inode[x].ref > 0 \/ x # i) => t.inode[x].valid
  BY <1>3, <1>5, <1>8
<1>11. ASSUME NEW x \in Inums, t.inode[x].valid
       PROVE  /\ t.inode[x].type = t.disk[x].type /\ t.inode[x].nlink = t.disk[x].nlink
              /\ t.disk[x].type # "none"
  <2>1. CASE x # i
    BY <1>7, <1>8, <1>11, <2>1 DEF Cached
  <2>2. CASE x = i
    <3>1. s.inode[i].ref > 0
      BY <1>1, <1>3, <1>5, <1>8, <1>11, <2>2
    <3> QED
      BY <1>3, <1>5, <1>7, <1>8, <1>11, <2>2, <3>1 DEF Cached
  <2> QED
    BY <2>1, <2>2
<1>12. Cached(t)
  BY <1>11 DEF Cached
<1> QED
  BY <1>7, <1>9, <1>10, <1>12

IlockTo(s, t, p, i) ==
  /\ t \in FsType /\ Cached(t) /\ t.disk = s.disk
  /\ \A x \in Inums : /\ t.inode[x].ref = s.inode[x].ref
                      /\ s.inode[x].valid => t.inode[x].valid
  /\ s.disk[i].type = "none" => t.panic = "ilock: no type"
  /\ s.disk[i].type # "none" =>
       /\ t.panic = s.panic /\ t.inode[i].valid
       /\ \A x \in Inums : t.lock[x] = IF x = i THEN p ELSE s.lock[x]

LEMMA IlockIs ==
  ASSUME NEW s \in FsType, Cached(s), NEW p \in Procs, NEW i \in Inums,
         NEW t, t = ilock(s, p, i)
  PROVE  IlockTo(s, t, p, i)
<1> USE DEF IlockTo
<1> DEFINE e == [ref |-> s.inode[i].ref, valid |-> TRUE,
                 type |-> s.disk[i].type, nlink |-> s.disk[i].nlink]
           k == [s.lock EXCEPT ![i] = p]
           u == [s EXCEPT !.lock = k]
<1>1. s.inode \in [Inums -> InodeType] /\ s.inode[i] \in InodeType /\ s.inode[i].ref \in Nat
  BY FsFields DEF InodeType
<1>2. s.disk[i].type \in Types /\ s.disk[i].nlink \in Int
  BY FsFields, DiskFields
<1>3. /\ k \in [Inums -> Procs \cup {NULL}]
      /\ \A x \in Inums : k[x] = IF x = i THEN p ELSE s.lock[x]
  BY FsFields
<1>4. /\ u \in FsType /\ u.lock = k
      /\ u.disk = s.disk /\ u.panic = s.panic /\ u.inode = s.inode
  BY <1>3, FsFields DEF FsType
<1> HIDE DEF u, k
<1>5. CASE s.inode[i].valid
  <2>1. t = u
    BY <1>5 DEF ilock, u, k
  <2>2. s.disk[i].type # "none"
    BY <1>5 DEF Cached
  <2>3. Cached(t)
    BY <1>4, <2>1 DEF Cached
  <2> QED
    BY <1>3, <1>4, <1>5, <2>1, <2>2, <2>3
<1>6. CASE ~s.inode[i].valid /\ s.disk[i].type = "none"
  <2>1. t = [s EXCEPT !.panic = "ilock: no type"]
    BY <1>6 DEF ilock
  <2>2. "ilock: no type" \in Panics
    BY DEF Panics
  <2>3. t \in FsType /\ t.disk = s.disk /\ t.inode = s.inode /\ t.panic = "ilock: no type"
    BY <2>1, <2>2, FsFields DEF FsType
  <2> QED
    BY <1>6, <2>3 DEF Cached
<1>7. CASE ~s.inode[i].valid /\ s.disk[i].type # "none"
  <2>1. t = [u EXCEPT !.inode = [s.inode EXCEPT ![i] = e]]
    BY <1>4, <1>7 DEF ilock, u, k
  <2>2. /\ e \in InodeType /\ e.ref = s.inode[i].ref /\ e.valid = TRUE
        /\ e.type = s.disk[i].type /\ e.nlink = s.disk[i].nlink
    BY <1>1, <1>2 DEF InodeType
  <2> HIDE DEF e
  <2>3. [s.inode EXCEPT ![i] = e] \in [Inums -> InodeType]
    BY <1>1, <2>2
  <2>4. /\ t \in FsType /\ t.disk = s.disk /\ t.lock = k /\ t.panic = s.panic
        /\ t.inode = [s.inode EXCEPT ![i] = e]
    BY <1>4, <2>1, <2>3, FsFields DEF FsType
  <2>5. t.inode[i] = e /\ \A x \in Inums : x # i => t.inode[x] = s.inode[x]
    BY <1>1, <2>4
  <2>6. Cached(t)
    BY <1>7, <2>2, <2>4, <2>5 DEF Cached
  <2> QED
    BY <1>3, <1>7, <2>2, <2>4, <2>5, <2>6
<1> QED
  BY <1>5, <1>6, <1>7

IunlockTo(s, t, i) ==
  /\ t \in FsType /\ Cached(t)
  /\ t.disk = s.disk /\ t.inode = s.inode /\ t.panic = s.panic
  /\ \A x \in Inums : t.lock[x] = IF x = i THEN NULL ELSE s.lock[x]

LEMMA IunlockIs ==
  ASSUME NEW s \in FsType, Cached(s), NEW i \in Inums, NEW t, t = iunlock(s, i)
  PROVE  IunlockTo(s, t, i)
<1> USE DEF IunlockTo
<1>1. t = [s EXCEPT !.lock = [s.lock EXCEPT ![i] = NULL]]
  BY DEF iunlock
<1>2. [s.lock EXCEPT ![i] = NULL] \in [Inums -> Procs \cup {NULL}]
  BY FsFields
<1>3. /\ t \in FsType /\ t.disk = s.disk /\ t.inode = s.inode /\ t.panic = s.panic
      /\ t.lock = [s.lock EXCEPT ![i] = NULL]
  BY <1>1, <1>2, FsFields DEF FsType
<1>4. \A x \in Inums : t.lock[x] = IF x = i THEN NULL ELSE s.lock[x]
  BY <1>3, FsFields
<1> QED
  BY <1>3, <1>4 DEF Cached

AddLinksTo(s, t, i, n) ==
  /\ t \in FsType /\ Cached(t) /\ t.lock = s.lock /\ t.panic = s.panic
  /\ \A x \in Inums :
       /\ t.disk[x].type = s.disk[x].type /\ t.disk[x].ent = s.disk[x].ent
       /\ t.disk[x].nlink = s.disk[x].nlink + (IF x = i THEN n ELSE 0)
       /\ t.inode[x].ref = s.inode[x].ref /\ t.inode[x].valid = s.inode[x].valid

LEMMA AddLinksIs ==
  ASSUME NEW s \in FsType, Cached(s), NEW i \in Inums, s.inode[i].valid,
         NEW n \in Int, NEW t, t = AddLinks(s, i, n)
  PROVE  AddLinksTo(s, t, i, n)
<1> USE DEF AddLinksTo
<1> DEFINE e == [s.inode[i] EXCEPT !.nlink = @ + n]
           u == [s EXCEPT !.inode = [s.inode EXCEPT ![i] = e]]
           f == [s.disk[i] EXCEPT !.type = e.type]
           d == [f EXCEPT !.nlink = e.nlink]
<1>1. /\ s.inode \in [Inums -> InodeType] /\ s.disk \in DiskType
      /\ s.inode[i] \in InodeType /\ s.disk[i] \in DinodeType /\ s.disk[i].nlink \in Int
  BY FsFields, DiskFields
<1>2. /\ s.inode[i].type = s.disk[i].type /\ s.inode[i].nlink = s.disk[i].nlink
      /\ s.disk[i].type # "none"
  BY DEF Cached
<1>3. /\ e \in InodeType /\ e.ref = s.inode[i].ref /\ e.valid = s.inode[i].valid
      /\ e.type = s.disk[i].type /\ e.nlink = s.disk[i].nlink + n
      /\ e.type \in Types /\ e.nlink \in Int
  <2>1. s.inode[i].nlink + n \in Int
    BY <1>1, <1>2
  <2>2. /\ e \in InodeType /\ e.ref = s.inode[i].ref /\ e.valid = s.inode[i].valid
        /\ e.type = s.inode[i].type /\ e.nlink = s.inode[i].nlink + n
    BY <1>1, <2>1 DEF InodeType
  <2> QED
    BY <1>2, <2>1, <2>2 DEF InodeType
<1> HIDE DEF e
<1>4. /\ f \in DinodeType /\ f.type = e.type /\ f.ent = s.disk[i].ent
  BY <1>1, <1>3 DEF DinodeType
<1>5. /\ d \in DinodeType /\ d.type = e.type /\ d.ent = s.disk[i].ent /\ d.nlink = e.nlink
  BY <1>3, <1>4 DEF DinodeType
<1>6. [s.inode EXCEPT ![i] = e] \in [Inums -> InodeType]
  BY <1>1, <1>3
<1>7. /\ u \in FsType /\ u.disk = s.disk /\ u.lock = s.lock /\ u.panic = s.panic
      /\ u.inode = [s.inode EXCEPT ![i] = e] /\ u.inode[i] = e
  BY <1>1, <1>6, WithInode
<1> DEFINE v == [u EXCEPT !.disk = [s.disk EXCEPT ![i] = f]]
<1>8. t = [v EXCEPT !.disk = [v.disk EXCEPT ![i] = [v.disk[i] EXCEPT !.nlink = e.nlink]]]
  <2>1. [s EXCEPT !.inode[i].nlink = @ + n] = u
    BY DEF e
  <2>2. t = iupdate(u, i)
    BY <2>1 DEF AddLinks
  <2>3. t = [[u EXCEPT !.disk[i].type = e.type] EXCEPT !.disk[i].nlink = e.nlink]
    BY <1>7, <2>2 DEF iupdate
  <2>4. [u EXCEPT !.disk[i].type = e.type] = v
    BY <1>7
  <2> HIDE DEF v
  <2>5. t = [v EXCEPT !.disk[i].nlink = e.nlink]
    BY <2>3, <2>4
  <2> QED
    BY <2>5
<1> HIDE DEF u, d, f
<1>9. [s.disk EXCEPT ![i] = f] \in DiskType
  BY <1>1, <1>4 DEF DiskType
<1>10. v \in FsType /\ v.disk = [s.disk EXCEPT ![i] = f] /\ v.inode = u.inode
       /\ v.lock = s.lock /\ v.panic = s.panic
  BY <1>7, <1>9, WithDisk
<1> HIDE DEF v
<1>11. v.disk[i] = f /\ \A x \in Inums : x # i => v.disk[x] = s.disk[x]
  BY <1>1, <1>10 DEF DiskType
<1>12. t = [v EXCEPT !.disk = [v.disk EXCEPT ![i] = d]]
  BY <1>8, <1>11 DEF d
<1>13. v.disk \in DiskType /\ [v.disk EXCEPT ![i] = d] \in DiskType
  BY <1>5, <1>10, FsFields DEF DiskType
<1>14. /\ t \in FsType /\ t.disk = [v.disk EXCEPT ![i] = d] /\ t.inode = u.inode
       /\ t.lock = s.lock /\ t.panic = s.panic
  BY <1>10, <1>12, <1>13, WithDisk
<1>15. t.disk[i] = d /\ \A x \in Inums : x # i => t.disk[x] = s.disk[x]
  BY <1>11, <1>13, <1>14 DEF DiskType
<1>16. t.inode[i] = e /\ \A x \in Inums : x # i => t.inode[x] = s.inode[x]
  BY <1>1, <1>7, <1>14
<1>17. ASSUME NEW x \in Inums
       PROVE  /\ t.disk[x].type = s.disk[x].type /\ t.disk[x].ent = s.disk[x].ent
              /\ t.disk[x].nlink = s.disk[x].nlink + (IF x = i THEN n ELSE 0)
              /\ t.inode[x].ref = s.inode[x].ref /\ t.inode[x].valid = s.inode[x].valid
  <2>1. s.disk[x].nlink \in Int
    BY FsFields, DiskFields
  <2>2. CASE x = i
    BY <1>3, <1>5, <1>15, <1>16, <2>1, <2>2
  <2>3. CASE x # i
    BY <1>15, <1>16, <2>1, <2>3
  <2> QED
    BY <2>2, <2>3
<1>18. Cached(t)
  BY <1>2, <1>3, <1>5, <1>15, <1>16 DEF Cached
<1> QED
  BY <1>14, <1>17, <1>18

SetEntryTo(s, t, d, n, j) ==
  /\ t \in FsType /\ Cached(t)
  /\ t.lock = s.lock /\ t.panic = s.panic /\ t.inode = s.inode
  /\ \A x \in Inums :
       /\ t.disk[x].type = s.disk[x].type /\ t.disk[x].nlink = s.disk[x].nlink
       /\ \A y \in Names \cup Dots :
            t.disk[x].ent[y] = IF x = d /\ y = n THEN j ELSE s.disk[x].ent[y]

LEMMA SetEntryIs ==
  ASSUME NEW s \in FsType, Cached(s), NEW d \in Inums, NEW n \in Names \cup Dots,
         NEW j \in Inums \cup {0}, NEW t, t = SetEntry(s, d, n, j)
  PROVE  SetEntryTo(s, t, d, n, j)
<1> USE DEF SetEntryTo
<1> DEFINE f == [s.disk[d].ent EXCEPT ![n] = j]
           e == [s.disk[d] EXCEPT !.ent = f]
<1>1. /\ s.disk \in DiskType /\ s.disk[d] \in DinodeType
      /\ s.disk[d].ent \in [Names \cup Dots -> Inums \cup {0}]
  BY FsFields, DiskFields
<1>2. f \in [Names \cup Dots -> Inums \cup {0}]
  BY <1>1
<1>3. \A y \in Names \cup Dots : f[y] = IF y = n THEN j ELSE s.disk[d].ent[y]
  BY <1>1
<1> HIDE DEF f
<1>4. /\ e \in DinodeType /\ e.ent = f
      /\ e.type = s.disk[d].type /\ e.nlink = s.disk[d].nlink
  BY <1>1, <1>2 DEF DinodeType
<1>5. t = [s EXCEPT !.disk = [s.disk EXCEPT ![d] = e]]
  BY DEF SetEntry, f
<1> HIDE DEF e
<1>6. [s.disk EXCEPT ![d] = e] \in DiskType
  BY <1>1, <1>4 DEF DiskType
<1>7. /\ t \in FsType /\ t.disk = [s.disk EXCEPT ![d] = e] /\ t.lock = s.lock
      /\ t.panic = s.panic /\ t.inode = s.inode
  BY <1>5, <1>6, WithDisk
<1>8. t.disk[d] = e /\ \A x \in Inums : x # d => t.disk[x] = s.disk[x]
  BY <1>1, <1>7 DEF DiskType
<1>9. Cached(t)
  BY <1>4, <1>7, <1>8 DEF Cached
<1> QED
  BY <1>3, <1>4, <1>7, <1>8, <1>9

LEMMA FreeInodeIs ==
  /\ FreeInode \in DinodeType /\ FreeInode.type = "none" /\ FreeInode.nlink = 0
  /\ FreeInode.ent \in [Names \cup Dots -> Inums \cup {0}]
  /\ \A n \in Names \cup Dots : FreeInode.ent[n] = 0
BY DEF FreeInode, NoEntries, DinodeType, Types

MadeTo(s, t, p, j, ty) ==
  /\ t \in FsType /\ Cached(t) /\ t.panic = s.panic
  /\ t.inode[j].valid
  /\ t.disk[j].type = ty /\ t.disk[j].nlink = 1
  /\ \A n \in Names \cup Dots : t.disk[j].ent[n] = 0
  /\ \A x \in Inums :
       /\ x # j => /\ t.disk[x].type = s.disk[x].type /\ t.disk[x].ent = s.disk[x].ent
                   /\ t.disk[x].nlink = s.disk[x].nlink
       /\ t.inode[x].ref = s.inode[x].ref + Eq(x, j)
       /\ s.inode[x].valid => t.inode[x].valid
       /\ t.lock[x] = IF x = j THEN p ELSE s.lock[x]

LEMMA MadeIs ==
  ASSUME NEW s \in FsType, Cached(s), NEW p \in Procs, NEW j \in Inums,
         s.disk[j].type = "none", NEW ty \in Types \ {"none"}, ~NoEntryFor(s, j),
         NEW t, t = Made(s, p, j, ty)
  PROVE  MadeTo(s, t, p, j, ty)
<1> USE DEF MadeTo
<1> DEFINE e == [FreeInode EXCEPT !.type = ty]
           a == [s EXCEPT !.disk = [s.disk EXCEPT ![j] = e]]
           b == iget(a, j)
           c == ilock(b, p, j)
<1>1. /\ e \in DinodeType /\ e.type = ty /\ e.nlink = 0
      /\ \A n \in Names \cup Dots : e.ent[n] = 0
  BY FreeInodeIs DEF DinodeType
<1>2. t = AddLinks(c, j, 1)
  BY DEF Made
<1> HIDE DEF e
<1>3. s.disk \in DiskType /\ [s.disk EXCEPT ![j] = e] \in DiskType
  BY <1>1, FsFields DEF DiskType
<1>4. /\ a \in FsType /\ a.disk = [s.disk EXCEPT ![j] = e]
      /\ a.inode = s.inode /\ a.lock = s.lock /\ a.panic = s.panic
  BY <1>3, FsFields DEF FsType
<1> HIDE DEF a
<1>5. a.disk[j] = e /\ \A x \in Inums : x # j => a.disk[x] = s.disk[x]
  BY <1>3, <1>4 DEF DiskType
<1>6. ~s.inode[j].valid
  BY DEF Cached
<1>7. Cached(a)
  BY <1>4, <1>5, <1>6 DEF Cached
<1>8. /\ b \in FsType /\ Cached(b)
      /\ b.disk = a.disk /\ b.lock = a.lock /\ b.panic = a.panic
      /\ \A x \in Inums :
           /\ b.inode[x].ref = a.inode[x].ref + Eq(x, j)
           /\ a.inode[x].valid /\ (a.inode[x].ref > 0 \/ x # j) => b.inode[x].valid
  <2>1. ~NoEntryFor(a, j)
    BY <1>4 DEF NoEntryFor
  <2>2. IgetTo(a, b, j)
    BY <1>4, <1>7, <2>1, IgetIs
  <2> QED
    BY <2>2 DEF IgetTo
<1> HIDE DEF b
<1>9. /\ c \in FsType /\ Cached(c) /\ c.disk = b.disk
      /\ \A x \in Inums : /\ c.inode[x].ref = b.inode[x].ref
                          /\ b.inode[x].valid => c.inode[x].valid
      /\ c.panic = b.panic /\ c.inode[j].valid
      /\ \A x \in Inums : c.lock[x] = IF x = j THEN p ELSE b.lock[x]
  <2>1. b.disk[j].type # "none"
    BY <1>1, <1>5, <1>8
  <2> QED
    <3>1. IlockTo(b, c, p, j)
      BY <1>8, IlockIs
    <3> QED
      BY <2>1, <3>1 DEF IlockTo
<1> HIDE DEF c
<1>10. /\ t \in FsType /\ Cached(t) /\ t.lock = c.lock /\ t.panic = c.panic
       /\ \A x \in Inums :
            /\ t.disk[x].type = c.disk[x].type /\ t.disk[x].ent = c.disk[x].ent
            /\ t.disk[x].nlink = c.disk[x].nlink + (IF x = j THEN 1 ELSE 0)
            /\ t.inode[x].ref = c.inode[x].ref /\ t.inode[x].valid = c.inode[x].valid
  <2>1. AddLinksTo(c, t, j, 1)
    BY <1>2, <1>9, AddLinksIs
  <2> QED
    BY <2>1 DEF AddLinksTo
<1>11. /\ t.disk[j].type = ty /\ t.disk[j].nlink = 1
       /\ \A n \in Names \cup Dots : t.disk[j].ent[n] = 0
  BY <1>1, <1>5, <1>8, <1>9, <1>10
<1>12. ASSUME NEW x \in Inums
       PROVE  /\ x # j => /\ t.disk[x].type = s.disk[x].type
                          /\ t.disk[x].ent = s.disk[x].ent
                          /\ t.disk[x].nlink = s.disk[x].nlink
              /\ t.inode[x].ref = s.inode[x].ref + Eq(x, j)
              /\ s.inode[x].valid => t.inode[x].valid
  <2>1. x # j => s.disk[x].nlink \in Int
    BY FsFields, DiskFields
  <2>2. x # j => /\ t.disk[x].type = s.disk[x].type
                 /\ t.disk[x].ent = s.disk[x].ent
                 /\ t.disk[x].nlink = s.disk[x].nlink
    BY <1>5, <1>8, <1>9, <1>10, <2>1
  <2>3. t.inode[x].ref = s.inode[x].ref + Eq(x, j)
    BY <1>4, <1>8, <1>9, <1>10
  <2>4. s.inode[x].valid => t.inode[x].valid
    BY <1>4, <1>6, <1>8, <1>9, <1>10
  <2> QED
    BY <2>2, <2>3, <2>4
<1> QED
  BY <1>4, <1>8, <1>9, <1>10, <1>11, <1>12

LEMMA MadePanics ==
  ASSUME NEW s \in FsType, Cached(s), NEW p \in Procs, NEW j \in Inums,
         s.disk[j].type = "none", NEW ty \in Types \ {"none"}, NoEntryFor(s, j),
         NEW t, t = Made(s, p, j, ty)
  PROVE  t.panic = "iget: no inodes"
<1> DEFINE e == [FreeInode EXCEPT !.type = ty]
           a == [s EXCEPT !.disk = [s.disk EXCEPT ![j] = e]]
           b == iget(a, j)
           c == ilock(b, p, j)
<1>1. e \in DinodeType /\ e.type = ty
  BY FreeInodeIs DEF DinodeType
<1>2. t = AddLinks(c, j, 1)
  BY DEF Made
<1> HIDE DEF e
<1>3. s.disk \in DiskType /\ [s.disk EXCEPT ![j] = e] \in DiskType
  BY <1>1, FsFields DEF DiskType
<1>4. a \in FsType /\ a.disk = [s.disk EXCEPT ![j] = e] /\ a.inode = s.inode
  BY <1>3, FsFields DEF FsType
<1> HIDE DEF a
<1>5. a.disk[j] = e /\ \A x \in Inums : x # j => a.disk[x] = s.disk[x]
  BY <1>3, <1>4 DEF DiskType
<1>6. Cached(a)
  BY <1>4, <1>5 DEF Cached
<1>7. b \in FsType /\ Cached(b) /\ b.disk = a.disk /\ b.panic = "iget: no inodes"
  <2>1. NoEntryFor(a, j)
    BY <1>4 DEF NoEntryFor
  <2>2. b \in FsType /\ b.disk = a.disk /\ b.inode = a.inode /\ b.panic = "iget: no inodes"
    BY <1>4, <2>1, IgetPanics
  <2> QED
    BY <1>6, <2>2 DEF Cached
<1> HIDE DEF b
<1>8. c \in FsType /\ Cached(c) /\ c.panic = b.panic /\ c.inode[j].valid
  <2>1. b.disk[j].type # "none"
    BY <1>1, <1>5, <1>7
  <2>2. IlockTo(b, c, p, j)
    BY <1>7, IlockIs
  <2> QED
    BY <2>1, <2>2 DEF IlockTo
<1> HIDE DEF c
<1>9. AddLinksTo(c, t, j, 1)
  BY <1>2, <1>8, AddLinksIs
<1> QED
  BY <1>7, <1>8, <1>9 DEF AddLinksTo

FreeTo(s, t, i) ==
  /\ t \in FsType /\ Cached(t) /\ t.lock = s.lock /\ t.panic = s.panic
  /\ \A x \in Inums :
       /\ t.inode[x].ref = s.inode[x].ref
       /\ x # i => t.disk[x] = s.disk[x] /\ t.inode[x].valid = s.inode[x].valid
  /\ \/ t = s
     \/ /\ s.inode[i].ref = 1 /\ s.disk[i].nlink = 0 /\ s.inode[i].valid
        /\ t.disk[i] = FreeInode

LEMMA FreeIs ==
  ASSUME NEW s \in FsType, Cached(s), NEW i \in Inums, NEW t, t = FreeIfUnused(s, i)
  PROVE  FreeTo(s, t, i)
<1> USE DEF FreeTo
<1>1. CASE ~Unused(s.inode[i])
  <2>1. t = s
    BY <1>1 DEF FreeIfUnused
  <2> QED
    BY <2>1
<1>2. CASE Unused(s.inode[i])
  <2> DEFINE e == [NotCached EXCEPT !.ref = 1]
  <2>1. /\ s.inode[i].ref = 1 /\ s.inode[i].valid /\ s.inode[i].nlink = 0
        /\ s.disk[i].nlink = 0
    BY <1>2 DEF Unused, Cached
  <2>2. NotCached \in InodeType /\ NotCached.valid = FALSE
    BY DEF NotCached, InodeType, Types
  <2>3. e \in InodeType /\ e.ref = 1 /\ e.valid = FALSE
    BY <2>2 DEF InodeType
  <2>4. t = [s EXCEPT !.disk[i] = FreeInode, !.inode[i] = e]
    BY <1>2 DEF FreeIfUnused
  <2> HIDE DEF e
  <2>5. s.disk \in DiskType /\ [s.disk EXCEPT ![i] = FreeInode] \in DiskType
    BY FreeInodeIs, FsFields DEF DiskType
  <2>6. s.inode \in [Inums -> InodeType] /\ [s.inode EXCEPT ![i] = e] \in [Inums -> InodeType]
    BY <2>3, FsFields
  <2>7. /\ t \in FsType /\ t.disk = [s.disk EXCEPT ![i] = FreeInode]
        /\ t.inode = [s.inode EXCEPT ![i] = e] /\ t.lock = s.lock /\ t.panic = s.panic
    BY <2>4, <2>5, <2>6, FsFields DEF FsType
  <2>8. t.disk[i] = FreeInode /\ \A x \in Inums : x # i => t.disk[x] = s.disk[x]
    BY <2>5, <2>7 DEF DiskType
  <2>9. t.inode[i] = e /\ \A x \in Inums : x # i => t.inode[x] = s.inode[x]
    BY <2>6, <2>7
  <2>10. Cached(t)
    BY <2>3, <2>8, <2>9 DEF Cached
  <2> QED
    BY <2>1, <2>3, <2>7, <2>8, <2>9, <2>10
<1> QED
  BY <1>1, <1>2

LEMMA MinIn ==
  ASSUME NEW S, S \subseteq Nat, S # {}
  PROVE  Min(S) \in S
<1>1. IsWellFoundedOn(OpToRel(<, Nat), Nat)
  BY NatLessThanWellFounded
<1>2. PICK x \in S : \A y \in S : ~(<<y, x>> \in OpToRel(<, Nat))
  BY <1>1, WFMin
<1>3. \A y \in S : ~(y < x)
  BY <1>2 DEF OpToRel
<1>4. \E z \in S : \A y \in S : z =< y
  BY <1>3
<1> QED
  BY <1>4 DEF Min

LEMMA FirstFreeIs ==
  ASSUME NEW s \in FsType
  PROVE  \/ FirstFree(s) = 0
         \/ FirstFree(s) \in Inums /\ s.disk[FirstFree(s)].type = "none"
<1> DEFINE S == {i \in Inums : s.disk[i].type = "none"}
<1>1. CASE S = {}
  BY <1>1 DEF FirstFree
<1>2. CASE S # {}
  <2>1. S \subseteq Nat
    BY Consts
  <2>2. Min(S) \in S
    BY <1>2, <2>1, MinIn
  <2>3. FirstFree(s) \in S
    BY <1>2, <2>2 DEF FirstFree
  <2> QED
    BY <2>3
<1> QED
  BY <1>1, <1>2

-----------------------------------------------------------------------------
(* Counting references.                                                    *)

In(x, D) == IF x \in D THEN 1 ELSE 0

Nth(s, n) == IF n <= Len(s) THEN s[n] ELSE NULL

Places == {"at", "ip", "dp", "put", "put2", "cwd", "file"}

(* The places where a process at l with current directory c and file f has *)
(* inode i, and their number.                                              *)
PlacesOf(i, l, c, f) ==
  {x \in Places :
     \/ x = "at" /\ l.at = i
     \/ x = "ip" /\ l.ip = i
     \/ x = "dp" /\ l.dp = i
     \/ x = "put" /\ Nth(l.put, 1) = i
     \/ x = "put2" /\ Nth(l.put, 2) = i
     \/ x = "cwd" /\ c = i
     \/ x = "file" /\ f = i}

Refs(i, l, c, f) ==
  Eq(l.at, i) + Eq(l.ip, i) + Eq(l.dp, i) + Eq(Nth(l.put, 1), i) + Eq(Nth(l.put, 2), i)
    + Eq(c, i) + Eq(f, i)

LEMMA AddIf ==
  ASSUME NEW S, IsFiniteSet(S), NEW e, e \notin S, NEW D, NEW x, NEW T,
         x \in D => T = S \cup {e}, x \notin D => T = S
  PROVE  IsFiniteSet(T) /\ Cardinality(T) = Cardinality(S) + In(x, D)
<1>1. CASE x \in D
  BY <1>1, FS_AddElement DEF In
<1>2. CASE x \notin D
  BY <1>2, FS_CardinalityType DEF In
<1> QED
  BY <1>1, <1>2

Count(D) ==
  In("at", D) + In("ip", D) + In("dp", D) + In("put", D) + In("put2", D)
    + In("cwd", D) + In("file", D)

Plus(R, p, D) == R \cup ({p} \X D)

LEMMA Spread ==
  ASSUME NEW p, NEW R, IsFiniteSet(R), \A x : <<p, x>> \notin R, NEW D \in SUBSET Places
  PROVE  Cardinality(Plus(R, p, D)) = Cardinality(R) + Count(D)
<1> DEFINE P(x) == IF x \in D THEN {<<p, x>>} ELSE {}
           S1 == R \cup P("at")
           S2 == S1 \cup P("ip")
           S3 == S2 \cup P("dp")
           S4 == S3 \cup P("put")
           S5 == S4 \cup P("put2")
           S6 == S5 \cup P("cwd")
           S7 == S6 \cup P("file")
<1>0. \A x : <<p, x>> \notin R
  OBVIOUS
<1>1. IsFiniteSet(S1) /\ Cardinality(S1) = Cardinality(R) + In("at", D)
  <2>1. <<p, "at">> \notin R
    BY <1>0
  <2>2. /\ "at" \in D => S1 = R \cup {<<p, "at">>}
        /\ "at" \notin D => S1 = R
    OBVIOUS
  <2> HIDE DEF S1
  <2> QED
    BY <2>1, <2>2, AddIf
<1>2. IsFiniteSet(S2) /\ Cardinality(S2) = Cardinality(S1) + In("ip", D)
  <2>1. <<p, "ip">> \notin S1
    BY <1>0
  <2>2. /\ "ip" \in D => S2 = S1 \cup {<<p, "ip">>}
        /\ "ip" \notin D => S2 = S1
    OBVIOUS
  <2> HIDE DEF S2, S1
  <2> QED
    BY <1>1, <2>1, <2>2, AddIf
<1>3. IsFiniteSet(S3) /\ Cardinality(S3) = Cardinality(S2) + In("dp", D)
  <2>1. <<p, "dp">> \notin S2
    BY <1>0
  <2>2. /\ "dp" \in D => S3 = S2 \cup {<<p, "dp">>}
        /\ "dp" \notin D => S3 = S2
    OBVIOUS
  <2> HIDE DEF S3, S2
  <2> QED
    BY <1>2, <2>1, <2>2, AddIf
<1>4. IsFiniteSet(S4) /\ Cardinality(S4) = Cardinality(S3) + In("put", D)
  <2>1. <<p, "put">> \notin S3
    BY <1>0
  <2>2. /\ "put" \in D => S4 = S3 \cup {<<p, "put">>}
        /\ "put" \notin D => S4 = S3
    OBVIOUS
  <2> HIDE DEF S4, S3
  <2> QED
    BY <1>3, <2>1, <2>2, AddIf
<1>5. IsFiniteSet(S5) /\ Cardinality(S5) = Cardinality(S4) + In("put2", D)
  <2>1. <<p, "put2">> \notin S4
    BY <1>0
  <2>2. /\ "put2" \in D => S5 = S4 \cup {<<p, "put2">>}
        /\ "put2" \notin D => S5 = S4
    OBVIOUS
  <2> HIDE DEF S5, S4
  <2> QED
    BY <1>4, <2>1, <2>2, AddIf
<1>6. IsFiniteSet(S6) /\ Cardinality(S6) = Cardinality(S5) + In("cwd", D)
  <2>1. <<p, "cwd">> \notin S5
    BY <1>0
  <2>2. /\ "cwd" \in D => S6 = S5 \cup {<<p, "cwd">>}
        /\ "cwd" \notin D => S6 = S5
    OBVIOUS
  <2> HIDE DEF S6, S5
  <2> QED
    BY <1>5, <2>1, <2>2, AddIf
<1>7. IsFiniteSet(S7) /\ Cardinality(S7) = Cardinality(S6) + In("file", D)
  <2>1. <<p, "file">> \notin S6
    BY <1>0
  <2>2. /\ "file" \in D => S7 = S6 \cup {<<p, "file">>}
        /\ "file" \notin D => S7 = S6
    OBVIOUS
  <2> HIDE DEF S7, S6
  <2> QED
    BY <1>6, <2>1, <2>2, AddIf
<1>8. S7 = R \cup ({p} \X D)
  <2>1. ASSUME NEW h \in {p} \X D PROVE h \in S7
    <3>1. PICK x \in D : h = <<p, x>>
      OBVIOUS
    <3>2. x \in Places
      OBVIOUS
    <3> QED
      BY <3>1, <3>2 DEF Places
  <2>2. ASSUME NEW h \in S7 PROVE h \in R \cup ({p} \X D)
    OBVIOUS
  <2> QED
    BY <2>1, <2>2
<1> HIDE DEF S1, S2, S3, S4, S5, S6, S7
<1>9. Cardinality(R) \in Nat /\ \A x : In(x, D) \in Nat
  BY FS_CardinalityType DEF In
<1> QED
  BY <1>1, <1>2, <1>3, <1>4, <1>5, <1>6, <1>7, <1>8, <1>9 DEF Count, Plus

(* The references in a state with loc = L, cwd = C and file = F. *)
HoldersIn(i, L, C, F) ==
  {h \in Procs \X Places : h[2] \in PlacesOf(i, L[h[1]], C[h[1]], F[h[1]])}

LEMMA HoldersInFinite ==
  ASSUME NEW i, NEW L, NEW C, NEW F
  PROVE  /\ IsFiniteSet(HoldersIn(i, L, C, F))
         /\ Cardinality(HoldersIn(i, L, C, F)) \in Nat
<1> DEFINE P1 == {"at"} \cup {"ip"}
           P2 == P1 \cup {"dp"}
           P3 == P2 \cup {"put"}
           P4 == P3 \cup {"put2"}
           P5 == P4 \cup {"cwd"}
<1>1. IsFiniteSet({"at"})
  BY FS_Singleton
<1>2. IsFiniteSet(P1)
  BY <1>1, FS_AddElement
<1>3. IsFiniteSet(P2)
  BY <1>2, FS_AddElement
<1>4. IsFiniteSet(P3)
  BY <1>3, FS_AddElement
<1>5. IsFiniteSet(P4)
  BY <1>4, FS_AddElement
<1>6. IsFiniteSet(P5)
  BY <1>5, FS_AddElement
<1>7. IsFiniteSet(P5 \cup {"file"})
  BY <1>6, FS_AddElement
<1>8. P5 \cup {"file"} = Places
  BY DEF Places
<1>9. IsFiniteSet(Procs \X Places)
  BY <1>7, <1>8, Consts, FS_Product
<1>10. HoldersIn(i, L, C, F) \subseteq Procs \X Places
  BY DEF HoldersIn
<1> QED
  BY <1>9, <1>10, FS_Subset, FS_CardinalityType

LEMMA Recount ==
  ASSUME NEW i, NEW L, NEW C, NEW F, NEW L2, NEW C2, NEW F2, NEW p \in Procs,
         \A q \in Procs : q # p => L2[q] = L[q] /\ C2[q] = C[q] /\ F2[q] = F[q]
  PROVE  Cardinality(HoldersIn(i, L2, C2, F2)) =
           Cardinality(HoldersIn(i, L, C, F))
             + Refs(i, L2[p], C2[p], F2[p]) - Refs(i, L[p], C[p], F[p])
<1> DEFINE H == HoldersIn(i, L, C, F)
           H2 == HoldersIn(i, L2, C2, F2)
           D == PlacesOf(i, L[p], C[p], F[p])
           D2 == PlacesOf(i, L2[p], C2[p], F2[p])
           R == {h \in H : h[1] # p}
<1>1. D \in SUBSET Places /\ D2 \in SUBSET Places
  BY DEF PlacesOf
<1>2. IsFiniteSet(R) /\ \A x : <<p, x>> \notin R
  BY HoldersInFinite, FS_Subset
<1>3. H = Plus(R, p, D)
  BY <1>1 DEF HoldersIn, Plus
<1>4. H2 = Plus(R, p, D2)
  <2>1. ASSUME NEW h \in Procs \X Places, h[1] # p PROVE (h \in H2) <=> (h \in R)
    BY <2>1 DEF HoldersIn
  <2>2. ASSUME NEW h \in Procs \X Places, h[1] = p PROVE (h \in H2) <=> (h \in {p} \X D2)
    BY <2>2 DEF HoldersIn
  <2>3. H2 \subseteq Procs \X Places /\ R \subseteq Procs \X Places
    BY DEF HoldersIn
  <2>4. {p} \X D2 \subseteq Procs \X Places
    BY <1>1
  <2>5. (\A h \in {p} \X D2 : h[1] = p) /\ \A h \in R : h[1] # p
    OBVIOUS
  <2> HIDE DEF H2, R, D2
  <2> QED
    BY <2>1, <2>2, <2>3, <2>4, <2>5 DEF Plus
<1>5. Count(D) = Refs(i, L[p], C[p], F[p])
  BY DEF PlacesOf, Refs, In, Eq, Places, Count
<1>6. Count(D2) = Refs(i, L2[p], C2[p], F2[p])
  BY DEF PlacesOf, Refs, In, Eq, Places, Count
<1> HIDE DEF H, H2, D, D2, R
<1>7. Cardinality(H) = Cardinality(R) + Count(D)
  BY <1>1, <1>2, <1>3, Spread
<1>8. Cardinality(H2) = Cardinality(R) + Count(D2)
  BY <1>1, <1>2, <1>4, Spread
<1>9. Cardinality(R) \in Nat /\ Count(D) \in Nat /\ Count(D2) \in Nat
  BY <1>2, FS_CardinalityType DEF In, Count
<1>10. Cardinality(H2) = Cardinality(H) + Count(D2) - Count(D)
  BY <1>7, <1>8, <1>9
<1> QED
  BY <1>5, <1>6, <1>10 DEF H, H2

LEMMA NthIs ==
  ASSUME NEW u \in Seq(Inums), Len(u) <= 2, NEW i \in Inums
  PROVE  /\ (Nth(u, 1) = i) <=> (u # <<>> /\ u[1] = i)
         /\ (Nth(u, 2) = i) <=> (Len(u) = 2 /\ u[2] = i)
<1>1. (u = <<>>) <=> (Len(u) = 0)
  BY EmptySeq
<1>2. Len(u) \in Nat /\ i # NULL
  BY Consts, LenProperties
<1>3. (1 <= Len(u)) <=> (u # <<>>)
  BY <1>1, <1>2
<1>4. (2 <= Len(u)) <=> (Len(u) = 2)
  <2>1. \A n \in Nat : n <= 2 => ((2 <= n) <=> (n = 2))
    OBVIOUS
  <2> QED
    BY <1>2, <2>1
<1>5. (Nth(u, 1) = i) <=> (1 <= Len(u) /\ u[1] = i)
  BY <1>2 DEF Nth
<1>6. (Nth(u, 2) = i) <=> (2 <= Len(u) /\ u[2] = i)
  BY <1>2 DEF Nth
<1> QED
  BY <1>3, <1>4, <1>5, <1>6

LEMMA HoldersIs ==
  ASSUME NEW i \in Inums, loc \in [Procs -> LocType], \A q \in Procs : LocOK(loc[q])
  PROVE  Holders(i) = HoldersIn(i, loc, cwd, file)
<1>1. ASSUME NEW q \in Procs
      PROVE  /\ (Nth(loc[q].put, 1) = i) <=> (loc[q].put # <<>> /\ loc[q].put[1] = i)
             /\ (Nth(loc[q].put, 2) = i) <=> (Len(loc[q].put) = 2 /\ loc[q].put[2] = i)
  <2>1. loc[q].put \in Seq(Inums) /\ Len(loc[q].put) <= 2
    BY DEF LocType, LocOK
  <2> QED
    BY <2>1, NthIs
<1>2. ASSUME NEW h \in Holders(i) PROVE h \in HoldersIn(i, loc, cwd, file)
  BY <1>1, <1>2 DEF Holders, HoldersIn, PlacesOf, Places
<1>3. ASSUME NEW h \in HoldersIn(i, loc, cwd, file) PROVE h \in Holders(i)
  BY <1>1, <1>3 DEF Holders, HoldersIn, PlacesOf, Places
<1> QED
  BY <1>2, <1>3

LEMMA HoldersIsNext ==
  ASSUME NEW i \in Inums, loc' \in [Procs -> LocType], \A q \in Procs : LocOK(loc'[q])
  PROVE  Holders(i)' = HoldersIn(i, loc', cwd', file')
<1>1. ASSUME NEW q \in Procs
      PROVE  /\ (Nth(loc'[q].put, 1) = i) <=> (loc'[q].put # <<>> /\ loc'[q].put[1] = i)
             /\ (Nth(loc'[q].put, 2) = i) <=> (Len(loc'[q].put) = 2 /\ loc'[q].put[2] = i)
  <2>1. loc'[q].put \in Seq(Inums) /\ Len(loc'[q].put) <= 2
    BY DEF LocType, LocOK
  <2> QED
    BY <2>1, NthIs
<1>2. ASSUME NEW h \in Holders(i)' PROVE h \in HoldersIn(i, loc', cwd', file')
  BY <1>1, <1>2 DEF Holders, HoldersIn, PlacesOf, Places
<1>3. ASSUME NEW h \in HoldersIn(i, loc', cwd', file') PROVE h \in Holders(i)'
  BY <1>1, <1>3 DEF Holders, HoldersIn, PlacesOf, Places
<1> QED
  BY <1>2, <1>3

(* Where each process has a reference; the only one if ref is 1. *)
HasRef(i, q) == PlacesOf(i, loc[q], cwd[q], file[q]) # {}

LEMMA Referred ==
  ASSUME SysInv, RefCounts, NEW i \in Inums, NEW q \in Procs,
         NEW x \in PlacesOf(i, loc[q], cwd[q], file[q])
  PROVE  /\ fs.inode[i].ref \in Nat /\ fs.inode[i].ref > 0
         /\ fs.inode[i].ref = 1 =>
              \A r \in Procs : \A y \in PlacesOf(i, loc[r], cwd[r], file[r]) : r = q /\ y = x
<1> DEFINE H == HoldersIn(i, loc, cwd, file)
<1>1. fs.inode[i].ref = Cardinality(H)
  BY HoldersIs DEF SysInv, TypeOK, RefCounts
<1>2. \A r \in Procs : \A y \in PlacesOf(i, loc[r], cwd[r], file[r]) : <<r, y>> \in H
  BY DEF HoldersIn, PlacesOf
<1>3. IsFiniteSet(H) /\ Cardinality(H) \in Nat
  BY HoldersInFinite
<1> HIDE DEF H
<1>4. <<q, x>> \in H
  BY <1>2
<1>5. Cardinality(H) # 0
  BY <1>3, <1>4, FS_EmptySet
<1>6. ASSUME fs.inode[i].ref = 1,
             NEW r \in Procs, NEW y \in PlacesOf(i, loc[r], cwd[r], file[r])
      PROVE  r = q /\ y = x
  <2>1. \E z : H = {z}
    BY <1>1, <1>3, <1>6, FS_Singleton
  <2>2. <<r, y>> \in H
    BY <1>2
  <2>3. <<r, y>> = <<q, x>>
    BY <1>4, <2>1, <2>2
  <2> QED
    BY <2>3
<1> QED
  BY <1>1, <1>3, <1>5, <1>6

-----------------------------------------------------------------------------
(* Counting links.                                                         *)

LEMMA LinksFinite ==
  ASSUME NEW d, NEW i
  PROVE  /\ IsFiniteSet(NamesOf(d, i)) /\ Cardinality(NamesOf(d, i)) \in Nat
         /\ IsFiniteSet(SubdirsOf(d, i)) /\ Cardinality(SubdirsOf(d, i)) \in Nat
         /\ LinksTo(d, i) \in Nat
<1>1. IsFiniteSet(Inums \X Names) /\ IsFiniteSet(Names)
  BY Consts, FS_Product
<1>2. NamesOf(d, i) \subseteq Inums \X Names /\ SubdirsOf(d, i) \subseteq Names
  BY DEF NamesOf, SubdirsOf
<1>3. /\ IsFiniteSet(NamesOf(d, i)) /\ Cardinality(NamesOf(d, i)) \in Nat
      /\ IsFiniteSet(SubdirsOf(d, i)) /\ Cardinality(SubdirsOf(d, i)) \in Nat
  BY <1>1, <1>2, FS_Subset, FS_CardinalityType
<1> QED
  BY <1>3 DEF LinksTo

LEMMA LinksLess ==
  ASSUME NEW d, NEW e, NEW i,
         NamesOf(e, i) \subseteq NamesOf(d, i), SubdirsOf(e, i) \subseteq SubdirsOf(d, i)
  PROVE  LinksTo(e, i) <= LinksTo(d, i)
<1>1. /\ Cardinality(NamesOf(e, i)) <= Cardinality(NamesOf(d, i))
      /\ Cardinality(SubdirsOf(e, i)) <= Cardinality(SubdirsOf(d, i))
  BY LinksFinite, FS_Subset
<1> QED
  BY <1>1, LinksFinite DEF LinksTo

(* Inode i is named by entry n of directory x. *)
LEMMA Named ==
  ASSUME NEW d \in DiskType, NEW x \in Inums, NEW n \in Names, NEW i,
         d[x].type = "dir", d[x].ent[n] = i
  PROVE  LinksTo(d, i) >= 1
<1>1. <<x, n>> \in NamesOf(d, i)
  BY DEF NamesOf
<1>2. Cardinality(NamesOf(d, i)) # 0
  BY <1>1, LinksFinite, FS_EmptySet
<1> QED
  BY <1>2, LinksFinite DEF LinksTo

LEMMA Unlinked ==
  ASSUME NEW d, NEW i, LinksTo(d, i) <= 0
  PROVE  NamesOf(d, i) = {} /\ SubdirsOf(d, i) = {} /\ i # ROOTINO
<1>1. Cardinality(NamesOf(d, i)) = 0 /\ Cardinality(SubdirsOf(d, i)) = 0 /\ i # ROOTINO
  BY LinksFinite DEF LinksTo
<1> QED
  BY <1>1, LinksFinite, FS_EmptySet

(* Types and entries decide the links. *)
SameNames(d, e) ==
  \A x \in Inums : /\ e[x].type = d[x].type
                   /\ \A n \in Names \cup Dots : e[x].ent[n] = d[x].ent[n]

LEMMA LinksSame ==
  ASSUME NEW d \in DiskType, NEW e \in DiskType, SameNames(d, e), NEW i \in Inums
  PROVE  /\ NamesOf(e, i) = NamesOf(d, i) /\ SubdirsOf(e, i) = SubdirsOf(d, i)
         /\ LinksTo(e, i) = LinksTo(d, i)
<1>1. NamesOf(e, i) = NamesOf(d, i)
  BY DEF NamesOf, SameNames
<1>2. SubdirsOf(e, i) = SubdirsOf(d, i)
  <2>1. \A n \in Names : d[i].ent[n] = e[i].ent[n] /\ d[i].ent[n] \in Inums \cup {0}
    BY DiskFields DEF SameNames
  <2> QED
    BY <2>1 DEF SubdirsOf, SameNames
<1> QED
  BY <1>1, <1>2 DEF LinksTo

LEMMA DirsSame ==
  ASSUME NEW d \in DiskType, NEW e \in DiskType, SameNames(d, e), DirsOK(d),
         \A i \in Inums : e[i].type = "none" => e[i].nlink = 0
  PROVE  DirsOK(e)
<1>1. \A i \in Inums : SubdirsOf(e, i) = SubdirsOf(d, i)
  BY LinksSame
<1>2. \A i \in Inums : \A n \in Names : d[i].ent[n] = e[i].ent[n] /\ d[i].ent[n] \in Inums \cup {0}
  BY DiskFields DEF SameNames
<1>3. ASSUME NEW i \in Inums, NEW n \in SubdirsOf(e, i) PROVE e[e[i].ent[n]].ent[".."] = i
  <2>1. n \in SubdirsOf(d, i) /\ n \in Names /\ e[i].ent[n] # 0
    BY <1>1 DEF SubdirsOf
  <2>2. e[i].ent[n] = d[i].ent[n] /\ e[i].ent[n] \in Inums
    BY <1>2, <2>1
  <2>3. d[d[i].ent[n]].ent[".."] = i
    BY <2>1 DEF DirsOK
  <2> QED
    BY <2>2, <2>3 DEF SameNames, Dots
<1>4. e[ROOTINO].type = "dir"
  BY Consts DEF DirsOK, SameNames
<1>5. ASSUME NEW i \in Inums, e[i].type = "dir", NEW n \in Dots PROVE e[i].ent[n] # 0
  BY <1>5 DEF DirsOK, SameNames
<1> QED
  BY <1>3, <1>4, <1>5 DEF DirsOK

(* Entry n of directory a, empty on d, names j on e. *)
EntrySet(d, e, a, n, j) ==
  /\ d[a].type = "dir" /\ d[a].ent[n] = 0 /\ e[a].ent[n] = j
  /\ \A x \in Inums :
       /\ e[x].type = d[x].type
       /\ \A y \in Names \cup Dots : x # a \/ y # n => e[x].ent[y] = d[x].ent[y]

DirOne(d, j) == IF d[j].type = "dir" THEN 1 ELSE 0

LEMMA LinksSet ==
  ASSUME NEW d \in DiskType, NEW e \in DiskType, NEW a \in Inums, NEW n \in Names,
         NEW j \in Inums, EntrySet(d, e, a, n, j), NEW x \in Inums
  PROVE  LinksTo(e, x) = LinksTo(d, x) + Eq(x, j) + (IF x = a THEN DirOne(d, j) ELSE 0)
<1>0. n \in Names \cup Dots /\ 0 \notin Inums
  BY Consts
<1>1. Cardinality(NamesOf(e, x)) = Cardinality(NamesOf(d, x)) + Eq(x, j)
  <2>1. CASE x = j
    <3>1. NamesOf(e, x) = NamesOf(d, x) \cup {<<a, n>>}
      BY <1>0, <2>1 DEF NamesOf, EntrySet
    <3>2. <<a, n>> \notin NamesOf(d, x)
      BY <1>0, <2>1 DEF NamesOf, EntrySet
    <3> QED
      BY <2>1, <3>1, <3>2, LinksFinite, FS_AddElement DEF Eq
  <2>2. CASE x # j
    <3>1. NamesOf(e, x) = NamesOf(d, x)
      BY <1>0, <2>2 DEF NamesOf, EntrySet
    <3> QED
      BY <2>2, <3>1, LinksFinite DEF Eq
  <2> QED
    BY <2>1, <2>2
<1>2. Cardinality(SubdirsOf(e, x)) =
        Cardinality(SubdirsOf(d, x)) + (IF x = a THEN DirOne(d, j) ELSE 0)
  <2>1. \A y \in Names : d[x].ent[y] \in Inums \cup {0}
    BY DiskFields
  <2>2. CASE x = a /\ d[j].type = "dir"
    <3>1. SubdirsOf(e, x) = SubdirsOf(d, x) \cup {n}
      BY <1>0, <2>1, <2>2 DEF SubdirsOf, EntrySet
    <3>2. n \notin SubdirsOf(d, x)
      BY <2>2 DEF SubdirsOf, EntrySet
    <3> QED
      BY <2>2, <3>1, <3>2, LinksFinite, FS_AddElement DEF DirOne
  <2>3. CASE ~(x = a /\ d[j].type = "dir")
    <3>1. SubdirsOf(e, x) = SubdirsOf(d, x)
      BY <1>0, <2>1, <2>3 DEF SubdirsOf, EntrySet
    <3> QED
      BY <2>3, <3>1, LinksFinite DEF DirOne
  <2> QED
    BY <2>2, <2>3
<1> QED
  BY <1>1, <1>2, LinksFinite DEF LinksTo, Eq, DirOne

-----------------------------------------------------------------------------
(* Links counted and not named yet, or no longer.                          *)

Pends(l, i) == IF l.ip = i /\ (l.op = "link2" \/ Goal(l) = "unlinked") THEN 1 ELSE 0

PendingIn(L, i) == {q \in Procs : Pends(L[q], i) = 1}

LEMMA PendingIs ==
  ASSUME NEW i
  PROVE  Pending(i) = PendingIn(loc, i) /\ Pending(i)' = PendingIn(loc', i)
BY DEF Pending, PendingIn, Pends

LEMMA PendingFinite ==
  ASSUME NEW L, NEW i
  PROVE  IsFiniteSet(PendingIn(L, i)) /\ Cardinality(PendingIn(L, i)) \in Nat
<1>1. PendingIn(L, i) \subseteq Procs
  BY DEF PendingIn
<1> QED
  BY <1>1, Consts, FS_Subset, FS_CardinalityType

LEMMA PendingChange ==
  ASSUME NEW L, NEW L2, NEW i, NEW p \in Procs, \A q \in Procs : q # p => L2[q] = L[q]
  PROVE  Cardinality(PendingIn(L2, i)) =
           Cardinality(PendingIn(L, i)) + Pends(L2[p], i) - Pends(L[p], i)
<1> DEFINE R == PendingIn(L, i) \ {p}
<1>1. IsFiniteSet(R) /\ p \notin R /\ Cardinality(R) \in Nat
  BY PendingFinite, FS_Subset, FS_CardinalityType
<1>2. \A l : Pends(l, i) = 0 \/ Pends(l, i) = 1
  BY DEF Pends
<1>3. Cardinality(PendingIn(L, i)) = Cardinality(R) + Pends(L[p], i)
  <2>1. CASE Pends(L[p], i) = 1
    <3>1. PendingIn(L, i) = R \cup {p}
      BY <2>1 DEF PendingIn
    <3> HIDE DEF R
    <3> QED
      BY <1>1, <2>1, <3>1, FS_AddElement
  <2>2. CASE Pends(L[p], i) = 0
    <3>1. PendingIn(L, i) = R
      BY <2>2 DEF PendingIn
    <3> HIDE DEF R
    <3> QED
      BY <1>1, <2>2, <3>1
  <2> QED
    BY <1>2, <2>1, <2>2
<1>4. Cardinality(PendingIn(L2, i)) = Cardinality(R) + Pends(L2[p], i)
  <2>1. CASE Pends(L2[p], i) = 1
    <3>1. PendingIn(L2, i) = R \cup {p}
      BY <2>1 DEF PendingIn
    <3> HIDE DEF R
    <3> QED
      BY <1>1, <2>1, <3>1, FS_AddElement
  <2>2. CASE Pends(L2[p], i) = 0
    <3>1. PendingIn(L2, i) = R
      BY <2>2 DEF PendingIn
    <3> HIDE DEF R
    <3> QED
      BY <1>1, <2>2, <3>1
  <2> QED
    BY <1>2, <2>1, <2>2
<1> HIDE DEF R
<1>5. Pends(L[p], i) \in Int /\ Pends(L2[p], i) \in Int
  BY <1>2
<1> QED
  BY <1>1, <1>3, <1>4, <1>5

-----------------------------------------------------------------------------
(* What a step of process p, which is then at m with current directory c   *)
(* and file f, has to keep.                                                *)

(* The step itself. *)
Moved(p, m, c, f) ==
  /\ m \in LocType /\ LocOK(m)
  /\ c \in Inums /\ f \in Inums \cup {NULL}
  /\ loc' = [loc EXCEPT ![p] = m]
  /\ cwd' = [cwd EXCEPT ![p] = c] /\ file' = [file EXCEPT ![p] = f]
  /\ stable' \in DiskType /\ (stable' = stable \/ StableOK')
  /\ calls' \in Nat /\ crashes' \in Nat
  /\ outstanding' = IF m.pc = "idle" THEN outstanding \ {p} ELSE outstanding \cup {p}
  /\ fs' \in FsType /\ Cached(fs')

(* What p holds afterwards. *)
HoldsOK(p, m, c, f) ==
  /\ HeldOK(fs', p, m)
  /\ fs'.disk[c].type # "none" /\ (f # NULL => fs'.disk[f].type # "none")
  /\ NoDots => HeldInUse(fs'.disk, m) /\ fs'.panic \in {""} \cup LackOfInodes

RefStep(p, m, c, f) ==
  \A i \in Inums :
    fs'.inode[i].ref =
      fs.inode[i].ref + Refs(i, m, c, f) - Refs(i, loc[p], cwd[p], file[p])

(* What the other processes hold stays what it is. *)
OthersKept(p) ==
  /\ \A q \in Procs \ {p}, x \in Inums :
       PlacesOf(x, loc[q], cwd[q], file[q]) # {} =>
         /\ fs.disk[x].type # "none" => fs'.disk[x].type = fs.disk[x].type
         /\ fs.inode[x].valid => fs'.inode[x].valid
  /\ \A x \in Inums :
       fs.lock[x] \notin {NULL, p} /\ fs.disk[x].type # "none" =>
         /\ fs'.lock[x] = fs.lock[x]
         /\ \A n \in Names \cup Dots : fs'.disk[x].ent[n] = fs.disk[x].ent[n]

LinkStep(p, m) ==
  \A i \in Inums :
    LinksTo(fs'.disk, i) + Pends(m, i) + fs.disk[i].nlink
      <= LinksTo(fs.disk, i) + Pends(loc[p], i) + fs'.disk[i].nlink

LEMMA InvFacts ==
  ASSUME SysIndInv
  PROVE  /\ TypeOK /\ RefCounts /\ Cached(fs) /\ InUseKept
         /\ \A p \in Procs : LocOK(loc[p]) /\ HeldOK(fs, p, loc[p])
         /\ Linked /\ DirsOK(fs.disk) /\ StableOK
         /\ NoDots => OnlyInodePanic /\ \A p \in Procs : HeldInUse(fs.disk, loc[p])
         /\ fs \in FsType /\ stable \in DiskType /\ loc \in [Procs -> LocType]
         /\ cwd \in [Procs -> Inums] /\ file \in [Procs -> Inums \cup {NULL}]
         /\ SysInv /\ fs.disk \in DiskType
BY FsFields DEF SysIndInv, SysInv, TypeOK

LEMMA InUse ==
  ASSUME SysIndInv, NEW q \in Procs
  PROVE  /\ cwd[q] \in Inums /\ fs.disk[cwd[q]].type # "none"
         /\ file[q] \in Inums \cup {NULL}
         /\ file[q] # NULL => file[q] \in Inums /\ fs.disk[file[q]].type # "none"
<1>1. cwd[q] \in Inums /\ cwd[q] # NULL /\ file[q] \in Inums \cup {NULL}
  BY InvFacts, Consts
<1>2. \A i \in {cwd[q], file[q]} \ {NULL} : fs.disk[i].type # "none"
  BY InvFacts DEF InUseKept
<1> QED
  BY <1>1, <1>2

LEMMA Frame ==
  ASSUME SysIndInv, NEW p \in Procs, NEW m, NEW c, NEW f,
         Moved(p, m, c, f), HoldsOK(p, m, c, f), RefStep(p, m, c, f), OthersKept(p),
         LinkStep(p, m), DirsOK(fs'.disk)
  PROVE  SysIndInv'
<1>0. /\ TypeOK /\ RefCounts /\ Cached(fs) /\ InUseKept /\ Linked /\ StableOK
      /\ \A q \in Procs : LocOK(loc[q]) /\ HeldOK(fs, q, loc[q])
      /\ NoDots => OnlyInodePanic /\ \A q \in Procs : HeldInUse(fs.disk, loc[q])
      /\ fs \in FsType /\ stable \in DiskType /\ loc \in [Procs -> LocType]
      /\ cwd \in [Procs -> Inums] /\ file \in [Procs -> Inums \cup {NULL}]
  BY InvFacts
<1>1. /\ loc'[p] = m /\ cwd'[p] = c /\ file'[p] = f
      /\ \A q \in Procs : q # p => loc'[q] = loc[q] /\ cwd'[q] = cwd[q] /\ file'[q] = file[q]
  BY <1>0 DEF Moved
<1>2. TypeOK'
  <2>1. loc' \in [Procs -> LocType] /\ cwd' \in [Procs -> Inums]
        /\ file' \in [Procs -> Inums \cup {NULL}]
    BY <1>0 DEF Moved
  <2>2. outstanding' = {q \in Procs : loc'[q].pc # "idle"}
    BY <1>0, <1>1 DEF Moved, TypeOK
  <2> QED
    BY <1>0, <2>1, <2>2 DEF Moved, TypeOK
<1>3. \A q \in Procs : LocOK(loc'[q])
  BY <1>0, <1>1 DEF Moved
<1>4. RefCounts'
  <2>1. ASSUME NEW i \in Inums PROVE fs'.inode[i].ref = Cardinality(Holders(i)')
    <3>1. Holders(i) = HoldersIn(i, loc, cwd, file)
      BY <1>0, HoldersIs
    <3>2. Holders(i)' = HoldersIn(i, loc', cwd', file')
      BY <1>2, <1>3, HoldersIsNext DEF TypeOK
    <3>3. Cardinality(HoldersIn(i, loc', cwd', file')) =
            Cardinality(HoldersIn(i, loc, cwd, file))
              + Refs(i, loc'[p], cwd'[p], file'[p]) - Refs(i, loc[p], cwd[p], file[p])
      <4>1. \A q \in Procs : q # p => loc'[q] = loc[q] /\ cwd'[q] = cwd[q] /\ file'[q] = file[q]
        BY <1>1
      <4> QED
        BY <4>1, Recount
    <3> QED
      BY <1>0, <1>1, <3>1, <3>2, <3>3 DEF RefCounts, RefStep
  <2> QED
    BY <2>1 DEF RefCounts
<1>5. ASSUME NEW q \in Procs, q # p
      PROVE  /\ HeldOK(fs', q, loc'[q]) /\ fs'.disk[cwd'[q]].type # "none"
             /\ file'[q] # NULL => fs'.disk[file'[q]].type # "none"
             /\ NoDots => HeldInUse(fs'.disk, loc'[q])
  <2> DEFINE l == loc[q]
  <2>1. l \in LocType /\ loc'[q] = l /\ cwd'[q] = cwd[q] /\ file'[q] = file[q]
    BY <1>0, <1>1, <1>5
  <2>2. ASSUME NEW x \in Inums, PlacesOf(x, l, cwd[q], file[q]) # {}
        PROVE  /\ fs.disk[x].type # "none" => fs'.disk[x].type = fs.disk[x].type
               /\ fs.inode[x].valid => fs'.inode[x].valid /\ fs.disk[x].type # "none"
    BY <1>0, <1>5, <2>2 DEF OthersKept, Cached
  <2>3. ASSUME NEW x \in Inums, x = l.at \/ x = l.ip \/ x = l.dp \/ x = cwd[q] \/ x = file[q]
        PROVE  /\ fs.disk[x].type # "none" => fs'.disk[x].type = fs.disk[x].type
               /\ fs.inode[x].valid => fs'.inode[x].valid /\ fs.disk[x].type # "none"
    <3>1. PlacesOf(x, l, cwd[q], file[q]) # {}
      BY <2>3 DEF PlacesOf, Places
    <3> QED
      BY <2>2, <3>1
  <2>4. ASSUME NEW n \in DOMAIN l.put
        PROVE  /\ l.put[n] \in Inums
               /\ fs.disk[l.put[n]].type # "none" =>
                    fs'.disk[l.put[n]].type = fs.disk[l.put[n]].type
    <3>1. l.put \in Seq(Inums) /\ Len(l.put) <= 2 /\ Len(l.put) \in Nat
      BY <1>0, <2>1, LenProperties DEF LocType, LocOK
    <3>2. n \in 1 .. Len(l.put) /\ l.put[n] \in Inums
      BY <3>1, LenProperties, ElementOfSeq
    <3>3. n = 1 \/ n = 2
      BY <3>1, <3>2
    <3>4. Nth(l.put, n) = l.put[n]
      BY <3>1, <3>2 DEF Nth
    <3>5. PlacesOf(l.put[n], l, cwd[q], file[q]) # {}
      BY <3>3, <3>4 DEF PlacesOf, Places
    <3> QED
      BY <2>2, <3>2, <3>5
  <2>5. l.at \in Inums \cup {NULL} /\ l.ip \in Inums \cup {NULL} /\ l.dp \in Inums \cup {NULL}
    BY <2>1 DEF LocType
  <2>6. q # NULL
    BY Consts
  <2>7. \A x \in Inums : fs.lock[x] = q /\ fs.disk[x].type # "none" =>
          /\ fs'.lock[x] = q /\ \A n \in Names \cup Dots : fs'.disk[x].ent[n] = fs.disk[x].ent[n]
    BY <1>5, <2>6 DEF OthersKept
  <2>8. HeldOK(fs', q, l)
    <3>1. HeldOK(fs, q, l) /\ LocOK(l)
      BY <1>0
    <3>2. l.dp # NULL => fs'.inode[l.dp].valid /\ fs'.disk[l.dp].type = "dir"
      BY <2>3, <2>5, <3>1 DEF HeldOK
    <3>3. l.op = "link2" /\ l.ip # NULL =>
            fs'.inode[l.ip].valid /\ fs'.disk[l.ip].type # "dir"
      BY <2>3, <2>5, <3>1 DEF HeldOK
    <3>4. Goal(l) \in {"made", "unlinked"} => fs'.inode[l.ip].valid /\ fs'.lock[l.ip] = q
      <4>1. Goal(l) \in {"made", "unlinked"} => l.ip # NULL
        BY <3>1 DEF LocOK, HasIp
      <4> QED
        BY <2>3, <2>5, <2>7, <3>1, <4>1 DEF HeldOK
    <3>5. Goal(l) \in {"entry", "notempty"} => l.dp # NULL
      BY <3>1 DEF LocOK, HasDp
    <3>6. Goal(l) \in {"entry", "notempty"} => fs'.lock[l.dp] = q
      BY <2>5, <2>7, <3>1, <3>5 DEF HeldOK
    <3>7. Goal(l) = "entry" => l.name \in Names /\ fs'.disk[l.dp].ent[l.name] = l.ip
      BY <2>5, <2>7, <3>1, <3>5 DEF HeldOK
    <3> QED
      BY <3>2, <3>3, <3>4, <3>6, <3>7 DEF HeldOK
  <2>9. /\ fs'.disk[cwd[q]].type # "none"
        /\ file[q] # NULL => fs'.disk[file[q]].type # "none"
    BY <2>3, InUse
  <2>10. ASSUME NoDots PROVE HeldInUse(fs'.disk, l)
    <3>1. HeldInUse(fs.disk, l)
      BY <1>0, <2>10
    <3>2. \A x \in {l.at, l.ip, l.dp} \ {NULL} : fs'.disk[x].type # "none"
      BY <2>3, <2>5, <3>1 DEF HeldInUse
    <3>3. \A n \in DOMAIN l.put :
            (l.pc = "iput2" /\ n = 1) \/ fs'.disk[l.put[n]].type # "none"
      BY <2>4, <3>1 DEF HeldInUse
    <3> QED
      BY <3>1, <3>2, <3>3 DEF HeldInUse
  <2> QED
    BY <2>1, <2>8, <2>9, <2>10
<1>6. \A q \in Procs : HeldOK(fs', q, loc'[q])
  BY <1>1, <1>5 DEF HoldsOK
<1>7. InUseKept'
  BY <1>1, <1>5 DEF HoldsOK, InUseKept
<1>8. NoDots => OnlyInodePanic' /\ \A q \in Procs : HeldInUse(fs'.disk, loc'[q])
  BY <1>1, <1>5 DEF HoldsOK, OnlyInodePanic
<1>9. Linked'
  <2>1. ASSUME NEW i \in Inums
        PROVE  LinksTo(fs'.disk, i) + Cardinality(Pending(i)') <= fs'.disk[i].nlink
    <3>1. Cardinality(PendingIn(loc', i)) =
            Cardinality(PendingIn(loc, i)) + Pends(m, i) - Pends(loc[p], i)
      <4>1. \A q \in Procs : q # p => loc'[q] = loc[q]
        BY <1>1
      <4>2. Cardinality(PendingIn(loc', i)) =
              Cardinality(PendingIn(loc, i)) + Pends(loc'[p], i) - Pends(loc[p], i)
        BY <4>1, PendingChange
      <4> QED
        BY <1>1, <4>2
    <3>2. /\ LinksTo(fs.disk, i) + Cardinality(PendingIn(loc, i)) <= fs.disk[i].nlink
          /\ Pending(i)' = PendingIn(loc', i)
      BY <1>0, PendingIs DEF Linked
    <3>3. LinksTo(fs'.disk, i) + Pends(m, i) + fs.disk[i].nlink
            <= LinksTo(fs.disk, i) + Pends(loc[p], i) + fs'.disk[i].nlink
      BY DEF LinkStep
    <3>4. /\ LinksTo(fs.disk, i) \in Nat /\ LinksTo(fs'.disk, i) \in Nat
          /\ Cardinality(PendingIn(loc, i)) \in Nat
      BY LinksFinite, PendingFinite
    <3>5. fs.disk[i].nlink \in Int /\ fs'.disk[i].nlink \in Int
      BY <1>0, FsFields, DiskFields DEF Moved
    <3>6. Pends(m, i) \in Nat /\ Pends(loc[p], i) \in Nat
      BY DEF Pends
    <3> QED
      BY <3>1, <3>2, <3>3, <3>4, <3>5, <3>6
  <2> QED
    BY <2>1 DEF Linked
<1>10. StableOK'
  BY <1>0 DEF StableOK, Moved
<1>11. OnlyInodePanic'
  BY <1>8 DEF OnlyInodePanic
<1> QED
  BY <1>2, <1>3, <1>4, <1>6, <1>7, <1>8, <1>9, <1>10, <1>11 DEF SysIndInv, SysInv, Moved

-----------------------------------------------------------------------------
(* Steps that leave the disk alone.                                        *)

(* No lock of another process is touched, and what is referred to stays    *)
(* valid.                                                                  *)
Gentle(s, t, p) ==
  /\ t.disk = s.disk
  /\ \A x \in Inums :
       /\ s.lock[x] \notin {NULL, p} => t.lock[x] = s.lock[x]
       /\ s.inode[x].valid /\ s.inode[x].ref > 0 => t.inode[x].valid

LEMMA Quiet ==
  ASSUME SysIndInv, NEW p \in Procs, NEW m, NEW c, NEW f,
         Moved(p, m, c, f), HoldsOK(p, m, c, f), RefStep(p, m, c, f),
         Gentle(fs, fs', p), \A i \in Inums : Pends(m, i) = Pends(loc[p], i)
  PROVE  SysIndInv'
<1>1. OthersKept(p)
  <2>1. ASSUME NEW q \in Procs \ {p}, NEW x \in Inums,
               PlacesOf(x, loc[q], cwd[q], file[q]) # {}
        PROVE  fs.inode[x].ref > 0
    BY <2>1, InvFacts, Referred
  <2> QED
    BY <2>1 DEF OthersKept, Gentle
<1>2. LinkStep(p, m)
  <2>1. ASSUME NEW i \in Inums
        PROVE  LinksTo(fs.disk, i) \in Nat /\ fs.disk[i].nlink \in Int /\ Pends(m, i) \in Nat
    BY InvFacts, LinksFinite, FsFields, DiskFields DEF Pends
  <2> QED
    BY <2>1 DEF LinkStep, Gentle
<1>3. DirsOK(fs'.disk)
  BY InvFacts DEF Gentle
<1> QED
  BY <1>1, <1>2, <1>3, Frame

-----------------------------------------------------------------------------
(* Where a process is after a step.                                        *)

(* To's end: a process with nothing to put goes on. *)
Settled(l) == IF l.pc = "iput" /\ l.put = <<>> THEN [l EXCEPT !.pc = l.k] ELSE l

LEMMA ToIs ==
  ASSUME NEW p, NEW s, NEW l, To(p, s, l)
  PROVE  /\ stable' = stable /\ crashes' = crashes
         /\ s.panic = "" => fs' = s /\ loc' = [loc EXCEPT ![p] = Settled(l)]
         /\ s.panic # "" => fs' = [fs EXCEPT !.panic = s.panic] /\ loc' = loc
BY DEF To, Settled

PutTo(l, is, k, m) ==
  /\ m \in LocType /\ m.op = l.op /\ m.at = l.at /\ m.ip = l.ip /\ m.dp = l.dp
  /\ m.path = l.path /\ m.parent = l.parent /\ m.name = l.name /\ m.new = l.new
  /\ m.put = is /\ Goal(m) = k /\ m.pc # "iput2"
  /\ (is # <<>>) <=> (m.pc \in {"iput", "iput2"})
  /\ is = <<>> => m.pc = k

LEMMA PutIs ==
  ASSUME NEW l \in LocType, NEW is \in Seq(Inums), NEW k \in Goals
  PROVE  PutTo(l, is, k, Settled(Put(l, is, k)))
<1> DEFINE a == Put(l, is, k)
<1>1. /\ a \in LocType /\ a.op = l.op /\ a.at = l.at /\ a.ip = l.ip /\ a.dp = l.dp
      /\ a.path = l.path /\ a.parent = l.parent /\ a.name = l.name /\ a.new = l.new
      /\ a.put = is /\ a.pc = "iput" /\ a.k = k
  BY DEF Put, LocType
<1> HIDE DEF a
<1>2. CASE is # <<>>
  <2>1. Settled(a) = a
    BY <1>1, <1>2 DEF Settled
  <2> QED
    BY <1>1, <1>2, <2>1 DEF PutTo, Goal, a
<1>3. CASE is = <<>>
  <2> DEFINE b == [a EXCEPT !.pc = a.k]
  <2>1. Settled(a) = b
    BY <1>1, <1>3 DEF Settled
  <2>2. /\ b \in LocType /\ b.op = a.op /\ b.at = a.at /\ b.ip = a.ip /\ b.dp = a.dp
        /\ b.path = a.path /\ b.parent = a.parent /\ b.name = a.name /\ b.new = a.new
        /\ b.put = a.put /\ b.pc = k
    BY <1>1 DEF LocType
  <2>3. k \notin {"iput", "iput2"}
    BY DEF Goals
  <2> HIDE DEF b
  <2> QED
    BY <1>1, <1>3, <2>1, <2>2, <2>3 DEF PutTo, Goal, a
<1> QED
  BY <1>2, <1>3

LEMMA NoSeq == <<>> \in Seq(Inums) /\ Len(<<>>) = 0 /\ \A n \in {1, 2} : Nth(<<>>, n) = NULL
BY DEF Nth

LEMMA OneSeq ==
  ASSUME NEW i \in Inums
  PROVE  /\ <<i>> \in Seq(Inums) /\ <<i>> # <<>> /\ Len(<<i>>) = 1
         /\ Nth(<<i>>, 1) = i /\ Nth(<<i>>, 2) = NULL /\ DOMAIN <<i>> = {1} /\ <<i>>[1] = i
BY DEF Nth

LEMMA TwoSeq ==
  ASSUME NEW i \in Inums, NEW j \in Inums
  PROVE  /\ <<i, j>> \in Seq(Inums) /\ <<i, j>> # <<>> /\ Len(<<i, j>>) = 2
         /\ Nth(<<i, j>>, 1) = i /\ Nth(<<i, j>>, 2) = j
         /\ DOMAIN <<i, j>> = {1, 2} /\ <<i, j>>[1] = i /\ <<i, j>>[2] = j
BY DEF Nth

LEMMA Appended ==
  ASSUME NEW i \in Inums, NEW j \in Inums
  PROVE  Append(<<i>>, j) = <<i, j>> /\ Append(<<>>, j) = <<j>>
<1> DEFINE a == Append(<<i>>, j)
           b == Append(<<>>, j)
<1>1. a \in Seq(Inums) /\ Len(a) = 2 /\ a[1] = i /\ a[2] = j
  BY OneSeq, AppendProperties
<1>2. b \in Seq(Inums) /\ Len(b) = 1 /\ b[1] = j
  BY NoSeq, AppendProperties
<1> HIDE DEF a, b
<1>3. a = <<i, j>>
  BY <1>1, TwoSeq, SeqEqual
<1>4. b = <<j>>
  BY <1>2, OneSeq, SeqEqual
<1> QED
  BY <1>3, <1>4 DEF a, b

(* What LocOK says of a process at l that goes on at g. *)
Parent(l) == (l.parent = TRUE) <=> (l.op \in ParentOps)

IpAt(op, g) ==
  \/ g \in {"exists", "made", "entry", "unlinked"}
  \/ op \in {"open", "chdir", "link"} /\ g = "got"
  \/ op = "link2" /\ g \in {"walk", "got", "undo", "notempty"}

DpAt(op, g) == g \in {"entry", "notempty"} \/ (op \in ParentOps /\ g = "got")

OpAt(op, g) ==
  /\ op # "none" /\ g # "idle"
  /\ g \in {"exists", "made"} => op \in Makes
  /\ g \in {"entry", "unlinked"} => op = "unlink"
  /\ g = "notempty" => op \in {"unlink", "link2"}
  /\ g = "undo" => op = "link2"
  /\ op = "close" => g = "end"

RestAt(l, g) ==
  /\ g = "walk" => l.path # <<>> /\ Parent(l)
  /\ l.op = "link" => l.new \in Paths
  /\ g = "got" /\ l.op \in ParentOps => l.name \in Names \cup Dots

LEMMA LocFits ==
  ASSUME NEW m \in LocType, OpAt(m.op, Goal(m)), RestAt(m, Goal(m)),
         (m.at # NULL) <=> (Goal(m) = "walk"),
         (m.ip # NULL) <=> IpAt(m.op, Goal(m)), (m.dp # NULL) <=> DpAt(m.op, Goal(m)),
         (m.put # <<>>) <=> (m.pc \in {"iput", "iput2"}), Len(m.put) <= 2
  PROVE  LocOK(m)
<1>1. m.parent \in BOOLEAN
  BY DEF LocType
<1>2. Goal(m) = "walk" => m.path # <<>> /\ (m.parent <=> m.op \in ParentOps)
  BY <1>1 DEF RestAt, Parent
<1>3. m.op # "none" /\ Goal(m) # "idle"
  BY DEF OpAt
<1>4. m.pc # "idle" /\ (m.pc \in {"iput", "iput2"} => m.k # "idle")
  BY <1>3 DEF Goal
<1>5. (m.ip # NULL) <=> HasIp(m)
  BY DEF HasIp, IpAt
<1>6. (m.dp # NULL) <=> HasDp(m)
  BY DEF HasDp, DpAt
<1>7. /\ Goal(m) \in {"exists", "made"} => m.op \in Makes
      /\ Goal(m) \in {"entry", "unlinked"} => m.op = "unlink"
      /\ Goal(m) = "notempty" => m.op \in {"unlink", "link2"}
      /\ Goal(m) = "undo" => m.op = "link2"
      /\ m.op = "close" => Goal(m) = "end"
  BY DEF OpAt
<1>8. /\ m.op = "link" => m.new \in Paths
      /\ Goal(m) = "got" /\ m.op \in ParentOps => m.name \in Names \cup Dots
  BY DEF RestAt
<1> QED
  BY <1>2, <1>3, <1>4, <1>5, <1>6, <1>7, <1>8 DEF LocOK

LEMMA LocHas ==
  ASSUME NEW l \in LocType, LocOK(l), l.pc # "idle"
  PROVE  /\ OpAt(l.op, Goal(l)) /\ RestAt(l, Goal(l))
         /\ (l.at # NULL) <=> (Goal(l) = "walk")
         /\ (l.ip # NULL) <=> IpAt(l.op, Goal(l))
         /\ (l.dp # NULL) <=> DpAt(l.op, Goal(l))
         /\ (l.put # <<>>) <=> (l.pc \in {"iput", "iput2"})
         /\ Len(l.put) <= 2 /\ l.put \in Seq(Inums)
<1>1. l.parent \in BOOLEAN /\ l.put \in Seq(Inums)
  BY DEF LocType
<1>2. RestAt(l, Goal(l))
  BY <1>1 DEF LocOK, RestAt, Parent
<1>3. OpAt(l.op, Goal(l))
  BY DEF LocOK, OpAt, Goal
<1>4. (l.ip # NULL) <=> IpAt(l.op, Goal(l))
  BY DEF LocOK, HasIp, IpAt
<1>5. (l.dp # NULL) <=> DpAt(l.op, Goal(l))
  BY DEF LocOK, HasDp, DpAt
<1>6. /\ (l.at # NULL) <=> (Goal(l) = "walk")
      /\ (l.put # <<>>) <=> (l.pc \in {"iput", "iput2"})
      /\ Len(l.put) <= 2
  BY DEF LocOK
<1> QED
  BY <1>1, <1>2, <1>3, <1>4, <1>5, <1>6

-----------------------------------------------------------------------------
(* Path lookup.                                                            *)

(* A process that looks up a path, for a call that has begun. *)
Looking(l) ==
  /\ l \in LocType /\ l.op \in {"open", "chdir", "link"} \cup ParentOps
  /\ Parent(l)
  /\ (l.ip # NULL) <=> (l.op = "link2")
  /\ l.dp = NULL /\ (l.op = "link" => l.new \in Paths)

(* Where it is after Walk. *)
WalkTo(l, is, i, names, m) ==
  /\ m \in LocType /\ LocOK(m) /\ m.pc # "idle" /\ m.pc # "iput2"
  /\ m.op = l.op /\ m.dp = NULL /\ m.name = l.name /\ (m.op = "link2" => m.ip = l.ip)
  /\ m.path \in {names, <<>>}
  /\ Goal(m) \in {"walk", "got", "end", "undo"}
  /\ m.ip # NULL => m.ip = i \/ m.ip = l.ip
  /\ m.at # NULL => m.at = i
  /\ \A n \in DOMAIN m.put : m.put[n] = i \/ (n \in DOMAIN is /\ m.put[n] = is[n])
  /\ \A x \in Inums : \A c, f :
       Refs(x, m, c, f) = Eq(i, x) + Eq(Nth(is, 1), x) + Eq(l.ip, x) + Eq(c, x) + Eq(f, x)
  /\ \A x \in Inums : Pends(m, x) = IF l.op = "link2" THEN Eq(l.ip, x) ELSE 0

OneOrNone(is) == is = <<>> \/ \E a \in Inums : is = <<a>>

LEMMA ListIs ==
  ASSUME NEW is, OneOrNone(is)
  PROVE  is \in Seq(Inums) /\ Nth(is, 2) = NULL /\ Len(is) <= 2
<1>1. CASE is = <<>>
  BY <1>1, NoSeq
<1>2. ASSUME NEW a \in Inums, is = <<a>>
      PROVE  is \in Seq(Inums) /\ Nth(is, 2) = NULL /\ Len(is) <= 2
  BY <1>2, OneSeq
<1> QED
  BY <1>1, <1>2 DEF OneOrNone

LEMMA ListPlus ==
  ASSUME NEW is, OneOrNone(is), NEW i \in Inums
  PROVE  /\ Append(is, i) \in Seq(Inums) /\ Append(is, i) # <<>> /\ Len(Append(is, i)) <= 2
         /\ \A n \in DOMAIN Append(is, i) :
              Append(is, i)[n] = i \/ (n \in DOMAIN is /\ Append(is, i)[n] = is[n])
         /\ \A x \in Inums : Eq(Nth(Append(is, i), 1), x) + Eq(Nth(Append(is, i), 2), x)
                               = Eq(i, x) + Eq(Nth(is, 1), x)
<1>0. \A x \in Inums : Eq(NULL, x) = 0 /\ \A y : Eq(y, x) \in {0, 1}
  BY Consts DEF Eq
<1>1. CASE is = <<>>
  <2>1. Append(is, i) = <<i>>
    BY <1>1, Appended
  <2>2. Nth(is, 1) = NULL
    BY <1>1, NoSeq
  <2>3. \A x \in Inums : Eq(Nth(<<i>>, 1), x) + Eq(Nth(<<i>>, 2), x) = Eq(i, x) + Eq(NULL, x)
    BY <1>0, OneSeq
  <2> QED
    BY <2>1, <2>2, <2>3, OneSeq
<1>2. ASSUME NEW a \in Inums, is = <<a>>
      PROVE  /\ Append(is, i) \in Seq(Inums) /\ Append(is, i) # <<>> /\ Len(Append(is, i)) <= 2
             /\ \A n \in DOMAIN Append(is, i) :
                  Append(is, i)[n] = i \/ (n \in DOMAIN is /\ Append(is, i)[n] = is[n])
             /\ \A x \in Inums : Eq(Nth(Append(is, i), 1), x) + Eq(Nth(Append(is, i), 2), x)
                                   = Eq(i, x) + Eq(Nth(is, 1), x)
  <2>1. Append(is, i) = <<a, i>>
    BY <1>2, Appended
  <2>2. Nth(is, 1) = a /\ DOMAIN is = {1} /\ is[1] = a
    BY <1>2, OneSeq
  <2>3. \A x \in Inums : Eq(Nth(<<a, i>>, 1), x) + Eq(Nth(<<a, i>>, 2), x) = Eq(i, x) + Eq(a, x)
    BY <1>0, TwoSeq
  <2> QED
    BY <2>1, <2>2, <2>3, TwoSeq
<1> QED
  BY <1>1, <1>2 DEF OneOrNone

LEMMA WalkIs ==
  ASSUME NEW l, Looking(l), NEW is, OneOrNone(is),
         NEW i \in Inums, NEW names \in Seq(Names \cup Dots)
  PROVE  WalkTo(l, is, i, names, Settled(Walk(l, is, i, names)))
<1>0. /\ l \in LocType /\ l.ip \in Inums \cup {NULL} /\ l.op # "none" /\ l.op # "close"
      /\ 0 \notin Inums /\ NULL \notin Inums /\ Parent(l) /\ l.parent \in BOOLEAN
      /\ <<>> \in Seq(Names \cup Dots)
  BY Consts DEF Looking, LocType, ParentOps, Makes
<1>1. is \in Seq(Inums) /\ Nth(is, 2) = NULL /\ Len(is) <= 2
  BY ListIs
<1>2. CASE names # <<>>
  <2> DEFINE w == [l EXCEPT !.at = i, !.path = names]
             m == Settled(Put(w, is, "walk"))
  <2>1. Walk(l, is, i, names) = Put(w, is, "walk")
    BY <1>2 DEF Walk
  <2>2. /\ w \in LocType /\ w.op = l.op /\ w.at = i /\ w.path = names /\ w.parent = l.parent
        /\ w.name = l.name /\ w.ip = l.ip /\ w.dp = l.dp /\ w.new = l.new
    BY <1>0 DEF LocType
  <2> HIDE DEF w
  <2>3. PutTo(w, is, "walk", m)
    BY <1>1, <2>2, PutIs DEF Goals
  <2> HIDE DEF m
  <2>4. /\ m \in LocType /\ m.op = l.op /\ m.at = i /\ m.path = names /\ m.parent = l.parent
        /\ m.name = l.name /\ m.ip = l.ip /\ m.dp = NULL /\ m.new = l.new
        /\ m.put = is /\ Goal(m) = "walk" /\ m.pc # "iput2" /\ m.pc # "idle"
        /\ (is # <<>>) <=> (m.pc \in {"iput", "iput2"})
    BY <2>2, <2>3 DEF PutTo, Looking, Goal
  <2>6. LocOK(m)
    <3>1. OpAt(m.op, Goal(m))
      BY <1>0, <2>4 DEF OpAt
    <3>2. RestAt(m, Goal(m))
      BY <1>0, <1>2, <2>4 DEF RestAt, Looking, Parent
    <3>3. (m.ip # NULL) <=> IpAt(m.op, Goal(m))
      BY <1>0, <2>4 DEF IpAt, Looking, ParentOps, Makes
    <3>4. (m.dp # NULL) <=> DpAt(m.op, Goal(m))
      BY <2>4 DEF DpAt
    <3> QED
      BY <1>0, <1>1, <2>4, <3>1, <3>2, <3>3, <3>4, LocFits
  <2>7. \A x \in Inums : \A c, f :
          Refs(x, m, c, f) = Eq(i, x) + Eq(Nth(is, 1), x) + Eq(l.ip, x) + Eq(c, x) + Eq(f, x)
    BY <1>0, <1>1, <2>4 DEF Refs, Eq
  <2>8. \A x \in Inums : Pends(m, x) = IF l.op = "link2" THEN Eq(l.ip, x) ELSE 0
    BY <2>4 DEF Pends, Eq
  <2> QED
    BY <2>1, <2>4, <2>6, <2>7, <2>8 DEF WalkTo, m
<1>3. CASE names = <<>> /\ l.op \in ParentOps
  <2> DEFINE w == [l EXCEPT !.at = NULL, !.path = <<>>]
             is2 == Append(is, i)
             g == Lost(l)
             m == Settled(Put(w, is2, g))
  <2>1. Walk(l, is, i, names) = Put(w, is2, g)
    BY <1>0, <1>3 DEF Walk, Parent
  <2>2. /\ w \in LocType /\ w.op = l.op /\ w.at = NULL /\ w.path = <<>> /\ w.parent = l.parent
        /\ w.name = l.name /\ w.ip = l.ip /\ w.dp = l.dp /\ w.new = l.new
    BY <1>0 DEF LocType
  <2>3. is2 \in Seq(Inums) /\ is2 # <<>> /\ Len(is2) <= 2
    BY ListPlus
  <2>4. \A n \in DOMAIN is2 : is2[n] = i \/ (n \in DOMAIN is /\ is2[n] = is[n])
    BY ListPlus
  <2>5. \A x \in Inums : Eq(Nth(is2, 1), x) + Eq(Nth(is2, 2), x) = Eq(i, x) + Eq(Nth(is, 1), x)
    BY ListPlus
  <2>6. g \in Goals /\ g \in {"end", "undo"} /\ ((g = "undo") <=> (l.op = "link2"))
    BY DEF Lost, Goals
  <2> HIDE DEF w, is2, g
  <2>7. PutTo(w, is2, g, m)
    BY <2>2, <2>3, <2>6, PutIs
  <2>70. WalkTo(l, is, i, names, m)
    <3> HIDE DEF m
    <3>8. /\ m \in LocType /\ m.op = l.op /\ m.at = NULL /\ m.path = <<>> /\ m.parent = l.parent
          /\ m.name = l.name /\ m.ip = l.ip /\ m.dp = NULL /\ m.new = l.new
          /\ m.put = is2 /\ Goal(m) = g /\ m.pc = "iput"
      BY <2>2, <2>3, <2>7 DEF PutTo, Looking
    <3>10. LocOK(m)
      <4>1. OpAt(m.op, Goal(m))
        BY <1>0, <2>6, <3>8 DEF OpAt
      <4>2. RestAt(m, Goal(m))
        BY <1>3, <2>6, <3>8 DEF RestAt, Looking
      <4>3. (m.ip # NULL) <=> IpAt(m.op, Goal(m))
        BY <1>0, <1>3, <2>6, <3>8 DEF IpAt, Looking, ParentOps, Makes
      <4>4. (m.dp # NULL) <=> DpAt(m.op, Goal(m))
        BY <2>6, <3>8 DEF DpAt
      <4> QED
        BY <1>0, <2>3, <2>6, <3>8, <4>1, <4>2, <4>3, <4>4, LocFits
    <3>11. \A x \in Inums : \A c, f :
            Refs(x, m, c, f) = Eq(i, x) + Eq(Nth(is, 1), x) + Eq(l.ip, x) + Eq(c, x) + Eq(f, x)
      <4>1. \A x \in Inums : Eq(NULL, x) = 0 /\ \A y : Eq(y, x) \in Nat
        BY <1>0 DEF Eq
      <4>2. \A x \in Inums : \A c, f :
              Refs(x, m, c, f) = Eq(NULL, x) + Eq(l.ip, x) + Eq(NULL, x) + Eq(Nth(is2, 1), x)
                                   + Eq(Nth(is2, 2), x) + Eq(c, x) + Eq(f, x)
        BY <3>8 DEF Refs
      <4> QED
        <5>1. ASSUME NEW x \in Inums, NEW c, NEW f
              PROVE  Refs(x, m, c, f) =
                       Eq(i, x) + Eq(Nth(is, 1), x) + Eq(l.ip, x) + Eq(c, x) + Eq(f, x)
          <6>1. /\ Eq(NULL, x) = 0 /\ Eq(c, x) \in Nat /\ Eq(f, x) \in Nat
                /\ Eq(l.ip, x) \in Nat /\ Eq(i, x) \in Nat /\ Eq(Nth(is, 1), x) \in Nat
                /\ Eq(Nth(is2, 1), x) \in Nat /\ Eq(Nth(is2, 2), x) \in Nat
            BY <4>1
          <6>2. Refs(x, m, c, f) = Eq(NULL, x) + Eq(l.ip, x) + Eq(NULL, x) + Eq(Nth(is2, 1), x)
                                   + Eq(Nth(is2, 2), x) + Eq(c, x) + Eq(f, x)
            BY <4>2
          <6> QED
            BY <2>5, <6>1, <6>2
        <5> QED
          BY <5>1
    <3>12. \A x \in Inums : Pends(m, x) = IF l.op = "link2" THEN Eq(l.ip, x) ELSE 0
      BY <2>6, <3>8 DEF Pends, Eq
    <3>13. m.path \in {names, <<>>} /\ m.pc # "idle" /\ m.pc # "iput2"
           /\ Goal(m) \in {"walk", "got", "end", "undo"}
      BY <2>6, <3>8
    <3>14. \A n \in DOMAIN m.put : m.put[n] = i \/ (n \in DOMAIN is /\ m.put[n] = is[n])
      BY <2>4, <3>8
    <3> QED
      BY <3>8, <3>10, <3>11, <3>12, <3>13, <3>14 DEF WalkTo
  <2> QED
    BY <2>1, <2>70
<1>4. CASE names = <<>> /\ l.op \notin ParentOps
  <2> DEFINE w == [l EXCEPT !.at = NULL, !.path = <<>>, !.ip = i]
             m == Settled(Put(w, is, "got"))
  <2>1. Walk(l, is, i, names) = Put(w, is, "got")
    BY <1>0, <1>4 DEF Walk, Parent
  <2>2. /\ w \in LocType /\ w.op = l.op /\ w.at = NULL /\ w.path = <<>> /\ w.parent = l.parent
        /\ w.name = l.name /\ w.ip = i /\ w.dp = l.dp /\ w.new = l.new
    BY <1>0 DEF LocType
  <2>3. l.ip = NULL /\ l.op \in {"open", "chdir", "link"}
    BY <1>4 DEF Looking, ParentOps
  <2> HIDE DEF w
  <2>4. PutTo(w, is, "got", m)
    BY <1>1, <2>2, PutIs DEF Goals
  <2> HIDE DEF m
  <2>5. /\ m \in LocType /\ m.op = l.op /\ m.at = NULL /\ m.path = <<>> /\ m.parent = l.parent
        /\ m.name = l.name /\ m.ip = i /\ m.dp = NULL /\ m.new = l.new
        /\ m.put = is /\ Goal(m) = "got" /\ m.pc # "iput2" /\ m.pc # "idle"
        /\ (is # <<>>) <=> (m.pc \in {"iput", "iput2"})
    BY <2>2, <2>4 DEF PutTo, Looking, Goal
  <2>7. LocOK(m)
    <3>1. OpAt(m.op, Goal(m))
      BY <1>0, <2>5 DEF OpAt
    <3>2. RestAt(m, Goal(m))
      BY <1>4, <2>5 DEF RestAt, Looking
    <3>3. (m.ip # NULL) <=> IpAt(m.op, Goal(m))
      BY <1>0, <2>3, <2>5 DEF IpAt
    <3>4. (m.dp # NULL) <=> DpAt(m.op, Goal(m))
      BY <1>4, <2>5 DEF DpAt
    <3> QED
      BY <1>0, <1>1, <2>5, <3>1, <3>2, <3>3, <3>4, LocFits
  <2>8. \A x \in Inums : \A c, f :
          Refs(x, m, c, f) = Eq(i, x) + Eq(Nth(is, 1), x) + Eq(l.ip, x) + Eq(c, x) + Eq(f, x)
    BY <1>0, <1>1, <2>3, <2>5 DEF Refs, Eq
  <2>9. \A x \in Inums : Pends(m, x) = IF l.op = "link2" THEN Eq(l.ip, x) ELSE 0
    BY <2>3, <2>5 DEF Pends, Eq
  <2> QED
    BY <2>1, <2>3, <2>5, <2>7, <2>8, <2>9 DEF WalkTo, m
<1> QED
  BY <1>2, <1>3, <1>4

-----------------------------------------------------------------------------
(* Steps in general.                                                       *)

LEMMA EqIs ==
  ASSUME NEW x \in Inums, NEW y
  PROVE  Eq(x, y) = Eq(y, x) /\ Eq(y, x) \in {0, 1} /\ Eq(NULL, x) = 0
BY Consts DEF Eq

(* Process p between two steps. *)
Here(p, l) ==
  /\ l = loc[p] /\ l \in LocType /\ LocOK(l) /\ HeldOK(fs, p, l)
  /\ (NoDots => OnlyInodePanic /\ HeldInUse(fs.disk, l))
  /\ cwd[p] \in Inums /\ fs.disk[cwd[p]].type # "none"
  /\ file[p] \in Inums \cup {NULL}
  /\ (file[p] # NULL => file[p] \in Inums /\ fs.disk[file[p]].type # "none")
  /\ fs \in FsType /\ Cached(fs) /\ fs.disk \in DiskType
  /\ DirsOK(fs.disk) /\ Linked
  /\ outstanding \subseteq Procs /\ (l.pc # "idle" <=> p \in outstanding)
  /\ p # NULL

LEMMA HereIs ==
  ASSUME SysIndInv, NEW p \in Procs, NEW l, l = loc[p]
  PROVE  Here(p, l)
<1>1. p # NULL
  BY Consts
<1>2. outstanding = {q \in Procs : loc[q].pc # "idle"}
  BY InvFacts DEF TypeOK
<1> QED
  BY <1>1, <1>2, InvFacts, InUse DEF Here

LEMMA Stays ==
  ASSUME SysIndInv, NEW p \in Procs
  PROVE  /\ UNCHANGED cwd => cwd' = [cwd EXCEPT ![p] = cwd[p]]
         /\ UNCHANGED file => file' = [file EXCEPT ![p] = file[p]]
BY InvFacts

(* What a process at w, to put the inodes is and to go on at k, holds. *)
PutOK(w, is, k) ==
  /\ w \in LocType /\ is \in Seq(Inums) /\ Len(is) <= 2 /\ k \in Goals
  /\ OpAt(w.op, k) /\ RestAt(w, k)
  /\ (w.at # NULL) <=> (k = "walk")
  /\ (w.ip # NULL) <=> IpAt(w.op, k)
  /\ (w.dp # NULL) <=> DpAt(w.op, k)

PutHeld(s, p, w, is, k) ==
  /\ w.dp # NULL => s.inode[w.dp].valid /\ s.disk[w.dp].type = "dir"
  /\ w.op = "link2" /\ w.ip # NULL => s.inode[w.ip].valid /\ s.disk[w.ip].type # "dir"
  /\ k \in {"made", "unlinked"} => s.inode[w.ip].valid /\ s.lock[w.ip] = p
  /\ k \in {"entry", "notempty"} => s.lock[w.dp] = p
  /\ k = "entry" => w.name \in Names /\ s.disk[w.dp].ent[w.name] = w.ip

PutInUse(s, w, is) ==
  /\ s.panic = ""
  /\ \A i \in {w.at, w.ip, w.dp} \ {NULL} : s.disk[i].type # "none"
  /\ \A n \in DOMAIN is : s.disk[is[n]].type # "none"
  /\ w.path \in Seq(Names) /\ (w.name \in Names \/ w.name = NULL)

PutRefs(x, w, is, c, f) ==
  Eq(w.at, x) + Eq(w.ip, x) + Eq(w.dp, x) + Eq(Nth(is, 1), x) + Eq(Nth(is, 2), x)
    + Eq(c, x) + Eq(f, x)

PutPends(w, k, x) == IF w.ip = x /\ (w.op = "link2" \/ k = "unlinked") THEN 1 ELSE 0

(* The variables other than fs and loc. *)
Rest(p, c, f) ==
  /\ c \in Inums /\ f \in Inums \cup {NULL}
  /\ cwd' = [cwd EXCEPT ![p] = c] /\ file' = [file EXCEPT ![p] = f]
  /\ stable' = stable /\ calls' \in Nat /\ crashes' \in Nat
  /\ outstanding' = outstanding \cup {p}

PutRefStep(p, w, is, c, f) ==
  \A x \in Inums : fs'.inode[x].ref = fs.inode[x].ref + PutRefs(x, w, is, c, f)
                     - Refs(x, loc[p], cwd[p], file[p])

PutPendsAs(p, w, k) == \A x \in Inums : PutPends(w, k, x) = Pends(loc[p], x)

InUseAt(s, i) == i # NULL => s.disk[i].type # "none"

(* A step of p that leads to m, for w, is and k. *)
PutStep(p, m, w, is, k, c, f) ==
  /\ Rest(p, c, f) /\ PutOK(w, is, k)
  /\ fs' \in FsType /\ Cached(fs')
  /\ PutTo(w, is, k, m) /\ loc' = [loc EXCEPT ![p] = m]
  /\ PutHeld(fs', p, w, is, k) /\ (NoDots => PutInUse(fs', w, is))
  /\ InUseAt(fs', c) /\ InUseAt(fs', f)
  /\ PutRefStep(p, w, is, c, f)

LEMMA PutMove ==
  ASSUME SysIndInv, NEW p \in Procs, NEW m, NEW w, NEW is, NEW k, NEW c, NEW f,
         PutStep(p, m, w, is, k, c, f)
  PROVE  /\ Moved(p, m, c, f)
         /\ HoldsOK(p, m, c, f)
         /\ RefStep(p, m, c, f)
         /\ \A x \in Inums : Pends(m, x) = PutPends(w, k, x)
<1> USE DEF PutStep
<1>1. PutTo(w, is, k, m)
  OBVIOUS
<1>2. loc' = [loc EXCEPT ![p] = m]
  OBVIOUS
<1>3. /\ m \in LocType /\ m.op = w.op /\ m.at = w.at /\ m.ip = w.ip /\ m.dp = w.dp
      /\ m.path = w.path /\ m.parent = w.parent /\ m.name = w.name /\ m.new = w.new
      /\ m.put = is /\ Goal(m) = k /\ m.pc # "iput2"
      /\ (is # <<>>) <=> (m.pc \in {"iput", "iput2"})
  BY <1>1 DEF PutTo
<1>4. LocOK(m)
  <2>1. OpAt(m.op, Goal(m)) /\ RestAt(m, Goal(m))
    BY <1>3 DEF PutOK, RestAt, Parent
  <2> QED
    BY <1>3, <2>1, LocFits DEF PutOK
<1>5. m.pc # "idle"
  BY <1>3 DEF PutOK, OpAt, Goal
<1>6. Moved(p, m, c, f)
  <2>1. stable' \in DiskType
    BY InvFacts DEF Rest
  <2> QED
    BY <1>2, <1>3, <1>4, <1>5, <2>1 DEF Moved, Rest
<1>7. HeldOK(fs', p, m)
  BY <1>3 DEF HeldOK, PutHeld
<1>8. NoDots => HeldInUse(fs'.disk, m)
  BY <1>3 DEF HeldInUse, PutInUse
<1>9. HoldsOK(p, m, c, f)
  <2>1. c # NULL
    BY Consts DEF Rest
  <2> QED
    BY <1>7, <1>8, <2>1 DEF HoldsOK, PutInUse, InUseAt
<1>10. RefStep(p, m, c, f)
  <2>1. \A x : Refs(x, m, c, f) = PutRefs(x, w, is, c, f)
    BY <1>3 DEF Refs, PutRefs
  <2> QED
    BY <2>1 DEF RefStep, PutRefStep
<1>11. \A x \in Inums : Pends(m, x) = PutPends(w, k, x)
  BY <1>3 DEF Pends, PutPends
<1> QED
  BY <1>6, <1>9, <1>10, <1>11

LEMMA PutQuiet ==
  ASSUME SysIndInv, NEW p \in Procs, NEW m, NEW w, NEW is, NEW k, NEW c, NEW f,
         PutStep(p, m, w, is, k, c, f), Gentle(fs, fs', p), PutPendsAs(p, w, k)
  PROVE  SysIndInv'
<1>2. /\ Moved(p, m, c, f) /\ HoldsOK(p, m, c, f) /\ RefStep(p, m, c, f)
      /\ \A x \in Inums : Pends(m, x) = PutPends(w, k, x)
  BY PutMove
<1>3. \A x \in Inums : Pends(m, x) = Pends(loc[p], x)
  BY <1>2 DEF PutPendsAs
<1> QED
  BY <1>2, <1>3, Quiet

(* A step that goes on at once. *)
LEMMA GoIs ==
  ASSUME NEW m \in LocType, m.put = <<>>, m.pc \in Goals
  PROVE  PutTo(m, <<>>, m.pc, m) /\ Settled(m) = m
<1>1. m.pc \notin {"iput", "iput2"}
  BY DEF Goals
<1> QED
  BY <1>1 DEF PutTo, Goal, Settled

LEMMA PlusMinus == \A a, b \in Nat : a = a + b - b
OBVIOUS

LEMMA RefsNat ==
  ASSUME NEW x, NEW l, NEW c, NEW f
  PROVE  Refs(x, l, c, f) \in Nat
<1>1. \A y : Eq(y, x) \in Nat
  BY DEF Eq
<1> QED
  BY <1>1 DEF Refs

LEMMA RefNat ==
  ASSUME SysIndInv, NEW x \in Inums
  PROVE  fs.inode[x].ref \in Nat
<1>1. fs.inode \in [Inums -> InodeType]
  BY InvFacts, FsFields
<1> QED
  BY <1>1 DEF InodeType

(* A step that only panics. *)
LEMMA PanicStep ==
  ASSUME SysIndInv, NEW p \in Procs, NEW x \in Panics,
         NoDots => x \in {""} \cup LackOfInodes,
         fs' = [fs EXCEPT !.panic = x], loc' = loc, UNCHANGED <<cwd, file, stable, outstanding>>,
         calls' \in Nat, crashes' \in Nat
  PROVE  SysIndInv'
<1> DEFINE l == loc[p]
<1>1. Here(p, l)
  BY HereIs
<1>0. fs \in FsType
  BY InvFacts
<1>2. fs' \in FsType /\ fs'.disk = fs.disk /\ fs'.lock = fs.lock /\ fs'.inode = fs.inode
      /\ fs'.panic = x
  BY <1>0, FsFields DEF FsType
<1>3. Cached(fs')
  BY <1>1, <1>2 DEF Cached, Here
<1>4. Moved(p, l, cwd[p], file[p])
  <2>1. loc' = [loc EXCEPT ![p] = l]
    BY InvFacts
  <2>2. outstanding' = IF l.pc = "idle" THEN outstanding \ {p} ELSE outstanding \cup {p}
    BY <1>1 DEF Here
  <2> QED
    BY <1>1, <1>2, <1>3, <2>1, <2>2, Stays, InvFacts DEF Moved, Here
<1>5. HoldsOK(p, l, cwd[p], file[p])
  <2>1. HeldOK(fs', p, l)
    BY <1>1, <1>2 DEF Here, HeldOK
  <2> QED
    BY <1>1, <1>2, <2>1 DEF Here, HoldsOK
<1>6. RefStep(p, l, cwd[p], file[p])
  <2>1. ASSUME NEW i \in Inums
        PROVE  fs.inode[i].ref = fs.inode[i].ref + Refs(i, l, cwd[p], file[p])
                                   - Refs(i, l, cwd[p], file[p])
    <3>1. fs.inode[i].ref \in Nat /\ Refs(i, l, cwd[p], file[p]) \in Nat
      BY RefNat, RefsNat
    <3> QED
      BY <3>1, PlusMinus, Zenon
  <2> QED
    BY <1>2, <2>1 DEF RefStep
<1>7. Gentle(fs, fs', p)
  BY <1>2 DEF Gentle
<1> QED
  BY <1>4, <1>5, <1>6, <1>7, Quiet

-----------------------------------------------------------------------------
(* The start and the end of a call.                                        *)

LEMMA IdleIs ==
  /\ Idle \in LocType /\ Idle.op = "none" /\ Idle.pc = "idle" /\ Goal(Idle) = "idle"
  /\ Idle.at = NULL /\ Idle.ip = NULL /\ Idle.dp = NULL /\ Idle.name = NULL
  /\ Idle.new = NULL /\ Idle.put = <<>> /\ Idle.path = <<>> /\ Idle.parent = FALSE
  /\ LocOK(Idle) /\ \A d : HeldInUse(d, Idle)
  /\ \A s, p : HeldOK(s, p, Idle)
  /\ \A x \in Inums : /\ Pends(Idle, x) = 0
                      /\ \A c, f : Refs(x, Idle, c, f) = Eq(c, x) + Eq(f, x)
<1>1. <<>> \in Seq(Names \cup Dots) /\ <<>> \in Seq(Inums) /\ Len(<<>>) = 0
      /\ <<>> \in Seq(Names) /\ Nth(<<>>, 1) = NULL /\ Nth(<<>>, 2) = NULL
  BY NoSeq
<1>2. /\ Idle \in LocType /\ Idle.op = "none" /\ Idle.pc = "idle" /\ Idle.parent = FALSE
      /\ Idle.at = NULL /\ Idle.ip = NULL /\ Idle.dp = NULL /\ Idle.name = NULL
      /\ Idle.new = NULL /\ Idle.put = <<>> /\ Idle.path = <<>>
  BY <1>1 DEF Idle, LocType, Goals
<1>3. Goal(Idle) = "idle"
  BY <1>2 DEF Goal
<1>4. LocOK(Idle)
  BY <1>1, <1>2, <1>3 DEF LocOK, HasIp, HasDp
<1>5. \A d : HeldInUse(d, Idle)
  BY <1>1, <1>2, EmptySeq DEF HeldInUse
<1>6. \A s, p : HeldOK(s, p, Idle)
  BY <1>2, <1>3 DEF HeldOK
<1>7. ASSUME NEW x \in Inums
      PROVE  /\ Pends(Idle, x) = 0
             /\ \A c, f : Refs(x, Idle, c, f) = Eq(c, x) + Eq(f, x)
  BY <1>1, <1>2, <1>3, Consts DEF Pends, Refs, Eq
<1> QED
  BY <1>2, <1>3, <1>4, <1>5, <1>6, <1>7

LEMMA IdleHere ==
  ASSUME SysIndInv, NEW p \in Procs, At(p, {"none"}, "idle")
  PROVE  loc[p] = Idle /\ fs.panic = ""
BY InvFacts DEF LocOK, At

(* HoldsOK after a lookup step. *)
WalkUse(s, l, is, i, names) ==
  /\ s.panic = "" /\ s.disk[i].type # "none" /\ InUseAt(s, l.ip)
  /\ \A n \in DOMAIN is : s.disk[is[n]].type # "none"
  /\ names \in Seq(Names) /\ (l.name \in Names \/ l.name = NULL)

LinkHeld(s, l) == l.op = "link2" => s.inode[l.ip].valid /\ s.disk[l.ip].type # "dir"

LEMMA WalkHolds ==
  ASSUME NEW s, NEW p, NEW l, NEW is, NEW i, NEW names, NEW m, WalkTo(l, is, i, names, m),
         LinkHeld(s, l), NoDots => WalkUse(s, l, is, i, names)
  PROVE  HeldOK(s, p, m) /\ (NoDots => HeldInUse(s.disk, m) /\ s.panic = "")
<1>1. HeldOK(s, p, m)
  BY DEF WalkTo, HeldOK, LinkHeld
<1>2. ASSUME NoDots PROVE HeldInUse(s.disk, m) /\ s.panic = ""
  <2>1. WalkUse(s, l, is, i, names)
    BY <1>2
  <2>2. \A j \in {m.at, m.ip, m.dp} \ {NULL} : s.disk[j].type # "none"
    BY <2>1 DEF WalkTo, WalkUse, InUseAt
  <2>3. \A n \in DOMAIN m.put : s.disk[m.put[n]].type # "none"
    BY <2>1 DEF WalkTo, WalkUse
  <2>4. m.path \in Seq(Names)
    <3>1. <<>> \in Seq(Names)
      OBVIOUS
    <3> QED
      BY <2>1, <3>1 DEF WalkTo, WalkUse
  <2>5. m.name \in Names \/ m.name = NULL
    BY <2>1 DEF WalkTo, WalkUse
  <2> QED
    BY <2>1, <2>2, <2>3, <2>4, <2>5 DEF HeldInUse, WalkUse
<1> QED
  BY <1>1, <1>2

LEMMA FirstIs ==
  ASSUME SysIndInv, NEW p \in Procs, NEW path \in Paths
  PROVE  /\ First(p, path) \in Inums /\ fs.disk[First(p, path)].type # "none"
         /\ path.names \in Seq(Names \cup Dots) /\ (NoDots => path.names \in Seq(Names))
<1>1. cwd[p] \in Inums /\ fs.disk[cwd[p]].type # "none" /\ ROOTINO \in Inums
  BY InUse, Consts
<1>2. fs.disk[ROOTINO].type = "dir"
  BY InvFacts DEF DirsOK
<1> QED
  BY <1>1, <1>2, Consts DEF First, NoDots

LookupOps == {"open", "chdir", "link", "create", "mkdir", "mknod", "unlink"}

(* The call finds no entry in the inode cache for where its path starts.   *)
LEMMA BeginPanics ==
  ASSUME SysIndInv, NEW p \in Procs, NEW op, NEW path \in Paths, NEW parent, NEW new,
         NoEntryFor(fs, First(p, path)), Begin(p, op, path, parent, new)
  PROVE  SysIndInv'
<1> DEFINE i == First(p, path)
           s == iget(fs, i)
           l == Namex([Idle EXCEPT !.op = op, !.new = new], i, path, parent)
<1>1. loc[p] = Idle
  BY IdleHere DEF Begin, BeginOp
<1>2. i \in Inums
  BY <1>1, FirstIs
<1>3. s.panic = "iget: no inodes"
  BY <1>2, InvFacts, IgetPanics
<1>4. /\ To(p, s, l) /\ calls' = calls + 1 /\ cwd' = cwd /\ file' = file
      /\ outstanding' = IF s.panic = "" THEN outstanding \cup {p} ELSE outstanding
  BY DEF Begin, BeginOp
<1> HIDE DEF i, s, l
<1>5. /\ fs' = [fs EXCEPT !.panic = "iget: no inodes"] /\ loc' = loc
      /\ stable' = stable /\ crashes' = crashes
  BY <1>3, <1>4, ToIs
<1>6. calls' \in Nat /\ crashes' \in Nat
  <2>0. TypeOK
    BY InvFacts
  <2>1. calls \in Nat /\ crashes \in Nat
    BY <2>0 DEF TypeOK
  <2>2. calls' = calls + 1 /\ crashes' = crashes
    BY <1>4, <1>5
  <2> QED
    BY <2>1, <2>2
<1>7. UNCHANGED <<cwd, file, stable, outstanding>>
  BY <1>3, <1>4, <1>5
<1>8. "iget: no inodes" \in Panics /\ "iget: no inodes" \in LackOfInodes
  BY DEF Panics, LackOfInodes
<1> QED
  BY <1>5, <1>6, <1>7, <1>8, PanicStep

LEMMA BeginFinds ==
  ASSUME SysIndInv, NEW p \in Procs, NEW op \in LookupOps, NEW path \in Paths,
         NEW parent \in BOOLEAN, (parent = TRUE) <=> (op \in ParentOps),
         NEW new \in Paths \cup {NULL}, op = "link" => new \in Paths,
         ~NoEntryFor(fs, First(p, path)), Begin(p, op, path, parent, new)
  PROVE  SysIndInv'
<1> DEFINE i == First(p, path)
           s == iget(fs, i)
           l0 == [Idle EXCEPT !.op = op, !.new = new]
           l == [l0 EXCEPT !.parent = parent]
           m == Settled(Walk(l, <<>>, i, path.names))
<1>1. loc[p] = Idle /\ fs.panic = ""
  BY IdleHere DEF Begin, BeginOp
<1>2. Here(p, loc[p])
  BY HereIs
<1>3. /\ i \in Inums /\ fs.disk[i].type # "none" /\ path.names \in Seq(Names \cup Dots)
      /\ NoDots => path.names \in Seq(Names)
  BY FirstIs
<1>4. IgetTo(fs, s, i)
  BY <1>2, <1>3, IgetIs DEF Here
<1>5. /\ l \in LocType /\ l.op = op /\ l.ip = NULL /\ l.dp = NULL /\ l.new = new
      /\ l.name = NULL /\ l.parent = parent
  <2>1. op \in {"none", "open", "create", "mkdir", "mknod", "link", "link2", "unlink",
                "chdir", "close"}
    BY DEF LookupOps
  <2>2. /\ l0 \in LocType /\ l0.op = op /\ l0.ip = NULL /\ l0.dp = NULL /\ l0.new = new
        /\ l0.name = NULL
    <3>1. Idle \in LocType /\ Idle.ip = NULL /\ Idle.dp = NULL /\ Idle.name = NULL
      BY IdleIs
    <3>2. l0 \in LocType
      BY <2>1, <3>1, ZenonT(60) DEF LocType
    <3>3. l0.op = op /\ l0.ip = NULL /\ l0.dp = NULL /\ l0.new = new /\ l0.name = NULL
      BY <3>1 DEF LocType
    <3> QED
      BY <3>2, <3>3
  <2> HIDE DEF l0
  <2> QED
    BY <2>2 DEF LocType
<1>6. /\ To(p, s, Walk(l, <<>>, i, path.names))
      /\ calls' = calls + 1
      /\ outstanding' = IF s.panic = "" THEN outstanding \cup {p} ELSE outstanding
      /\ cwd' = cwd /\ file' = file
  BY DEF Begin, BeginOp, Namex
<1> HIDE DEF l, l0, s, i
<1>7. Looking(l)
  BY <1>5 DEF Looking, Parent, LookupOps, ParentOps, Makes
<1>8. OneOrNone(<<>>)
  BY DEF OneOrNone
<1>9. WalkTo(l, <<>>, i, path.names, m)
  BY <1>3, <1>7, <1>8, WalkIs
<1> HIDE DEF m
<1>10. s.panic = "" /\ s \in FsType /\ Cached(s) /\ s.disk = fs.disk /\ s.lock = fs.lock
  BY <1>1, <1>4 DEF IgetTo
<1>11. /\ fs' = s /\ loc' = [loc EXCEPT ![p] = m]
       /\ stable' = stable /\ crashes' = crashes
  BY <1>6, <1>10, ToIs DEF m
<1>12. Moved(p, m, cwd[p], file[p])
  <2>1. /\ m \in LocType /\ LocOK(m) /\ m.pc # "idle"
    BY <1>9 DEF WalkTo
  <2>2. calls' \in Nat /\ crashes' \in Nat /\ stable' \in DiskType
    <3>0. TypeOK
      BY InvFacts
    <3>1. calls \in Nat /\ crashes \in Nat /\ stable \in DiskType
      BY <3>0 DEF TypeOK
    <3>2. calls' = calls + 1 /\ crashes' = crashes /\ stable' = stable
      BY <1>6, <1>11
    <3> QED
      BY <3>1, <3>2
  <2>3. outstanding' = outstanding \cup {p}
    BY <1>6, <1>10
  <2> QED
    BY <1>2, <1>6, <1>10, <1>11, <2>1, <2>2, <2>3, Stays DEF Moved, Here
<1>13. HoldsOK(p, m, cwd[p], file[p])
  <2>1. LinkHeld(s, l)
    BY <1>5 DEF LinkHeld, LookupOps
  <2>2. NoDots => WalkUse(s, l, <<>>, i, path.names)
    <3>1. DOMAIN <<>> = {}
      OBVIOUS
    <3>2. InUseAt(s, l.ip)
      BY <1>5 DEF InUseAt
    <3>3. \A n \in DOMAIN <<>> : s.disk[<<>>[n]].type # "none"
      BY <3>1
    <3>4. l.name = NULL /\ s.panic = "" /\ s.disk[i].type # "none"
      BY <1>3, <1>5, <1>10
    <3> QED
      BY <1>3, <3>2, <3>3, <3>4, Zenon DEF WalkUse
  <2>3. HeldOK(s, p, m) /\ (NoDots => HeldInUse(s.disk, m) /\ s.panic = "")
    BY <1>9, <2>1, <2>2, WalkHolds
  <2> QED
    BY <1>2, <1>10, <1>11, <2>3 DEF HoldsOK, Here
<1>14. RefStep(p, m, cwd[p], file[p])
  <2>1. ASSUME NEW x \in Inums
        PROVE  s.inode[x].ref = fs.inode[x].ref + Refs(x, m, cwd[p], file[p])
                 - Refs(x, loc[p], cwd[p], file[p])
    <3>1. s.inode[x].ref = fs.inode[x].ref + Eq(x, i)
      BY <1>4 DEF IgetTo
    <3>2. Refs(x, m, cwd[p], file[p]) = Eq(i, x) + Eq(Nth(<<>>, 1), x) + Eq(l.ip, x)
             + Eq(cwd[p], x) + Eq(file[p], x)
      BY <1>9 DEF WalkTo
    <3>3. Refs(x, loc[p], cwd[p], file[p]) = Eq(cwd[p], x) + Eq(file[p], x)
      BY <1>1, IdleIs
    <3>4. /\ Eq(i, x) = Eq(x, i) /\ Eq(i, x) \in {0, 1} /\ Eq(cwd[p], x) \in {0, 1}
          /\ Eq(file[p], x) \in {0, 1} /\ Eq(Nth(<<>>, 1), x) = 0 /\ Eq(l.ip, x) = 0
      BY <1>5, NoSeq, EqIs
    <3>5. fs.inode[x].ref \in Nat
      BY RefNat
    <3> QED
      BY <3>1, <3>2, <3>3, <3>4, <3>5
  <2> QED
    BY <1>11, <2>1 DEF RefStep
<1>15. Gentle(fs, fs', p)
  BY <1>4, <1>10, <1>11 DEF Gentle, IgetTo
<1>16. \A x \in Inums : Pends(m, x) = Pends(loc[p], x)
  BY <1>1, <1>5, <1>9, IdleIs DEF WalkTo, LookupOps
<1> QED
  BY <1>12, <1>13, <1>14, <1>15, <1>16, Quiet

LEMMA BeginKeeps ==
  ASSUME SysIndInv, NEW p \in Procs, NEW op \in LookupOps, NEW path \in Paths,
         NEW parent \in BOOLEAN, (parent = TRUE) <=> (op \in ParentOps),
         NEW new \in Paths \cup {NULL}, op = "link" => new \in Paths,
         Begin(p, op, path, parent, new)
  PROVE  SysIndInv'
<1>1. CASE NoEntryFor(fs, First(p, path))
  BY <1>1, BeginPanics
<1>2. CASE ~NoEntryFor(fs, First(p, path))
  BY <1>2, BeginFinds
<1> QED
  BY <1>1, <1>2

LEMMA RestIs ==
  ASSUME SysIndInv, NEW p \in Procs, loc[p].pc # "idle", UNCHANGED <<outstanding, calls>>,
         UNCHANGED <<stable, crashes>>
  PROVE  /\ outstanding' = outstanding \cup {p}
         /\ calls' \in Nat /\ crashes' \in Nat /\ stable' = stable
<1>1. Here(p, loc[p])
  BY HereIs
<1>2. calls \in Nat /\ crashes \in Nat
  BY InvFacts DEF TypeOK
<1>3. p \in outstanding
  BY <1>1 DEF Here
<1> QED
  BY <1>2, <1>3

RefsAs(p, s, w, is) ==
  \A x \in Inums : s.inode[x].ref + Refs(x, loc[p], cwd[p], file[p])
                     = fs.inode[x].ref + PutRefs(x, w, is, cwd[p], file[p])

(* What a step that leaves cwd and file alone has to show of s and w. *)
SameOK(p, s, w, is, k) ==
  /\ s.panic = "" /\ s \in FsType /\ Cached(s) /\ PutOK(w, is, k)
  /\ PutHeld(s, p, w, is, k) /\ (NoDots => PutInUse(s, w, is))
  /\ RefsAs(p, s, w, is)
  /\ InUseAt(s, cwd[p]) /\ InUseAt(s, file[p])

(* To, without a panic. *)
Went(p, s, m) ==
  /\ fs' = s /\ loc' = [loc EXCEPT ![p] = m] /\ stable' = stable /\ crashes' = crashes

LEMMA WentIs ==
  ASSUME NEW p, NEW s, NEW l, To(p, s, l), s.panic = ""
  PROVE  Went(p, s, Settled(l))
BY DEF Went, To, Settled

LEMMA PutRefsNat ==
  ASSUME NEW x, NEW w, NEW is, NEW c, NEW f
  PROVE  PutRefs(x, w, is, c, f) \in Nat
<1>1. \A y : Eq(y, x) \in Nat
  BY DEF Eq
<1> QED
  BY <1>1 DEF PutRefs

LEMMA SameStep ==
  ASSUME SysIndInv, NEW p \in Procs, loc[p].pc # "idle", Same,
         NEW s, NEW w, NEW is, NEW k, SameOK(p, s, w, is, k),
         NEW m, PutTo(w, is, k, m), fs' = s, loc' = [loc EXCEPT ![p] = m],
         stable' = stable, crashes' = crashes
  PROVE  PutStep(p, m, w, is, k, cwd[p], file[p])
<1>1. Here(p, loc[p])
  BY HereIs
<1>2. Rest(p, cwd[p], file[p])
  <2>1. UNCHANGED <<outstanding, calls>> /\ UNCHANGED cwd /\ UNCHANGED file
    BY DEF Same
  <2>2. /\ outstanding' = outstanding \cup {p}
        /\ calls' \in Nat /\ crashes' \in Nat /\ stable' = stable
    BY <2>1, RestIs
  <2>3. cwd' = [cwd EXCEPT ![p] = cwd[p]] /\ file' = [file EXCEPT ![p] = file[p]]
    BY <2>1, Stays
  <2> QED
    BY <1>1, <2>2, <2>3 DEF Rest, Here
<1>3. PutRefStep(p, w, is, cwd[p], file[p])
  <2>1. ASSUME NEW x \in Inums
        PROVE  fs'.inode[x].ref = fs.inode[x].ref + PutRefs(x, w, is, cwd[p], file[p])
                     - Refs(x, loc[p], cwd[p], file[p])
    <3>1. s.inode[x].ref + Refs(x, loc[p], cwd[p], file[p])
            = fs.inode[x].ref + PutRefs(x, w, is, cwd[p], file[p])
      BY DEF SameOK, RefsAs
    <3>2. fs.inode[x].ref \in Int /\ Refs(x, loc[p], cwd[p], file[p]) \in Int
          /\ PutRefs(x, w, is, cwd[p], file[p]) \in Int
      BY RefNat, RefsNat, PutRefsNat
    <3>3. s.inode \in [Inums -> InodeType]
      BY FsFields DEF SameOK
    <3>4. s.inode[x].ref \in Int
      BY <3>3 DEF InodeType
    <3>5. s.inode[x].ref = fs.inode[x].ref + PutRefs(x, w, is, cwd[p], file[p])
                     - Refs(x, loc[p], cwd[p], file[p])
      BY <3>1, <3>2, <3>4
    <3> QED
      BY <3>5
  <2> QED
    BY <2>1 DEF PutRefStep
<1> QED
  BY <1>2, <1>3 DEF PutStep, SameOK

LEMMA SamePut ==
  ASSUME SysIndInv, NEW p \in Procs, loc[p].pc # "idle", Same,
         NEW s, NEW w, NEW is, NEW k, SameOK(p, s, w, is, k), To(p, s, Put(w, is, k))
  PROVE  /\ PutStep(p, Settled(Put(w, is, k)), w, is, k, cwd[p], file[p])
         /\ fs' = s
<1> DEFINE m == Settled(Put(w, is, k))
<1>1. PutTo(w, is, k, m)
  BY PutIs DEF SameOK, PutOK
<1>0. s.panic = ""
  BY DEF SameOK
<1>2. Went(p, s, m)
  BY <1>0, WentIs
<1> HIDE DEF m
<1>3. PutStep(p, m, w, is, k, cwd[p], file[p])
  BY <1>1, <1>2, SameStep DEF Went
<1> QED
  BY <1>2, <1>3 DEF m, Went

LEMMA SameQuiet ==
  ASSUME SysIndInv, NEW p \in Procs, loc[p].pc # "idle", Same,
         NEW s, NEW w, NEW is, NEW k, SameOK(p, s, w, is, k), To(p, s, Put(w, is, k)),
         Gentle(fs, s, p), PutPendsAs(p, w, k)
  PROVE  SysIndInv'
<1>1. PutStep(p, Settled(Put(w, is, k)), w, is, k, cwd[p], file[p]) /\ fs' = s
  BY SamePut
<1> QED
  BY <1>1, PutQuiet

LEMMA SameGo ==
  ASSUME SysIndInv, NEW p \in Procs, loc[p].pc # "idle", Same,
         NEW s, NEW m, m.put = <<>>, SameOK(p, s, m, <<>>, m.pc),
         To(p, s, m), Gentle(fs, s, p), PutPendsAs(p, m, m.pc)
  PROVE  SysIndInv'
<1>1. PutTo(m, <<>>, m.pc, m) /\ Settled(m) = m
  BY GoIs DEF SameOK, PutOK
<1>0. s.panic = ""
  BY DEF SameOK
<1>2. Went(p, s, Settled(m))
  BY <1>0, WentIs
<1>3. PutStep(p, m, m, <<>>, m.pc, cwd[p], file[p])
  BY <1>1, <1>2, SameStep DEF Went
<1> QED
  BY <1>1, <1>2, <1>3, PutQuiet DEF Went

(* A step that panics. *)
LEMMA SamePanic ==
  ASSUME SysIndInv, NEW p \in Procs, loc[p].pc # "idle", UNCHANGED <<outstanding, calls>>,
         UNCHANGED <<cwd, file>>,
         NEW s, s.panic \in Panics \ {""}, NoDots => s.panic \in LackOfInodes,
         NEW l, To(p, s, l)
  PROVE  SysIndInv'
<1>1. fs' = [fs EXCEPT !.panic = s.panic] /\ loc' = loc /\ stable' = stable /\ crashes' = crashes
  BY ToIs
<1>2. calls' \in Nat /\ crashes' \in Nat
  BY <1>1, InvFacts DEF TypeOK
<1>3. UNCHANGED <<cwd, file, stable, outstanding>>
  BY <1>1
<1>4. NoDots => s.panic \in {""} \cup LackOfInodes
  OBVIOUS
<1>5. s.panic \in Panics
  OBVIOUS
<1> QED
  BY <1>1, <1>2, <1>3, <1>4, <1>5, PanicStep

(* A step that finds no entry in the inode cache.                          *)
LEMMA IgetPanicKeeps ==
  ASSUME SysIndInv, NEW p \in Procs, loc[p].pc # "idle", UNCHANGED <<outstanding, calls>>,
         UNCHANGED <<cwd, file>>,
         NEW s \in FsType, NEW i \in Inums, NoEntryFor(s, i), NEW l, To(p, iget(s, i), l)
  PROVE  SysIndInv'
<1> DEFINE t == iget(s, i)
<1>1. t.panic = "iget: no inodes"
  BY IgetPanics
<1>2. t.panic \in Panics \ {""} /\ t.panic \in LackOfInodes
  BY <1>1 DEF Panics, LackOfInodes
<1>3. To(p, t, l)
  OBVIOUS
<1> HIDE DEF t
<1> QED
  BY <1>2, <1>3, SamePanic

LEMMA GentleUse ==
  ASSUME SysIndInv, NEW p \in Procs, NEW s, s.disk = fs.disk
  PROVE  InUseAt(s, cwd[p]) /\ InUseAt(s, file[p])
<1>1. Here(p, loc[p])
  BY HereIs
<1> QED
  BY <1>1 DEF Here, InUseAt

-----------------------------------------------------------------------------
LEMMA sys_closeKeeps ==
  ASSUME SysIndInv, NEW p \in Procs, sys_close(p)
  PROVE  SysIndInv'
<1> DEFINE w == [Idle EXCEPT !.op = "close"]
           i == file[p]
           m == Settled(Put(w, <<i>>, "end"))
<1>1. loc[p] = Idle /\ fs.panic = ""
  BY IdleHere DEF sys_close, BeginOp
<1>2. Here(p, loc[p])
  BY HereIs
<1>3. /\ i \in Inums /\ fs.disk[i].type # "none"
  BY <1>2 DEF Here, sys_close
<1>4. /\ w \in LocType /\ w.op = "close" /\ w.at = NULL /\ w.ip = NULL /\ w.dp = NULL
      /\ w.path = <<>> /\ w.name = NULL
  BY IdleIs DEF LocType
<1>5. /\ To(p, fs, Put(w, <<i>>, "end")) /\ calls' = calls + 1
      /\ outstanding' = outstanding \cup {p} /\ cwd' = cwd
      /\ file' = [file EXCEPT ![p] = NULL]
  BY DEF sys_close, BeginOp
<1> HIDE DEF w, i
<1>6. PutTo(w, <<i>>, "end", m)
  BY <1>3, <1>4, OneSeq, PutIs DEF Goals
<1>70. Went(p, fs, m)
  BY <1>1, <1>5, WentIs
<1>7. /\ fs' = fs /\ loc' = [loc EXCEPT ![p] = m] /\ stable' = stable /\ crashes' = crashes
  BY <1>70 DEF Went
<1> HIDE DEF m
<1>8. Rest(p, cwd[p], NULL)
  <2>1. calls' \in Nat /\ crashes' \in Nat
    BY <1>5, <1>7, InvFacts DEF TypeOK
  <2> QED
    BY <1>2, <1>5, <1>7, <2>1, Stays DEF Rest, Here
<1>9. PutOK(w, <<i>>, "end")
  BY <1>3, <1>4, OneSeq DEF PutOK, OpAt, RestAt, IpAt, DpAt, Goals
<1>10. PutHeld(fs', p, w, <<i>>, "end")
  BY <1>4 DEF PutHeld
<1>11. NoDots => PutInUse(fs', w, <<i>>)
  <2>1. <<>> \in Seq(Names)
    OBVIOUS
  <2>2. \A n \in DOMAIN <<i>> : fs.disk[<<i>>[n]].type # "none"
    BY <1>3, OneSeq
  <2> QED
    BY <1>1, <1>4, <1>7, <2>1, <2>2 DEF PutInUse
<1>12. InUseAt(fs', cwd[p]) /\ InUseAt(fs', NULL)
  BY <1>2, <1>7 DEF InUseAt, Here
<1>13. PutRefStep(p, w, <<i>>, cwd[p], NULL)
  <2>1. ASSUME NEW x \in Inums
        PROVE  fs.inode[x].ref = fs.inode[x].ref + PutRefs(x, w, <<i>>, cwd[p], NULL)
                     - Refs(x, loc[p], cwd[p], file[p])
    <3>1. Refs(x, loc[p], cwd[p], file[p]) = Eq(cwd[p], x) + Eq(i, x)
      BY <1>1, IdleIs DEF i
    <3>2. PutRefs(x, w, <<i>>, cwd[p], NULL) = Eq(i, x) + Eq(cwd[p], x)
      BY <1>3, <1>4, OneSeq, EqIs DEF PutRefs
    <3>3. fs.inode[x].ref \in Nat /\ Eq(i, x) \in {0, 1} /\ Eq(cwd[p], x) \in {0, 1}
      BY RefNat, EqIs
    <3> QED
      BY <3>1, <3>2, <3>3
  <2> QED
    BY <1>7, <2>1 DEF PutRefStep
<1>14. PutStep(p, m, w, <<i>>, "end", cwd[p], NULL)
  BY <1>2, <1>6, <1>7, <1>8, <1>9, <1>10, <1>11, <1>12, <1>13 DEF PutStep, Here
<1>15. Gentle(fs, fs', p)
  BY <1>7 DEF Gentle
<1>16. PutPendsAs(p, w, "end")
  BY <1>1, <1>4, IdleIs DEF PutPendsAs, PutPends
<1> QED
  BY <1>14, <1>15, <1>16, PutQuiet

LEMMA end_opKeeps ==
  ASSUME SysIndInv, NEW p \in Procs, end_op(p)
  PROVE  SysIndInv'
<1> DEFINE l == loc[p]
<1>1. Here(p, l)
  BY HereIs
<1>2. /\ l.pc = "end" /\ outstanding' = outstanding \ {p}
      /\ stable' = IF outstanding = {p} THEN fs.disk ELSE stable
      /\ loc' = [loc EXCEPT ![p] = Idle]
      /\ fs' = fs /\ cwd' = cwd /\ file' = file /\ calls' = calls /\ crashes' = crashes
  BY DEF end_op
<1>3. /\ l.at = NULL /\ l.ip = NULL /\ l.dp = NULL /\ l.put = <<>>
  <2>1. Goal(l) = "end"
    BY <1>2 DEF Goal
  <2>2. l \in LocType /\ LocOK(l)
    BY <1>1 DEF Here
  <2> HIDE DEF l
  <2>3. /\ (l.at # NULL) <=> (Goal(l) = "walk")
        /\ (l.ip # NULL) <=> IpAt(l.op, Goal(l))
        /\ (l.dp # NULL) <=> DpAt(l.op, Goal(l))
        /\ (l.put # <<>>) <=> (l.pc \in {"iput", "iput2"})
    BY <1>2, <2>2, LocHas
  <2> QED
    BY <1>2, <2>1, <2>3 DEF IpAt, DpAt
<1>4. stable' \in DiskType /\ (stable' = stable \/ StableOK')
  <2>1. CASE outstanding = {p}
    <3>1. \A q \in Procs : q # p => loc[q].pc = "idle"
      BY <2>1, InvFacts DEF TypeOK
    <3>2. \A q \in Procs : loc[q].ip = NULL
      BY <1>3, <3>1, InvFacts, IdleIs DEF LocOK
    <3>3. \A i \in Inums : PendingIn(loc, i) = {}
      BY <3>2, Consts DEF PendingIn, Pends
    <3>4. \A i \in Inums : LinksTo(fs.disk, i) <= fs.disk[i].nlink
      <4>1. ASSUME NEW i \in Inums PROVE LinksTo(fs.disk, i) <= fs.disk[i].nlink
        <5>1. LinksTo(fs.disk, i) + Cardinality(Pending(i)) <= fs.disk[i].nlink
          BY <1>1 DEF Here, Linked
        <5>2. Cardinality(Pending(i)) = 0
          BY <3>3, PendingIs, FS_EmptySet
        <5>3. LinksTo(fs.disk, i) \in Nat /\ fs.disk[i].nlink \in Int
          BY <1>1, LinksFinite, DiskFields DEF Here
        <5> QED
          BY <5>1, <5>2, <5>3
      <4> QED
        BY <4>1
    <3> QED
      BY <1>1, <1>2, <2>1, <3>4 DEF Here, StableOK
  <2>2. CASE outstanding # {p}
    BY <1>2, <2>2, InvFacts
  <2> QED
    BY <2>1, <2>2
<1>5. Moved(p, Idle, cwd[p], file[p])
  BY <1>1, <1>2, <1>4, IdleIs, Stays, InvFacts DEF Moved, Here, TypeOK
<1>6. HoldsOK(p, Idle, cwd[p], file[p])
  BY <1>1, <1>2, IdleIs DEF HoldsOK, Here, OnlyInodePanic
<1>7. RefStep(p, Idle, cwd[p], file[p])
  <2>1. ASSUME NEW x \in Inums
        PROVE  fs.inode[x].ref = fs.inode[x].ref + Refs(x, Idle, cwd[p], file[p])
                 - Refs(x, loc[p], cwd[p], file[p])
    <3>1. Refs(x, l, cwd[p], file[p]) = Refs(x, Idle, cwd[p], file[p])
      BY <1>3, IdleIs DEF Refs
    <3>2. fs.inode[x].ref \in Nat /\ Refs(x, Idle, cwd[p], file[p]) \in Nat
      BY RefNat, RefsNat
    <3> QED
      BY <3>1, <3>2, PlusMinus, Zenon
  <2> QED
    BY <1>2, <2>1 DEF RefStep
<1>8. Gentle(fs, fs', p)
  BY <1>2 DEF Gentle
<1>9. \A x \in Inums : Pends(Idle, x) = Pends(loc[p], x)
  BY <1>3, IdleIs, Consts DEF Pends
<1> QED
  BY <1>5, <1>6, <1>7, <1>8, <1>9, Quiet

-----------------------------------------------------------------------------
(* iput.                                                                   *)

LEMMA PutIn ==
  ASSUME NEW u \in Seq(Inums), u # <<>>, Len(u) <= 2
  PROVE  /\ Head(u) \in Inums /\ Nth(u, 1) = Head(u) /\ u[1] = Head(u)
         /\ 1 \in DOMAIN u /\ DOMAIN u \subseteq {1, 2}
         /\ \A n \in DOMAIN u : u[n] \in Inums /\ u[n] = Nth(u, n)
         /\ Tail(u) \in Seq(Inums) /\ Len(Tail(u)) <= 2 /\ DOMAIN Tail(u) \subseteq {1}
         /\ Nth(Tail(u), 1) = Nth(u, 2) /\ Nth(Tail(u), 2) = NULL
         /\ \A n \in DOMAIN Tail(u) : 2 \in DOMAIN u /\ Tail(u)[n] = u[2]
<1>1. Len(u) \in Nat /\ Len(u) # 0 /\ DOMAIN u = 1 .. Len(u)
  BY EmptySeq, LenProperties
<1>2. Len(u) = 1 \/ Len(u) = 2
  BY <1>1
<1>3. \A n \in 1 .. Len(u) : u[n] \in Inums
  BY ElementOfSeq
<1>4. /\ Head(u) = u[1] /\ Tail(u) \in Seq(Inums) /\ Len(Tail(u)) = Len(u) - 1
      /\ \A n \in 1 .. Len(Tail(u)) : Tail(u)[n] = u[n + 1]
  BY HeadTailProperties
<1>5. DOMAIN Tail(u) = 1 .. Len(Tail(u))
  BY <1>4, LenProperties
<1> DEFINE v == Tail(u)
<1>50. Len(v) = Len(u) - 1 /\ DOMAIN v = 1 .. Len(v)
  BY <1>4, <1>5
<1>51. 1 .. 0 = {} /\ 1 .. 1 = {1} /\ 1 .. 2 = {1, 2}
  OBVIOUS
<1> HIDE DEF v
<1>6. CASE Len(u) = 1
  <2>1. Len(v) = 0 /\ DOMAIN v = {} /\ DOMAIN u = {1}
    <3>1. Len(v) = 0
      BY <1>6, <1>50
    <3> QED
      BY <1>1, <1>6, <1>50, <1>51, <3>1
  <2>2. Nth(v, 1) = NULL /\ Nth(v, 2) = NULL /\ Nth(u, 1) = u[1] /\ Nth(u, 2) = NULL
    BY <1>6, <2>1 DEF Nth
  <2>3. u[1] \in Inums
    BY <1>3, <1>6
  <2>4. Len(v) <= 2
    BY <2>1
  <2> QED
    BY <1>4, <2>1, <2>2, <2>3, <2>4 DEF v
<1>7. CASE Len(u) = 2
  <2>1. Len(v) = 1 /\ DOMAIN v = {1} /\ DOMAIN u = {1, 2}
    <3>1. Len(v) = 1
      BY <1>7, <1>50
    <3> QED
      BY <1>1, <1>7, <1>50, <1>51, <3>1
  <2>2. v[1] = u[2]
    BY <1>4, <2>1 DEF v
  <2>3. Nth(v, 1) = u[2] /\ Nth(v, 2) = NULL /\ Nth(u, 1) = u[1] /\ Nth(u, 2) = u[2]
    BY <1>7, <2>1, <2>2 DEF Nth
  <2>4. u[1] \in Inums /\ u[2] \in Inums
    BY <1>3, <1>7
  <2>5. Len(v) <= 2
    BY <2>1
  <2> QED
    BY <1>4, <2>1, <2>2, <2>3, <2>4, <2>5 DEF v
<1> QED
  BY <1>2, <1>6, <1>7

(* Freeing an inode that has no links. *)
LEMMA FreedDisk ==
  ASSUME NEW d \in DiskType, NEW e \in DiskType, NEW i \in Inums, e[i] = FreeInode,
         \A x \in Inums : x # i => e[x] = d[x],
         LinksTo(d, i) <= 0, DirsOK(d)
  PROVE  DirsOK(e) /\ \A x \in Inums : LinksTo(e, x) <= LinksTo(d, x)
<1>0. NamesOf(d, i) = {} /\ SubdirsOf(d, i) = {} /\ i # ROOTINO
  BY Unlinked
<1>1. e[i].type = "none" /\ e[i].nlink = 0
  BY FreeInodeIs
<1>2. ASSUME NEW x \in Inums PROVE NamesOf(e, x) \subseteq NamesOf(d, x)
  BY <1>1 DEF NamesOf
<1>3. ASSUME NEW x \in Inums, NEW n \in SubdirsOf(e, x)
      PROVE  /\ n \in SubdirsOf(d, x) /\ x # i /\ n \in Names
             /\ e[x].ent[n] = d[x].ent[n] /\ e[x].ent[n] \in Inums /\ e[x].ent[n] # i
  <2>1. n \in Names /\ e[x].type = "dir" /\ e[x].ent[n] # 0 /\ e[e[x].ent[n]].type = "dir"
    BY DEF SubdirsOf
  <2>2. x # i /\ e[x] = d[x]
    BY <1>1, <2>1
  <2>3. e[x].ent[n] \in Inums
    BY <2>1, DiskFields
  <2>4. e[x].ent[n] # i
    BY <1>1, <2>1
  <2>5. e[e[x].ent[n]] = d[e[x].ent[n]]
    BY <2>3, <2>4
  <2> QED
    BY <2>1, <2>2, <2>3, <2>4, <2>5 DEF SubdirsOf
<1>4. ASSUME NEW x \in Inums PROVE LinksTo(e, x) <= LinksTo(d, x)
  <2>1. SubdirsOf(e, x) \subseteq SubdirsOf(d, x)
    BY <1>3
  <2> QED
    BY <1>2, <2>1, LinksLess
<1>5. e[ROOTINO].type = "dir"
  BY <1>0, Consts DEF DirsOK
<1>6. ASSUME NEW x \in Inums
      PROVE  /\ e[x].type = "none" => e[x].nlink = 0
             /\ e[x].type = "dir" => \A n \in Dots : e[x].ent[n] # 0
  BY <1>1 DEF DirsOK
<1>7. ASSUME NEW x \in Inums, NEW n \in SubdirsOf(e, x) PROVE e[e[x].ent[n]].ent[".."] = x
  <2>1. d[d[x].ent[n]].ent[".."] = x
    BY <1>3 DEF DirsOK
  <2>2. /\ e[x].ent[n] = d[x].ent[n] /\ e[x].ent[n] \in Inums /\ e[x].ent[n] # i
    BY <1>3
  <2>3. e[e[x].ent[n]] = d[e[x].ent[n]]
    BY <2>2
  <2> QED
    BY <2>1, <2>2, <2>3
<1> QED
  BY <1>4, <1>5, <1>6, <1>7 DEF DirsOK

LEMMA Iput2Is ==
  ASSUME NEW l \in LocType, LocOK(l), l.pc = "iput", NEW m, m = [l EXCEPT !.pc = "iput2"]
  PROVE  /\ m \in LocType /\ LocOK(m) /\ m.pc = "iput2" /\ Settled(m) = m
         /\ m.at = l.at /\ m.ip = l.ip /\ m.dp = l.dp /\ m.op = l.op /\ m.put = l.put
         /\ m.path = l.path /\ m.name = l.name /\ Goal(m) = Goal(l)
         /\ \A x, c, f : Refs(x, m, c, f) = Refs(x, l, c, f)
         /\ \A x : Pends(m, x) = Pends(l, x)
<1>1. /\ m \in LocType /\ m.pc = "iput2" /\ m.k = l.k
      /\ m.at = l.at /\ m.ip = l.ip /\ m.dp = l.dp /\ m.op = l.op /\ m.put = l.put
      /\ m.path = l.path /\ m.name = l.name /\ m.parent = l.parent /\ m.new = l.new
  BY DEF LocType
<1>2. Goal(m) = Goal(l)
  BY <1>1 DEF Goal
<1>3. LocOK(m)
  <2>1. /\ OpAt(l.op, Goal(l)) /\ RestAt(l, Goal(l))
        /\ (l.at # NULL) <=> (Goal(l) = "walk")
        /\ (l.ip # NULL) <=> IpAt(l.op, Goal(l))
        /\ (l.dp # NULL) <=> DpAt(l.op, Goal(l))
        /\ (l.put # <<>>) <=> (l.pc \in {"iput", "iput2"})
        /\ Len(l.put) <= 2
    BY LocHas
  <2>2. RestAt(m, Goal(m))
    BY <1>1, <1>2, <2>1 DEF RestAt, Parent
  <2> QED
    BY <1>1, <1>2, <2>1, <2>2, LocFits
<1>4. \A x, c, f : Refs(x, m, c, f) = Refs(x, l, c, f)
  BY <1>1 DEF Refs
<1>5. \A x : Pends(m, x) = Pends(l, x)
  BY <1>1, <1>2 DEF Pends
<1> QED
  BY <1>1, <1>2, <1>3, <1>4, <1>5 DEF Settled

LEMMA iputKeeps ==
  ASSUME SysIndInv, NEW p \in Procs, iput(p)
  PROVE  SysIndInv'
<1> DEFINE l == loc[p]
           i == Head(l.put)
           t == FreeIfUnused(fs, i)
           m == [l EXCEPT !.pc = "iput2"]
<1>1. Here(p, l)
  BY HereIs
<1>2. /\ fs.panic = "" /\ l.pc = "iput" /\ fs.lock[i] = NULL
      /\ To(p, t, m) /\ Same
  BY DEF iput, At, Unlocked
<1>3. l \in LocType /\ LocOK(l)
  BY <1>1 DEF Here
<1>4. l.put \in Seq(Inums) /\ l.put # <<>> /\ Len(l.put) <= 2
  BY <1>2, <1>3 DEF LocOK, LocType
<1>5. i \in Inums /\ Nth(l.put, 1) = i /\ l.put[1] = i
  BY <1>4, PutIn
<1>6. /\ m \in LocType /\ LocOK(m) /\ m.pc = "iput2" /\ Settled(m) = m
      /\ m.at = l.at /\ m.ip = l.ip /\ m.dp = l.dp /\ m.op = l.op /\ m.put = l.put
      /\ m.path = l.path /\ m.name = l.name /\ Goal(m) = Goal(l)
      /\ \A x, c, f : Refs(x, m, c, f) = Refs(x, l, c, f)
      /\ \A x : Pends(m, x) = Pends(l, x)
  <2> HIDE DEF l
  <2> QED
    BY <1>2, <1>3, Iput2Is
<1>7. FreeTo(fs, t, i)
  BY <1>1, <1>5, FreeIs DEF Here
<1> HIDE DEF m, t, i
<1>8. t \in FsType /\ Cached(t) /\ t.lock = fs.lock /\ t.panic = ""
  BY <1>2, <1>7 DEF FreeTo
<1>9. Went(p, t, m)
  <2>1. Went(p, t, Settled(m))
    BY <1>2, <1>8, WentIs
  <2> QED
    BY <1>6, <2>1
<1>10. fs' = t /\ loc' = [loc EXCEPT ![p] = m] /\ stable' = stable /\ crashes' = crashes
  BY <1>9 DEF Went
<1>11. Moved(p, m, cwd[p], file[p])
  <2>1. UNCHANGED <<outstanding, calls>> /\ UNCHANGED cwd /\ UNCHANGED file
    BY <1>2 DEF Same
  <2>2. /\ outstanding' = outstanding \cup {p}
        /\ calls' \in Nat /\ crashes' \in Nat /\ stable' = stable
    BY <1>2, <1>10, <2>1, RestIs
  <2> QED
    BY <1>1, <1>6, <1>8, <1>10, <2>1, <2>2, Stays, InvFacts DEF Moved, Here
<1>12. RefStep(p, m, cwd[p], file[p])
  <2>1. ASSUME NEW x \in Inums
        PROVE  t.inode[x].ref = fs.inode[x].ref + Refs(x, m, cwd[p], file[p])
                 - Refs(x, loc[p], cwd[p], file[p])
    <3>1. t.inode[x].ref = fs.inode[x].ref
      BY <1>7 DEF FreeTo
    <3>2. Refs(x, m, cwd[p], file[p]) = Refs(x, l, cwd[p], file[p])
      BY <1>6
    <3>3. fs.inode[x].ref \in Nat /\ Refs(x, l, cwd[p], file[p]) \in Nat
      BY RefNat, RefsNat
    <3> QED
      BY <3>1, <3>2, <3>3, PlusMinus, Zenon
  <2> QED
    BY <1>10, <2>1 DEF RefStep
<1>13. CASE t = fs
  <2>1. Gentle(fs, fs', p)
    BY <1>10, <1>13 DEF Gentle
  <2>2. HeldOK(fs', p, m)
    BY <1>1, <1>6, <1>10, <1>13 DEF Here, HeldOK
  <2>3. NoDots => HeldInUse(fs'.disk, m)
    BY <1>1, <1>2, <1>6, <1>10, <1>13 DEF Here, HeldInUse
  <2>4. HoldsOK(p, m, cwd[p], file[p])
    BY <1>1, <1>8, <1>10, <1>13, <2>2, <2>3 DEF HoldsOK, Here
  <2>5. \A x \in Inums : Pends(m, x) = Pends(loc[p], x)
    BY <1>6
  <2> QED
    BY <1>11, <1>12, <2>1, <2>4, <2>5, Quiet
<1>14. CASE /\ fs.inode[i].ref = 1 /\ fs.disk[i].nlink = 0 /\ fs.inode[i].valid
            /\ t.disk[i] = FreeInode
  <2>1. "put" \in PlacesOf(i, l, cwd[p], file[p])
    BY <1>5 DEF PlacesOf, Places
  <2>2. \A r \in Procs : \A y \in PlacesOf(i, loc[r], cwd[r], file[r]) : r = p /\ y = "put"
    BY <1>5, <1>14, <2>1, InvFacts, Referred
  <2>3. l.at # i /\ l.ip # i /\ l.dp # i /\ Nth(l.put, 2) # i /\ cwd[p] # i /\ file[p] # i
    <3>1. \A y \in PlacesOf(i, l, cwd[p], file[p]) : y = "put"
      BY <2>2
    <3> HIDE DEF l
    <3>2. /\ "at" \notin PlacesOf(i, l, cwd[p], file[p])
          /\ "ip" \notin PlacesOf(i, l, cwd[p], file[p])
          /\ "dp" \notin PlacesOf(i, l, cwd[p], file[p])
          /\ "put2" \notin PlacesOf(i, l, cwd[p], file[p])
          /\ "cwd" \notin PlacesOf(i, l, cwd[p], file[p])
          /\ "file" \notin PlacesOf(i, l, cwd[p], file[p])
      BY <3>1
    <3> QED
      BY <3>2 DEF PlacesOf, Places
  <2>4. \A x \in Inums : x # i => t.disk[x] = fs.disk[x] /\ t.inode[x].valid = fs.inode[x].valid
    BY <1>7 DEF FreeTo
  <2>5. l.at \in Inums \cup {NULL} /\ l.ip \in Inums \cup {NULL} /\ l.dp \in Inums \cup {NULL}
    BY <1>3 DEF LocType
  <2>6. LinksTo(fs.disk, i) <= 0
    <3>1. LinksTo(fs.disk, i) + Cardinality(Pending(i)) <= 0
      BY <1>1, <1>5, <1>14 DEF Here, Linked
    <3>2. LinksTo(fs.disk, i) \in Nat /\ Cardinality(Pending(i)) \in Nat
      BY LinksFinite, PendingIs, PendingFinite
    <3> QED
      BY <3>1, <3>2
  <2>7. t.disk \in DiskType
    BY <1>8, FsFields
  <2>8. DirsOK(t.disk) /\ \A x \in Inums : LinksTo(t.disk, x) <= LinksTo(fs.disk, x)
    BY <1>1, <1>5, <1>14, <2>4, <2>6, <2>7, FreedDisk DEF Here
  <2>9. HeldOK(t, p, m)
    <3>1. HeldOK(fs, p, l)
      BY <1>1 DEF Here
    <3>2. LocOK(l)
      BY <1>3
    <3> HIDE DEF l
    <3>3. l.dp # NULL => t.inode[l.dp].valid /\ t.disk[l.dp].type = "dir"
      BY <2>3, <2>4, <2>5, <3>1 DEF HeldOK
    <3>4. l.op = "link2" /\ l.ip # NULL => t.inode[l.ip].valid /\ t.disk[l.ip].type # "dir"
      BY <2>3, <2>4, <2>5, <3>1 DEF HeldOK
    <3>5. Goal(l) \in {"made", "unlinked"} => t.inode[l.ip].valid /\ t.lock[l.ip] = p
      <4>1. Goal(l) \in {"made", "unlinked"} => l.ip # NULL
        BY <3>2 DEF LocOK, HasIp
      <4> QED
        BY <1>8, <2>3, <2>4, <2>5, <3>1, <4>1 DEF HeldOK
    <3>6. Goal(l) \in {"entry", "notempty"} => t.lock[l.dp] = p
      BY <1>8, <3>1 DEF HeldOK
    <3>7. Goal(l) = "entry" => l.name \in Names /\ t.disk[l.dp].ent[l.name] = l.ip
      <4>1. Goal(l) = "entry" => l.dp # NULL
        BY <3>2 DEF LocOK, HasDp
      <4> QED
        BY <2>3, <2>4, <2>5, <3>1, <4>1 DEF HeldOK
    <3> QED
      BY <1>6, <3>3, <3>4, <3>5, <3>6, <3>7 DEF HeldOK
  <2>10. NoDots => HeldInUse(t.disk, m)
    <3>1. NoDots => HeldInUse(fs.disk, l)
      BY <1>1 DEF Here
    <3>2. /\ DOMAIN l.put \subseteq {1, 2}
          /\ \A n \in DOMAIN l.put : l.put[n] \in Inums /\ l.put[n] = Nth(l.put, n)
      BY <1>4, PutIn
    <3> HIDE DEF l
    <3>3. NoDots => \A x \in {l.at, l.ip, l.dp} \ {NULL} : t.disk[x].type # "none"
      BY <2>3, <2>4, <2>5, <3>1 DEF HeldInUse
    <3>4. NoDots => \A n \in DOMAIN l.put : n = 1 \/ t.disk[l.put[n]].type # "none"
      <4>1. ASSUME NoDots, NEW n \in DOMAIN l.put, n # 1 PROVE t.disk[l.put[n]].type # "none"
        <5>1. n = 2 /\ l.put[n] \in Inums /\ l.put[n] # i
          BY <2>3, <3>2, <4>1
        <5> QED
          BY <2>4, <3>1, <4>1, <5>1 DEF HeldInUse
      <4> QED
        BY <4>1
    <3>5. NoDots => l.path \in Seq(Names) /\ (l.name \in Names \/ l.name = NULL)
      BY <3>1 DEF HeldInUse
    <3> QED
      BY <1>6, <3>3, <3>4, <3>5 DEF HeldInUse
  <2>11. HoldsOK(p, m, cwd[p], file[p])
    BY <1>1, <1>8, <1>10, <2>3, <2>4, <2>9, <2>10 DEF HoldsOK, Here
  <2>12. OthersKept(p)
    <3>1. ASSUME NEW q \in Procs \ {p}, NEW x \in Inums,
                 PlacesOf(x, loc[q], cwd[q], file[q]) # {}
          PROVE  x # i
      BY <2>2, <3>1
    <3>2. ASSUME NEW x \in Inums, fs.lock[x] \notin {NULL, p} PROVE x # i
      BY <1>2, <3>2 DEF i
    <3> QED
      BY <1>8, <1>10, <2>4, <3>1, <3>2 DEF OthersKept
  <2>13. LinkStep(p, m)
    <3>1. ASSUME NEW x \in Inums
          PROVE  LinksTo(t.disk, x) + Pends(m, x) + fs.disk[x].nlink
                   <= LinksTo(fs.disk, x) + Pends(loc[p], x) + t.disk[x].nlink
      <4>1. t.disk[x].nlink = fs.disk[x].nlink
        BY <1>14, <2>4, FreeInodeIs
      <4>2. Pends(m, x) = Pends(loc[p], x)
        BY <1>6
      <4>3. LinksTo(t.disk, x) <= LinksTo(fs.disk, x)
        BY <2>8
      <4>4. /\ LinksTo(t.disk, x) \in Nat /\ LinksTo(fs.disk, x) \in Nat
            /\ fs.disk[x].nlink \in Int
        BY <1>1, LinksFinite, DiskFields DEF Here
      <4>5. Pends(m, x) \in Nat
        BY DEF Pends
      <4> QED
        BY <4>1, <4>2, <4>3, <4>4, <4>5
    <3> QED
      BY <1>10, <3>1 DEF LinkStep
  <2> QED
    BY <1>10, <1>11, <1>12, <2>8, <2>11, <2>12, <2>13, Frame
<1> QED
  BY <1>7, <1>13, <1>14 DEF FreeTo

Dec(s, i) == [s EXCEPT !.inode[i].ref = @ - 1]

DecTo(s, t, i) ==
  /\ t \in FsType /\ Cached(t) /\ t.disk = s.disk /\ t.lock = s.lock
  /\ t.panic = s.panic
  /\ \A x \in Inums : /\ t.inode[x].ref = s.inode[x].ref - Eq(x, i)
                      /\ t.inode[x].valid = s.inode[x].valid

LEMMA DecIs ==
  ASSUME NEW s \in FsType, Cached(s), NEW i \in Inums, s.inode[i].ref > 0,
         NEW t, t = Dec(s, i)
  PROVE  DecTo(s, t, i)
<1> DEFINE e == [s.inode[i] EXCEPT !.ref = s.inode[i].ref - 1]
           f == [s.inode EXCEPT ![i] = e]
<1>1. s.inode \in [Inums -> InodeType] /\ s.inode[i] \in InodeType /\ s.inode[i].ref \in Nat
  BY FsFields DEF InodeType
<1>2. /\ e \in InodeType /\ e.ref = s.inode[i].ref - 1 /\ e.valid = s.inode[i].valid
      /\ e.type = s.inode[i].type /\ e.nlink = s.inode[i].nlink
  BY <1>1 DEF InodeType
<1>3. t = [s EXCEPT !.inode = f]
  BY DEF Dec
<1> HIDE DEF e
<1>4. f \in [Inums -> InodeType] /\ f[i] = e /\ \A x \in Inums : x # i => f[x] = s.inode[x]
  BY <1>1, <1>2
<1> HIDE DEF f
<1>5. t \in FsType /\ t.inode = f /\ t.disk = s.disk /\ t.lock = s.lock /\ t.panic = s.panic
  BY <1>3, <1>4, FsFields DEF FsType
<1>6. Cached(t)
  BY <1>2, <1>4, <1>5 DEF Cached
<1>7. ASSUME NEW x \in Inums
      PROVE  /\ t.inode[x].ref = s.inode[x].ref - Eq(x, i)
             /\ t.inode[x].valid = s.inode[x].valid
  <2>1. s.inode[x].ref \in Nat
    BY <1>1 DEF InodeType
  <2> QED
    BY <1>2, <1>4, <1>5, <2>1 DEF Eq
<1> QED
  BY <1>5, <1>6, <1>7 DEF DecTo

LEMMA iput_refKeeps ==
  ASSUME SysIndInv, NEW p \in Procs, iput_ref(p)
  PROVE  SysIndInv'
<1> DEFINE l == loc[p]
           i == Head(l.put)
           is == Tail(l.put)
           t == Dec(fs, i)
<1>1. Here(p, l)
  BY HereIs
<1>2. fs.panic = "" /\ l.pc = "iput2" /\ To(p, t, Put(l, is, l.k)) /\ Same
  BY DEF iput_ref, At, Dec
<1>3. l \in LocType /\ LocOK(l) /\ fs \in FsType /\ Cached(fs)
  BY <1>1 DEF Here
<1>4. l.put \in Seq(Inums) /\ l.put # <<>> /\ Len(l.put) <= 2 /\ l.k \in Goals
  BY <1>2, <1>3 DEF LocOK, LocType
<1>5. i \in Inums /\ Nth(l.put, 1) = i /\ l.put[1] = i
  BY <1>4, PutIn
<1>6. /\ is \in Seq(Inums) /\ Len(is) <= 2
      /\ Nth(is, 1) = Nth(l.put, 2) /\ Nth(is, 2) = NULL
      /\ \A n \in DOMAIN is : 2 \in DOMAIN l.put /\ is[n] = l.put[2]
  BY <1>4, PutIn
<1>7. fs.inode[i].ref > 0
  <2>1. "put" \in PlacesOf(i, l, cwd[p], file[p])
    BY <1>5 DEF PlacesOf, Places
  <2> QED
    BY <1>5, <2>1, InvFacts, Referred
<1> HIDE DEF is, i
<1>8. /\ t \in FsType /\ Cached(t) /\ t.disk = fs.disk /\ t.lock = fs.lock
      /\ t.panic = fs.panic
      /\ \A x \in Inums : /\ t.inode[x].ref = fs.inode[x].ref - Eq(x, i)
                          /\ t.inode[x].valid = fs.inode[x].valid
  <2>1. DecTo(fs, t, i)
    BY <1>3, <1>5, <1>7, DecIs
  <2> QED
    BY <2>1 DEF DecTo
<1> HIDE DEF t
<1>9. Goal(l) = l.k
  BY <1>2 DEF Goal
<1>10. PutOK(l, is, l.k)
  <2>1. l.pc # "idle"
    BY <1>2
  <2> HIDE DEF l
  <2>2. /\ OpAt(l.op, Goal(l)) /\ RestAt(l, Goal(l))
        /\ (l.at # NULL) <=> (Goal(l) = "walk")
        /\ (l.ip # NULL) <=> IpAt(l.op, Goal(l))
        /\ (l.dp # NULL) <=> DpAt(l.op, Goal(l))
    BY <1>3, <2>1, LocHas
  <2> QED
    BY <1>3, <1>4, <1>6, <1>9, <2>2 DEF PutOK
<1>11. PutHeld(t, p, l, is, l.k)
  <2>1. HeldOK(fs, p, l) /\ LocOK(l) /\ l \in LocType
    BY <1>1 DEF Here
  <2> HIDE DEF l
  <2>2. l.ip \in Inums \cup {NULL} /\ l.dp \in Inums \cup {NULL}
    BY <2>1 DEF LocType
  <2>3. \A x \in Inums : t.inode[x].valid = fs.inode[x].valid
    BY <1>8
  <2>4. Goal(l) \in {"made", "unlinked"} => l.ip # NULL
    BY <2>1 DEF LocOK, HasIp
  <2> QED
    BY <1>8, <1>9, <2>1, <2>2, <2>3, <2>4 DEF PutHeld, HeldOK
<1>12. NoDots => PutInUse(t, l, is)
  <2>1. NoDots => HeldInUse(fs.disk, l)
    BY <1>1 DEF Here
  <2> HIDE DEF l
  <2>2. NoDots => \A n \in DOMAIN is : fs.disk[is[n]].type # "none"
    BY <1>6, <2>1 DEF HeldInUse
  <2> QED
    BY <1>2, <1>8, <2>1, <2>2 DEF HeldInUse, PutInUse
<1>13. RefsAs(p, t, l, is)
  <2>1. ASSUME NEW x \in Inums
        PROVE  t.inode[x].ref + Refs(x, l, cwd[p], file[p])
                 = fs.inode[x].ref + PutRefs(x, l, is, cwd[p], file[p])
    <3>1. t.inode[x].ref = fs.inode[x].ref - Eq(i, x) /\ Eq(NULL, x) = 0
      BY <1>8, EqIs
    <3>2. \A y : Eq(y, x) \in Nat
      BY DEF Eq
    <3>3. fs.inode[x].ref \in Nat
      BY RefNat
    <3> HIDE DEF l
    <3>4. /\ Eq(l.at, x) \in Nat /\ Eq(l.ip, x) \in Nat /\ Eq(l.dp, x) \in Nat
          /\ Eq(i, x) \in Nat /\ Eq(Nth(l.put, 2), x) \in Nat
          /\ Eq(cwd[p], x) \in Nat /\ Eq(file[p], x) \in Nat
      BY <3>2
    <3>5. Refs(x, l, cwd[p], file[p]) = Eq(l.at, x) + Eq(l.ip, x) + Eq(l.dp, x) + Eq(i, x)
             + Eq(Nth(l.put, 2), x) + Eq(cwd[p], x) + Eq(file[p], x)
      BY <1>5 DEF Refs
    <3>6. PutRefs(x, l, is, cwd[p], file[p]) = Eq(l.at, x) + Eq(l.ip, x) + Eq(l.dp, x)
             + Eq(Nth(l.put, 2), x) + Eq(NULL, x) + Eq(cwd[p], x) + Eq(file[p], x)
      BY <1>6 DEF PutRefs
    <3> QED
      BY <3>1, <3>3, <3>4, <3>5, <3>6
  <2> QED
    BY <2>1 DEF RefsAs
<1>14. SameOK(p, t, l, is, l.k)
  BY <1>2, <1>8, <1>10, <1>11, <1>12, <1>13, GentleUse DEF SameOK
<1>15. Gentle(fs, t, p)
  BY <1>8 DEF Gentle
<1>16. PutPendsAs(p, l, l.k)
  BY <1>9 DEF PutPendsAs, PutPends, Pends
<1>17. l.pc # "idle"
  BY <1>2
<1> QED
  BY <1>2, <1>14, <1>15, <1>16, <1>17, SameQuiet

-----------------------------------------------------------------------------
(* Locking an inode, and unlocking it.                                     *)

LockTo(s, p, i) ==
  /\ s \in FsType /\ Cached(s) /\ s.disk = fs.disk /\ s.panic = ""
  /\ s.inode[i].valid /\ s.inode[i].type = fs.disk[i].type
  /\ s.inode[i].nlink = fs.disk[i].nlink /\ fs.disk[i].type # "none"
  /\ \A x \in Inums : /\ s.inode[x].ref = fs.inode[x].ref
                      /\ fs.inode[x].valid => s.inode[x].valid
                      /\ s.lock[x] = IF x = i THEN p ELSE fs.lock[x]

LEMMA Lock ==
  ASSUME SysIndInv, NEW p \in Procs, NEW i \in Inums, fs.panic = "", NEW s, s = ilock(fs, p, i)
  PROVE  /\ s.panic \in Panics
         /\ \/ s.panic # "" /\ fs.disk[i].type = "none"
            \/ LockTo(s, p, i)
<1>1. IlockTo(fs, s, p, i)
  BY InvFacts, IlockIs
<1>2. CASE fs.disk[i].type = "none"
  BY <1>1, <1>2 DEF IlockTo, Panics
<1>3. CASE fs.disk[i].type # "none"
  BY <1>1, <1>3 DEF IlockTo, LockTo, Cached, Panics
<1> QED
  BY <1>2, <1>3

UnlockTo(u, s, p) ==
  /\ u \in FsType /\ Cached(u) /\ u.disk = fs.disk /\ u.panic = "" /\ u.inode = s.inode
  /\ \A x \in Inums : /\ u.inode[x].ref = fs.inode[x].ref
                      /\ fs.inode[x].valid => u.inode[x].valid
                      /\ u.lock[x] = fs.lock[x]
  /\ Gentle(fs, u, p)

LEMMA Unlock ==
  ASSUME NEW p \in Procs, NEW i \in Inums, NEW s, LockTo(s, p, i), fs.lock[i] = NULL,
         NEW u, u = iunlock(s, i)
  PROVE  UnlockTo(u, s, p)
<1>1. IunlockTo(s, u, i)
  BY IunlockIs DEF LockTo
<1>2. /\ u \in FsType /\ Cached(u) /\ u.disk = fs.disk /\ u.panic = "" /\ u.inode = s.inode
      /\ \A x \in Inums : /\ u.inode[x].ref = fs.inode[x].ref
                          /\ fs.inode[x].valid => u.inode[x].valid
                          /\ u.lock[x] = fs.lock[x]
  <2>1. s.disk = fs.disk /\ s.panic = ""
    BY DEF LockTo
  <2>2. u \in FsType /\ Cached(u) /\ u.disk = fs.disk /\ u.panic = "" /\ u.inode = s.inode
    BY <1>1, <2>1 DEF IunlockTo
  <2>3. \A x \in Inums : s.inode[x].ref = fs.inode[x].ref /\ (fs.inode[x].valid => s.inode[x].valid)
    BY DEF LockTo
  <2>4. \A x \in Inums : u.lock[x] = fs.lock[x]
    <3>1. \A x \in Inums : u.lock[x] = IF x = i THEN NULL ELSE s.lock[x]
      BY <1>1 DEF IunlockTo
    <3>2. \A x \in Inums : x # i => s.lock[x] = fs.lock[x]
      BY DEF LockTo
    <3> QED
      BY <3>1, <3>2
  <2> QED
    BY <2>2, <2>3, <2>4
<1> QED
  BY <1>2 DEF UnlockTo, Gentle

(* What an entry of a directory names is in use. *)
LEMMA EntryInUse ==
  ASSUME SysIndInv, NEW d \in Inums, NEW n \in Names, NEW j \in Inums,
         fs.disk[d].type = "dir", fs.disk[d].ent[n] = j
  PROVE  /\ fs.disk[j].type # "none"
         /\ LinksTo(fs.disk, j) >= 1 /\ fs.disk[j].nlink >= 1
<1>1. fs.disk \in DiskType /\ DirsOK(fs.disk) /\ Linked
  BY InvFacts
<1>2. LinksTo(fs.disk, j) >= 1
  BY <1>1, Named
<1>3. LinksTo(fs.disk, j) + Cardinality(Pending(j)) <= fs.disk[j].nlink
  BY <1>1 DEF Linked
<1>4. /\ LinksTo(fs.disk, j) \in Nat /\ Cardinality(Pending(j)) \in Nat
      /\ fs.disk[j].nlink \in Int
  BY <1>1, LinksFinite, PendingIs, PendingFinite, DiskFields
<1>5. fs.disk[j].nlink >= 1
  BY <1>2, <1>3, <1>4
<1>6. fs.disk[j].nlink # 0
  BY <1>4, <1>5
<1> QED
  BY <1>1, <1>2, <1>5, <1>6 DEF DirsOK

LEMMA PathIn ==
  ASSUME NEW S, NEW u \in Seq(S), u # <<>>
  PROVE  Head(u) \in S /\ Tail(u) \in Seq(S)
BY HeadTailProperties

(* A process at "walk", "got" and so on, which has nothing to put. *)
LEMMA NotPutting ==
  ASSUME NEW l \in LocType, LocOK(l), l.pc \notin {"idle", "iput", "iput2"}
  PROVE  /\ Goal(l) = l.pc /\ l.put = <<>>
         /\ OpAt(l.op, l.pc) /\ RestAt(l, l.pc)
         /\ (l.at # NULL) <=> (l.pc = "walk")
         /\ (l.ip # NULL) <=> IpAt(l.op, l.pc)
         /\ (l.dp # NULL) <=> DpAt(l.op, l.pc)
         /\ l.at \in Inums \cup {NULL} /\ l.ip \in Inums \cup {NULL}
         /\ l.dp \in Inums \cup {NULL}
         /\ \A x \in Inums : \A c, f :
              Refs(x, l, c, f) = Eq(l.at, x) + Eq(l.ip, x) + Eq(l.dp, x) + Eq(c, x) + Eq(f, x)
<1>1. Goal(l) = l.pc
  BY DEF Goal
<1>2. /\ OpAt(l.op, Goal(l)) /\ RestAt(l, Goal(l))
      /\ (l.at # NULL) <=> (Goal(l) = "walk")
      /\ (l.ip # NULL) <=> IpAt(l.op, Goal(l))
      /\ (l.dp # NULL) <=> DpAt(l.op, Goal(l))
      /\ (l.put # <<>>) <=> (l.pc \in {"iput", "iput2"})
  BY LocHas
<1>3. l.put = <<>>
  BY <1>2
<1>4. ASSUME NEW x \in Inums, NEW c, NEW f
      PROVE  Refs(x, l, c, f) = Eq(l.at, x) + Eq(l.ip, x) + Eq(l.dp, x) + Eq(c, x) + Eq(f, x)
  <2>1. Eq(NULL, x) = 0 /\ \A y : Eq(y, x) \in Nat
    BY EqIs DEF Eq
  <2>2. Nth(l.put, 1) = NULL /\ Nth(l.put, 2) = NULL
    BY <1>3, NoSeq
  <2>3. /\ Eq(l.at, x) \in Nat /\ Eq(l.ip, x) \in Nat /\ Eq(l.dp, x) \in Nat
        /\ Eq(c, x) \in Nat /\ Eq(f, x) \in Nat
    BY <2>1
  <2> QED
    BY <2>1, <2>2, <2>3 DEF Refs
<1>5. l.at \in Inums \cup {NULL} /\ l.ip \in Inums \cup {NULL} /\ l.dp \in Inums \cup {NULL}
  BY DEF LocType
<1> QED
  BY <1>1, <1>2, <1>3, <1>4, <1>5

(* The references of a process that puts at most one inode. *)
LEMMA PutRefsOne ==
  ASSUME NEW x \in Inums, NEW w, NEW a \in Inums, NEW c, NEW f
  PROVE  /\ PutRefs(x, w, <<a>>, c, f) = Eq(w.at, x) + Eq(w.ip, x) + Eq(w.dp, x) + Eq(a, x)
                                        + Eq(c, x) + Eq(f, x)
         /\ Eq(NULL, x) = 0 /\ \A y : Eq(y, x) \in {0, 1}
<1>1. Eq(NULL, x) = 0 /\ \A y : Eq(y, x) \in {0, 1}
  BY EqIs DEF Eq
<1>2. Nth(<<a>>, 1) = a /\ Nth(<<a>>, 2) = NULL
  BY OneSeq
<1>3. /\ Eq(w.at, x) \in {0, 1} /\ Eq(w.ip, x) \in {0, 1} /\ Eq(w.dp, x) \in {0, 1}
      /\ Eq(a, x) \in {0, 1} /\ Eq(c, x) \in {0, 1} /\ Eq(f, x) \in {0, 1}
  BY <1>1
<1>4. PutRefs(x, w, <<a>>, c, f) = Eq(w.at, x) + Eq(w.ip, x) + Eq(w.dp, x) + Eq(a, x)
                                        + Eq(c, x) + Eq(f, x)
  BY <1>1, <1>2, <1>3 DEF PutRefs
<1> QED
  BY <1>1, <1>4

LEMMA PutRefsNone ==
  ASSUME NEW x \in Inums, NEW w, NEW c, NEW f
  PROVE  PutRefs(x, w, <<>>, c, f) = Eq(w.at, x) + Eq(w.ip, x) + Eq(w.dp, x)
                                        + Eq(c, x) + Eq(f, x)
<1>1. Eq(NULL, x) = 0 /\ \A y : Eq(y, x) \in {0, 1}
  BY EqIs DEF Eq
<1>2. Nth(<<>>, 1) = NULL /\ Nth(<<>>, 2) = NULL
  BY NoSeq
<1>3. /\ Eq(w.at, x) \in {0, 1} /\ Eq(w.ip, x) \in {0, 1} /\ Eq(w.dp, x) \in {0, 1}
      /\ Eq(c, x) \in {0, 1} /\ Eq(f, x) \in {0, 1}
  BY <1>1
<1> QED
  BY <1>1, <1>2, <1>3 DEF PutRefs

NamexOut(l) == [l EXCEPT !.at = NULL, !.path = <<>>]

LEMMA NamexOutIs ==
  ASSUME NEW l \in LocType, NEW m, m = NamexOut(l)
  PROVE  /\ m \in LocType /\ m.op = l.op /\ m.at = NULL /\ m.ip = l.ip /\ m.dp = l.dp
         /\ m.put = l.put /\ m.path = <<>> /\ m.name = l.name /\ m.new = l.new
<1>1. <<>> \in Seq(Names \cup Dots)
  OBVIOUS
<1> QED
  BY <1>1 DEF LocType, NamexOut

(* The parent directory i found, with the last name n of the path. *)
NamexGot(w, m, i, n) ==
  /\ m \in LocType /\ m.op = w.op /\ m.at = w.at /\ m.ip = w.ip /\ m.dp = i
  /\ m.put = w.put /\ m.path = w.path /\ m.name = n /\ m.new = w.new /\ m.pc = "got"

LEMMA NamexGotIs ==
  ASSUME NEW w \in LocType, NEW i \in Inums, NEW n \in Names \cup Dots
  PROVE  NamexGot(w, [w EXCEPT !.pc = "got", !.dp = i, !.name = n], i, n)
<1> DEFINE m == [w EXCEPT !.pc = "got", !.dp = i, !.name = n]
<1>1. m \in LocType
  BY ZenonT(30) DEF LocType, Goals
<1>2. /\ m.op = w.op /\ m.at = w.at /\ m.ip = w.ip /\ m.dp = i /\ m.put = w.put
      /\ m.path = w.path /\ m.name = n /\ m.new = w.new /\ m.pc = "got"
  BY DEF LocType
<1> QED
  BY <1>1, <1>2 DEF NamexGot

LEMMA namexKeeps ==
  ASSUME SysIndInv, NEW p \in Procs, namex(p)
  PROVE  SysIndInv'
<1> DEFINE l == loc[p]
           i == l.at
           s == ilock(fs, p, i)
           u == iunlock(s, i)
           n == Head(l.path)
           j == fs.disk[i].ent[n]
           out == NamexOut(l)
           c == cwd[p]
           f == file[p]
<1>1. Here(p, l)
  BY HereIs
<1>2. fs.panic = "" /\ l.pc = "walk" /\ fs.lock[i] = NULL /\ Same
  BY DEF namex, At, Unlocked
<1>3. l \in LocType /\ LocOK(l) /\ HeldOK(fs, p, l) /\ fs.disk \in DiskType
  BY <1>1 DEF Here
<1>4. /\ Goal(l) = "walk" /\ l.put = <<>> /\ OpAt(l.op, "walk") /\ RestAt(l, "walk")
      /\ i \in Inums /\ ((l.ip # NULL) <=> (l.op = "link2")) /\ l.dp = NULL
      /\ l.ip \in Inums \cup {NULL}
      /\ \A x \in Inums : Refs(x, l, c, f)
           = Eq(i, x) + Eq(l.ip, x) + Eq(l.dp, x) + Eq(c, x) + Eq(f, x)
  <2> HIDE DEF l
  <2>1. /\ Goal(l) = l.pc /\ l.put = <<>>
        /\ OpAt(l.op, l.pc) /\ RestAt(l, l.pc)
        /\ (l.at # NULL) <=> (l.pc = "walk")
        /\ (l.ip # NULL) <=> IpAt(l.op, l.pc)
        /\ (l.dp # NULL) <=> DpAt(l.op, l.pc)
        /\ l.at \in Inums \cup {NULL} /\ l.ip \in Inums \cup {NULL}
        /\ \A x \in Inums : Refs(x, l, c, f)
             = Eq(l.at, x) + Eq(l.ip, x) + Eq(l.dp, x) + Eq(c, x) + Eq(f, x)
    BY <1>2, <1>3, NotPutting
  <2> QED
    BY <1>2, <2>1 DEF IpAt, DpAt
<1>5. /\ l.path \in Seq(Names \cup Dots) /\ l.path # <<>> /\ Parent(l)
      /\ n \in Names \cup Dots /\ Tail(l.path) \in Seq(Names \cup Dots)
  <2>1. l.path \in Seq(Names \cup Dots) /\ l.path # <<>> /\ Parent(l)
    BY <1>3, <1>4 DEF RestAt, LocType
  <2> QED
    BY <2>1, PathIn
<1>6. NoDots => /\ HeldInUse(fs.disk, l) /\ n \in Names /\ Tail(l.path) \in Seq(Names)
  <2>1. ASSUME NoDots PROVE HeldInUse(fs.disk, l) /\ l.path \in Seq(Names)
    BY <1>1, <2>1 DEF Here, HeldInUse
  <2> QED
    BY <1>5, <2>1, PathIn
<1>7. j \in Inums \cup {0}
  BY <1>3, <1>4, <1>5, DiskFields
<1>8. l.pc # "idle" /\ UNCHANGED <<outstanding, calls>> /\ UNCHANGED <<cwd, file>>
  BY <1>2 DEF Same
<1>9. /\ s.panic \in Panics
      /\ \/ s.panic # "" /\ fs.disk[i].type = "none"
         \/ LockTo(s, p, i)
  <2> HIDE DEF s, i
  <2> QED
    BY <1>2, <1>4, Lock DEF s
<1>10. CASE s.panic # ""
  <2>1. To(p, s, l)
    BY <1>10 DEF namex
  <2>2. NoDots => fs.disk[i].type # "none"
    BY <1>4, <1>6, Consts DEF HeldInUse
  <2>3. ~NoDots
    BY <1>9, <1>10, <2>2 DEF LockTo
  <2>4. s.panic \in Panics \ {""}
    BY <1>9, <1>10
  <2> HIDE DEF s
  <2> QED
    BY <1>8, <2>1, <2>3, <2>4, SamePanic
<1>11. CASE s.panic = ""
  <2>1. LockTo(s, p, i)
    BY <1>9, <1>11
  <2>2. UnlockTo(u, s, p)
    <3> HIDE DEF s, i
    <3> QED
      BY <1>2, <1>4, <2>1, Unlock DEF i
  <2>3. /\ u \in FsType /\ Cached(u) /\ u.disk = fs.disk /\ u.panic = "" /\ u.inode = s.inode
        /\ \A x \in Inums : /\ u.inode[x].ref = fs.inode[x].ref
                            /\ fs.inode[x].valid => u.inode[x].valid
                            /\ u.lock[x] = fs.lock[x]
        /\ Gentle(fs, u, p)
    BY <2>2 DEF UnlockTo
  <2>4. /\ s.disk = fs.disk /\ fs.disk[i].type # "none" /\ u.inode[i].valid
        /\ s.inode[i].type = fs.disk[i].type
    BY <2>1, <2>3 DEF LockTo
  <2>5. \/ To(p, u, Put(out, <<i>>, Lost(l)))
        \/ /\ l.parent = TRUE /\ fs.disk[i].type = "dir"
           /\ To(p, u, [out EXCEPT !.pc = "got", !.dp = i, !.name = n])
        \/ /\ fs.disk[i].type = "dir" /\ j # 0
           /\ To(p, iget(u, j), Walk(l, <<i>>, j, Tail(l.path)))
    <3>1. dirlookup(s, i, n) = j
      BY <2>4 DEF dirlookup
    <3>2. l.parent \in BOOLEAN
      BY <1>3 DEF LocType
    <3> HIDE DEF s, u, j
    <3> QED
      BY <1>11, <2>4, <3>1, <3>2 DEF namex, NamexOut, s, u
  <2> HIDE DEF s, u
  <2>6. /\ out \in LocType /\ out.op = l.op /\ out.at = NULL /\ out.ip = l.ip /\ out.dp = NULL
        /\ out.put = <<>> /\ out.path = <<>> /\ out.name = l.name /\ out.new = l.new
    <3>1. l.dp = NULL /\ l.put = <<>> /\ l \in LocType
      BY <1>3, <1>4
    <3> QED
      BY <3>1, NamexOutIs
  <2>7. CASE To(p, u, Put(out, <<i>>, Lost(l)))
    <3> DEFINE k == Lost(l)
    <3>1. k \in Goals /\ k \in {"end", "undo"} /\ ((k = "undo") <=> (l.op = "link2"))
      BY DEF Lost, Goals
    <3> HIDE DEF k, out
    <3>2. PutOK(out, <<i>>, k)
      <4>1. OpAt(out.op, k) /\ RestAt(out, k)
        BY <1>4, <2>6, <3>1 DEF OpAt, RestAt
      <4> QED
        BY <1>4, <2>6, <3>1, <4>1, OneSeq DEF PutOK, IpAt, DpAt
    <3>3. PutHeld(u, p, out, <<i>>, k)
      BY <1>3, <1>4, <2>3, <2>6, <3>1 DEF PutHeld, HeldOK
    <3>4. NoDots => PutInUse(u, out, <<i>>)
      <4>1. <<>> \in Seq(Names)
        OBVIOUS
      <4>2. \A y \in DOMAIN <<i>> : fs.disk[<<i>>[y]].type # "none"
        BY <1>4, <2>4, OneSeq
      <4>3. \A y \in DOMAIN <<i>> : u.disk[<<i>>[y]].type # "none"
        BY <2>3, <4>2
      <4> HIDE DEF l, i, out
      <4>4. ASSUME NoDots
            PROVE  /\ \A x \in {out.at, out.ip, out.dp} \ {NULL} : u.disk[x].type # "none"
                   /\ out.path \in Seq(Names) /\ (out.name \in Names \/ out.name = NULL)
        <5>1. HeldInUse(fs.disk, l)
          BY <1>6, <4>4
        <5>2. /\ out.at = NULL /\ out.dp = NULL /\ out.ip = l.ip /\ out.path = <<>>
              /\ out.name = l.name /\ u.disk = fs.disk
          BY <2>3, <2>6
        <5>3. /\ l.ip # NULL => fs.disk[l.ip].type # "none"
              /\ l.name \in Names \/ l.name = NULL
          BY <5>1 DEF HeldInUse
        <5> QED
          BY <4>1, <5>2, <5>3
      <4> QED
        BY <2>3, <4>3, <4>4 DEF PutInUse
    <3>5. RefsAs(p, u, out, <<i>>)
      <4>1. ASSUME NEW x \in Inums
            PROVE  u.inode[x].ref + Refs(x, l, c, f)
                     = fs.inode[x].ref + PutRefs(x, out, <<i>>, c, f)
        <5>1. Refs(x, l, c, f) = Eq(i, x) + Eq(l.ip, x) + Eq(NULL, x) + Eq(c, x) + Eq(f, x)
          BY <1>4
        <5>2. PutRefs(x, out, <<i>>, c, f)
                = Eq(NULL, x) + Eq(l.ip, x) + Eq(NULL, x) + Eq(i, x) + Eq(c, x) + Eq(f, x)
          BY <1>4, <2>6, PutRefsOne
        <5>3. /\ Eq(NULL, x) = 0 /\ Eq(i, x) \in {0, 1} /\ Eq(l.ip, x) \in {0, 1}
              /\ Eq(c, x) \in {0, 1} /\ Eq(f, x) \in {0, 1} /\ fs.inode[x].ref \in Nat
          BY <1>4, PutRefsOne, RefNat
        <5>4. u.inode[x].ref = fs.inode[x].ref
          BY <2>3
        <5> QED
          BY <5>1, <5>2, <5>3, <5>4
      <4> QED
        BY <4>1 DEF RefsAs
    <3>6. SameOK(p, u, out, <<i>>, k)
      BY <2>3, <3>2, <3>3, <3>4, <3>5, GentleUse DEF SameOK
    <3>7. PutPendsAs(p, out, k)
      BY <1>4, <2>6, <3>1 DEF PutPendsAs, PutPends, Pends
    <3>8. To(p, u, Put(out, <<i>>, k))
      BY <2>7 DEF k
    <3> QED
      BY <1>2, <1>8, <2>3, <3>6, <3>7, <3>8, SameQuiet
  <2>8. CASE /\ l.parent = TRUE /\ fs.disk[i].type = "dir"
             /\ To(p, u, [out EXCEPT !.pc = "got", !.dp = i, !.name = n])
    <3> DEFINE m == [out EXCEPT !.pc = "got", !.dp = i, !.name = n]
    <3> HIDE DEF out
    <3>1. /\ m \in LocType /\ m.op = l.op /\ m.at = NULL /\ m.ip = l.ip /\ m.dp = i
          /\ m.put = <<>> /\ m.path = <<>> /\ m.name = n /\ m.new = l.new /\ m.pc = "got"
      <4>1. out \in LocType /\ i \in Inums /\ n \in Names \cup Dots
        BY <1>4, <1>5, <2>6
      <4>2. NamexGot(out, m, i, n)
        <5> HIDE DEF i, n
        <5> QED
          BY <4>1, NamexGotIs
      <4> QED
        BY <2>6, <4>2 DEF NamexGot
    <3>2. To(p, u, m)
      BY <2>8
    <3> HIDE DEF m, n
    <3>3. l.op \in ParentOps
      BY <1>5, <2>8 DEF Parent
    <3>4. PutOK(m, <<>>, "got")
      <4>1. OpAt(m.op, "got") /\ RestAt(m, "got")
        BY <1>4, <1>5, <3>1, <3>3 DEF OpAt, RestAt
      <4>2. (m.ip # NULL) <=> IpAt(m.op, "got")
        BY <1>4, <3>1, <3>3 DEF IpAt, ParentOps, Makes
      <4>3. (m.dp # NULL) <=> DpAt(m.op, "got")
        BY <1>4, <3>1, <3>3, Consts DEF DpAt
      <4> QED
        BY <3>1, <4>1, <4>2, <4>3, NoSeq DEF PutOK, Goals
    <3>5. PutHeld(u, p, m, <<>>, "got")
      BY <1>3, <1>4, <2>3, <2>4, <2>8, <3>1 DEF PutHeld, HeldOK
    <3>6. NoDots => PutInUse(u, m, <<>>)
      <4>1. <<>> \in Seq(Names) /\ DOMAIN <<>> = {}
        OBVIOUS
      <4>2. NoDots => \A y \in {m.at, m.ip, m.dp} \ {NULL} : fs.disk[y].type # "none"
        <5> HIDE DEF l, i
        <5> QED
          BY <1>6, <2>4, <3>1 DEF HeldInUse
      <4>3. u.disk = fs.disk /\ u.panic = "" /\ m.path = <<>> /\ m.name = n
        BY <2>3, <3>1
      <4>4. NoDots => n \in Names
        <5> HIDE DEF n, l
        <5> QED
          BY <1>6
      <4> HIDE DEF m, n
      <4> QED
        BY <4>1, <4>2, <4>3, <4>4 DEF PutInUse
    <3>7. RefsAs(p, u, m, <<>>)
      <4>1. ASSUME NEW x \in Inums
            PROVE  u.inode[x].ref + Refs(x, l, c, f)
                     = fs.inode[x].ref + PutRefs(x, m, <<>>, c, f)
        <5>1. Refs(x, l, c, f) = Eq(i, x) + Eq(l.ip, x) + Eq(NULL, x) + Eq(c, x) + Eq(f, x)
          BY <1>4
        <5>2. PutRefs(x, m, <<>>, c, f)
                = Eq(NULL, x) + Eq(l.ip, x) + Eq(i, x) + Eq(c, x) + Eq(f, x)
          BY <3>1, PutRefsNone
        <5>3. /\ Eq(NULL, x) = 0 /\ Eq(i, x) \in {0, 1} /\ Eq(l.ip, x) \in {0, 1}
              /\ Eq(c, x) \in {0, 1} /\ Eq(f, x) \in {0, 1} /\ fs.inode[x].ref \in Nat
          BY <1>4, PutRefsOne, RefNat
        <5>4. u.inode[x].ref = fs.inode[x].ref
          BY <2>3
        <5> QED
          BY <5>1, <5>2, <5>3, <5>4
      <4> QED
        BY <4>1 DEF RefsAs
    <3>8. SameOK(p, u, m, <<>>, m.pc)
      BY <2>3, <3>1, <3>4, <3>5, <3>6, <3>7, GentleUse DEF SameOK
    <3>9. PutPendsAs(p, m, m.pc)
      BY <1>4, <3>1 DEF PutPendsAs, PutPends, Pends
    <3> QED
      BY <1>2, <1>8, <2>3, <3>1, <3>2, <3>8, <3>9, SameGo
  <2>10. CASE j # 0 /\ NoEntryFor(u, j) /\ To(p, iget(u, j), Walk(l, <<i>>, j, Tail(l.path)))
    <3> DEFINE k == Walk(l, <<i>>, j, Tail(l.path))
    <3>1. j \in Inums /\ To(p, iget(u, j), k)
      BY <1>7, <2>10
    <3> HIDE DEF j, u, k
    <3> QED
      BY <1>8, <2>3, <2>10, <3>1, IgetPanicKeeps
  <2>9. CASE /\ fs.disk[i].type = "dir" /\ j # 0 /\ ~NoEntryFor(u, j)
             /\ To(p, iget(u, j), Walk(l, <<i>>, j, Tail(l.path)))
    <3> DEFINE t == iget(u, j)
               names == Tail(l.path)
               m == Settled(Walk(l, <<i>>, j, names))
    <3>1. j \in Inums
      BY <1>7, <2>9
    <3> HIDE DEF j
    <3>2. IgetTo(u, t, j)
      BY <2>3, <2>9, <3>1, IgetIs
    <3>3. Looking(l)
      <4>1. l.op \in {"open", "chdir", "link"} \cup ParentOps
        BY <1>3, <1>4 DEF OpAt, LocType, ParentOps, Makes
      <4> QED
        BY <1>3, <1>4, <1>5, <4>1 DEF Looking, RestAt
    <3>4. WalkTo(l, <<i>>, j, names, m)
      <4>1. OneOrNone(<<i>>)
        BY <1>4 DEF OneOrNone
      <4> QED
        BY <1>5, <3>1, <3>3, <4>1, WalkIs
    <3>5. t.panic = "" /\ t \in FsType /\ Cached(t) /\ t.disk = fs.disk /\ t.lock = u.lock
      BY <2>3, <3>2 DEF IgetTo
    <3>6. Went(p, t, m)
      BY <2>9, <3>5, WentIs
    <3> HIDE DEF t, m
    <3>7. fs' = t /\ loc' = [loc EXCEPT ![p] = m] /\ stable' = stable /\ crashes' = crashes
      BY <3>6 DEF Went
    <3>8. Moved(p, m, c, f)
      <4>1. m \in LocType /\ LocOK(m) /\ m.pc # "idle"
        BY <3>4 DEF WalkTo
      <4>2. /\ outstanding' = outstanding \cup {p}
            /\ calls' \in Nat /\ crashes' \in Nat /\ stable' = stable
        BY <1>8, <3>7, RestIs
      <4>3. cwd' = [cwd EXCEPT ![p] = c] /\ file' = [file EXCEPT ![p] = f]
        BY <1>8, Stays
      <4> QED
        BY <1>1, <3>5, <3>7, <4>1, <4>2, <4>3, InvFacts DEF Moved, Here
    <3>9. fs.inode[i].ref \in Nat /\ \A x \in Inums : l.ip = x => fs.inode[x].ref > 0
      <4>1. ASSUME NEW x \in Inums, l.ip = x PROVE fs.inode[x].ref > 0
        <5>1. "ip" \in PlacesOf(x, l, c, f)
          BY <4>1 DEF PlacesOf, Places
        <5> QED
          BY <5>1, InvFacts, Referred
      <4> QED
        BY <1>4, <4>1, RefNat
    <3>10. LinkHeld(t, l)
      <4>1. ASSUME l.op = "link2" PROVE t.inode[l.ip].valid /\ t.disk[l.ip].type # "dir"
        <5>1. l.ip \in Inums /\ fs.inode[l.ip].valid /\ fs.disk[l.ip].type # "dir"
          BY <1>3, <1>4, <4>1 DEF HeldOK
        <5>2. u.inode[l.ip].ref > 0 /\ u.inode[l.ip].valid
          BY <2>3, <3>9, <5>1
        <5> QED
          BY <3>2, <3>5, <5>1, <5>2 DEF IgetTo
      <4> QED
        BY <4>1 DEF LinkHeld
    <3>11. ASSUME NoDots PROVE WalkUse(t, l, <<i>>, j, names)
      <4>1. fs.disk[j].type # "none"
        <5>1. fs.disk[i].ent[n] = j
          BY DEF j
        <5> QED
          BY <1>4, <1>6, <2>9, <3>1, <3>11, <5>1, EntryInUse
      <4>20. \A y \in DOMAIN <<i>> : fs.disk[<<i>>[y]].type # "none"
        BY <1>4, <2>4, OneSeq
      <4>2. \A y \in DOMAIN <<i>> : t.disk[<<i>>[y]].type # "none"
        BY <3>5, <4>20
      <4>21. t.panic = "" /\ t.disk[j].type # "none"
        BY <3>5, <4>1
      <4>3. InUseAt(t, l.ip) /\ (l.name \in Names \/ l.name = NULL)
        BY <1>6, <3>5, <3>11 DEF InUseAt, HeldInUse
      <4>4. names \in Seq(Names)
        BY <1>6, <3>11
      <4> HIDE DEF names, l, i
      <4> QED
        BY <4>21, <4>2, <4>3, <4>4, Zenon DEF WalkUse
    <3>12. HoldsOK(p, m, c, f)
      <4>1. HeldOK(t, p, m) /\ (NoDots => HeldInUse(t.disk, m) /\ t.panic = "")
        BY <3>4, <3>10, <3>11, WalkHolds
      <4> QED
        BY <1>1, <3>5, <3>7, <4>1 DEF HoldsOK, Here
    <3>13. RefStep(p, m, c, f)
      <4>1. ASSUME NEW x \in Inums
            PROVE  t.inode[x].ref = fs.inode[x].ref + Refs(x, m, c, f) - Refs(x, l, c, f)
        <5>1. t.inode[x].ref = fs.inode[x].ref + Eq(x, j)
          BY <2>3, <3>2 DEF IgetTo
        <5>2. Refs(x, m, c, f) = Eq(j, x) + Eq(Nth(<<i>>, 1), x) + Eq(l.ip, x) + Eq(c, x) + Eq(f, x)
          BY <3>4 DEF WalkTo
        <5>3. Nth(<<i>>, 1) = i
          BY <1>4, OneSeq
        <5>4. Refs(x, l, c, f) = Eq(i, x) + Eq(l.ip, x) + Eq(NULL, x) + Eq(c, x) + Eq(f, x)
          BY <1>4
        <5>5. /\ Eq(NULL, x) = 0 /\ Eq(i, x) \in {0, 1} /\ Eq(l.ip, x) \in {0, 1}
              /\ Eq(c, x) \in {0, 1} /\ Eq(f, x) \in {0, 1} /\ fs.inode[x].ref \in Nat
              /\ Eq(j, x) = Eq(x, j) /\ Eq(j, x) \in {0, 1}
          BY <1>4, EqIs, RefNat
        <5> QED
          BY <5>1, <5>2, <5>3, <5>4, <5>5
      <4> QED
        BY <3>7, <4>1 DEF RefStep
    <3>14. Gentle(fs, fs', p)
      BY <2>3, <3>2, <3>7 DEF Gentle, IgetTo
    <3>15. \A x \in Inums : Pends(m, x) = Pends(loc[p], x)
      <4>1. \A x \in Inums : Pends(m, x) = IF l.op = "link2" THEN Eq(l.ip, x) ELSE 0
        BY <3>4 DEF WalkTo
      <4> QED
        BY <1>4, <4>1 DEF Pends, Eq
    <3> QED
      BY <3>8, <3>12, <3>13, <3>14, <3>15, Quiet
  <2> QED
    BY <2>5, <2>7, <2>8, <2>9, <2>10
<1> QED
  BY <1>10, <1>11

-----------------------------------------------------------------------------
(* Steps after the lookup.                                                 *)

(* A process that has found what it looked for. *)
Still(l) == l.pc \notin {"idle", "iput", "iput2", "walk"}

Like(l, w) ==
  /\ w \in LocType /\ w.op = l.op /\ w.at = l.at /\ w.path = l.path
  /\ w.parent = l.parent /\ w.name = l.name /\ w.new = l.new

Fits(w, is, k) ==
  /\ is \in Seq(Inums) /\ Len(is) <= 2 /\ k \in Goals /\ k \notin {"walk", "got"}
  /\ OpAt(w.op, k)
  /\ (w.ip # NULL) <=> IpAt(w.op, k)
  /\ (w.dp # NULL) <=> DpAt(w.op, k)

Used(s, w, is) ==
  /\ InUseAt(s, w.ip) /\ InUseAt(s, w.dp)
  /\ \A n \in DOMAIN is : s.disk[is[n]].type # "none"

Sound(s) == s \in FsType /\ Cached(s) /\ s.panic = ""

Before(p, l, x) == Eq(l.ip, x) + Eq(l.dp, x) + Eq(cwd[p], x) + Eq(file[p], x)

After(w, is, c, f, x) ==
  Eq(w.ip, x) + Eq(w.dp, x) + Eq(Nth(is, 1), x) + Eq(Nth(is, 2), x) + Eq(c, x) + Eq(f, x)

Balance(p, s, l, w, is, c, f) ==
  \A x \in Inums :
    s.inode[x].ref + Before(p, l, x) = fs.inode[x].ref + After(w, is, c, f, x)

LEMMA SumsNat ==
  ASSUME NEW p, NEW l, NEW w, NEW is, NEW c, NEW f, NEW x
  PROVE  Before(p, l, x) \in Nat /\ After(w, is, c, f, x) \in Nat
<1>1. \A y : Eq(y, x) \in Nat
  BY DEF Eq
<1> QED
  BY <1>1 DEF Before, After

LEMMA Ready ==
  ASSUME SysIndInv, NEW p \in Procs, NEW l, l = loc[p], Still(l),
         NEW w, Like(l, w), NEW is, NEW k, Fits(w, is, k), NEW m, PutTo(w, is, k, m),
         NEW s, Went(p, s, m), Sound(s), PutHeld(s, p, w, is, k), NoDots => Used(s, w, is),
         NEW c, NEW f, Rest(p, c, f), InUseAt(s, c), InUseAt(s, f),
         Balance(p, s, l, w, is, c, f)
  PROVE  PutStep(p, m, w, is, k, c, f) /\ fs' = s
<1>1. Here(p, l)
  BY HereIs
<1>2. l \in LocType /\ LocOK(l)
  BY <1>1 DEF Here
<1>3. /\ l.at = NULL /\ OpAt(l.op, l.pc) /\ RestAt(l, l.pc)
      /\ \A x \in Inums :
           Refs(x, l, cwd[p], file[p])
             = Eq(l.at, x) + Eq(l.ip, x) + Eq(l.dp, x) + Eq(cwd[p], x) + Eq(file[p], x)
  BY <1>2, NotPutting DEF Still
<1>4. PutOK(w, is, k)
  <2>1. RestAt(w, k)
    BY <1>3 DEF RestAt, Like, Fits
  <2> QED
    BY <1>3, <2>1 DEF PutOK, Like, Fits
<1>5. NoDots => PutInUse(s, w, is)
  <2>1. ASSUME NoDots PROVE PutInUse(s, w, is)
    <3>1. HeldInUse(fs.disk, l)
      BY <1>1, <2>1 DEF Here
    <3>2. w.path \in Seq(Names) /\ (w.name \in Names \/ w.name = NULL) /\ w.at = NULL
      BY <1>3, <3>1 DEF HeldInUse, Like
    <3>3. Used(s, w, is)
      BY <2>1
    <3> QED
      BY <3>2, <3>3 DEF PutInUse, Used, InUseAt, Sound
  <2> QED
    BY <2>1
<1>6. fs' = s /\ loc' = [loc EXCEPT ![p] = m]
  BY DEF Went
<1>7. PutRefStep(p, w, is, c, f)
  <2>1. ASSUME NEW x \in Inums
        PROVE  s.inode[x].ref = fs.inode[x].ref + PutRefs(x, w, is, c, f)
                     - Refs(x, loc[p], cwd[p], file[p])
    <3>1. s.inode[x].ref + Before(p, l, x) = fs.inode[x].ref + After(w, is, c, f, x)
      BY DEF Balance
    <3>2. Before(p, l, x) \in Nat /\ After(w, is, c, f, x) \in Nat /\ fs.inode[x].ref \in Nat
      BY SumsNat, RefNat
    <3>3. s.inode \in [Inums -> InodeType]
      BY FsFields DEF Sound
    <3>4. s.inode[x].ref \in Nat
      BY <3>3 DEF InodeType
    <3>5. Eq(NULL, x) = 0 /\ \A y : Eq(y, x) \in Nat
      BY EqIs DEF Eq
    <3>6. Refs(x, l, cwd[p], file[p]) = Before(p, l, x)
      <4>1. /\ Eq(l.ip, x) \in Nat /\ Eq(l.dp, x) \in Nat
            /\ Eq(cwd[p], x) \in Nat /\ Eq(file[p], x) \in Nat
        BY <3>5
      <4> QED
        BY <1>3, <3>5, <4>1 DEF Before
    <3>7. PutRefs(x, w, is, c, f) = After(w, is, c, f, x)
      <4>1. /\ Eq(w.ip, x) \in Nat /\ Eq(w.dp, x) \in Nat /\ Eq(c, x) \in Nat /\ Eq(f, x) \in Nat
            /\ Eq(Nth(is, 1), x) \in Nat /\ Eq(Nth(is, 2), x) \in Nat /\ Eq(w.at, x) = 0
        BY <1>3, <3>5 DEF Like
      <4> QED
        BY <4>1 DEF After, PutRefs
    <3>8. s.inode[x].ref = fs.inode[x].ref + After(w, is, c, f, x) - Before(p, l, x)
      BY <3>1, <3>2, <3>4
    <3> QED
      BY <3>6, <3>7, <3>8
  <2> QED
    BY <1>6, <2>1 DEF PutRefStep
<1> QED
  BY <1>4, <1>5, <1>6, <1>7 DEF PutStep, Sound

LEMMA ReadyQuiet ==
  ASSUME SysIndInv, NEW p \in Procs, NEW l, l = loc[p], Still(l),
         NEW w, Like(l, w), NEW is, NEW k, Fits(w, is, k), NEW m, PutTo(w, is, k, m),
         NEW s, Went(p, s, m), Sound(s), PutHeld(s, p, w, is, k), NoDots => Used(s, w, is),
         NEW c, NEW f, Rest(p, c, f), InUseAt(s, c), InUseAt(s, f),
         Balance(p, s, l, w, is, c, f), Gentle(fs, s, p), PutPendsAs(p, w, k)
  PROVE  SysIndInv'
<1>1. PutStep(p, m, w, is, k, c, f) /\ fs' = s
  BY Ready
<1> QED
  BY <1>1, PutQuiet

LEMMA SameRest ==
  ASSUME SysIndInv, NEW p \in Procs, loc[p].pc # "idle", Same, UNCHANGED <<stable, crashes>>
  PROVE  Rest(p, cwd[p], file[p])
<1>1. Here(p, loc[p])
  BY HereIs
<1>2. UNCHANGED <<outstanding, calls>> /\ UNCHANGED cwd /\ UNCHANGED file
  BY DEF Same
<1>3. /\ outstanding' = outstanding \cup {p}
      /\ calls' \in Nat /\ crashes' \in Nat /\ stable' = stable
  BY <1>2, RestIs
<1>4. cwd' = [cwd EXCEPT ![p] = cwd[p]] /\ file' = [file EXCEPT ![p] = file[p]]
  BY <1>2, Stays
<1> QED
  BY <1>1, <1>3, <1>4 DEF Rest, Here

(* The same for a step that leaves cwd and file alone and the disk too. *)
LEMMA ReadySame ==
  ASSUME SysIndInv, NEW p \in Procs, NEW l, l = loc[p], Still(l), Same,
         NEW w, Like(l, w), NEW is, NEW k, Fits(w, is, k),
         NEW s, To(p, s, Put(w, is, k)), Sound(s), PutHeld(s, p, w, is, k),
         NoDots => Used(s, w, is),
         Balance(p, s, l, w, is, cwd[p], file[p]), Gentle(fs, s, p), PutPendsAs(p, w, k)
  PROVE  SysIndInv'
<1> DEFINE m == Settled(Put(w, is, k))
<1>1. PutTo(w, is, k, m)
  BY PutIs DEF Like, Fits
<1>2. Went(p, s, m)
  BY WentIs DEF Sound
<1> HIDE DEF m
<1>3. Rest(p, cwd[p], file[p])
  <2>1. loc[p].pc # "idle"
    BY DEF Still
  <2> QED
    BY <1>2, <2>1, SameRest DEF Went
<1>4. InUseAt(s, cwd[p]) /\ InUseAt(s, file[p])
  BY GentleUse DEF Gentle
<1> QED
  BY <1>1, <1>2, <1>3, <1>4, ReadyQuiet

(* And for one that changes the disk. *)
LEMMA ReadyMove ==
  ASSUME SysIndInv, NEW p \in Procs, NEW l, l = loc[p], Still(l), Same,
         NEW w, Like(l, w), NEW is, NEW k, Fits(w, is, k),
         NEW s, To(p, s, Put(w, is, k)), Sound(s), PutHeld(s, p, w, is, k),
         NoDots => Used(s, w, is), InUseAt(s, cwd[p]), InUseAt(s, file[p]),
         Balance(p, s, l, w, is, cwd[p], file[p])
  PROVE  /\ PutStep(p, Settled(Put(w, is, k)), w, is, k, cwd[p], file[p])
         /\ fs' = s
<1> DEFINE m == Settled(Put(w, is, k))
<1>1. PutTo(w, is, k, m)
  BY PutIs DEF Like, Fits
<1>2. Went(p, s, m)
  BY WentIs DEF Sound
<1> HIDE DEF m
<1>3. Rest(p, cwd[p], file[p])
  <2>1. loc[p].pc # "idle"
    BY DEF Still
  <2> QED
    BY <1>2, <2>1, SameRest DEF Went
<1>4. PutStep(p, m, w, is, k, cwd[p], file[p]) /\ fs' = s
  BY <1>1, <1>2, <1>3, Ready
<1> QED
  BY <1>4 DEF m

(* A process at l: what is known of it once it has found its inodes. *)
Found(p, l) ==
  /\ l \in LocType /\ Still(l) /\ l.at = NULL /\ l.put = <<>>
  /\ OpAt(l.op, l.pc) /\ RestAt(l, l.pc)
  /\ (l.ip # NULL) <=> IpAt(l.op, l.pc)
  /\ (l.dp # NULL) <=> DpAt(l.op, l.pc)
  /\ l.ip \in Inums \cup {NULL} /\ l.dp \in Inums \cup {NULL}
  /\ (l.dp # NULL => fs.inode[l.dp].valid /\ fs.disk[l.dp].type = "dir")
  /\ (l.op = "link2" /\ l.ip # NULL => fs.inode[l.ip].valid /\ fs.disk[l.ip].type # "dir")
  /\ (l.pc \in {"made", "unlinked"} => fs.inode[l.ip].valid /\ fs.lock[l.ip] = p)
  /\ (l.pc \in {"entry", "notempty"} => fs.lock[l.dp] = p)
  /\ (l.pc = "entry" => l.name \in Names /\ fs.disk[l.dp].ent[l.name] = l.ip)
  /\ (NoDots => /\ InUseAt(fs, l.ip) /\ InUseAt(fs, l.dp)
                /\ (l.name \in Names \/ l.name = NULL))

LEMMA FoundIs ==
  ASSUME SysIndInv, NEW p \in Procs, NEW l, l = loc[p], Still(l)
  PROVE  Found(p, l)
<1>1. Here(p, l)
  BY HereIs
<1>2. l \in LocType /\ LocOK(l) /\ HeldOK(fs, p, l)
  BY <1>1 DEF Here
<1>3. /\ Goal(l) = l.pc /\ l.put = <<>>
      /\ OpAt(l.op, l.pc) /\ RestAt(l, l.pc)
      /\ l.at = NULL
      /\ (l.ip # NULL) <=> IpAt(l.op, l.pc)
      /\ (l.dp # NULL) <=> DpAt(l.op, l.pc)
      /\ l.ip \in Inums \cup {NULL} /\ l.dp \in Inums \cup {NULL}
  BY <1>2, NotPutting DEF Still
<1>4. NoDots => /\ InUseAt(fs, l.ip) /\ InUseAt(fs, l.dp)
                /\ (l.name \in Names \/ l.name = NULL)
  BY <1>1 DEF Here, HeldInUse, InUseAt
<1> QED
  BY <1>2, <1>3, <1>4 DEF Found, HeldOK

(* Some of the inodes that a process can drop. *)
NoIp(l) == [l EXCEPT !.ip = NULL]
NoDp(l) == [l EXCEPT !.dp = NULL]
SetIp(l, i) == [l EXCEPT !.ip = i]

LEMMA DropIs ==
  ASSUME NEW l \in LocType
  PROVE  /\ Like(l, NoIp(l)) /\ NoIp(l).ip = NULL /\ NoIp(l).dp = l.dp
         /\ NoIp(l).pc = l.pc /\ NoIp(l).put = l.put
         /\ Like(l, NoDp(l)) /\ NoDp(l).ip = l.ip /\ NoDp(l).dp = NULL
         /\ NoDp(l).pc = l.pc /\ NoDp(l).put = l.put
         /\ \A i \in Inums : /\ Like(l, SetIp(l, i)) /\ SetIp(l, i).ip = i
                             /\ SetIp(l, i).dp = l.dp /\ SetIp(l, i).put = l.put
BY DEF Like, NoIp, NoDp, SetIp, LocType

(* Nothing that counts as a pending link before and after. *)
LEMMA NoPends ==
  ASSUME NEW p, NEW l, l = loc[p], Found(p, l), l.op # "link2", l.pc # "unlinked",
         NEW w, w.op = l.op, NEW k, k # "unlinked"
  PROVE  PutPendsAs(p, w, k)
<1>1. Goal(l) # "unlinked"
  BY DEF Found, Still, Goal
<1> QED
  BY <1>1 DEF PutPendsAs, PutPends, Pends

(* An inode locked and unlocked again. *)
LEMMA LockUnlock ==
  ASSUME SysIndInv, NEW p \in Procs, NEW i \in Inums, fs.panic = "", fs.lock[i] = NULL,
         NEW s, s = ilock(fs, p, i), NEW u, u = iunlock(s, i)
  PROVE  /\ s.panic \in Panics /\ u.panic = s.panic
         /\ \/ s.panic # "" /\ fs.disk[i].type = "none"
            \/ s.panic = "" /\ LockTo(s, p, i) /\ UnlockTo(u, s, p)
<1>1. IlockTo(fs, s, p, i)
  BY InvFacts, IlockIs
<1>2. IunlockTo(s, u, i)
  BY <1>1, IunlockIs DEF IlockTo
<1>3. /\ s.panic \in Panics
      /\ \/ s.panic # "" /\ fs.disk[i].type = "none"
         \/ LockTo(s, p, i)
  BY Lock
<1>4. LockTo(s, p, i) => UnlockTo(u, s, p)
  BY Unlock
<1> QED
  BY <1>2, <1>3, <1>4 DEF IunlockTo, LockTo

SameRefs(u) == \A x \in Inums : u.inode[x].ref = fs.inode[x].ref

LEMMA UnlockSound ==
  ASSUME NEW u, NEW s, NEW p, UnlockTo(u, s, p)
  PROVE  Sound(u) /\ SameRefs(u) /\ Gentle(fs, u, p) /\ u.disk = fs.disk
BY DEF UnlockTo, Sound, SameRefs

(* The call ends without what it has found. *)
LEMMA DropIpKeeps ==
  ASSUME SysIndInv, NEW p \in Procs, NEW l, l = loc[p], Still(l), Same,
         l.op # "link2", l.pc # "unlinked", l.dp = NULL, l.ip \in Inums, NEW u,
         To(p, u, Put(NoIp(l), <<l.ip>>, "end")), Sound(u), SameRefs(u), Gentle(fs, u, p),
         fs.disk[l.ip].type # "none"
  PROVE  SysIndInv'
<1> DEFINE w == NoIp(l)
           i == l.ip
<1>1. Found(p, l)
  BY FoundIs
<1>2. Like(l, w) /\ w.ip = NULL /\ w.dp = NULL /\ w.op = l.op
  BY <1>1, DropIs DEF Found, Like
<1> HIDE DEF w
<1>3. Fits(w, <<i>>, "end")
  <2>1. OpAt(w.op, "end")
    BY <1>1, <1>2 DEF Found, OpAt
  <2> QED
    BY <1>2, <2>1, OneSeq DEF Fits, IpAt, DpAt, Goals
<1>4. PutHeld(u, p, w, <<i>>, "end")
  BY <1>2 DEF PutHeld
<1>5. Used(u, w, <<i>>)
  <2>1. \A n \in DOMAIN <<i>> : fs.disk[<<i>>[n]].type # "none"
    BY OneSeq
  <2> QED
    BY <1>2, <2>1 DEF Used, InUseAt, Gentle
<1>6. Balance(p, u, l, w, <<i>>, cwd[p], file[p])
  <2>1. ASSUME NEW x \in Inums
        PROVE  u.inode[x].ref + Before(p, l, x)
                 = fs.inode[x].ref + After(w, <<i>>, cwd[p], file[p], x)
    <3>1. u.inode[x].ref = fs.inode[x].ref /\ fs.inode[x].ref \in Nat
      BY RefNat DEF SameRefs
    <3>2. Nth(<<i>>, 1) = i /\ Nth(<<i>>, 2) = NULL
      BY OneSeq
    <3>3. /\ Eq(NULL, x) = 0 /\ Eq(i, x) \in {0, 1} /\ Eq(cwd[p], x) \in {0, 1}
          /\ Eq(file[p], x) \in {0, 1}
      BY EqIs
    <3>4. Before(p, l, x) = Eq(i, x) + Eq(NULL, x) + Eq(cwd[p], x) + Eq(file[p], x)
      BY DEF Before
    <3>5. After(w, <<i>>, cwd[p], file[p], x)
            = Eq(NULL, x) + Eq(NULL, x) + Eq(i, x) + Eq(NULL, x) + Eq(cwd[p], x) + Eq(file[p], x)
      BY <1>2, <3>2 DEF After
    <3> QED
      BY <3>1, <3>3, <3>4, <3>5
  <2> QED
    BY <2>1 DEF Balance
<1>7. PutPendsAs(p, w, "end")
  BY <1>1, <1>2, NoPends
<1> QED
  BY <1>2, <1>3, <1>4, <1>5, <1>6, <1>7, ReadySame DEF w

LEMMA EndIs ==
  ASSUME NEW l \in LocType, NEW m, m = [l EXCEPT !.pc = "end", !.ip = NULL]
  PROVE  /\ Like(l, m) /\ m.ip = NULL /\ m.dp = l.dp /\ m.op = l.op /\ m.pc = "end"
         /\ m.put = l.put /\ m \in LocType
BY DEF Like, LocType, Goals

(* The inode becomes the open file. *)
LEMMA TakeFileKeeps ==
  ASSUME SysIndInv, NEW p \in Procs, NEW l, l = loc[p], Still(l),
         UNCHANGED <<outstanding, cwd, calls>>,
         l.op # "link2", l.pc # "unlinked", l.dp = NULL, l.ip \in Inums, NEW u,
         file[p] = NULL, file' = [file EXCEPT ![p] = l.ip],
         To(p, u, [l EXCEPT !.pc = "end", !.ip = NULL]),
         Sound(u), SameRefs(u), Gentle(fs, u, p), fs.disk[l.ip].type # "none"
  PROVE  SysIndInv'
<1> DEFINE m == [l EXCEPT !.pc = "end", !.ip = NULL]
           i == l.ip
<1>1. Found(p, l) /\ Here(p, l)
  BY FoundIs, HereIs
<1>2. /\ Like(l, m) /\ m.ip = NULL /\ m.dp = NULL /\ m.op = l.op /\ m.pc = "end"
      /\ m.put = <<>> /\ m \in LocType
  <2>1. l \in LocType /\ l.put = <<>>
    BY <1>1 DEF Found
  <2> QED
    BY <2>1, EndIs
<1> HIDE DEF m
<1>3. PutTo(m, <<>>, "end", m) /\ Settled(m) = m
  BY <1>2, GoIs DEF Goals
<1>4. Went(p, u, m)
  <2>1. Went(p, u, Settled(m))
    BY WentIs DEF m, Sound
  <2> QED
    BY <1>3, <2>1
<1>5. Fits(m, <<>>, "end")
  <2>1. OpAt(m.op, "end")
    BY <1>1, <1>2 DEF Found, OpAt
  <2> QED
    BY <1>2, <2>1, NoSeq DEF Fits, IpAt, DpAt, Goals
<1>6. PutHeld(u, p, m, <<>>, "end")
  BY <1>2 DEF PutHeld
<1>7. Used(u, m, <<>>)
  BY <1>2, EmptySeq DEF Used, InUseAt
<1>8. Rest(p, cwd[p], i)
  <2>1. loc[p].pc # "idle" /\ UNCHANGED <<outstanding, calls>> /\ UNCHANGED <<stable, crashes>>
    BY <1>4 DEF Went, Still
  <2>2. /\ outstanding' = outstanding \cup {p}
        /\ calls' \in Nat /\ crashes' \in Nat /\ stable' = stable
    BY <2>1, RestIs
  <2> QED
    BY <1>1, <2>2, Stays DEF Rest, Here
<1>9. InUseAt(u, cwd[p]) /\ InUseAt(u, i)
  BY GentleUse DEF Gentle, InUseAt
<1>10. Balance(p, u, l, m, <<>>, cwd[p], i)
  <2>1. ASSUME NEW x \in Inums
        PROVE  u.inode[x].ref + Before(p, l, x)
                 = fs.inode[x].ref + After(m, <<>>, cwd[p], i, x)
    <3>1. u.inode[x].ref = fs.inode[x].ref /\ fs.inode[x].ref \in Nat
      BY RefNat DEF SameRefs
    <3>2. Nth(<<>>, 1) = NULL /\ Nth(<<>>, 2) = NULL
      BY NoSeq
    <3>3. /\ Eq(NULL, x) = 0 /\ Eq(i, x) \in {0, 1} /\ Eq(cwd[p], x) \in {0, 1}
      BY EqIs
    <3>4. Before(p, l, x) = Eq(i, x) + Eq(NULL, x) + Eq(cwd[p], x) + Eq(NULL, x)
      BY DEF Before
    <3>5. After(m, <<>>, cwd[p], i, x)
            = Eq(NULL, x) + Eq(NULL, x) + Eq(NULL, x) + Eq(NULL, x) + Eq(cwd[p], x) + Eq(i, x)
      BY <1>2, <3>2 DEF After
    <3> QED
      BY <3>1, <3>3, <3>4, <3>5
  <2> QED
    BY <2>1 DEF Balance
<1>11. PutPendsAs(p, m, "end")
  BY <1>1, <1>2, NoPends
<1> QED
  BY <1>2, <1>3, <1>4, <1>5, <1>6, <1>7, <1>8, <1>9, <1>10, <1>11, ReadyQuiet

(* The end of open, with the inode unlocked in u. *)
Opened(p, l, u) ==
  \/ /\ file[p] = NULL /\ u.panic = "" /\ file' = [file EXCEPT ![p] = l.ip]
     /\ To(p, u, [l EXCEPT !.pc = "end", !.ip = NULL])
     /\ UNCHANGED <<outstanding, cwd, calls>>
  \/ To(p, u, Put(NoIp(l), <<l.ip>>, "end")) /\ Same

LEMMA OpenKeeps ==
  ASSUME SysIndInv, NEW p \in Procs, NEW l, l = loc[p], Still(l),
         l.op # "link2", l.pc # "unlinked", l.dp = NULL, l.ip \in Inums, NEW u, Opened(p, l, u),
         \/ u.panic \in Panics \ {""} /\ fs.disk[l.ip].type = "none"
         \/ /\ Sound(u) /\ SameRefs(u) /\ Gentle(fs, u, p)
            /\ fs.disk[l.ip].type # "none"
  PROVE  SysIndInv'
<1>1. CASE u.panic \in Panics \ {""} /\ fs.disk[l.ip].type = "none"
  <2>1. To(p, u, Put(NoIp(l), <<l.ip>>, "end")) /\ Same
    BY <1>1 DEF Opened
  <2>2. ~NoDots
    <3>1. Found(p, l)
      BY FoundIs
    <3>2. l.ip # NULL
      BY Consts
    <3> QED
      BY <1>1, <3>1, <3>2 DEF Found, InUseAt
  <2>3. loc[p].pc # "idle" /\ UNCHANGED <<outstanding, calls>> /\ UNCHANGED <<cwd, file>>
    BY <2>1 DEF Same, Still
  <2> QED
    BY <1>1, <2>1, <2>2, <2>3, SamePanic
<1>2. CASE /\ Sound(u) /\ SameRefs(u) /\ Gentle(fs, u, p)
           /\ fs.disk[l.ip].type # "none"
  <2>1. CASE To(p, u, Put(NoIp(l), <<l.ip>>, "end")) /\ Same
    BY <1>2, <2>1, DropIpKeeps
  <2>2. CASE /\ file[p] = NULL /\ file' = [file EXCEPT ![p] = l.ip]
             /\ To(p, u, [l EXCEPT !.pc = "end", !.ip = NULL])
             /\ UNCHANGED <<outstanding, cwd, calls>>
    BY <1>2, <2>2, TakeFileKeeps
  <2> QED
    BY <2>1, <2>2 DEF Opened
<1> QED
  BY <1>1, <1>2

LEMMA open_gotKeeps ==
  ASSUME SysIndInv, NEW p \in Procs, open_got(p)
  PROVE  SysIndInv'
<1> DEFINE l == loc[p]
           s == ilock(fs, p, l.ip)
           u == iunlock(s, l.ip)
<1>1. fs.panic = "" /\ l.op = "open" /\ l.pc = "got" /\ fs.lock[l.ip] = NULL
  BY DEF open_got, At, Unlocked
<1>2. Still(l)
  BY <1>1 DEF Still
<1>3. l.dp = NULL /\ l.ip \in Inums
  <2> HIDE DEF l
  <2>1. Found(p, l)
    BY <1>2, FoundIs DEF l
  <2> QED
    BY <1>1, <2>1 DEF Found, IpAt, DpAt, ParentOps, Makes
<1>4. /\ s.panic \in Panics /\ u.panic = s.panic
      /\ \/ s.panic # "" /\ fs.disk[l.ip].type = "none"
         \/ s.panic = "" /\ LockTo(s, p, l.ip) /\ UnlockTo(u, s, p)
  <2> HIDE DEF l
  <2> QED
    BY <1>1, <1>3, LockUnlock
<1>5. Opened(p, l, u)
  BY <1>4 DEF open_got, OpenFile, Opened, NoIp, Same
<1>6. \/ u.panic \in Panics \ {""} /\ fs.disk[l.ip].type = "none"
      \/ /\ Sound(u) /\ SameRefs(u) /\ Gentle(fs, u, p)
         /\ fs.disk[l.ip].type # "none"
  <2> HIDE DEF l, s, u
  <2> QED
    BY <1>4, UnlockSound DEF LockTo
<1> HIDE DEF u
<1> QED
  BY <1>1, <1>2, <1>3, <1>5, <1>6, OpenKeeps

LEMMA create_existsKeeps ==
  ASSUME SysIndInv, NEW p \in Procs, create_exists(p)
  PROVE  SysIndInv'
<1> DEFINE l == loc[p]
           s == ilock(fs, p, l.ip)
           u == iunlock(s, l.ip)
<1>1. fs.panic = "" /\ l.op \in Makes /\ l.pc = "exists" /\ fs.lock[l.ip] = NULL
  BY DEF create_exists, At, Unlocked
<1>2. Still(l) /\ l.op # "link2"
  BY <1>1 DEF Still, Makes
<1>3. l.dp = NULL /\ l.ip \in Inums
  <2> HIDE DEF l
  <2>1. Found(p, l)
    BY <1>2, FoundIs DEF l
  <2> QED
    BY <1>1, <2>1 DEF Found, IpAt, DpAt
<1>4. /\ s.panic \in Panics /\ u.panic = s.panic
      /\ \/ s.panic # "" /\ fs.disk[l.ip].type = "none"
         \/ s.panic = "" /\ LockTo(s, p, l.ip) /\ UnlockTo(u, s, p)
  <2> HIDE DEF l
  <2> QED
    BY <1>1, <1>3, LockUnlock
<1>5. Opened(p, l, u)
  BY <1>4 DEF create_exists, OpenFile, Opened, NoIp, Same
<1>6. \/ u.panic \in Panics \ {""} /\ fs.disk[l.ip].type = "none"
      \/ /\ Sound(u) /\ SameRefs(u) /\ Gentle(fs, u, p)
         /\ fs.disk[l.ip].type # "none"
  <2> HIDE DEF l, s, u
  <2> QED
    BY <1>4, UnlockSound DEF LockTo
<1> HIDE DEF u
<1> QED
  BY <1>1, <1>2, <1>3, <1>5, <1>6, OpenKeeps

(* Every inode that was read from the disk still is. *)
KeptValid(u) == \A x \in Inums : fs.inode[x].valid => u.inode[x].valid

(* A lock of the process given back. *)
LEMMA UnlockMine ==
  ASSUME SysIndInv, NEW p \in Procs, fs.panic = "", NEW i \in Inums, fs.lock[i] = p,
         NEW u, u = iunlock(fs, i)
  PROVE  Sound(u) /\ SameRefs(u) /\ Gentle(fs, u, p) /\ KeptValid(u)
<1>1. IunlockTo(fs, u, i)
  BY InvFacts, IunlockIs
<1> QED
  BY <1>1 DEF IunlockTo, Sound, SameRefs, Gentle, KeptValid

LEMMA create_madeKeeps ==
  ASSUME SysIndInv, NEW p \in Procs, create_made(p)
  PROVE  SysIndInv'
<1> DEFINE l == loc[p]
           u == iunlock(fs, l.ip)
<1>1. fs.panic = "" /\ l.op \in Makes /\ l.pc = "made"
  BY DEF create_made, At
<1>2. Still(l) /\ l.op # "link2"
  BY <1>1 DEF Still, Makes
<1>3. l.dp = NULL /\ l.ip \in Inums /\ fs.lock[l.ip] = p /\ fs.disk[l.ip].type # "none"
  <2> HIDE DEF l
  <2>1. Found(p, l)
    BY <1>2, FoundIs DEF l
  <2>2. l.dp = NULL /\ l.ip \in Inums /\ fs.lock[l.ip] = p /\ fs.inode[l.ip].valid
    BY <1>1, <2>1 DEF Found, IpAt, DpAt
  <2> QED
    BY <2>2, InvFacts DEF Cached
<1>4. Sound(u) /\ SameRefs(u) /\ Gentle(fs, u, p)
  <2> HIDE DEF l
  <2> QED
    BY <1>1, <1>3, UnlockMine
<1>5. Opened(p, l, u)
  BY <1>4 DEF create_made, OpenFile, Opened, NoIp, Same, Sound
<1> HIDE DEF u
<1> QED
  BY <1>1, <1>2, <1>3, <1>4, <1>5, OpenKeeps

(* A process refers to the inodes that it has found. *)
LEMMA FoundRef ==
  ASSUME SysIndInv, NEW p \in Procs, NEW l, l = loc[p], NEW x \in Inums, x = l.ip \/ x = l.dp
  PROVE  fs.inode[x].ref > 0
<1>1. CASE x = l.ip
  <2>1. "ip" \in PlacesOf(x, loc[p], cwd[p], file[p])
    BY <1>1 DEF PlacesOf, Places
  <2> QED
    BY <2>1, InvFacts, Referred
<1>2. CASE x = l.dp
  <2>1. "dp" \in PlacesOf(x, loc[p], cwd[p], file[p])
    BY <1>2 DEF PlacesOf, Places
  <2> QED
    BY <2>1, InvFacts, Referred
<1> QED
  BY <1>1, <1>2

(* The directory that a process has found, locked. *)
LEMMA LockDp ==
  ASSUME SysIndInv, NEW p \in Procs, NEW l, l = loc[p], Found(p, l), fs.panic = "",
         l.dp \in Inums, fs.lock[l.dp] = NULL,
         NEW s, s = ilock(fs, p, l.dp), NEW u, u = iunlock(s, l.dp)
  PROVE  /\ s.panic = "" /\ LockTo(s, p, l.dp) /\ UnlockTo(u, s, p)
         /\ Sound(u) /\ SameRefs(u) /\ Gentle(fs, u, p) /\ KeptValid(u)
<1>1. l.dp # NULL
  BY Consts
<1>2. fs.disk[l.dp].type = "dir"
  BY <1>1 DEF Found
<1>3. s.panic = "" /\ LockTo(s, p, l.dp) /\ UnlockTo(u, s, p)
  BY <1>2, LockUnlock
<1> QED
  BY <1>3, UnlockSound DEF UnlockTo, KeptValid

(* The directory is given up. *)
LEMMA DropDpKeeps ==
  ASSUME SysIndInv, NEW p \in Procs, NEW l, l = loc[p], Still(l), Same,
         l.op \in {"unlink", "link2"}, l.pc \in {"got", "notempty"}, l.dp \in Inums, NEW u,
         To(p, u, Put(NoDp(l), <<l.dp>>, Lost(l))), Sound(u), SameRefs(u), Gentle(fs, u, p),
         KeptValid(u)
  PROVE  SysIndInv'
<1> DEFINE w == NoDp(l)
           i == l.dp
           k == Lost(l)
<1>1. Found(p, l)
  BY FoundIs
<1>2. Like(l, w) /\ w.ip = l.ip /\ w.dp = NULL /\ w.op = l.op
  BY <1>1, DropIs DEF Found, Like
<1>3. k \in {"end", "undo"} /\ ((k = "undo") <=> (l.op = "link2"))
  BY DEF Lost
<1>4. /\ OpAt(l.op, l.pc) /\ l.ip \in Inums \cup {NULL} /\ ((l.ip # NULL) <=> (l.op = "link2"))
  <2>1. OpAt(l.op, l.pc) /\ l.ip \in Inums \cup {NULL} /\ ((l.ip # NULL) <=> IpAt(l.op, l.pc))
    BY <1>1 DEF Found
  <2> QED
    BY <2>1 DEF IpAt
<1> HIDE DEF w, k
<1>5. Fits(w, <<i>>, k)
  <2>1. OpAt(w.op, k)
    BY <1>2, <1>3, <1>4 DEF OpAt
  <2> QED
    BY <1>2, <1>3, <1>4, <2>1, OneSeq DEF Fits, IpAt, DpAt, Goals
<1>6. PutHeld(u, p, w, <<i>>, k)
  <2>1. l.op = "link2" => fs.inode[l.ip].valid /\ fs.disk[l.ip].type # "dir" /\ l.ip \in Inums
    BY <1>1, <1>4 DEF Found
  <2> QED
    BY <1>2, <1>3, <2>1 DEF PutHeld, KeptValid, Gentle
<1>7. NoDots => Used(u, w, <<i>>)
  <2>1. fs.disk[i].type = "dir"
    BY <1>1, Consts DEF Found
  <2>2. \A n \in DOMAIN <<i>> : fs.disk[<<i>>[n]].type # "none"
    BY <2>1, OneSeq
  <2>3. NoDots => InUseAt(fs, l.ip)
    BY <1>1 DEF Found
  <2> QED
    BY <1>2, <2>2, <2>3 DEF Used, InUseAt, Gentle
<1>8. Balance(p, u, l, w, <<i>>, cwd[p], file[p])
  <2>1. ASSUME NEW x \in Inums
        PROVE  u.inode[x].ref + Before(p, l, x)
                 = fs.inode[x].ref + After(w, <<i>>, cwd[p], file[p], x)
    <3>1. u.inode[x].ref = fs.inode[x].ref /\ fs.inode[x].ref \in Nat
      BY RefNat DEF SameRefs
    <3>2. Nth(<<i>>, 1) = i /\ Nth(<<i>>, 2) = NULL
      BY OneSeq
    <3>3. /\ Eq(NULL, x) = 0 /\ Eq(i, x) \in {0, 1} /\ Eq(cwd[p], x) \in {0, 1}
          /\ Eq(file[p], x) \in {0, 1} /\ Eq(l.ip, x) \in {0, 1}
      BY EqIs
    <3>4. Before(p, l, x) = Eq(l.ip, x) + Eq(i, x) + Eq(cwd[p], x) + Eq(file[p], x)
      BY DEF Before
    <3>5. After(w, <<i>>, cwd[p], file[p], x)
            = Eq(l.ip, x) + Eq(NULL, x) + Eq(i, x) + Eq(NULL, x) + Eq(cwd[p], x) + Eq(file[p], x)
      BY <1>2, <3>2 DEF After
    <3> QED
      BY <3>1, <3>3, <3>4, <3>5
  <2> QED
    BY <2>1 DEF Balance
<1>9. PutPendsAs(p, w, k)
  <2>1. Goal(l) = l.pc /\ Goal(l) # "unlinked"
    BY DEF Goal
  <2> QED
    BY <1>2, <1>3, <2>1 DEF PutPendsAs, PutPends, Pends
<1> QED
  BY <1>2, <1>5, <1>6, <1>7, <1>8, <1>9, ReadySame DEF w, k

(* A reference to the entry j of the locked directory. *)
GotEntry(t, p, d, j) ==
  /\ Sound(t) /\ Gentle(fs, t, p) /\ t.disk = fs.disk /\ t.lock[d] = p
  /\ \A x \in Inums :
       /\ t.inode[x].ref = fs.inode[x].ref + Eq(x, j)
       /\ fs.inode[x].valid /\ fs.inode[x].ref > 0 => t.inode[x].valid

LEMMA GotEntryIs ==
  ASSUME SysIndInv, NEW p \in Procs, NEW d \in Inums, NEW s, LockTo(s, p, d), fs.lock[d] = NULL,
         NEW j \in Inums, ~NoEntryFor(s, j), NEW t, t = iget(s, j)
  PROVE  GotEntry(t, p, d, j)
<1>1. IgetTo(s, t, j)
  BY IgetIs DEF LockTo
<1>2. /\ Sound(t) /\ t.disk = fs.disk /\ t.lock = s.lock
      /\ \A x \in Inums :
           /\ t.inode[x].ref = fs.inode[x].ref + Eq(x, j)
           /\ fs.inode[x].valid /\ fs.inode[x].ref > 0 => t.inode[x].valid
  BY <1>1 DEF IgetTo, LockTo, Sound
<1>3. \A x \in Inums : t.lock[x] = IF x = d THEN p ELSE fs.lock[x]
  BY <1>2 DEF LockTo
<1> QED
  BY <1>2, <1>3 DEF GotEntry, Gentle

EntryLoc(l, j) == [l EXCEPT !.pc = "entry", !.ip = j]

LEMMA EntryLocIs ==
  ASSUME NEW l \in LocType, NEW j \in Inums, NEW m, m = EntryLoc(l, j)
  PROVE  /\ Like(l, m) /\ m.ip = j /\ m.dp = l.dp /\ m.op = l.op /\ m.pc = "entry"
         /\ m.put = l.put /\ m \in LocType /\ m.name = l.name
BY DEF Like, LocType, Goals, EntryLoc

LEMMA unlink_dirKeeps ==
  ASSUME SysIndInv, NEW p \in Procs, unlink_dir(p)
  PROVE  SysIndInv'
<1> DEFINE l == loc[p]
           d == l.dp
           s == ilock(fs, p, d)
           u == iunlock(s, d)
           j == fs.disk[d].ent[l.name]
           t == iget(s, j)
           m == EntryLoc(l, j)
<1>1. fs.panic = "" /\ l.op = "unlink" /\ l.pc = "got" /\ fs.lock[d] = NULL /\ Same
  BY DEF unlink_dir, At, Unlocked
<1>2. Still(l)
  BY <1>1 DEF Still
<1>3. Found(p, l)
  BY <1>2, FoundIs
<1>4. /\ d \in Inums /\ l.ip = NULL /\ l.name \in Names \cup Dots /\ l \in LocType
      /\ fs.disk[d].type = "dir" /\ fs.inode[d].valid /\ OpAt(l.op, l.pc) /\ l.put = <<>>
  <2> HIDE DEF l
  <2> QED
    BY <1>1, <1>3 DEF Found, IpAt, DpAt, ParentOps, RestAt
<1>5. j \in Inums \cup {0}
  BY <1>4, InvFacts, DiskFields
<1>6. /\ s.panic = "" /\ LockTo(s, p, d) /\ UnlockTo(u, s, p)
      /\ Sound(u) /\ SameRefs(u) /\ Gentle(fs, u, p) /\ KeptValid(u)
  <2> HIDE DEF l, s, u
  <2> QED
    BY <1>1, <1>3, <1>4, LockDp DEF l, s, u
<1>7. \/ To(p, u, Put(NoDp(l), <<d>>, Lost(l)))
      \/ l.name \notin Dots /\ j # 0 /\ To(p, t, m)
  <2>1. dirlookup(s, d, l.name) = j
    BY <1>6 DEF dirlookup, LockTo
  <2>2. Lost(l) = "end"
    BY <1>1 DEF Lost
  <2>3. \/ To(p, u, Put(NoDp(l), <<d>>, "end"))
        \/ l.name \notin Dots /\ j # 0 /\ To(p, t, m)
    <3> HIDE DEF j
    <3> QED
      BY <1>6, <2>1 DEF unlink_dir, NoDp, EntryLoc
  <2> QED
    BY <2>2, <2>3
<1>8. CASE To(p, u, Put(NoDp(l), <<d>>, Lost(l)))
  <2> HIDE DEF u
  <2> QED
    BY <1>1, <1>2, <1>4, <1>6, <1>8, DropDpKeeps
<1>9. CASE j # 0 /\ NoEntryFor(s, j) /\ To(p, t, m)
  <2>1. j \in Inums /\ s \in FsType
    BY <1>5, <1>6, <1>9 DEF LockTo
  <2>2. loc[p].pc # "idle" /\ UNCHANGED <<outstanding, calls>> /\ UNCHANGED <<cwd, file>>
    BY <1>1 DEF Same
  <2> HIDE DEF j, s, m
  <2> QED
    BY <1>9, <2>1, <2>2, IgetPanicKeeps
<1>10. CASE l.name \notin Dots /\ j # 0 /\ ~NoEntryFor(s, j) /\ To(p, t, m)
  <2>1. j \in Inums /\ l.name \in Names
    BY <1>4, <1>5, <1>10
  <2>2. GotEntry(t, p, d, j)
    <3> HIDE DEF d, s, j
    <3> QED
      BY <1>1, <1>4, <1>6, <1>10, <2>1, GotEntryIs DEF d
  <2>3. /\ Like(l, m) /\ m.ip = j /\ m.dp = d /\ m.op = l.op /\ m.pc = "entry"
        /\ m.put = <<>> /\ m \in LocType /\ m.name = l.name
    <3> HIDE DEF l, j
    <3> QED
      BY <1>4, <2>1, EntryLocIs
  <2>4. fs.disk[d].ent[l.name] = j
    OBVIOUS
  <2> HIDE DEF t, m, j
  <2>5. PutTo(m, <<>>, "entry", m) /\ Settled(m) = m
    BY <2>3, GoIs DEF Goals
  <2>6. Went(p, t, m)
    <3>1. Went(p, t, Settled(m))
      BY <1>10, <2>2, WentIs DEF GotEntry, Sound
    <3> QED
      BY <2>5, <3>1
  <2>7. Fits(m, <<>>, "entry")
    <3>1. m.op = "unlink" /\ m.ip # NULL /\ m.dp # NULL
      BY <1>1, <1>4, <2>1, <2>3, Consts
    <3>2. OpAt("unlink", "entry") /\ IpAt("unlink", "entry") /\ DpAt("unlink", "entry")
      BY DEF OpAt, IpAt, DpAt
    <3> QED
      BY <3>1, <3>2, NoSeq DEF Fits, Goals
  <2>8. PutHeld(t, p, m, <<>>, "entry")
    <3>1. fs.inode[d].ref > 0
      BY <1>4, FoundRef
    <3>2. t.inode[d].valid /\ t.disk = fs.disk /\ t.lock[d] = p
      BY <1>4, <2>2, <3>1 DEF GotEntry
    <3> QED
      BY <1>1, <1>4, <2>1, <2>3, <2>4, <3>2 DEF PutHeld
  <2>9. Used(t, m, <<>>)
    <3>1. fs.disk[j].type # "none"
      BY <1>4, <2>1, <2>4, EntryInUse
    <3> QED
      BY <1>4, <2>2, <2>3, <3>1, EmptySeq DEF Used, InUseAt, GotEntry
  <2>10. Balance(p, t, l, m, <<>>, cwd[p], file[p])
    <3>1. ASSUME NEW x \in Inums
          PROVE  t.inode[x].ref + Before(p, l, x)
                   = fs.inode[x].ref + After(m, <<>>, cwd[p], file[p], x)
      <4>1. t.inode[x].ref = fs.inode[x].ref + Eq(x, j) /\ fs.inode[x].ref \in Nat
        BY <2>2, RefNat DEF GotEntry
      <4>2. Nth(<<>>, 1) = NULL /\ Nth(<<>>, 2) = NULL
        BY NoSeq
      <4>3. /\ Eq(NULL, x) = 0 /\ Eq(d, x) \in {0, 1} /\ Eq(cwd[p], x) \in {0, 1}
            /\ Eq(file[p], x) \in {0, 1} /\ Eq(x, j) = Eq(j, x) /\ Eq(j, x) \in {0, 1}
        BY EqIs
      <4>4. Before(p, l, x) = Eq(NULL, x) + Eq(d, x) + Eq(cwd[p], x) + Eq(file[p], x)
        BY <1>4 DEF Before
      <4>5. After(m, <<>>, cwd[p], file[p], x)
              = Eq(j, x) + Eq(d, x) + Eq(NULL, x) + Eq(NULL, x) + Eq(cwd[p], x) + Eq(file[p], x)
        BY <2>3, <4>2 DEF After
      <4> QED
        BY <4>1, <4>3, <4>4, <4>5
    <3> QED
      BY <3>1 DEF Balance
  <2>11. PutPendsAs(p, m, "entry")
    <3> HIDE DEF l
    <3> QED
      BY <1>1, <1>3, <2>3, NoPends DEF l
  <2>12. Rest(p, cwd[p], file[p])
    <3>1. loc[p].pc # "idle"
      BY <1>1
    <3> QED
      BY <1>1, <2>6, <3>1, SameRest DEF Went
  <2>13. InUseAt(t, cwd[p]) /\ InUseAt(t, file[p]) /\ Sound(t) /\ Gentle(fs, t, p)
    BY <2>2, GentleUse DEF GotEntry
  <2> QED
    BY <1>2, <2>3, <2>5, <2>6, <2>7, <2>8, <2>9, <2>10, <2>11, <2>12, <2>13, ReadyQuiet
<1> QED
  BY <1>7, <1>8, <1>9, <1>10

LEMMA GiveUpKeeps ==
  ASSUME SysIndInv, NEW p \in Procs, GiveUp(p)
  PROVE  SysIndInv'
<1> DEFINE l == loc[p]
           u == iunlock(fs, l.dp)
<1>1. fs.panic = "" /\ l.pc = "notempty" /\ Same /\ To(p, u, Put(NoDp(l), <<l.dp>>, Lost(l)))
  BY DEF GiveUp, At, NoDp
<1>2. Still(l)
  BY <1>1 DEF Still
<1>3. Found(p, l)
  BY <1>2, FoundIs
<1>4. l.dp \in Inums /\ l.op \in {"unlink", "link2"} /\ fs.lock[l.dp] = p
  <2> HIDE DEF l
  <2>1. OpAt(l.op, "notempty") /\ DpAt(l.op, "notempty")
    BY <1>1, <1>3 DEF Found, DpAt
  <2>2. l.dp # NULL /\ l.dp \in Inums
    BY <1>1, <1>3, <2>1 DEF Found
  <2>3. l.op \in {"unlink", "link2"}
    BY <2>1 DEF OpAt
  <2> QED
    BY <1>1, <1>3, <2>2, <2>3 DEF Found
<1>5. Sound(u) /\ SameRefs(u) /\ Gentle(fs, u, p) /\ KeptValid(u)
  <2> HIDE DEF l
  <2>1. fs.panic = "" /\ l.dp \in Inums /\ fs.lock[l.dp] = p
    BY <1>1, <1>4
  <2> QED
    BY <2>1, UnlockMine
<1> HIDE DEF u
<1> QED
  BY <1>1, <1>2, <1>4, <1>5, DropDpKeeps

LEMMA chdir_gotKeeps ==
  ASSUME SysIndInv, NEW p \in Procs, chdir_got(p)
  PROVE  SysIndInv'
<1> DEFINE l == loc[p]
           i == l.ip
           s == ilock(fs, p, i)
           u == iunlock(s, i)
           w == NoIp(l)
           c == cwd[p]
<1>1. /\ fs.panic = "" /\ l.op = "chdir" /\ l.pc = "got" /\ fs.lock[i] = NULL
      /\ UNCHANGED <<outstanding, file, calls>>
  BY DEF chdir_got, At, Unlocked
<1>2. Still(l)
  BY <1>1 DEF Still
<1>30. Found(p, l) /\ Here(p, l)
  BY <1>2, FoundIs, HereIs
<1>3. l.dp = NULL /\ i \in Inums /\ l \in LocType
  <2> HIDE DEF l
  <2> QED
    BY <1>1, <1>30 DEF Found, IpAt, DpAt, ParentOps, Makes
<1>4. /\ s.panic \in Panics /\ u.panic = s.panic
      /\ \/ s.panic # "" /\ fs.disk[i].type = "none"
         \/ s.panic = "" /\ LockTo(s, p, i) /\ UnlockTo(u, s, p)
  <2> HIDE DEF i
  <2> QED
    BY <1>1, <1>3, LockUnlock
<1>5. \/ s.panic = "" /\ cwd' = [cwd EXCEPT ![p] = i] /\ To(p, u, Put(w, <<c>>, "end"))
      \/ To(p, u, Put(w, <<i>>, "end")) /\ UNCHANGED cwd
  BY DEF chdir_got, PutCwd, NoIp
<1>6. CASE s.panic # ""
  <2>1. To(p, u, Put(w, <<i>>, "end")) /\ UNCHANGED cwd
    BY <1>5, <1>6
  <2>2. ~NoDots
    <3>1. i # NULL /\ fs.disk[i].type = "none"
      BY <1>3, <1>4, <1>6, Consts
    <3> QED
      BY <1>30, <3>1 DEF Found, InUseAt
  <2>3. l.pc # "idle" /\ UNCHANGED <<outstanding, calls>> /\ UNCHANGED <<cwd, file>>
    BY <1>1, <2>1
  <2>4. u.panic \in Panics \ {""}
    BY <1>4, <1>6
  <2> HIDE DEF u
  <2> QED
    BY <2>1, <2>2, <2>3, <2>4, SamePanic
<1>7. CASE s.panic = ""
  <2>1. /\ Sound(u) /\ SameRefs(u) /\ Gentle(fs, u, p) /\ u.disk = fs.disk
        /\ fs.disk[i].type # "none"
    <3> HIDE DEF s, u, i
    <3> QED
      BY <1>4, <1>7, UnlockSound DEF LockTo
  <2>2. CASE To(p, u, Put(w, <<i>>, "end")) /\ UNCHANGED cwd
    <3>1. Same
      BY <1>1, <2>2 DEF Same
    <3> HIDE DEF u
    <3> QED
      BY <1>1, <1>2, <1>3, <2>1, <2>2, <3>1, DropIpKeeps
  <2>3. CASE cwd' = [cwd EXCEPT ![p] = i] /\ To(p, u, Put(w, <<c>>, "end"))
    <3> DEFINE m == Settled(Put(w, <<c>>, "end"))
    <3> HIDE DEF u
    <3>1. c \in Inums /\ fs.disk[c].type # "none"
      BY <1>30 DEF Here
    <3>2. Like(l, w) /\ w.ip = NULL /\ w.dp = NULL /\ w.op = l.op
      <4> HIDE DEF l
      <4> QED
        BY <1>3, DropIs DEF Like
    <3>3. To(p, u, Put(w, <<c>>, "end"))
      BY <2>3
    <3> HIDE DEF w, c
    <3>4. PutTo(w, <<c>>, "end", m)
      BY <3>1, <3>2, OneSeq, PutIs DEF Like, Goals
    <3>5. Went(p, u, m)
      BY <2>1, <3>3, WentIs DEF Sound
    <3> HIDE DEF m
    <3>6. Fits(w, <<c>>, "end")
      <4>1. w.op = "chdir" /\ w.ip = NULL /\ w.dp = NULL
        BY <1>1, <3>2
      <4>2. OpAt("chdir", "end") /\ ~IpAt("chdir", "end") /\ ~DpAt("chdir", "end")
        BY DEF OpAt, IpAt, DpAt
      <4> QED
        BY <3>1, <4>1, <4>2, OneSeq DEF Fits, Goals
    <3>7. PutHeld(u, p, w, <<c>>, "end")
      BY <3>2 DEF PutHeld
    <3>8. Used(u, w, <<c>>)
      <4>1. \A n \in DOMAIN <<c>> : fs.disk[<<c>>[n]].type # "none"
        BY <3>1, OneSeq
      <4> QED
        BY <2>1, <3>2, <4>1 DEF Used, InUseAt
    <3>9. Rest(p, i, file[p])
      <4>1. l.pc # "idle" /\ UNCHANGED <<outstanding, calls>> /\ UNCHANGED <<stable, crashes>>
        BY <1>1, <3>5 DEF Went
      <4>2. /\ outstanding' = outstanding \cup {p}
            /\ calls' \in Nat /\ crashes' \in Nat /\ stable' = stable
        BY <4>1, RestIs
      <4>3. file' = [file EXCEPT ![p] = file[p]] /\ file[p] \in Inums \cup {NULL}
        BY <1>1, <1>30, Stays DEF Here
      <4> QED
        BY <1>3, <2>3, <4>2, <4>3 DEF Rest
    <3>10. InUseAt(u, i) /\ InUseAt(u, file[p])
      BY <2>1, GentleUse DEF InUseAt
    <3>11. Balance(p, u, l, w, <<c>>, i, file[p])
      <4>1. ASSUME NEW x \in Inums
            PROVE  u.inode[x].ref + Before(p, l, x)
                     = fs.inode[x].ref + After(w, <<c>>, i, file[p], x)
        <5>1. u.inode[x].ref = fs.inode[x].ref /\ fs.inode[x].ref \in Nat
          BY <2>1, RefNat DEF SameRefs
        <5>2. Nth(<<c>>, 1) = c /\ Nth(<<c>>, 2) = NULL
          BY <3>1, OneSeq
        <5>3. /\ Eq(NULL, x) = 0 /\ Eq(i, x) \in {0, 1} /\ Eq(c, x) \in {0, 1}
              /\ Eq(file[p], x) \in {0, 1}
          BY EqIs
        <5>4. Before(p, l, x) = Eq(i, x) + Eq(NULL, x) + Eq(c, x) + Eq(file[p], x)
          BY <1>3 DEF Before, c
        <5>5. After(w, <<c>>, i, file[p], x)
                = Eq(NULL, x) + Eq(NULL, x) + Eq(c, x) + Eq(NULL, x) + Eq(i, x) + Eq(file[p], x)
          BY <3>2, <5>2 DEF After
        <5> QED
          BY <5>1, <5>3, <5>4, <5>5
      <4> QED
        BY <4>1 DEF Balance
    <3>12. PutPendsAs(p, w, "end")
      <4> HIDE DEF l
      <4> QED
        BY <1>1, <1>30, <3>2, NoPends DEF l
    <3> QED
      BY <1>2, <2>1, <3>2, <3>4, <3>5, <3>6, <3>7, <3>8, <3>9, <3>10, <3>11, <3>12, ReadyQuiet
  <2> QED
    BY <1>5, <2>2, <2>3
<1> QED
  BY <1>6, <1>7

LEMMA NullName ==
  /\ NULL \notin Names /\ NULL \notin Dots
  /\ Names \cap Dots = {} /\ ".." \in Dots /\ "." \in Dots
BY InodeAssumption DEF Dots

-----------------------------------------------------------------------------
(* Steps that change the number of links of an inode.                      *)

(* Nothing that other processes rely on is changed, except for entries of  *)
(* inode a.                                                                *)
Tame(t, p, a) ==
  \A x \in Inums :
    /\ t.disk[x].type = fs.disk[x].type
    /\ x # a => \A y \in Names \cup Dots : t.disk[x].ent[y] = fs.disk[x].ent[y]
    /\ fs.lock[x] \notin {NULL, p} => t.lock[x] = fs.lock[x]
    /\ fs.inode[x].valid /\ fs.inode[x].ref > 0 => t.inode[x].valid

LEMMA TameOthers ==
  ASSUME SysIndInv, NEW p \in Procs, NEW a, fs.lock[a] \in {NULL, p}, Tame(fs', p, a)
  PROVE  OthersKept(p)
<1>1. ASSUME NEW q \in Procs \ {p}, NEW x \in Inums,
             PlacesOf(x, loc[q], cwd[q], file[q]) # {}
      PROVE  fs.inode[x].ref > 0
  BY <1>1, InvFacts, Referred
<1>2. ASSUME NEW x \in Inums, fs.lock[x] \notin {NULL, p} PROVE x # a
  BY <1>2
<1> QED
  BY <1>1, <1>2 DEF OthersKept, Tame

LEMMA TameUse ==
  ASSUME SysIndInv, NEW p \in Procs, NEW a, NEW t, Tame(t, p, a)
  PROVE  InUseAt(t, cwd[p]) /\ InUseAt(t, file[p])
<1>1. Here(p, loc[p])
  BY HereIs
<1> QED
  BY <1>1 DEF Here, InUseAt, Tame

(* The number of links of inode i changed by n. *)
LinkChange(t, p, i, n) ==
  /\ Sound(t) /\ Tame(t, p, i) /\ fs.lock[i] \in {NULL, p} /\ fs.disk[i].type # "none"
  /\ \A x \in Inums :
       /\ t.disk[x].ent = fs.disk[x].ent
       /\ t.disk[x].nlink = fs.disk[x].nlink + (IF x = i THEN n ELSE 0)

(* p has the lock of i, in s. *)
LockLike(s, p, i) ==
  /\ Sound(s) /\ s.disk = fs.disk /\ s.inode[i].valid /\ fs.lock[i] \in {NULL, p}
  /\ \A x \in Inums : /\ s.inode[x].ref = fs.inode[x].ref
                      /\ fs.inode[x].valid => s.inode[x].valid
                      /\ x # i => s.lock[x] = fs.lock[x]

LEMMA LockTake ==
  ASSUME NEW p, NEW i, NEW s, LockTo(s, p, i), fs.lock[i] = NULL
  PROVE  LockLike(s, p, i)
BY DEF LockTo, LockLike, Sound

LEMMA LinkChangeIs ==
  ASSUME NEW p, NEW i \in Inums, NEW s, LockLike(s, p, i), NEW n \in Int,
         NEW t, t = iunlock(AddLinks(s, i, n), i)
  PROVE  LinkChange(t, p, i, n) /\ SameRefs(t) /\ KeptValid(t) /\ t.inode[i].valid
<1> DEFINE v == AddLinks(s, i, n)
<1>1. s \in FsType /\ Cached(s) /\ s.panic = "" /\ s.inode[i].valid
  BY DEF LockLike, Sound
<1>2. AddLinksTo(s, v, i, n)
  BY <1>1, AddLinksIs
<1> HIDE DEF v
<1>3. IunlockTo(v, t, i)
  BY <1>2, IunlockIs DEF AddLinksTo, v
<1>4. /\ Sound(t) /\ fs.lock[i] \in {NULL, p}
      /\ \A x \in Inums :
           /\ t.disk[x].type = fs.disk[x].type
           /\ t.disk[x].ent = fs.disk[x].ent
           /\ t.disk[x].nlink = fs.disk[x].nlink + (IF x = i THEN n ELSE 0)
           /\ t.inode[x].ref = fs.inode[x].ref
           /\ fs.inode[x].valid => t.inode[x].valid
  <2>1. t.disk = v.disk /\ t.inode = v.inode /\ Sound(t) /\ fs.lock[i] \in {NULL, p}
    BY <1>1, <1>2, <1>3 DEF AddLinksTo, IunlockTo, LockLike, Sound
  <2>2. ASSUME NEW x \in Inums
        PROVE  /\ v.disk[x].type = fs.disk[x].type
               /\ v.disk[x].ent = fs.disk[x].ent
               /\ v.disk[x].nlink = fs.disk[x].nlink + (IF x = i THEN n ELSE 0)
               /\ v.inode[x].ref = fs.inode[x].ref
               /\ fs.inode[x].valid => v.inode[x].valid
    BY <1>2 DEF AddLinksTo, LockLike
  <2> QED
    BY <2>1, <2>2
<1>5. \A x \in Inums : x # i => t.lock[x] = fs.lock[x]
  BY <1>2, <1>3 DEF AddLinksTo, IunlockTo, LockLike
<1>6. fs.disk[i].type # "none"
  BY <1>1 DEF LockLike, Cached
<1>7. Tame(t, p, i)
  BY <1>4, <1>5 DEF Tame
<1>8. t.inode[i].valid
  BY <1>1, <1>2, <1>3 DEF AddLinksTo, IunlockTo
<1> QED
  BY <1>4, <1>6, <1>7, <1>8 DEF LinkChange, SameRefs, KeptValid

LEMMA LinkFrame ==
  ASSUME SysIndInv, NEW p \in Procs, NEW m, NEW c, NEW f,
         Moved(p, m, c, f), HoldsOK(p, m, c, f), RefStep(p, m, c, f),
         NEW i \in Inums, NEW n \in Int, LinkChange(fs', p, i, n),
         \A x \in Inums : Pends(m, x) <= Pends(loc[p], x) + (IF x = i THEN n ELSE 0)
  PROVE  SysIndInv'
<1>1. OthersKept(p)
  BY TameOthers DEF LinkChange
<1>2. fs.disk \in DiskType /\ fs'.disk \in DiskType /\ DirsOK(fs.disk)
  BY InvFacts, FsFields DEF Moved
<1>3. SameNames(fs.disk, fs'.disk)
  BY DEF SameNames, LinkChange, Tame
<1>4. LinkStep(p, m)
  <2>1. ASSUME NEW x \in Inums
        PROVE  LinksTo(fs'.disk, x) + Pends(m, x) + fs.disk[x].nlink
                 <= LinksTo(fs.disk, x) + Pends(loc[p], x) + fs'.disk[x].nlink
    <3>1. LinksTo(fs'.disk, x) = LinksTo(fs.disk, x) /\ LinksTo(fs.disk, x) \in Nat
      BY <1>2, <1>3, LinksSame, LinksFinite
    <3>2. fs.disk[x].nlink \in Int
      BY <1>2, DiskFields
    <3>3. Pends(m, x) \in Nat /\ Pends(loc[p], x) \in Nat
      BY DEF Pends
    <3>4. fs'.disk[x].nlink = fs.disk[x].nlink + (IF x = i THEN n ELSE 0)
      BY DEF LinkChange
    <3> DEFINE k == IF x = i THEN n ELSE 0
    <3>5. /\ k \in Int /\ Pends(m, x) <= Pends(loc[p], x) + k
          /\ fs'.disk[x].nlink = fs.disk[x].nlink + k
      BY <3>4
    <3> HIDE DEF k
    <3> QED
      BY <3>1, <3>2, <3>3, <3>5
  <2> QED
    BY <2>1 DEF LinkStep
<1>5. DirsOK(fs'.disk)
  <2>1. ASSUME NEW x \in Inums, fs'.disk[x].type = "none" PROVE fs'.disk[x].nlink = 0
    <3>1. fs.disk[x].type = "none" /\ x # i
      BY <2>1 DEF LinkChange, Tame
    <3>2. fs.disk[x].nlink = 0
      BY <1>2, <3>1 DEF DirsOK
    <3> QED
      BY <3>1, <3>2 DEF LinkChange
  <2> QED
    BY <1>2, <1>3, <2>1, DirsSame
<1> QED
  BY <1>1, <1>4, <1>5, Frame

(* A link is taken back: the end of unlink, and link's bad. *)
LEMMA UnlinkKeeps ==
  ASSUME SysIndInv, NEW p \in Procs, NEW l, l = loc[p], Still(l), Same,
         (l.op = "link2" /\ l.pc = "undo") \/ (l.op = "unlink" /\ l.pc = "unlinked"),
         l.ip \in Inums, l.dp = NULL, NEW t, LinkChange(t, p, l.ip, -1), SameRefs(t),
         To(p, t, Put(NoIp(l), <<l.ip>>, "end"))
  PROVE  SysIndInv'
<1> DEFINE w == NoIp(l)
           i == l.ip
           m == Settled(Put(w, <<i>>, "end"))
<1>1. Found(p, l)
  BY FoundIs
<1>2. Like(l, w) /\ w.ip = NULL /\ w.dp = NULL /\ w.op = l.op
  BY <1>1, DropIs DEF Found, Like
<1> HIDE DEF w
<1>3. Fits(w, <<i>>, "end")
  <2>1. OpAt(w.op, "end")
    BY <1>1, <1>2 DEF Found, OpAt
  <2> QED
    BY <1>2, <2>1, OneSeq DEF Fits, IpAt, DpAt, Goals
<1>4. PutHeld(t, p, w, <<i>>, "end")
  BY <1>2 DEF PutHeld
<1>5. Used(t, w, <<i>>)
  <2>1. \A n \in DOMAIN <<i>> : fs.disk[<<i>>[n]].type # "none" /\ <<i>>[n] \in Inums
    BY OneSeq DEF LinkChange
  <2> QED
    BY <1>2, <2>1 DEF Used, InUseAt, LinkChange, Tame
<1>6. Balance(p, t, l, w, <<i>>, cwd[p], file[p])
  <2>1. ASSUME NEW x \in Inums
        PROVE  t.inode[x].ref + Before(p, l, x)
                 = fs.inode[x].ref + After(w, <<i>>, cwd[p], file[p], x)
    <3>1. t.inode[x].ref = fs.inode[x].ref /\ fs.inode[x].ref \in Nat
      BY RefNat DEF SameRefs
    <3>2. Nth(<<i>>, 1) = i /\ Nth(<<i>>, 2) = NULL
      BY OneSeq
    <3>3. /\ Eq(NULL, x) = 0 /\ Eq(i, x) \in {0, 1} /\ Eq(cwd[p], x) \in {0, 1}
          /\ Eq(file[p], x) \in {0, 1}
      BY EqIs
    <3>4. Before(p, l, x) = Eq(i, x) + Eq(NULL, x) + Eq(cwd[p], x) + Eq(file[p], x)
      BY DEF Before
    <3>5. After(w, <<i>>, cwd[p], file[p], x)
            = Eq(NULL, x) + Eq(NULL, x) + Eq(i, x) + Eq(NULL, x) + Eq(cwd[p], x) + Eq(file[p], x)
      BY <1>2, <3>2 DEF After
    <3> QED
      BY <3>1, <3>3, <3>4, <3>5
  <2> QED
    BY <2>1 DEF Balance
<1>7. InUseAt(t, cwd[p]) /\ InUseAt(t, file[p])
  BY TameUse DEF LinkChange
<1>8. PutStep(p, m, w, <<i>>, "end", cwd[p], file[p]) /\ fs' = t
  BY <1>2, <1>3, <1>4, <1>5, <1>6, <1>7, ReadyMove DEF w, LinkChange
<1> HIDE DEF m
<1>9. /\ Moved(p, m, cwd[p], file[p]) /\ HoldsOK(p, m, cwd[p], file[p])
      /\ RefStep(p, m, cwd[p], file[p])
      /\ \A x \in Inums : Pends(m, x) = PutPends(w, "end", x)
  BY <1>8, PutMove
<1>10. ASSUME NEW x \in Inums
       PROVE  Pends(m, x) <= Pends(loc[p], x) + (IF x = i THEN -1 ELSE 0)
  <2>1. Pends(m, x) = 0
    BY <1>2, <1>9, Consts DEF PutPends
  <2>2. Goal(l) = l.pc
    BY DEF Goal
  <2>3. Pends(l, x) = IF x = i THEN 1 ELSE 0
    BY <2>2 DEF Pends
  <2> QED
    BY <2>1, <2>3
<1> QED
  BY <1>8, <1>9, <1>10, LinkFrame

LEMMA unlink_doneKeeps ==
  ASSUME SysIndInv, NEW p \in Procs, unlink_done(p)
  PROVE  SysIndInv'
<1> DEFINE l == loc[p]
           t == iunlock(AddLinks(fs, l.ip, -1), l.ip)
<1>1. /\ fs.panic = "" /\ l.op = "unlink" /\ l.pc = "unlinked" /\ Same
      /\ To(p, t, Put(NoIp(l), <<l.ip>>, "end"))
  BY DEF unlink_done, At, NoIp
<1>2. Still(l)
  BY <1>1 DEF Still
<1>3. l.dp = NULL /\ l.ip \in Inums /\ fs.lock[l.ip] = p /\ fs.inode[l.ip].valid
  <2> HIDE DEF l
  <2>1. Found(p, l)
    BY <1>2, FoundIs DEF l
  <2> QED
    BY <1>1, <2>1 DEF Found, IpAt, DpAt
<1>4. LinkChange(t, p, l.ip, -1) /\ SameRefs(t)
  <2> HIDE DEF l
  <2>1. LockLike(fs, p, l.ip)
    BY <1>1, <1>3, InvFacts DEF LockLike, Sound
  <2> QED
    BY <1>3, <2>1, LinkChangeIs
<1> HIDE DEF t
<1> QED
  BY <1>1, <1>2, <1>3, <1>4, UnlinkKeeps

LEMMA link_undoKeeps ==
  ASSUME SysIndInv, NEW p \in Procs, link_undo(p)
  PROVE  SysIndInv'
<1> DEFINE l == loc[p]
           s == ilock(fs, p, l.ip)
           t == iunlock(AddLinks(s, l.ip, -1), l.ip)
<1>1. /\ fs.panic = "" /\ l.op = "link2" /\ l.pc = "undo" /\ Same /\ fs.lock[l.ip] = NULL
      /\ To(p, t, Put(NoIp(l), <<l.ip>>, "end"))
  BY DEF link_undo, At, NoIp, Unlocked
<1>2. Still(l)
  BY <1>1 DEF Still
<1>3. l.dp = NULL /\ l.ip \in Inums /\ fs.disk[l.ip].type # "none"
  <2> HIDE DEF l
  <2>1. Found(p, l)
    BY <1>2, FoundIs DEF l
  <2>2. l.dp = NULL /\ l.ip \in Inums /\ fs.inode[l.ip].valid
    BY <1>1, <2>1 DEF Found, IpAt, DpAt
  <2> QED
    BY <2>2, InvFacts DEF Cached
<1>4. LinkChange(t, p, l.ip, -1) /\ SameRefs(t)
  <2> HIDE DEF l, s
  <2>1. LockTo(s, p, l.ip)
    BY <1>1, <1>3, Lock DEF s
  <2>2. LockLike(s, p, l.ip)
    BY <1>1, <2>1, LockTake
  <2> QED
    BY <1>3, <2>2, LinkChangeIs
<1> HIDE DEF t
<1> QED
  BY <1>1, <1>2, <1>3, <1>4, UnlinkKeeps

SecondLoc(l) == [[l EXCEPT !.op = "link2", !.new = NULL] EXCEPT !.parent = TRUE]

LEMMA SecondLocIs ==
  ASSUME NEW l \in LocType, NEW w, w = SecondLoc(l)
  PROVE  /\ w \in LocType /\ w.op = "link2" /\ w.new = NULL /\ w.parent = TRUE
         /\ w.ip = l.ip /\ w.dp = l.dp /\ w.name = l.name
<1> DEFINE a == [l EXCEPT !.op = "link2", !.new = NULL]
<1>1. /\ a \in LocType /\ a.op = "link2" /\ a.new = NULL
      /\ a.ip = l.ip /\ a.dp = l.dp /\ a.name = l.name
  BY DEF LocType
<1>2. w = [a EXCEPT !.parent = TRUE]
  BY DEF SecondLoc
<1> HIDE DEF a
<1>3. w \in LocType
  BY <1>1, <1>2, ZenonT(30) DEF LocType
<1>4. /\ w.op = a.op /\ w.new = a.new /\ w.ip = a.ip /\ w.dp = a.dp /\ w.name = a.name
      /\ w.parent = TRUE
  BY <1>1, <1>2 DEF LocType
<1> QED
  BY <1>1, <1>3, <1>4

LEMMA link_oldKeeps ==
  ASSUME SysIndInv, NEW p \in Procs, link_old(p)
  PROVE  SysIndInv'
<1> DEFINE l == loc[p]
           i == l.ip
           s == ilock(fs, p, i)
           u == iunlock(s, i)
           d == First(p, l.new)
           v == iunlock(AddLinks(s, i, 1), i)
           t == iget(v, d)
           w == SecondLoc(l)
           names == l.new.names
           m == Settled(Walk(w, <<>>, d, names))
           c == cwd[p]
           f == file[p]
<1>1. /\ fs.panic = "" /\ l.op = "link" /\ l.pc = "got" /\ fs.lock[i] = NULL /\ Same
  BY DEF link_old, At, Unlocked
<1>2. Still(l)
  BY <1>1 DEF Still
<1>3. Found(p, l) /\ Here(p, l)
  BY <1>2, FoundIs, HereIs
<1>4. l.dp = NULL /\ i \in Inums /\ l \in LocType /\ l.new \in Paths /\ l.at = NULL
  <2> HIDE DEF l
  <2> QED
    BY <1>1, <1>3 DEF Found, IpAt, DpAt, ParentOps, Makes, RestAt
<1>5. /\ s.panic \in Panics /\ u.panic = s.panic
      /\ \/ s.panic # "" /\ fs.disk[i].type = "none"
         \/ s.panic = "" /\ LockTo(s, p, i) /\ UnlockTo(u, s, p)
  <2> HIDE DEF i
  <2> QED
    BY <1>1, <1>4, LockUnlock
<1>6. l.pc # "idle" /\ UNCHANGED <<outstanding, calls>> /\ UNCHANGED <<cwd, file>>
  BY <1>1 DEF Same
<1>7. CASE s.panic # ""
  <2>1. To(p, s, l)
    BY <1>7 DEF link_old
  <2>2. ~NoDots
    <3>1. i # NULL /\ fs.disk[i].type = "none"
      BY <1>4, <1>5, <1>7, Consts
    <3> QED
      BY <1>3, <3>1 DEF Found, InUseAt
  <2>3. s.panic \in Panics \ {""}
    BY <1>5, <1>7
  <2> HIDE DEF s
  <2> QED
    BY <1>6, <2>1, <2>2, <2>3, SamePanic
<1>8. CASE s.panic = ""
  <2>1. LockTo(s, p, i) /\ UnlockTo(u, s, p)
    BY <1>5, <1>8
  <2>2. s.inode[i].type = fs.disk[i].type /\ fs.disk[i].type # "none"
    BY <2>1 DEF LockTo
  <2>3. \/ To(p, u, Put(NoIp(l), <<i>>, "end"))
        \/ fs.disk[i].type # "dir" /\ To(p, t, Walk(w, <<>>, d, names))
    <3>1. CASE s.inode[i].type = "dir"
      BY <1>8, <3>1 DEF link_old, NoIp
    <3>2. CASE s.inode[i].type # "dir"
      BY <1>8, <2>2, <3>2 DEF link_old, Namex, SecondLoc, CountLink
    <3> QED
      BY <3>1, <3>2
  <2>4. CASE To(p, u, Put(NoIp(l), <<i>>, "end"))
    <3> HIDE DEF u, s
    <3>1. Sound(u) /\ SameRefs(u) /\ Gentle(fs, u, p)
      BY <2>1, UnlockSound
    <3> QED
      BY <1>1, <1>2, <1>4, <2>2, <2>4, <3>1, DropIpKeeps
  <2>6. CASE NoEntryFor(v, d) /\ To(p, t, Walk(w, <<>>, d, names))
    <3> DEFINE k == Walk(w, <<>>, d, names)
    <3>1. v \in FsType
      <4> HIDE DEF i, s
      <4>1. LockLike(s, p, i)
        BY <1>1, <2>1, LockTake DEF i
      <4>2. LinkChange(v, p, i, 1)
        BY <1>4, <4>1, LinkChangeIs
      <4> QED
        BY <4>2 DEF LinkChange, Sound
    <3>2. d \in Inums
      <4> HIDE DEF l
      <4> QED
        BY <1>4, FirstIs
    <3>3. To(p, iget(v, d), k)
      BY <2>6
    <3> HIDE DEF v, d, k
    <3> QED
      BY <1>6, <2>6, <3>1, <3>2, <3>3, IgetPanicKeeps
  <2>5. CASE fs.disk[i].type # "dir" /\ ~NoEntryFor(v, d) /\ To(p, t, Walk(w, <<>>, d, names))
    <3>1. LinkChange(v, p, i, 1) /\ SameRefs(v) /\ KeptValid(v) /\ v.inode[i].valid
      <4> HIDE DEF i, s
      <4>1. LockLike(s, p, i)
        BY <1>1, <2>1, LockTake DEF i
      <4> QED
        BY <1>4, <4>1, LinkChangeIs
    <3>2. /\ d \in Inums /\ fs.disk[d].type # "none"
          /\ names \in Seq(Names \cup Dots) /\ (NoDots => names \in Seq(Names))
      <4> HIDE DEF l
      <4> QED
        BY <1>4, FirstIs
    <3> HIDE DEF s, u, v, d, names
    <3>3. IgetTo(v, t, d)
      <4>1. v \in FsType /\ Cached(v)
        BY <3>1 DEF LinkChange, Sound
      <4> QED
        BY <2>5, <3>2, <4>1, IgetIs
    <3>4. /\ w \in LocType /\ w.op = "link2" /\ w.new = NULL /\ w.parent = TRUE
          /\ w.ip = i /\ w.dp = NULL /\ w.name = l.name
      <4> HIDE DEF l
      <4> QED
        BY <1>4, SecondLocIs
    <3>5. To(p, t, Walk(w, <<>>, d, names))
      BY <2>5
    <3> HIDE DEF w, t
    <3>6. Looking(w)
      BY <1>4, <3>4, Consts DEF Looking, Parent, ParentOps
    <3>7. WalkTo(w, <<>>, d, names, m)
      <4>1. OneOrNone(<<>>)
        BY DEF OneOrNone
      <4> QED
        BY <3>2, <3>6, <4>1, WalkIs
    <3>8. /\ Sound(t) /\ t.disk = v.disk /\ t.lock = v.lock
          /\ \A x \in Inums :
               /\ t.inode[x].ref = fs.inode[x].ref + Eq(x, d)
               /\ fs.inode[x].valid /\ fs.inode[x].ref > 0 => t.inode[x].valid
      BY <3>1, <3>3 DEF IgetTo, LinkChange, Sound, SameRefs, KeptValid
    <3>9. Went(p, t, m)
      BY <3>5, <3>8, WentIs DEF Sound
    <3> HIDE DEF m
    <3>10. fs' = t /\ loc' = [loc EXCEPT ![p] = m] /\ stable' = stable /\ crashes' = crashes
      BY <3>9 DEF Went
    <3>11. LinkChange(t, p, i, 1)
      <4>1. Tame(t, p, i)
        BY <3>1, <3>8 DEF LinkChange, Tame
      <4> QED
        BY <3>1, <3>8, <4>1 DEF LinkChange
    <3>12. Moved(p, m, c, f)
      <4>1. m \in LocType /\ LocOK(m) /\ m.pc # "idle"
        BY <3>7 DEF WalkTo
      <4>2. UNCHANGED <<stable, crashes>>
        BY <3>10
      <4>3. /\ outstanding' = outstanding \cup {p}
            /\ calls' \in Nat /\ crashes' \in Nat /\ stable' = stable
        BY <1>6, <4>2, RestIs
      <4>4. cwd' = [cwd EXCEPT ![p] = c] /\ file' = [file EXCEPT ![p] = f]
        BY <1>6, Stays
      <4> QED
        BY <1>3, <3>8, <3>10, <4>1, <4>3, <4>4, InvFacts DEF Moved, Here, Sound
    <3>13. \A x \in Inums : t.disk[x].type = fs.disk[x].type
      BY <3>11 DEF LinkChange, Tame
    <3>14. LinkHeld(t, w)
      <4>1. fs.inode[i].ref > 0
        BY <1>4, FoundRef
      <4>2. v.inode[i].valid
        BY <3>1
      <4>3. v.inode[i].ref > 0
        BY <1>4, <3>1, <4>1 DEF SameRefs
      <4>4. t.inode[i].valid
        BY <1>4, <3>3, <4>2, <4>3 DEF IgetTo
      <4> QED
        BY <1>4, <2>5, <3>4, <3>13, <4>4 DEF LinkHeld
    <3>15. ASSUME NoDots PROVE WalkUse(t, w, <<>>, d, names)
      <4>1. DOMAIN <<>> = {}
        OBVIOUS
      <4>2. \A y \in DOMAIN <<>> : t.disk[<<>>[y]].type # "none"
        BY <4>1
      <4>3. InUseAt(t, w.ip)
        BY <1>4, <2>2, <3>4, <3>13 DEF InUseAt
      <4>4. w.name \in Names \/ w.name = NULL
        BY <1>3, <3>4, <3>15 DEF Found
      <4>5. t.panic = "" /\ t.disk[d].type # "none" /\ names \in Seq(Names)
        <5>1. t.panic = ""
          BY <3>8 DEF Sound
        <5>2. t.disk[d].type # "none"
          BY <3>2, <3>13
        <5>3. names \in Seq(Names)
          BY <3>2, <3>15, Zenon
        <5> QED
          BY <5>1, <5>2, <5>3, Zenon
      <4> QED
        BY <4>2, <4>3, <4>4, <4>5, Zenon DEF WalkUse
    <3>16. HoldsOK(p, m, c, f)
      <4>1. HeldOK(t, p, m) /\ (NoDots => HeldInUse(t.disk, m) /\ t.panic = "")
        BY <3>7, <3>14, <3>15, WalkHolds
      <4> QED
        BY <1>3, <3>10, <3>13, <4>1 DEF HoldsOK, Here
    <3>17. RefStep(p, m, c, f)
      <4>1. ASSUME NEW x \in Inums
            PROVE  t.inode[x].ref = fs.inode[x].ref + Refs(x, m, c, f) - Refs(x, l, c, f)
        <5>1. t.inode[x].ref = fs.inode[x].ref + Eq(x, d)
          BY <3>8
        <5>2. Refs(x, m, c, f) = Eq(d, x) + Eq(Nth(<<>>, 1), x) + Eq(i, x) + Eq(c, x) + Eq(f, x)
          BY <3>4, <3>7 DEF WalkTo
        <5>3. Nth(<<>>, 1) = NULL
          BY NoSeq
        <5>4. Refs(x, l, c, f) = Eq(NULL, x) + Eq(i, x) + Eq(NULL, x) + Eq(c, x) + Eq(f, x)
          <6>1. LocOK(l) /\ l.pc \notin {"idle", "iput", "iput2"}
            BY <1>1, <1>3 DEF Here
          <6> HIDE DEF c, f, l
          <6>2. Refs(x, l, c, f) = Eq(l.at, x) + Eq(l.ip, x) + Eq(l.dp, x) + Eq(c, x) + Eq(f, x)
            BY <1>4, <6>1, NotPutting
          <6> QED
            BY <1>4, <6>2
        <5>5. /\ Eq(NULL, x) = 0 /\ Eq(i, x) \in {0, 1}
              /\ Eq(c, x) \in {0, 1} /\ Eq(f, x) \in {0, 1} /\ fs.inode[x].ref \in Nat
              /\ Eq(d, x) = Eq(x, d) /\ Eq(d, x) \in {0, 1}
          BY EqIs, RefNat
        <5> QED
          BY <5>1, <5>2, <5>3, <5>4, <5>5
      <4> QED
        BY <3>10, <4>1 DEF RefStep
    <3>18. ASSUME NEW x \in Inums
           PROVE  Pends(m, x) <= Pends(loc[p], x) + (IF x = i THEN 1 ELSE 0)
      <4>1. Pends(m, x) = Eq(i, x)
        BY <3>4, <3>7 DEF WalkTo
      <4>2. Goal(l) = "got"
        BY <1>1 DEF Goal
      <4>3. Pends(loc[p], x) = 0
        BY <1>1, <4>2 DEF Pends
      <4>4. Eq(i, x) = IF x = i THEN 1 ELSE 0
        BY DEF Eq
      <4> QED
        BY <4>1, <4>3, <4>4
    <3>19. LinkChange(fs', p, i, 1)
      BY <3>10, <3>11
    <3> HIDE DEF i, c, f
    <3> QED
      BY <1>4, <3>12, <3>16, <3>17, <3>18, <3>19, LinkFrame
  <2> QED
    BY <2>3, <2>4, <2>5, <2>6
<1> QED
  BY <1>7, <1>8

-----------------------------------------------------------------------------
(* Entries of directories made and removed.                                *)

NoneZero(d) == \A x \in Inums : d[x].type = "none" => d[x].nlink = 0

LEMMA DirsSet ==
  ASSUME NEW d \in DiskType, NEW e \in DiskType, NEW a \in Inums, NEW n \in Names,
         NEW j \in Inums, EntrySet(d, e, a, n, j), DirsOK(d), NoneZero(e),
         d[j].type = "dir" => d[j].ent[".."] = a
  PROVE  DirsOK(e)
<1>1. n \notin Dots /\ ".." \in Dots /\ ROOTINO \in Inums
  BY NullName, Consts
<1>2. \A x \in Inums : \A y \in Dots : e[x].ent[y] = d[x].ent[y]
  BY <1>1 DEF EntrySet
<1>3. \A x \in Inums : e[x].type = d[x].type
  BY DEF EntrySet
<1>4. ASSUME NEW x \in Inums, NEW y \in SubdirsOf(e, x) PROVE e[e[x].ent[y]].ent[".."] = x
  <2>1. y \in Names /\ e[x].type = "dir" /\ e[x].ent[y] # 0 /\ e[e[x].ent[y]].type = "dir"
    BY DEF SubdirsOf
  <2>2. e[x].ent[y] \in Inums
    BY <2>1, DiskFields
  <2>3. CASE x = a /\ y = n
    <3>1. e[x].ent[y] = j
      BY <2>3 DEF EntrySet
    <3>2. d[j].ent[".."] = a
      BY <1>3, <2>1, <3>1
    <3> QED
      BY <1>1, <1>2, <2>3, <3>1, <3>2
  <2>4. CASE ~(x = a /\ y = n)
    <3>1. e[x].ent[y] = d[x].ent[y]
      BY <2>1, <2>4 DEF EntrySet
    <3>2. y \in SubdirsOf(d, x)
      BY <1>3, <2>1, <2>2, <3>1 DEF SubdirsOf
    <3>3. d[d[x].ent[y]].ent[".."] = x
      BY <3>2 DEF DirsOK
    <3> QED
      BY <1>1, <1>2, <2>2, <3>1, <3>3
  <2> QED
    BY <2>3, <2>4
<1>5. /\ e[ROOTINO].type = "dir"
      /\ \A x \in Inums : e[x].type = "dir" => \A y \in Dots : e[x].ent[y] # 0
  BY <1>1, <1>2, <1>3 DEF DirsOK
<1> QED
  BY <1>4, <1>5 DEF DirsOK, NoneZero

LEMMA DirsUnset ==
  ASSUME NEW d \in DiskType, NEW e \in DiskType, NEW a \in Inums, NEW n \in Names,
         NEW j \in Inums, EntrySet(d, e, a, n, j), DirsOK(e), NoneZero(d)
  PROVE  DirsOK(d)
<1>1. n \notin Dots /\ ".." \in Dots /\ ROOTINO \in Inums
  BY NullName, Consts
<1>2. \A x \in Inums : \A y \in Dots : e[x].ent[y] = d[x].ent[y]
  BY <1>1 DEF EntrySet
<1>3. \A x \in Inums : e[x].type = d[x].type
  BY DEF EntrySet
<1>4. ASSUME NEW x \in Inums, NEW y \in SubdirsOf(d, x) PROVE d[d[x].ent[y]].ent[".."] = x
  <2>1. y \in Names /\ d[x].type = "dir" /\ d[x].ent[y] # 0 /\ d[d[x].ent[y]].type = "dir"
    BY DEF SubdirsOf
  <2>2. d[x].ent[y] \in Inums
    BY <2>1, DiskFields
  <2>3. ~(x = a /\ y = n)
    BY <2>1 DEF EntrySet
  <2>4. e[x].ent[y] = d[x].ent[y]
    BY <2>1, <2>3 DEF EntrySet
  <2>5. y \in SubdirsOf(e, x)
    BY <1>3, <2>1, <2>2, <2>4 DEF SubdirsOf
  <2>6. e[e[x].ent[y]].ent[".."] = x
    BY <2>5 DEF DirsOK
  <2> QED
    BY <1>1, <1>2, <2>2, <2>4, <2>6
<1>5. /\ d[ROOTINO].type = "dir"
      /\ \A x \in Inums : d[x].type = "dir" => \A y \in Dots : d[x].ent[y] # 0
  BY <1>1, <1>2, <1>3 DEF DirsOK
<1> QED
  BY <1>4, <1>5 DEF DirsOK, NoneZero

(* Only an entry under a name can be free in a directory. *)
LEMMA FreeEntry ==
  ASSUME SysIndInv, NEW d \in Inums, fs.disk[d].type = "dir", NEW n \in Names \cup Dots,
         fs.disk[d].ent[n] = 0
  PROVE  n \in Names
BY InvFacts DEF DirsOK

(* Entry n of the directory a, locked in s, set to j, and the lock given back. *)
SetTo(t, p, a, n, j) ==
  /\ Sound(t) /\ Tame(t, p, a) /\ fs.lock[a] \in {NULL, p} /\ SameRefs(t) /\ KeptValid(t)
  /\ \A x \in Inums : t.disk[x].nlink = fs.disk[x].nlink
  /\ \A x \in Inums : \A y \in Names \cup Dots :
       t.disk[x].ent[y] = IF x = a /\ y = n THEN j ELSE fs.disk[x].ent[y]

LEMMA SetToIs ==
  ASSUME NEW p, NEW a \in Inums, NEW s, LockLike(s, p, a), NEW n \in Names \cup Dots,
         NEW j \in Inums \cup {0}, NEW t, t = iunlock(SetEntry(s, a, n, j), a)
  PROVE  SetTo(t, p, a, n, j)
<1> DEFINE v == SetEntry(s, a, n, j)
<1>1. s \in FsType /\ Cached(s) /\ s.panic = ""
  BY DEF LockLike, Sound
<1>2. SetEntryTo(s, v, a, n, j)
  BY <1>1, SetEntryIs
<1> HIDE DEF v
<1>3. IunlockTo(v, t, a)
  BY <1>2, IunlockIs DEF SetEntryTo, v
<1>4. t.disk = v.disk /\ t.inode = s.inode /\ Sound(t) /\ fs.lock[a] \in {NULL, p}
  BY <1>1, <1>2, <1>3 DEF SetEntryTo, IunlockTo, LockLike, Sound
<1>5. ASSUME NEW x \in Inums
      PROVE  /\ v.disk[x].type = fs.disk[x].type
             /\ v.disk[x].nlink = fs.disk[x].nlink
             /\ \A y \in Names \cup Dots :
                  v.disk[x].ent[y] = IF x = a /\ y = n THEN j ELSE fs.disk[x].ent[y]
             /\ s.inode[x].ref = fs.inode[x].ref
             /\ fs.inode[x].valid => s.inode[x].valid
             /\ x # a => v.lock[x] = fs.lock[x]
  BY <1>2 DEF SetEntryTo, LockLike
<1>6. \A x \in Inums : x # a => t.lock[x] = fs.lock[x]
  BY <1>3, <1>5 DEF IunlockTo
<1>7. Tame(t, p, a)
  BY <1>4, <1>5, <1>6 DEF Tame
<1> QED
  BY <1>4, <1>5, <1>7 DEF SetTo, SameRefs, KeptValid

NoBoth(l) == [l EXCEPT !.dp = NULL, !.ip = NULL]

LEMMA NoBothIs ==
  ASSUME NEW l \in LocType, NEW w, w = NoBoth(l)
  PROVE  Like(l, w) /\ w.ip = NULL /\ w.dp = NULL /\ w.op = l.op
BY DEF Like, LocType, NoBoth

LEMMA LikeSelf ==
  ASSUME NEW l \in LocType
  PROVE  Like(l, l)
BY DEF Like

(* link makes the new name. *)
LEMMA NameKeeps ==
  ASSUME SysIndInv, NEW p \in Procs, NEW l, l = loc[p], l.op = "link2", l.pc = "got", Same,
         NEW d \in Inums, d = l.dp, NEW i \in Inums, i = l.ip, NEW n \in Names,
         fs.disk[d].type = "dir", fs.disk[d].ent[n] = 0,
         NEW t, SetTo(t, p, d, n, i), To(p, t, Put(NoBoth(l), <<d, i>>, "end"))
  PROVE  SysIndInv'
<1> DEFINE w == NoBoth(l)
           m == Settled(Put(w, <<d, i>>, "end"))
<1>0. Still(l)
  BY DEF Still
<1>1. Found(p, l)
  BY <1>0, FoundIs
<1>2. Like(l, w) /\ w.ip = NULL /\ w.dp = NULL /\ w.op = "link2"
  <2>1. l \in LocType
    BY <1>1 DEF Found
  <2> QED
    BY <2>1, NoBothIs
<1> HIDE DEF w
<1>3. fs.disk[i].type # "dir" /\ fs.disk[i].type # "none" /\ i # NULL
  <2>1. fs.disk[i].type # "dir" /\ fs.inode[i].valid /\ i # NULL
    BY <1>1, Consts DEF Found
  <2> QED
    BY <2>1, InvFacts DEF Cached
<1>4. Fits(w, <<d, i>>, "end")
  <2>1. OpAt("link2", "end") /\ ~IpAt("link2", "end") /\ ~DpAt("link2", "end")
    BY DEF OpAt, IpAt, DpAt
  <2> QED
    BY <1>2, <2>1, TwoSeq DEF Fits, Goals
<1>5. PutHeld(t, p, w, <<d, i>>, "end")
  BY <1>2 DEF PutHeld
<1>6. Used(t, w, <<d, i>>)
  <2>1. \A y \in DOMAIN <<d, i>> : <<d, i>>[y] \in Inums /\ fs.disk[<<d, i>>[y]].type # "none"
    BY <1>3, TwoSeq
  <2> QED
    BY <1>2, <2>1 DEF Used, InUseAt, SetTo, Tame
<1>7. Balance(p, t, l, w, <<d, i>>, cwd[p], file[p])
  <2>1. ASSUME NEW x \in Inums
        PROVE  t.inode[x].ref + Before(p, l, x)
                 = fs.inode[x].ref + After(w, <<d, i>>, cwd[p], file[p], x)
    <3>1. t.inode[x].ref = fs.inode[x].ref /\ fs.inode[x].ref \in Nat
      BY RefNat DEF SetTo, SameRefs
    <3>2. Nth(<<d, i>>, 1) = d /\ Nth(<<d, i>>, 2) = i
      BY TwoSeq
    <3>3. /\ Eq(NULL, x) = 0 /\ Eq(i, x) \in {0, 1} /\ Eq(cwd[p], x) \in {0, 1}
          /\ Eq(file[p], x) \in {0, 1} /\ Eq(d, x) \in {0, 1}
      BY EqIs
    <3>4. Before(p, l, x) = Eq(i, x) + Eq(d, x) + Eq(cwd[p], x) + Eq(file[p], x)
      BY DEF Before
    <3>5. After(w, <<d, i>>, cwd[p], file[p], x)
            = Eq(NULL, x) + Eq(NULL, x) + Eq(d, x) + Eq(i, x) + Eq(cwd[p], x) + Eq(file[p], x)
      BY <1>2, <3>2 DEF After
    <3> QED
      BY <3>1, <3>3, <3>4, <3>5
  <2> QED
    BY <2>1 DEF Balance
<1>8. InUseAt(t, cwd[p]) /\ InUseAt(t, file[p]) /\ Sound(t)
  BY TameUse DEF SetTo
<1>9. PutStep(p, m, w, <<d, i>>, "end", cwd[p], file[p]) /\ fs' = t
  BY <1>0, <1>2, <1>4, <1>5, <1>6, <1>7, <1>8, ReadyMove DEF w
<1> HIDE DEF m
<1>10. /\ Moved(p, m, cwd[p], file[p]) /\ HoldsOK(p, m, cwd[p], file[p])
       /\ RefStep(p, m, cwd[p], file[p])
       /\ \A x \in Inums : Pends(m, x) = PutPends(w, "end", x)
  BY <1>9, PutMove
<1>11. OthersKept(p)
  BY <1>9, TameOthers DEF SetTo
<1>12. fs.disk \in DiskType /\ t.disk \in DiskType /\ DirsOK(fs.disk)
  BY <1>8, InvFacts, FsFields DEF Sound
<1>13. EntrySet(fs.disk, t.disk, d, n, i)
  BY DEF EntrySet, SetTo, Tame
<1>14. LinkStep(p, m)
  <2>1. ASSUME NEW x \in Inums
        PROVE  LinksTo(t.disk, x) + Pends(m, x) + fs.disk[x].nlink
                 <= LinksTo(fs.disk, x) + Pends(loc[p], x) + t.disk[x].nlink
    <3>1. LinksTo(t.disk, x) = LinksTo(fs.disk, x) + Eq(x, i)
      <4>1. LinksTo(t.disk, x)
              = LinksTo(fs.disk, x) + Eq(x, i) + (IF x = d THEN DirOne(fs.disk, i) ELSE 0)
        BY <1>12, <1>13, LinksSet
      <4>2. (IF x = d THEN DirOne(fs.disk, i) ELSE 0) = 0
        BY <1>3 DEF DirOne
      <4>3. LinksTo(fs.disk, x) \in Nat /\ Eq(x, i) \in {0, 1}
        BY LinksFinite DEF Eq
      <4> QED
        BY <4>1, <4>2, <4>3
    <3>2. Pends(m, x) = 0
      BY <1>2, <1>10, Consts DEF PutPends
    <3>3. Pends(l, x) = Eq(x, i)
      BY DEF Pends, Eq
    <3>4. t.disk[x].nlink = fs.disk[x].nlink /\ fs.disk[x].nlink \in Int
      BY <1>12, DiskFields DEF SetTo
    <3>5. LinksTo(fs.disk, x) \in Nat /\ Eq(x, i) \in {0, 1}
      BY LinksFinite DEF Eq
    <3> QED
      BY <3>1, <3>2, <3>3, <3>4, <3>5
  <2> QED
    BY <1>9, <2>1 DEF LinkStep
<1>15. DirsOK(t.disk)
  <2>1. NoneZero(t.disk)
    <3>1. NoneZero(fs.disk)
      BY <1>12 DEF NoneZero, DirsOK
    <3>2. \A x \in Inums : t.disk[x].type = fs.disk[x].type /\ t.disk[x].nlink = fs.disk[x].nlink
      BY DEF SetTo, Tame
    <3> QED
      BY <3>1, <3>2 DEF NoneZero
  <2> QED
    BY <1>3, <1>12, <1>13, <2>1, DirsSet
<1> QED
  BY <1>9, <1>10, <1>11, <1>14, <1>15, Frame

(* The name is there: link gives the entry back. *)
LEMMA NamedKeeps ==
  ASSUME SysIndInv, NEW p \in Procs, NEW l, l = loc[p], l.op = "link2", l.pc = "got", Same,
         NEW d \in Inums, d = l.dp, NEW i \in Inums, i = l.ip, NEW n \in Names \cup Dots,
         n = l.name, NEW j \in Inums, fs.disk[d].ent[n] = j,
         NEW t, GotEntry(t, p, d, j), To(p, t, Put(l, <<j>>, "notempty"))
  PROVE  SysIndInv'
<1>0. Still(l)
  BY DEF Still
<1>1. Found(p, l)
  BY <1>0, FoundIs
<1>2. l \in LocType /\ Like(l, l) /\ d # NULL /\ i # NULL
  BY <1>1, LikeSelf, Consts DEF Found
<1>3. fs.disk[d].type = "dir" /\ fs.inode[d].valid /\ fs.disk[i].type # "dir" /\ fs.inode[i].valid
  BY <1>1, <1>2 DEF Found
<1>4. Fits(l, <<j>>, "notempty")
  <2>1. OpAt("link2", "notempty") /\ IpAt("link2", "notempty") /\ DpAt("link2", "notempty")
    BY DEF OpAt, IpAt, DpAt
  <2> QED
    BY <1>2, <2>1, OneSeq DEF Fits, Goals
<1>5. PutHeld(t, p, l, <<j>>, "notempty")
  <2>1. fs.inode[d].ref > 0 /\ fs.inode[i].ref > 0
    BY FoundRef
  <2>2. t.inode[d].valid /\ t.inode[i].valid /\ t.disk = fs.disk /\ t.lock[d] = p
    BY <1>3, <2>1 DEF GotEntry
  <2> QED
    BY <1>3, <2>2 DEF PutHeld
<1>6. NoDots => Used(t, l, <<j>>)
  <2>1. ASSUME NoDots PROVE Used(t, l, <<j>>)
    <3>1. n \in Names
      BY <1>1, <2>1, NullName DEF Found
    <3>2. fs.disk[j].type # "none"
      BY <1>3, <3>1, EntryInUse
    <3>3. \A y \in DOMAIN <<j>> : fs.disk[<<j>>[y]].type # "none"
      BY <3>2, OneSeq
    <3>4. InUseAt(fs, l.ip) /\ InUseAt(fs, l.dp)
      BY <1>1, <2>1 DEF Found
    <3> QED
      BY <3>3, <3>4 DEF Used, InUseAt, GotEntry
  <2> QED
    BY <2>1
<1>7. Balance(p, t, l, l, <<j>>, cwd[p], file[p])
  <2>1. ASSUME NEW x \in Inums
        PROVE  t.inode[x].ref + Before(p, l, x)
                 = fs.inode[x].ref + After(l, <<j>>, cwd[p], file[p], x)
    <3>1. t.inode[x].ref = fs.inode[x].ref + Eq(x, j) /\ fs.inode[x].ref \in Nat
      BY RefNat DEF GotEntry
    <3>2. Nth(<<j>>, 1) = j /\ Nth(<<j>>, 2) = NULL
      BY OneSeq
    <3>3. /\ Eq(NULL, x) = 0 /\ Eq(i, x) \in {0, 1} /\ Eq(cwd[p], x) \in {0, 1}
          /\ Eq(file[p], x) \in {0, 1} /\ Eq(d, x) \in {0, 1}
          /\ Eq(x, j) = Eq(j, x) /\ Eq(j, x) \in {0, 1}
      BY EqIs
    <3>4. Before(p, l, x) = Eq(i, x) + Eq(d, x) + Eq(cwd[p], x) + Eq(file[p], x)
      BY DEF Before
    <3>5. After(l, <<j>>, cwd[p], file[p], x)
            = Eq(i, x) + Eq(d, x) + Eq(j, x) + Eq(NULL, x) + Eq(cwd[p], x) + Eq(file[p], x)
      BY <3>2 DEF After
    <3> QED
      BY <3>1, <3>3, <3>4, <3>5
  <2> QED
    BY <2>1 DEF Balance
<1>8. PutPendsAs(p, l, "notempty")
  BY DEF PutPendsAs, PutPends, Pends
<1>9. Sound(t) /\ Gentle(fs, t, p)
  BY DEF GotEntry
<1> QED
  BY <1>0, <1>2, <1>4, <1>5, <1>6, <1>7, <1>8, <1>9, ReadySame

LEMMA link_newKeeps ==
  ASSUME SysIndInv, NEW p \in Procs, link_new(p)
  PROVE  SysIndInv'
<1> DEFINE l == loc[p]
           d == l.dp
           i == l.ip
           n == l.name
           s == ilock(fs, p, d)
           u == iunlock(s, d)
           j == fs.disk[d].ent[n]
           t == iget(s, j)
           v == iunlock(SetEntry(s, d, n, i), d)
<1>1. fs.panic = "" /\ l.op = "link2" /\ l.pc = "got" /\ fs.lock[d] = NULL /\ Same
  BY DEF link_new, At, Unlocked
<1>2. Found(p, l)
  <2>1. Still(l)
    BY <1>1 DEF Still
  <2> QED
    BY <2>1, FoundIs
<1>3. /\ d \in Inums /\ i \in Inums /\ n \in Names \cup Dots /\ fs.disk[d].type = "dir"
  <2> HIDE DEF l
  <2> QED
    BY <1>1, <1>2 DEF Found, IpAt, DpAt, ParentOps, RestAt
<1>4. j \in Inums \cup {0}
  BY <1>3, InvFacts, DiskFields
<1>5. s.panic = "" /\ LockTo(s, p, d)
  <2> HIDE DEF l, s, u
  <2> QED
    BY <1>1, <1>2, <1>3, LockDp DEF l, s, u
<1>6. \/ j # 0 /\ To(p, t, Put(l, <<j>>, "notempty"))
      \/ j = 0 /\ To(p, v, Put(NoBoth(l), <<d, i>>, "end"))
  <2>1. dirlookup(s, d, n) = j
    BY <1>5 DEF dirlookup, LockTo
  <2> HIDE DEF j
  <2> QED
    BY <1>5, <2>1 DEF link_new, NoBoth
<1>9. CASE j # 0 /\ NoEntryFor(s, j) /\ To(p, t, Put(l, <<j>>, "notempty"))
  <2> DEFINE k == Put(l, <<j>>, "notempty")
  <2>1. j \in Inums /\ s \in FsType /\ To(p, iget(s, j), k)
    BY <1>4, <1>5, <1>9 DEF LockTo
  <2>2. loc[p].pc # "idle" /\ UNCHANGED <<outstanding, calls>> /\ UNCHANGED <<cwd, file>>
    BY <1>1 DEF Same
  <2> HIDE DEF j, s, k
  <2> QED
    BY <1>9, <2>1, <2>2, IgetPanicKeeps
<1>7. CASE j # 0 /\ ~NoEntryFor(s, j) /\ To(p, t, Put(l, <<j>>, "notempty"))
  <2>1. j \in Inums
    BY <1>4, <1>7
  <2>2. GotEntry(t, p, d, j)
    <3> HIDE DEF d, s, j
    <3> QED
      BY <1>1, <1>3, <1>5, <1>7, <2>1, GotEntryIs DEF d
  <2>3. fs.disk[d].ent[n] = j
    OBVIOUS
  <2> HIDE DEF t, j
  <2> QED
    BY <1>1, <1>3, <1>7, <2>1, <2>2, <2>3, NamedKeeps
<1>8. CASE j = 0 /\ To(p, v, Put(NoBoth(l), <<d, i>>, "end"))
  <2>1. n \in Names /\ fs.disk[d].ent[n] = 0
    <3> HIDE DEF d, n
    <3> QED
      BY <1>3, <1>8, FreeEntry
  <2>2. SetTo(v, p, d, n, i)
    <3> HIDE DEF d, n, i, s
    <3>1. LockLike(s, p, d)
      BY <1>1, <1>5, LockTake DEF d
    <3> QED
      BY <1>3, <3>1, SetToIs
  <2> HIDE DEF v
  <2> QED
    BY <1>1, <1>3, <1>8, <2>1, <2>2, NameKeeps
<1> QED
  BY <1>6, <1>7, <1>8, <1>9

(* Entry n of a cleared on disk e, and a link of a taken back if it named  *)
(* a directory.                                                            *)
ClearedDisk(d, e, a, n, i) ==
  \A x \in Inums :
    /\ e[x].type = d[x].type
    /\ e[x].nlink = d[x].nlink + (IF x = a THEN 0 - DirOne(d, i) ELSE 0)
    /\ \A y \in Names \cup Dots :
         e[x].ent[y] = IF x = a /\ y = n THEN 0 ELSE d[x].ent[y]

LEMMA ClearedEntry ==
  ASSUME NEW d, NEW e, NEW a \in Inums, NEW n \in Names \cup Dots, NEW i,
         ClearedDisk(d, e, a, n, i)
  PROVE  e[a].type = d[a].type /\ e[a].ent[n] = 0
BY DEF ClearedDisk

(* Entry n of directory a, which named i, cleared, and the link of its     *)
(* ".." taken back; the directory unlocked, i still locked.                *)
Removed(t, p, a, n, i) ==
  /\ Sound(t) /\ Tame(t, p, a) /\ SameRefs(t) /\ t.inode[i].valid /\ t.lock[i] = p
  /\ ClearedDisk(fs.disk, t.disk, a, n, i)

Cleared(s, a, n, i) ==
  IF s.inode[i].type = "dir" THEN AddLinks(SetEntry(s, a, n, 0), a, -1)
  ELSE SetEntry(s, a, n, 0)

ClearedTo(s, v, a, n, i) ==
  /\ v \in FsType /\ Cached(v) /\ v.lock = s.lock /\ v.panic = s.panic
  /\ \A x \in Inums :
       /\ v.inode[x].ref = s.inode[x].ref /\ v.inode[x].valid = s.inode[x].valid
  /\ ClearedDisk(s.disk, v.disk, a, n, i)

LEMMA ClearedIs ==
  ASSUME NEW s \in FsType, Cached(s), NEW a \in Inums, NEW i \in Inums, NEW n \in Names \cup Dots,
         s.inode[a].valid, s.inode[i].type = s.disk[i].type, NEW v, v = Cleared(s, a, n, i)
  PROVE  ClearedTo(s, v, a, n, i)
<1> DEFINE e == SetEntry(s, a, n, 0)
           b == AddLinks(e, a, -1)
<1>1. SetEntryTo(s, e, a, n, 0)
  BY SetEntryIs
<1>2. v = IF s.inode[i].type = "dir" THEN b ELSE e
  BY DEF Cleared
<1> HIDE DEF e
<1>3. AddLinksTo(e, b, a, -1)
  <2>1. e \in FsType /\ Cached(e) /\ e.inode[a].valid
    BY <1>1 DEF SetEntryTo
  <2> QED
    BY <2>1, AddLinksIs
<1> HIDE DEF b
<1>4. \A x \in Inums : s.disk[x].nlink \in Int
  BY FsFields, DiskFields
<1>5. CASE s.inode[i].type = "dir"
  <2>1. v = b /\ DirOne(s.disk, i) = 1
    BY <1>2, <1>5 DEF DirOne
  <2>2. ASSUME NEW x \in Inums
        PROVE  /\ b.inode[x].ref = s.inode[x].ref /\ b.inode[x].valid = s.inode[x].valid
               /\ b.disk[x].type = s.disk[x].type
               /\ b.disk[x].nlink = s.disk[x].nlink + (IF x = a THEN -1 ELSE 0)
               /\ b.disk[x].ent = e.disk[x].ent
    BY <1>1, <1>3 DEF SetEntryTo, AddLinksTo
  <2>3. \A x \in Inums : \A y \in Names \cup Dots :
           b.disk[x].ent[y] = IF x = a /\ y = n THEN 0 ELSE s.disk[x].ent[y]
    BY <1>1, <2>2 DEF SetEntryTo
  <2>4. b \in FsType /\ Cached(b) /\ b.lock = s.lock /\ b.panic = s.panic
    BY <1>1, <1>3 DEF SetEntryTo, AddLinksTo
  <2> QED
    BY <2>1, <2>2, <2>3, <2>4 DEF ClearedTo, ClearedDisk
<1>6. CASE s.inode[i].type # "dir"
  <2>1. v = e /\ DirOne(s.disk, i) = 0
    BY <1>2, <1>6 DEF DirOne
  <2> QED
    BY <1>1, <1>4, <2>1 DEF SetEntryTo, ClearedTo, ClearedDisk
<1> QED
  BY <1>5, <1>6

LEMMA RemovedIs ==
  ASSUME NEW p \in Procs, NEW a \in Inums, NEW i \in Inums, NEW n \in Names \cup Dots,
         NEW s, LockTo(s, p, i), fs.lock[i] = NULL, fs.lock[a] = p, p # NULL, fs.inode[a].valid,
         NEW t, t = iunlock(Cleared(s, a, n, i), a)
  PROVE  Removed(t, p, a, n, i)
<1> DEFINE v == Cleared(s, a, n, i)
<1>1. /\ s \in FsType /\ Cached(s) /\ s.panic = "" /\ s.inode[a].valid
      /\ s.inode[i].type = s.disk[i].type /\ s.disk = fs.disk /\ a # i
      /\ s.inode[i].valid /\ s.lock[i] = p
  BY DEF LockTo
<1>2. ClearedTo(s, v, a, n, i)
  BY <1>1, ClearedIs
<1> HIDE DEF v
<1>3. IunlockTo(v, t, a)
  BY <1>2, IunlockIs DEF v, ClearedTo
<1>4. /\ Sound(t) /\ t.disk = v.disk /\ t.inode = v.inode
      /\ \A x \in Inums : t.lock[x] = IF x = a THEN NULL ELSE s.lock[x]
  BY <1>1, <1>2, <1>3 DEF IunlockTo, Sound, ClearedTo
<1>5. \A x \in Inums : fs.lock[x] \notin {NULL, p} => t.lock[x] = fs.lock[x]
  BY <1>4 DEF LockTo
<1>6. ClearedDisk(fs.disk, v.disk, a, n, i)
  BY <1>1, <1>2 DEF ClearedTo
<1>7. \A x \in Inums : /\ v.inode[x].ref = fs.inode[x].ref
                       /\ s.inode[x].valid => v.inode[x].valid
                       /\ fs.inode[x].valid => v.inode[x].valid
  BY <1>2 DEF ClearedTo, LockTo
<1>8. Tame(t, p, a)
  BY <1>4, <1>5, <1>6, <1>7 DEF Tame, ClearedDisk
<1>9. t.inode[i].valid /\ t.lock[i] = p /\ SameRefs(t)
  BY <1>1, <1>4, <1>7 DEF SameRefs
<1> QED
  BY <1>4, <1>6, <1>8, <1>9 DEF Removed

(* A process of unlink that holds the directory's lock and has the entry. *)
AtEntry(p, l, d, i, n) ==
  /\ l = loc[p] /\ l.op = "unlink" /\ l.pc = "entry" /\ Still(l) /\ Found(p, l)
  /\ d = l.dp /\ i = l.ip /\ n = l.name
  /\ d \in Inums /\ i \in Inums /\ n \in Names
  /\ fs.disk[d].type = "dir" /\ fs.disk[d].ent[n] = i /\ fs.lock[d] = p
  /\ fs.inode[d].valid /\ fs.disk[i].type # "none" /\ fs.disk[i].nlink >= 1

LEMMA AtEntryIs ==
  ASSUME SysIndInv, NEW p \in Procs, NEW l, l = loc[p], l.op = "unlink", l.pc = "entry"
  PROVE  AtEntry(p, l, l.dp, l.ip, l.name)
<1>1. Still(l)
  BY DEF Still
<1>2. Found(p, l)
  BY <1>1, FoundIs
<1>3. l.dp \in Inums /\ l.ip \in Inums
  BY <1>2 DEF Found, IpAt, DpAt
<1>4. /\ l.name \in Names /\ fs.disk[l.dp].type = "dir" /\ fs.disk[l.dp].ent[l.name] = l.ip
      /\ fs.lock[l.dp] = p /\ fs.inode[l.dp].valid
  BY <1>2, <1>3, Consts DEF Found
<1>5. fs.disk[l.ip].type # "none" /\ fs.disk[l.ip].nlink >= 1
  BY <1>3, <1>4, EntryInUse
<1> QED
  BY <1>1, <1>2, <1>3, <1>4, <1>5 DEF AtEntry

(* unlink removes the name. *)
LEMMA RemoveKeeps ==
  ASSUME SysIndInv, NEW p \in Procs, NEW l, NEW d, NEW i, NEW n, AtEntry(p, l, d, i, n), Same,
         NEW t, Removed(t, p, d, n, i), To(p, t, Put(NoDp(l), <<d>>, "unlinked"))
  PROVE  SysIndInv'
<1> DEFINE w == NoDp(l)
           m == Settled(Put(w, <<d>>, "unlinked"))
<1>1. /\ l = loc[p] /\ l.op = "unlink" /\ l.pc = "entry" /\ Still(l) /\ Found(p, l)
      /\ d = l.dp /\ i = l.ip /\ n = l.name
      /\ d \in Inums /\ i \in Inums /\ n \in Names
      /\ fs.disk[d].type = "dir" /\ fs.disk[d].ent[n] = i /\ fs.lock[d] = p
      /\ fs.inode[d].valid /\ fs.disk[i].type # "none" /\ fs.disk[i].nlink >= 1
      /\ d # NULL /\ i # NULL /\ n \in Names \cup Dots
  BY Consts DEF AtEntry
<1>2. Like(l, w) /\ w.ip = i /\ w.dp = NULL /\ w.op = "unlink"
  <2>1. l \in LocType
    BY <1>1 DEF Found
  <2>2. Like(l, w) /\ w.ip = l.ip /\ w.dp = NULL
    BY <2>1, DropIs
  <2> QED
    BY <1>1, <2>2 DEF Like
<1> HIDE DEF w
<1>4. Fits(w, <<d>>, "unlinked")
  <2>1. OpAt("unlink", "unlinked") /\ IpAt("unlink", "unlinked") /\ ~DpAt("unlink", "unlinked")
    BY DEF OpAt, IpAt, DpAt
  <2> QED
    BY <1>1, <1>2, <2>1, OneSeq DEF Fits, Goals
<1>5. PutHeld(t, p, w, <<d>>, "unlinked")
  BY <1>1, <1>2 DEF PutHeld, Removed
<1>6. Used(t, w, <<d>>)
  <2>1. \A y \in DOMAIN <<d>> : <<d>>[y] \in Inums /\ fs.disk[<<d>>[y]].type # "none"
    BY <1>1, OneSeq
  <2>2. \A x \in Inums : t.disk[x].type = fs.disk[x].type
    BY DEF Removed, Tame
  <2>3. t.disk[i].type # "none"
    BY <1>1, <2>2
  <2>4. \A y \in DOMAIN <<d>> : t.disk[<<d>>[y]].type # "none"
    BY <2>1, <2>2
  <2> QED
    BY <1>2, <2>3, <2>4 DEF Used, InUseAt
<1>7. Balance(p, t, l, w, <<d>>, cwd[p], file[p])
  <2>1. ASSUME NEW x \in Inums
        PROVE  t.inode[x].ref + Before(p, l, x)
                 = fs.inode[x].ref + After(w, <<d>>, cwd[p], file[p], x)
    <3>1. t.inode[x].ref = fs.inode[x].ref /\ fs.inode[x].ref \in Nat
      BY RefNat DEF Removed, SameRefs
    <3>2. Nth(<<d>>, 1) = d /\ Nth(<<d>>, 2) = NULL
      BY <1>1, OneSeq
    <3>3. /\ Eq(NULL, x) = 0 /\ Eq(i, x) \in {0, 1} /\ Eq(cwd[p], x) \in {0, 1}
          /\ Eq(file[p], x) \in {0, 1} /\ Eq(d, x) \in {0, 1}
      BY EqIs
    <3>4. Before(p, l, x) = Eq(i, x) + Eq(d, x) + Eq(cwd[p], x) + Eq(file[p], x)
      BY <1>1 DEF Before
    <3>5. After(w, <<d>>, cwd[p], file[p], x)
            = Eq(i, x) + Eq(NULL, x) + Eq(d, x) + Eq(NULL, x) + Eq(cwd[p], x) + Eq(file[p], x)
      BY <1>2, <3>2 DEF After
    <3> QED
      BY <3>1, <3>3, <3>4, <3>5
  <2> QED
    BY <2>1 DEF Balance
<1>8. InUseAt(t, cwd[p]) /\ InUseAt(t, file[p]) /\ Sound(t)
  BY TameUse DEF Removed
<1>9. PutStep(p, m, w, <<d>>, "unlinked", cwd[p], file[p]) /\ fs' = t
  BY <1>1, <1>2, <1>4, <1>5, <1>6, <1>7, <1>8, ReadyMove DEF w
<1> HIDE DEF m
<1>10. /\ Moved(p, m, cwd[p], file[p]) /\ HoldsOK(p, m, cwd[p], file[p])
       /\ RefStep(p, m, cwd[p], file[p])
       /\ \A x \in Inums : Pends(m, x) = PutPends(w, "unlinked", x)
  BY <1>9, PutMove
<1>11. OthersKept(p)
  BY <1>1, <1>9, TameOthers DEF Removed
<1>12. fs.disk \in DiskType /\ t.disk \in DiskType /\ DirsOK(fs.disk)
  BY <1>8, InvFacts, FsFields DEF Sound
<1>13. EntrySet(t.disk, fs.disk, d, n, i)
  <2>1. ClearedDisk(fs.disk, t.disk, d, n, i)
    BY DEF Removed
  <2>2. t.disk[d].type = "dir" /\ t.disk[d].ent[n] = 0
    <3>1. d \in Inums /\ n \in Names \cup Dots /\ fs.disk[d].type = "dir"
      BY <1>1
    <3>2. t.disk[d].type = fs.disk[d].type /\ t.disk[d].ent[n] = 0
      BY <2>1, <3>1, ClearedEntry
    <3> QED
      BY <3>1, <3>2
  <2>3. \A x \in Inums :
          /\ fs.disk[x].type = t.disk[x].type
          /\ \A y \in Names \cup Dots : x # d \/ y # n => fs.disk[x].ent[y] = t.disk[x].ent[y]
    BY <2>1 DEF ClearedDisk
  <2> QED
    BY <1>1, <2>2, <2>3 DEF EntrySet
<1>14. DirOne(t.disk, i) = DirOne(fs.disk, i) /\ DirOne(fs.disk, i) \in {0, 1}
  <2>1. t.disk[i].type = fs.disk[i].type
    BY <1>1 DEF Removed, Tame
  <2> QED
    BY <2>1 DEF DirOne
<1>15. LinkStep(p, m)
  <2>1. ASSUME NEW x \in Inums
        PROVE  LinksTo(t.disk, x) + Pends(m, x) + fs.disk[x].nlink
                 <= LinksTo(fs.disk, x) + Pends(loc[p], x) + t.disk[x].nlink
    <3> DEFINE k == IF x = d THEN DirOne(fs.disk, i) ELSE 0
    <3>1. LinksTo(fs.disk, x) = LinksTo(t.disk, x) + Eq(x, i) + k
      BY <1>1, <1>12, <1>13, <1>14, LinksSet
    <3>2. Pends(m, x) = Eq(x, i)
      BY <1>2, <1>10, Consts DEF PutPends, Eq
    <3>3. Pends(loc[p], x) = 0
      BY <1>1 DEF Pends, Goal
    <3>4. t.disk[x].nlink = fs.disk[x].nlink - k /\ fs.disk[x].nlink \in Int
      BY <1>12, <1>14, DiskFields DEF Removed, ClearedDisk
    <3>5. LinksTo(t.disk, x) \in Nat /\ Eq(x, i) \in {0, 1} /\ k \in {0, 1}
      BY <1>14, LinksFinite DEF Eq
    <3> HIDE DEF k
    <3> QED
      BY <3>1, <3>2, <3>3, <3>4, <3>5
  <2> QED
    BY <1>9, <2>1 DEF LinkStep
<1>16. DirsOK(t.disk)
  <2>1. ASSUME NEW x \in Inums, t.disk[x].type = "none" PROVE t.disk[x].nlink = 0
    <3>1. fs.disk[x].type = "none" /\ x # d
      <4>1. t.disk[x].type = fs.disk[x].type
        BY DEF Removed, Tame
      <4> QED
        BY <1>1, <2>1, <4>1
    <3> QED
      BY <1>12, <3>1 DEF DirsOK, Removed, ClearedDisk
  <2> QED
    BY <1>1, <1>12, <1>13, <2>1, DirsUnset DEF NoneZero
<1> QED
  BY <1>9, <1>10, <1>11, <1>15, <1>16, Frame

(* The directory to be removed is not empty. *)
LEMMA NotEmptyKeeps ==
  ASSUME SysIndInv, NEW p \in Procs, NEW l, NEW d, NEW i, NEW n, AtEntry(p, l, d, i, n), Same,
         NEW s, NEW u, UnlockTo(u, s, p), To(p, u, Put(NoIp(l), <<i>>, "notempty"))
  PROVE  SysIndInv'
<1> DEFINE w == NoIp(l)
<1>1. /\ l = loc[p] /\ l.op = "unlink" /\ l.pc = "entry" /\ Still(l) /\ Found(p, l)
      /\ d = l.dp /\ i = l.ip /\ d \in Inums /\ i \in Inums
      /\ fs.disk[d].type = "dir" /\ fs.lock[d] = p
      /\ fs.inode[d].valid /\ fs.disk[i].type # "none" /\ d # NULL /\ i # NULL
  BY Consts DEF AtEntry
<1>2. Like(l, w) /\ w.ip = NULL /\ w.dp = d /\ w.op = "unlink"
  <2>1. l \in LocType
    BY <1>1 DEF Found
  <2>2. Like(l, w) /\ w.ip = NULL /\ w.dp = l.dp
    BY <2>1, DropIs
  <2> QED
    BY <1>1, <2>2 DEF Like
<1> HIDE DEF w
<1>3. Fits(w, <<i>>, "notempty")
  <2>1. OpAt("unlink", "notempty") /\ ~IpAt("unlink", "notempty") /\ DpAt("unlink", "notempty")
    BY DEF OpAt, IpAt, DpAt
  <2> QED
    BY <1>1, <1>2, <2>1, OneSeq DEF Fits, Goals
<1>4. /\ u.inode[d].valid /\ u.disk = fs.disk /\ u.lock[d] = p
  BY <1>1 DEF UnlockTo
<1>5. PutHeld(u, p, w, <<i>>, "notempty")
  BY <1>1, <1>2, <1>4 DEF PutHeld
<1>6. Used(u, w, <<i>>)
  <2>1. \A y \in DOMAIN <<i>> : fs.disk[<<i>>[y]].type # "none"
    BY <1>1, OneSeq
  <2>2. \A y \in DOMAIN <<i>> : u.disk[<<i>>[y]].type # "none"
    BY <1>4, <2>1
  <2>3. u.disk[d].type # "none"
    BY <1>1, <1>4
  <2> QED
    BY <1>2, <2>2, <2>3 DEF Used, InUseAt
<1>7. Balance(p, u, l, w, <<i>>, cwd[p], file[p])
  <2>1. ASSUME NEW x \in Inums
        PROVE  u.inode[x].ref + Before(p, l, x)
                 = fs.inode[x].ref + After(w, <<i>>, cwd[p], file[p], x)
    <3>1. u.inode[x].ref = fs.inode[x].ref /\ fs.inode[x].ref \in Nat
      BY RefNat DEF UnlockTo
    <3>2. Nth(<<i>>, 1) = i /\ Nth(<<i>>, 2) = NULL
      BY <1>1, OneSeq
    <3>3. /\ Eq(NULL, x) = 0 /\ Eq(i, x) \in {0, 1} /\ Eq(cwd[p], x) \in {0, 1}
          /\ Eq(file[p], x) \in {0, 1} /\ Eq(d, x) \in {0, 1}
      BY EqIs
    <3>4. Before(p, l, x) = Eq(i, x) + Eq(d, x) + Eq(cwd[p], x) + Eq(file[p], x)
      BY <1>1 DEF Before
    <3>5. After(w, <<i>>, cwd[p], file[p], x)
            = Eq(NULL, x) + Eq(d, x) + Eq(i, x) + Eq(NULL, x) + Eq(cwd[p], x) + Eq(file[p], x)
      BY <1>2, <3>2 DEF After
    <3> QED
      BY <3>1, <3>3, <3>4, <3>5
  <2> QED
    BY <2>1 DEF Balance
<1>8. PutPendsAs(p, w, "notempty")
  BY <1>1, <1>2, NoPends
<1>9. Sound(u) /\ Gentle(fs, u, p)
  BY UnlockSound
<1> QED
  BY <1>1, <1>2, <1>3, <1>5, <1>6, <1>7, <1>8, <1>9, ReadySame DEF w

LEMMA unlink_entryKeeps ==
  ASSUME SysIndInv, NEW p \in Procs, unlink_entry(p)
  PROVE  SysIndInv'
<1> DEFINE l == loc[p]
           d == l.dp
           i == l.ip
           n == l.name
           s == ilock(fs, p, i)
           u == iunlock(s, i)
           t == iunlock(Cleared(s, d, n, i), d)
<1>1. fs.panic = "" /\ l.op = "unlink" /\ l.pc = "entry" /\ fs.lock[i] = NULL /\ Same
  BY DEF unlink_entry, At, Unlocked
<1>2. AtEntry(p, l, d, i, n)
  BY <1>1, AtEntryIs
<1>3. /\ d \in Inums /\ i \in Inums /\ n \in Names \cup Dots /\ fs.lock[d] = p /\ p # NULL
      /\ fs.inode[d].valid /\ fs.disk[i].type # "none" /\ fs.disk[i].nlink >= 1
  <2> HIDE DEF l, d, i, n
  <2> QED
    BY <1>2, Consts DEF AtEntry
<1>4. LockTo(s, p, i) /\ UnlockTo(u, s, p)
  <2> HIDE DEF l, i
  <2> QED
    BY <1>1, <1>3, Lock, Unlock
<1>5. s.panic = "" /\ s.inode[i].nlink >= 1 /\ ~(s.inode[i].nlink < 1)
  <2>1. s.panic = "" /\ s.inode[i].nlink = fs.disk[i].nlink
    BY <1>4 DEF LockTo
  <2>2. fs.disk[i].nlink \in Int
    BY <1>3, InvFacts, DiskFields
  <2>3. \A a \in Int : a >= 1 => ~(a < 1)
    OBVIOUS
  <2>4. fs.disk[i].nlink >= 1 /\ ~(fs.disk[i].nlink < 1)
    BY <1>3, <2>2, <2>3, Zenon
  <2> QED
    BY <2>1, <2>4, Zenon
<1>6. \/ To(p, u, Put(NoIp(l), <<i>>, "notempty"))
      \/ To(p, t, Put(NoDp(l), <<d>>, "unlinked"))
  BY <1>5 DEF unlink_entry, NoIp, NoDp, Cleared
<1>7. CASE To(p, u, Put(NoIp(l), <<i>>, "notempty"))
  <2> HIDE DEF l, d, i, n, s, u
  <2> QED
    BY <1>1, <1>2, <1>4, <1>7, NotEmptyKeeps
<1>8. CASE To(p, t, Put(NoDp(l), <<d>>, "unlinked"))
  <2> HIDE DEF l, d, i, n, s
  <2>1. Removed(t, p, d, n, i)
    BY <1>1, <1>3, <1>4, RemovedIs
  <2> HIDE DEF t
  <2> QED
    BY <1>1, <1>2, <1>8, <2>1, RemoveKeeps
<1> QED
  BY <1>6, <1>7, <1>8

-----------------------------------------------------------------------------
(* create.                                                                 *)

(* A process of create that has found the parent directory. *)
AtMake(p, l, d, n) ==
  /\ l = loc[p] /\ l.op \in Makes /\ l.op # "link2" /\ l.pc = "got"
  /\ Still(l) /\ Found(p, l) /\ l \in LocType
  /\ l.ip = NULL /\ d = l.dp /\ n = l.name /\ d \in Inums /\ n \in Names \cup Dots
  /\ fs.disk[d].type = "dir" /\ fs.lock[d] = NULL

LEMMA AtMakeIs ==
  ASSUME SysIndInv, NEW p \in Procs, NEW l, l = loc[p], l.op \in Makes, l.pc = "got",
         fs.lock[l.dp] = NULL
  PROVE  AtMake(p, l, l.dp, l.name)
<1>1. Still(l)
  BY DEF Still
<1>2. Found(p, l) /\ l \in LocType
  BY <1>1, FoundIs DEF Found
<1>3. l.op \in ParentOps /\ l.op \notin {"link2", "open", "chdir", "link"}
  BY DEF ParentOps, Makes
<1>4. ~IpAt(l.op, "got") /\ DpAt(l.op, "got")
  BY <1>3 DEF IpAt, DpAt
<1>5. l.ip = NULL /\ l.dp \in Inums /\ l.name \in Names \cup Dots
  BY <1>2, <1>3, <1>4 DEF Found, RestAt
<1>6. fs.disk[l.dp].type = "dir"
  BY <1>2, <1>5, Consts DEF Found
<1> QED
  BY <1>1, <1>2, <1>3, <1>5, <1>6 DEF AtMake

(* The inode that create goes on with. *)
MakeLoc(l, j) == SetIp(NoDp(l), j)

LEMMA MakeLocIs ==
  ASSUME NEW l \in LocType, NEW j \in Inums, NEW w, w = MakeLoc(l, j)
  PROVE  Like(l, w) /\ w.ip = j /\ w.dp = NULL /\ w.op = l.op
BY DEF Like, LocType, MakeLoc, SetIp, NoDp

(* A reference to j taken. *)
OneMore(t, j) == \A x \in Inums : t.inode[x].ref = fs.inode[x].ref + Eq(x, j)

LEMMA MakeBalance ==
  ASSUME SysIndInv, NEW p \in Procs, NEW l, NEW d, NEW n, AtMake(p, l, d, n),
         NEW j \in Inums, NEW t, OneMore(t, j)
  PROVE  Balance(p, t, l, MakeLoc(l, j), <<d>>, cwd[p], file[p])
<1> DEFINE w == MakeLoc(l, j)
<1>1. l.ip = NULL /\ d = l.dp /\ d \in Inums /\ l \in LocType
  BY DEF AtMake
<1>2. w.ip = j /\ w.dp = NULL
  BY <1>1, MakeLocIs
<1> HIDE DEF w
<1>3. ASSUME NEW x \in Inums
      PROVE  t.inode[x].ref + Before(p, l, x)
               = fs.inode[x].ref + After(w, <<d>>, cwd[p], file[p], x)
  <2>1. t.inode[x].ref = fs.inode[x].ref + Eq(x, j) /\ fs.inode[x].ref \in Nat
    BY RefNat DEF OneMore
  <2>2. Nth(<<d>>, 1) = d /\ Nth(<<d>>, 2) = NULL
    BY <1>1, OneSeq
  <2>3. /\ Eq(NULL, x) = 0 /\ Eq(cwd[p], x) \in {0, 1} /\ Eq(file[p], x) \in {0, 1}
        /\ Eq(d, x) \in {0, 1} /\ Eq(x, j) = Eq(j, x) /\ Eq(j, x) \in {0, 1}
    BY EqIs
  <2>4. Before(p, l, x) = Eq(NULL, x) + Eq(d, x) + Eq(cwd[p], x) + Eq(file[p], x)
    BY <1>1 DEF Before
  <2>5. After(w, <<d>>, cwd[p], file[p], x)
          = Eq(j, x) + Eq(NULL, x) + Eq(d, x) + Eq(NULL, x) + Eq(cwd[p], x) + Eq(file[p], x)
    BY <1>2, <2>2 DEF After
  <2> QED
    BY <2>1, <2>3, <2>4, <2>5
<1> QED
  BY <1>3 DEF Balance, w

LEMMA MakeFits ==
  ASSUME NEW p, NEW l, NEW d, NEW n, AtMake(p, l, d, n), NEW j \in Inums,
         NEW k \in {"exists", "made"}
  PROVE  Fits(MakeLoc(l, j), <<d>>, k)
<1> DEFINE w == MakeLoc(l, j)
<1>1. l.op \in Makes /\ d \in Inums /\ l \in LocType
  BY DEF AtMake
<1>2. w.ip = j /\ w.dp = NULL /\ w.op = l.op /\ j # NULL
  BY <1>1, MakeLocIs, Consts
<1>3. l.op \in Makes => OpAt(l.op, k) /\ IpAt(l.op, k) /\ ~DpAt(l.op, k)
  BY DEF OpAt, IpAt, DpAt, Makes
<1> HIDE DEF w
<1> QED
  BY <1>1, <1>2, <1>3, OneSeq DEF Fits, Goals, w

(* The name is there. *)
LEMMA ExistsKeeps ==
  ASSUME SysIndInv, NEW p \in Procs, NEW l, NEW d, NEW n, AtMake(p, l, d, n), Same,
         NEW j \in Inums, fs.disk[d].ent[n] = j, NEW s, NEW u, UnlockTo(u, s, p),
         ~NoEntryFor(u, j), NEW t, t = iget(u, j), To(p, t, Put(MakeLoc(l, j), <<d>>, "exists"))
  PROVE  SysIndInv'
<1> DEFINE w == MakeLoc(l, j)
<1>1. /\ l = loc[p] /\ l.op # "link2" /\ l.pc = "got" /\ Still(l) /\ Found(p, l)
      /\ l \in LocType /\ d \in Inums /\ n = l.name /\ n \in Names \cup Dots
      /\ fs.disk[d].type = "dir"
  BY DEF AtMake
<1>2. Like(l, w) /\ w.ip = j /\ w.dp = NULL /\ w.op = l.op
  BY <1>1, MakeLocIs
<1> HIDE DEF w
<1>3. Fits(w, <<d>>, "exists")
  BY MakeFits DEF w
<1>4. IgetTo(u, t, j)
  BY IgetIs DEF UnlockTo
<1>5. OneMore(t, j)
  BY <1>4 DEF OneMore, IgetTo, UnlockTo
<1>6. Sound(t) /\ Gentle(fs, t, p) /\ t.disk = fs.disk
  <2>1. Sound(t) /\ t.disk = fs.disk
    BY <1>4 DEF Sound, IgetTo, UnlockTo
  <2>2. ASSUME NEW x \in Inums
        PROVE  /\ fs.lock[x] \notin {NULL, p} => t.lock[x] = fs.lock[x]
               /\ fs.inode[x].valid /\ fs.inode[x].ref > 0 => t.inode[x].valid
    BY <1>4 DEF IgetTo, UnlockTo
  <2> QED
    BY <2>1, <2>2 DEF Gentle
<1>7. PutHeld(t, p, w, <<d>>, "exists")
  BY <1>1, <1>2 DEF PutHeld
<1>8. NoDots => Used(t, w, <<d>>)
  <2>1. ASSUME NoDots PROVE Used(t, w, <<d>>)
    <3>1. n \in Names
      BY <1>1, <2>1, NullName DEF Found
    <3>2. fs.disk[j].type # "none"
      BY <1>1, <3>1, EntryInUse
    <3>3. \A y \in DOMAIN <<d>> : fs.disk[<<d>>[y]].type # "none"
      BY <1>1, OneSeq
    <3> QED
      BY <1>2, <1>6, <3>2, <3>3 DEF Used, InUseAt
  <2> QED
    BY <2>1
<1>9. Balance(p, t, l, w, <<d>>, cwd[p], file[p])
  BY <1>5, MakeBalance DEF w
<1>10. PutPendsAs(p, w, "exists")
  BY <1>1, <1>2, NoPends
<1> QED
  BY <1>1, <1>2, <1>3, <1>6, <1>7, <1>8, <1>9, <1>10, ReadySame DEF w

-----------------------------------------------------------------------------
(* The disk with a new inode j of type ty, entry n of directory a. *)
MadeDisk(d, e, a, n, j, ty) ==
  /\ e[j].type = ty /\ e[j].nlink = 1 /\ \A y \in Names : e[j].ent[y] = 0
  /\ ty = "dir" => e[j].ent["."] = j /\ e[j].ent[".."] = a
  /\ \A x \in Inums : x # j =>
       /\ e[x].type = d[x].type
       /\ e[x].nlink = d[x].nlink + (IF x = a /\ ty = "dir" THEN 1 ELSE 0)
       /\ \A y \in Names \cup Dots : e[x].ent[y] = IF x = a /\ y = n THEN j ELSE d[x].ent[y]

(* The same without the entry and the link of "..". *)
Typed(d, e, j) == [x \in Inums |-> IF x = j THEN e[j] ELSE d[x]]

LEMMA TypedIs ==
  ASSUME NEW d \in DiskType, NEW e \in DiskType, NEW j \in Inums, NEW b, b = Typed(d, e, j)
  PROVE  b \in DiskType /\ b[j] = e[j] /\ \A x \in Inums : x # j => b[x] = d[x]
BY DEF DiskType, Typed

(* What create may be sure of when it has chosen j. *)
CanMake(d, a, n, j) ==
  /\ DirsOK(d) /\ d[j].type = "none" /\ LinksTo(d, j) <= 0
  /\ d[a].type = "dir" /\ d[a].ent[n] = 0

LEMMA TypedLinks ==
  ASSUME NEW d \in DiskType, NEW e \in DiskType, NEW a \in Inums, NEW n \in Names, NEW j \in Inums,
         NEW ty \in Types \ {"none"}, CanMake(d, a, n, j), MadeDisk(d, e, a, n, j, ty),
         NEW b, b = Typed(d, e, j)
  PROVE  DirsOK(b) /\ \A x \in Inums : LinksTo(b, x) <= LinksTo(d, x)
<1>1. b \in DiskType /\ b[j] = e[j] /\ \A x \in Inums : x # j => b[x] = d[x]
  BY DEF DiskType, Typed
<1>2. NamesOf(d, j) = {} /\ j # ROOTINO /\ ROOTINO \in Inums /\ 0 \notin Inums
  BY Unlinked, Consts DEF CanMake
<1>3. \A y \in Names : b[j].ent[y] = 0
  BY <1>1 DEF MadeDisk
<1>4. ASSUME NEW x \in Inums, NEW y \in SubdirsOf(b, x)
      PROVE  /\ y \in SubdirsOf(d, x) /\ x # j /\ d[x].ent[y] \in Inums /\ d[x].ent[y] # j
             /\ b[x].ent[y] = d[x].ent[y]
  <2>1. y \in Names /\ b[x].type = "dir" /\ b[x].ent[y] # 0 /\ b[b[x].ent[y]].type = "dir"
    BY DEF SubdirsOf
  <2>2. x # j
    BY <1>3, <2>1
  <2>3. b[x] = d[x]
    BY <1>1, <2>2
  <2>4. d[x].ent[y] \in Inums
    BY <2>1, <2>3, DiskFields
  <2>5. d[x].ent[y] # j
    <3>1. /\ <<x, y>> \notin NamesOf(d, j) /\ <<x, y>> \in Inums \X Names
          /\ <<x, y>>[1] = x /\ <<x, y>>[2] = y
      BY <1>2, <2>1
    <3> QED
      BY <2>1, <2>3, <3>1 DEF NamesOf
  <2>6. b[d[x].ent[y]] = d[d[x].ent[y]]
    BY <1>1, <2>4, <2>5
  <2> QED
    BY <2>1, <2>2, <2>3, <2>4, <2>5, <2>6 DEF SubdirsOf
<1>5. ASSUME NEW x \in Inums PROVE NamesOf(b, x) \subseteq NamesOf(d, x)
  <2>1. ASSUME NEW g \in NamesOf(b, x) PROVE g \in NamesOf(d, x)
    <3>1. g \in Inums \X Names /\ b[g[1]].type = "dir" /\ b[g[1]].ent[g[2]] = x
      BY DEF NamesOf
    <3>2. g[1] \in Inums /\ g[2] \in Names
      BY <3>1
    <3>3. g[1] # j
      BY <1>2, <1>3, <3>1, <3>2
    <3>4. b[g[1]] = d[g[1]]
      BY <1>1, <3>2, <3>3
    <3> QED
      BY <3>1, <3>4 DEF NamesOf
  <2> QED
    BY <2>1
<1>6. ASSUME NEW x \in Inums PROVE LinksTo(b, x) <= LinksTo(d, x)
  <2>1. NamesOf(b, x) \subseteq NamesOf(d, x) /\ SubdirsOf(b, x) \subseteq SubdirsOf(d, x)
    BY <1>4, <1>5
  <2> QED
    BY <2>1, LinksLess
<1>7. b[ROOTINO].type = "dir"
  BY <1>1, <1>2 DEF CanMake, DirsOK
<1>8. ASSUME NEW x \in Inums, b[x].type = "none" PROVE b[x].nlink = 0
  <2>1. x # j
    BY <1>1, <1>8 DEF MadeDisk
  <2> QED
    BY <1>1, <1>8, <2>1 DEF CanMake, DirsOK
<1>9. ASSUME NEW x \in Inums, b[x].type = "dir", NEW y \in Dots PROVE b[x].ent[y] # 0
  <2>1. CASE x = j
    <3>1. ty = "dir" /\ e[j].ent["."] = j /\ e[j].ent[".."] = a
      BY <1>1, <1>9, <2>1 DEF MadeDisk
    <3> QED
      BY <1>1, <1>2, <2>1, <3>1 DEF Dots
  <2>2. CASE x # j
    BY <1>1, <1>9, <2>2 DEF CanMake, DirsOK
  <2> QED
    BY <2>1, <2>2
<1>10. ASSUME NEW x \in Inums, NEW y \in SubdirsOf(b, x) PROVE b[b[x].ent[y]].ent[".."] = x
  <2>1. /\ y \in SubdirsOf(d, x) /\ d[x].ent[y] \in Inums /\ d[x].ent[y] # j
        /\ b[x].ent[y] = d[x].ent[y]
    BY <1>4
  <2>2. d[d[x].ent[y]].ent[".."] = x
    BY <2>1 DEF CanMake, DirsOK
  <2> QED
    BY <1>1, <2>1, <2>2
<1> QED
  BY <1>6, <1>7, <1>8, <1>9, <1>10 DEF DirsOK

LEMMA MadeLinks ==
  ASSUME NEW d \in DiskType, NEW e \in DiskType, NEW a \in Inums, NEW n \in Names, NEW j \in Inums,
         NEW ty \in Types \ {"none"}, CanMake(d, a, n, j), MadeDisk(d, e, a, n, j, ty)
  PROVE  /\ DirsOK(e)
         /\ \A x \in Inums : LinksTo(e, x) + d[x].nlink <= LinksTo(d, x) + e[x].nlink
<1> DEFINE b == Typed(d, e, j)
<1>1. b \in DiskType /\ b[j] = e[j] /\ \A x \in Inums : x # j => b[x] = d[x]
  BY TypedIs
<1>2. DirsOK(b) /\ \A x \in Inums : LinksTo(b, x) <= LinksTo(d, x)
  BY TypedLinks
<1> HIDE DEF b
<1>3. a # j /\ n \notin Dots /\ n \in Names \cup Dots
  BY NullName DEF CanMake
<1>4. EntrySet(b, e, a, n, j)
  <2>1. b[a].type = "dir" /\ b[a].ent[n] = 0
    BY <1>1, <1>3 DEF CanMake
  <2>2. e[a].ent[n] = j
    BY <1>3 DEF MadeDisk
  <2>3. ASSUME NEW x \in Inums, x # j
        PROVE  /\ e[x].type = b[x].type
               /\ \A y \in Names \cup Dots : x # a \/ y # n => e[x].ent[y] = b[x].ent[y]
    BY <1>1, <2>3 DEF MadeDisk
  <2>4. e[j].type = b[j].type /\ e[j].ent = b[j].ent
    BY <1>1
  <2> QED
    BY <2>1, <2>2, <2>3, <2>4 DEF EntrySet
<1>5. DirOne(b, j) = IF ty = "dir" THEN 1 ELSE 0
  BY <1>1 DEF DirOne, MadeDisk
<1>6. ASSUME NEW x \in Inums
      PROVE  LinksTo(e, x) + d[x].nlink <= LinksTo(d, x) + e[x].nlink
  <2> DEFINE k == IF x = a /\ ty = "dir" THEN 1 ELSE 0
  <2>1. LinksTo(e, x) = LinksTo(b, x) + Eq(x, j) + k
    <3>1. LinksTo(e, x) = LinksTo(b, x) + Eq(x, j) + (IF x = a THEN DirOne(b, j) ELSE 0)
      BY <1>1, <1>4, LinksSet
    <3> QED
      BY <1>5, <3>1
  <2>2. LinksTo(b, x) <= LinksTo(d, x) /\ LinksTo(b, x) \in Nat /\ LinksTo(d, x) \in Nat
    BY <1>2, LinksFinite
  <2>3. d[x].nlink \in Int /\ e[x].nlink \in Int
    BY DiskFields
  <2>4. e[x].nlink = d[x].nlink + Eq(x, j) + k
    <3>1. CASE x = j
      <4>1. d[x].nlink = 0 /\ e[x].nlink = 1 /\ Eq(x, j) = 1 /\ k = 0
        BY <1>3, <3>1 DEF CanMake, DirsOK, MadeDisk, Eq
      <4> QED
        BY <4>1
    <3>2. CASE x # j
      <4>1. e[x].nlink = d[x].nlink + k /\ Eq(x, j) = 0
        BY <3>2 DEF MadeDisk, Eq
      <4>2. k \in {0, 1}
        OBVIOUS
      <4> HIDE DEF k
      <4> QED
        BY <2>3, <4>1, <4>2
    <3> QED
      BY <3>1, <3>2
  <2>5. Eq(x, j) \in {0, 1} /\ k \in {0, 1}
    BY DEF Eq
  <2> HIDE DEF k
  <2> QED
    BY <2>1, <2>2, <2>3, <2>4, <2>5
<1>7. NoneZero(e)
  <2>1. ASSUME NEW x \in Inums, e[x].type = "none" PROVE e[x].nlink = 0
    <3>1. x # j /\ x # a
      BY <1>3, <2>1 DEF MadeDisk, CanMake
    <3> QED
      BY <2>1, <3>1 DEF MadeDisk, CanMake, DirsOK
  <2> QED
    BY <2>1 DEF NoneZero
<1>8. b[j].type = "dir" => b[j].ent[".."] = a
  BY <1>1 DEF MadeDisk
<1> QED
  BY <1>1, <1>2, <1>4, <1>6, <1>7, <1>8, DirsSet

(* The state in which create leaves a new inode j, with directory a still  *)
(* locked.                                                                 *)
Dotted(s, a, j, ty) ==
  IF ty = "dir" THEN SetEntry(SetEntry(AddLinks(s, a, 1), j, ".", j), j, "..", a) ELSE s

DottedDisk(d, e, a, j, ty) ==
  /\ ty = "dir" => e[j].ent["."] = j /\ e[j].ent[".."] = a
  /\ \A x \in Inums :
       /\ e[x].type = d[x].type
       /\ e[x].nlink = d[x].nlink + (IF x = a /\ ty = "dir" THEN 1 ELSE 0)
       /\ \A y \in Names \cup Dots : x # j \/ y \in Names => e[x].ent[y] = d[x].ent[y]

KeptInodes(s, t) ==
  \A x \in Inums : t.inode[x].ref = s.inode[x].ref /\ t.inode[x].valid = s.inode[x].valid

LEMMA DottedIs ==
  ASSUME NEW s \in FsType, Cached(s), NEW a \in Inums, s.inode[a].valid, NEW j \in Inums,
         NEW ty, NEW t, t = Dotted(s, a, j, ty)
  PROVE  /\ t \in FsType /\ Cached(t) /\ t.lock = s.lock /\ t.panic = s.panic
         /\ KeptInodes(s, t) /\ DottedDisk(s.disk, t.disk, a, j, ty)
<1>1. CASE ty = "dir"
  <2> DEFINE b == AddLinks(s, a, 1)
             c == SetEntry(b, j, ".", j)
             e == SetEntry(c, j, "..", a)
  <2>1. t = e
    BY <1>1 DEF Dotted
  <2>2. AddLinksTo(s, b, a, 1)
    BY AddLinksIs
  <2>3. "." \in Dots /\ ".." \in Dots /\ Names \cap Dots = {} /\ "." # ".."
    BY NullName
  <2> HIDE DEF b
  <2>4. SetEntryTo(b, c, j, ".", j)
    BY <2>2, <2>3, SetEntryIs DEF AddLinksTo
  <2> HIDE DEF c
  <2>5. SetEntryTo(c, e, j, "..", a)
    <3>1. c \in FsType /\ Cached(c) /\ ".." \in Names \cup Dots /\ a \in Inums \cup {0}
      BY <2>3, <2>4 DEF SetEntryTo
    <3> QED
      BY <3>1, SetEntryIs
  <2> HIDE DEF e
  <2>6. e \in FsType /\ Cached(e) /\ e.lock = s.lock /\ e.panic = s.panic /\ e.inode = b.inode
    BY <2>2, <2>4, <2>5 DEF AddLinksTo, SetEntryTo
  <2>7. KeptInodes(s, e)
    BY <2>2, <2>6 DEF AddLinksTo, KeptInodes
  <2>8. ASSUME NEW x \in Inums
        PROVE  /\ e.disk[x].type = s.disk[x].type
               /\ e.disk[x].nlink = s.disk[x].nlink + (IF x = a THEN 1 ELSE 0)
    BY <2>2, <2>4, <2>5 DEF AddLinksTo, SetEntryTo
  <2>9. ASSUME NEW x \in Inums, NEW y \in Names \cup Dots, x # j \/ y \in Names
        PROVE  e.disk[x].ent[y] = s.disk[x].ent[y]
    <3>1. ~(x = j /\ y = ".") /\ ~(x = j /\ y = "..")
      BY <2>3, <2>9
    <3>2. e.disk[x].ent[y] = c.disk[x].ent[y] /\ c.disk[x].ent[y] = b.disk[x].ent[y]
      BY <2>4, <2>5, <3>1 DEF SetEntryTo
    <3>3. b.disk[x].ent = s.disk[x].ent
      BY <2>2 DEF AddLinksTo
    <3> QED
      BY <3>2, <3>3
  <2>10. e.disk[j].ent["."] = j /\ e.disk[j].ent[".."] = a
    BY <2>3, <2>4, <2>5 DEF SetEntryTo
  <2> QED
    BY <1>1, <2>1, <2>6, <2>7, <2>8, <2>9, <2>10 DEF DottedDisk
<1>2. CASE ty # "dir"
  <2>1. t = s
    BY <1>2 DEF Dotted
  <2>2. \A x \in Inums : s.disk[x].nlink \in Int
    BY FsFields, DiskFields
  <2>3. \A x \in Inums : s.disk[x].nlink = s.disk[x].nlink + (IF x = a /\ ty = "dir" THEN 1 ELSE 0)
    BY <1>2, <2>2
  <2> QED
    BY <1>2, <2>1, <2>3 DEF DottedDisk, KeptInodes
<1> QED
  BY <1>1, <1>2

(* All of create's changes. *)
MakeTo(t, p, a, n, j, ty) ==
  /\ Sound(t) /\ OneMore(t, j) /\ KeptValid(t) /\ t.inode[j].valid /\ t.lock[j] = p
  /\ \A x \in Inums : x # j /\ x # a => t.lock[x] = fs.lock[x]
  /\ MadeDisk(fs.disk, t.disk, a, n, j, ty)

MakeAll(s, p, a, n, j, ty) == SetEntry(Dotted(Made(s, p, j, ty), a, j, ty), a, n, j)

LEMMA MakeToIs ==
  ASSUME NEW p \in Procs, NEW a \in Inums, NEW n \in Names, NEW j \in Inums,
         NEW ty \in Types \ {"none"}, fs.disk[j].type = "none",
         NEW s, LockTo(s, p, a), ~NoEntryFor(s, j), NEW t, t = iunlock(MakeAll(s, p, a, n, j, ty), a)
  PROVE  MakeTo(t, p, a, n, j, ty)
<1> DEFINE b == Made(s, p, j, ty)
           c == Dotted(b, a, j, ty)
           e == SetEntry(c, a, n, j)
<1>1. /\ s \in FsType /\ Cached(s) /\ s.panic = "" /\ s.disk = fs.disk /\ s.inode[a].valid
      /\ s.disk[j].type = "none" /\ a # j
  BY DEF LockTo
<1>2. MadeTo(s, b, p, j, ty)
  BY <1>1, MadeIs
<1>3. t = iunlock(e, a)
  BY DEF MakeAll
<1> HIDE DEF b
<1>4. /\ c \in FsType /\ Cached(c) /\ c.lock = b.lock /\ c.panic = b.panic
      /\ KeptInodes(b, c) /\ DottedDisk(b.disk, c.disk, a, j, ty)
  <2>1. b \in FsType /\ Cached(b) /\ b.inode[a].valid
    BY <1>1, <1>2 DEF MadeTo
  <2> QED
    BY <2>1, DottedIs
<1> HIDE DEF c
<1>5. SetEntryTo(c, e, a, n, j)
  BY <1>4, SetEntryIs
<1> HIDE DEF e
<1>6. IunlockTo(e, t, a)
  BY <1>3, <1>5, IunlockIs DEF SetEntryTo
<1>7. Sound(t) /\ t.disk = e.disk /\ t.inode = c.inode
  <2>1. t \in FsType /\ Cached(t) /\ t.disk = e.disk /\ t.inode = e.inode /\ t.panic = e.panic
    BY <1>6 DEF IunlockTo
  <2>2. e.inode = c.inode /\ e.panic = c.panic
    BY <1>5 DEF SetEntryTo
  <2>3. b.panic = ""
    BY <1>1, <1>2 DEF MadeTo
  <2> QED
    BY <1>4, <2>1, <2>2, <2>3 DEF Sound
<1>8. \A x \in Inums : t.lock[x] = IF x = a THEN NULL ELSE IF x = j THEN p ELSE s.lock[x]
  BY <1>2, <1>4, <1>5, <1>6 DEF IunlockTo, SetEntryTo, MadeTo
<1>9. \A x \in Inums :
        /\ c.inode[x].ref = fs.inode[x].ref + Eq(x, j)
        /\ fs.inode[x].valid => c.inode[x].valid
  <2>1. \A x \in Inums : s.inode[x].ref = fs.inode[x].ref /\ (fs.inode[x].valid => s.inode[x].valid)
    BY DEF LockTo
  <2>2. \A x \in Inums : /\ b.inode[x].ref = s.inode[x].ref + Eq(x, j)
                         /\ s.inode[x].valid => b.inode[x].valid
    BY <1>2 DEF MadeTo
  <2>3. \A x \in Inums : c.inode[x].ref = b.inode[x].ref /\ (b.inode[x].valid => c.inode[x].valid)
    BY <1>4 DEF KeptInodes
  <2> QED
    BY <2>1, <2>2, <2>3
<1>10. c.inode[j].valid
  BY <1>2, <1>4 DEF KeptInodes, MadeTo
<1>11. MadeDisk(fs.disk, e.disk, a, n, j, ty)
  <2>1. n \notin Dots /\ "." \in Dots /\ ".." \in Dots
    BY NullName
  <2>2. ASSUME NEW x \in Inums, NEW y \in Names \cup Dots
        PROVE  e.disk[x].ent[y] = IF x = a /\ y = n THEN j ELSE c.disk[x].ent[y]
    BY <1>5 DEF SetEntryTo
  <2>3. ASSUME NEW x \in Inums
        PROVE  e.disk[x].type = c.disk[x].type /\ e.disk[x].nlink = c.disk[x].nlink
    BY <1>5 DEF SetEntryTo
  <2>4. e.disk[j].type = ty
    BY <1>2, <1>4, <2>3 DEF MadeTo, DottedDisk
  <2>5. e.disk[j].nlink = 1
    <3>1. c.disk[j].nlink = b.disk[j].nlink + (IF j = a /\ ty = "dir" THEN 1 ELSE 0)
      BY <1>4 DEF DottedDisk
    <3>2. b.disk[j].nlink = 1
      BY <1>2 DEF MadeTo
    <3>3. c.disk[j].nlink = 1 + 0
      BY <1>1, <3>1, <3>2
    <3>4. e.disk[j].nlink = c.disk[j].nlink
      BY <2>3
    <3> QED
      BY <3>3, <3>4
  <2>6. ASSUME NEW y \in Names PROVE e.disk[j].ent[y] = 0
    <3>1. b.disk[j].ent[y] = 0
      BY <1>2 DEF MadeTo
    <3>2. c.disk[j].ent[y] = b.disk[j].ent[y]
      BY <1>4 DEF DottedDisk
    <3>3. e.disk[j].ent[y] = c.disk[j].ent[y]
      <4>1. j # a /\ y \in Names \cup Dots
        BY <1>1
      <4> QED
        BY <2>2, <4>1
    <3> QED
      BY <3>1, <3>2, <3>3
  <2>7. ty = "dir" => e.disk[j].ent["."] = j /\ e.disk[j].ent[".."] = a
    <3>1. ty = "dir" => c.disk[j].ent["."] = j /\ c.disk[j].ent[".."] = a
      BY <1>4 DEF DottedDisk
    <3>2. e.disk[j].ent["."] = c.disk[j].ent["."] /\ e.disk[j].ent[".."] = c.disk[j].ent[".."]
      <4>1. "." \in Names \cup Dots /\ ".." \in Names \cup Dots /\ j # a
        BY <1>1, <2>1
      <4> QED
        BY <2>2, <4>1
    <3> QED
      BY <3>1, <3>2
  <2>8. ASSUME NEW x \in Inums, x # j
        PROVE  /\ e.disk[x].type = fs.disk[x].type
               /\ e.disk[x].nlink = fs.disk[x].nlink + (IF x = a /\ ty = "dir" THEN 1 ELSE 0)
    <3>1. b.disk[x].type = fs.disk[x].type /\ b.disk[x].nlink = fs.disk[x].nlink
      <4>1. b.disk[x].type = s.disk[x].type /\ b.disk[x].nlink = s.disk[x].nlink
        BY <1>2, <2>8 DEF MadeTo
      <4> QED
        BY <1>1, <4>1
    <3>2. /\ c.disk[x].type = b.disk[x].type
          /\ c.disk[x].nlink = b.disk[x].nlink + (IF x = a /\ ty = "dir" THEN 1 ELSE 0)
      BY <1>4 DEF DottedDisk
    <3> QED
      BY <2>3, <3>1, <3>2
  <2>9. ASSUME NEW x \in Inums, x # j, NEW y \in Names \cup Dots
        PROVE  e.disk[x].ent[y] = IF x = a /\ y = n THEN j ELSE fs.disk[x].ent[y]
    <3>1. b.disk[x].ent = fs.disk[x].ent
      <4>1. b.disk[x].ent = s.disk[x].ent
        BY <1>2, <2>9 DEF MadeTo
      <4> QED
        BY <1>1, <4>1
    <3>2. c.disk[x].ent[y] = b.disk[x].ent[y]
      BY <1>4, <2>9 DEF DottedDisk
    <3> QED
      BY <2>2, <3>1, <3>2
  <2> QED
    BY <2>4, <2>5, <2>6, <2>7, <2>8, <2>9 DEF MadeDisk
<1>12. \A x \in Inums : x # j /\ x # a => t.lock[x] = fs.lock[x]
  <2>1. \A x \in Inums : x # a => s.lock[x] = fs.lock[x]
    BY DEF LockTo
  <2> QED
    BY <1>8, <2>1
<1>13. t.lock[j] = p
  BY <1>1, <1>8
<1> QED
  BY <1>7, <1>9, <1>10, <1>11, <1>12, <1>13 DEF MakeTo, OneMore, KeptValid

(* A free inode has no links. *)
LEMMA FreeUnlinked ==
  ASSUME SysIndInv, NEW j \in Inums, fs.disk[j].type = "none"
  PROVE  LinksTo(fs.disk, j) <= 0
<1>1. fs.disk[j].nlink = 0
  BY InvFacts DEF DirsOK
<1>2. LinksTo(fs.disk, j) + Cardinality(Pending(j)) <= fs.disk[j].nlink
  BY InvFacts DEF Linked
<1>3. LinksTo(fs.disk, j) \in Nat
  BY LinksFinite
<1>4. Cardinality(Pending(j)) \in Nat
  BY PendingIs, PendingFinite
<1> QED
  BY <1>1, <1>2, <1>3, <1>4

LEMMA TypeIs ==
  ASSUME NEW op \in Makes
  PROVE  Type(op) \in Types \ {"none"} /\ ((Type(op) = "dir") <=> (op = "mkdir"))
BY DEF Type, Makes, Types

(* The name is made, with its inode. *)
LEMMA MakeKeeps ==
  ASSUME SysIndInv, NEW p \in Procs, NEW l, NEW d, NEW n \in Names, AtMake(p, l, d, n), Same,
         fs.disk[d].ent[n] = 0, NEW j \in Inums, fs.disk[j].type = "none",
         NEW ty \in Types \ {"none"}, NEW t, MakeTo(t, p, d, n, j, ty),
         To(p, t, Put(MakeLoc(l, j), <<d>>, "made"))
  PROVE  SysIndInv'
<1> DEFINE w == MakeLoc(l, j)
           m == Settled(Put(w, <<d>>, "made"))
<1>1. /\ l = loc[p] /\ l.op # "link2" /\ l.pc = "got" /\ Still(l) /\ Found(p, l)
      /\ l \in LocType /\ d \in Inums /\ fs.disk[d].type = "dir" /\ fs.lock[d] = NULL /\ d # j
  BY DEF AtMake
<1>2. Like(l, w) /\ w.ip = j /\ w.dp = NULL /\ w.op = l.op
  BY <1>1, MakeLocIs
<1> HIDE DEF w
<1>3. Fits(w, <<d>>, "made")
  BY MakeFits DEF w
<1>4. \A x \in Inums : fs.disk[x].type # "none" => t.disk[x].type = fs.disk[x].type
  BY DEF MakeTo, MadeDisk
<1>5. t.disk[j].type # "none"
  BY DEF MakeTo, MadeDisk
<1>6. PutHeld(t, p, w, <<d>>, "made")
  BY <1>1, <1>2 DEF PutHeld, MakeTo
<1>7. Used(t, w, <<d>>)
  <2>1. \A y \in DOMAIN <<d>> : <<d>>[y] \in Inums /\ fs.disk[<<d>>[y]].type # "none"
    BY <1>1, OneSeq
  <2> QED
    BY <1>2, <1>4, <1>5, <2>1 DEF Used, InUseAt
<1>8. Balance(p, t, l, w, <<d>>, cwd[p], file[p])
  BY MakeBalance DEF w, MakeTo
<1>9. InUseAt(t, cwd[p]) /\ InUseAt(t, file[p]) /\ Sound(t)
  <2>1. Here(p, loc[p])
    BY HereIs
  <2> QED
    BY <1>4, <2>1 DEF Here, InUseAt, MakeTo
<1>10. PutStep(p, m, w, <<d>>, "made", cwd[p], file[p]) /\ fs' = t
  BY <1>1, <1>2, <1>3, <1>6, <1>7, <1>8, <1>9, ReadyMove DEF w
<1> HIDE DEF m
<1>11. /\ Moved(p, m, cwd[p], file[p]) /\ HoldsOK(p, m, cwd[p], file[p])
       /\ RefStep(p, m, cwd[p], file[p])
       /\ \A x \in Inums : Pends(m, x) = PutPends(w, "made", x)
  BY <1>10, PutMove
<1>12. OthersKept(p)
  <2>1. \A x \in Inums : fs.inode[x].valid => t.inode[x].valid
    BY DEF MakeTo, KeptValid
  <2>2. ASSUME NEW x \in Inums, fs.lock[x] \notin {NULL, p}, fs.disk[x].type # "none"
        PROVE  /\ t.lock[x] = fs.lock[x]
               /\ \A y \in Names \cup Dots : t.disk[x].ent[y] = fs.disk[x].ent[y]
    <3>1. x # j /\ x # d
      BY <1>1, <2>2
    <3> QED
      BY <3>1 DEF MakeTo, MadeDisk
  <2> QED
    BY <1>4, <1>10, <2>1, <2>2 DEF OthersKept
<1>13. fs.disk \in DiskType /\ t.disk \in DiskType /\ DirsOK(fs.disk)
  BY <1>9, InvFacts, FsFields DEF Sound
<1>14. CanMake(fs.disk, d, n, j)
  BY <1>1, <1>13, FreeUnlinked DEF CanMake
<1>15. /\ DirsOK(t.disk)
       /\ \A x \in Inums : LinksTo(t.disk, x) + fs.disk[x].nlink
                             <= LinksTo(fs.disk, x) + t.disk[x].nlink
  BY <1>1, <1>13, <1>14, MadeLinks DEF MakeTo
<1>16. LinkStep(p, m)
  <2>1. ASSUME NEW x \in Inums
        PROVE  LinksTo(t.disk, x) + Pends(m, x) + fs.disk[x].nlink
                 <= LinksTo(fs.disk, x) + Pends(loc[p], x) + t.disk[x].nlink
    <3>1. Pends(m, x) = 0
      BY <1>1, <1>2, <1>11 DEF PutPends
    <3>2. Pends(loc[p], x) = 0
      BY <1>1 DEF Pends, Goal
    <3>3. /\ LinksTo(t.disk, x) \in Nat /\ LinksTo(fs.disk, x) \in Nat
          /\ fs.disk[x].nlink \in Int /\ t.disk[x].nlink \in Int
      BY <1>13, DiskFields, LinksFinite
    <3>4. LinksTo(t.disk, x) + fs.disk[x].nlink <= LinksTo(fs.disk, x) + t.disk[x].nlink
      BY <1>15
    <3> QED
      BY <3>1, <3>2, <3>3, <3>4
  <2> QED
    BY <1>10, <2>1 DEF LinkStep
<1> QED
  BY <1>10, <1>11, <1>12, <1>15, <1>16, Frame

LEMMA createKeeps ==
  ASSUME SysIndInv, NEW p \in Procs, create(p)
  PROVE  SysIndInv'
<1> DEFINE l == loc[p]
           d == l.dp
           n == l.name
           s == ilock(fs, p, d)
           u == iunlock(s, d)
           j == fs.disk[d].ent[n]
           new == FirstFree(s)
           ty == Type(l.op)
           x == [s EXCEPT !.panic = "ialloc: no inodes"]
           m == Made(s, p, new, ty)
           t == iunlock(MakeAll(s, p, d, n, new, ty), d)
<1>1. fs.panic = "" /\ l.op \in Makes /\ l.pc = "got" /\ fs.lock[d] = NULL /\ Same
  BY DEF create, At, Unlocked
<1>2. AtMake(p, l, d, n)
  BY <1>1, AtMakeIs
<1>3. /\ Found(p, l) /\ d \in Inums /\ n \in Names \cup Dots /\ fs.disk[d].type = "dir"
  <2> HIDE DEF l, d, n
  <2> QED
    BY <1>2 DEF AtMake
<1>4. s.panic = "" /\ LockTo(s, p, d) /\ UnlockTo(u, s, p)
  <2> HIDE DEF l, s, u
  <2> QED
    BY <1>1, <1>3, LockDp DEF l, s, u
<1>5. j \in Inums \cup {0}
  BY <1>3, InvFacts, DiskFields
<1>6. ty \in Types \ {"none"} /\ ((ty = "dir") <=> (l.op = "mkdir"))
  <2> HIDE DEF l
  <2> QED
    BY <1>1, TypeIs
<1>7. \/ j # 0 /\ To(p, iget(u, j), Put(MakeLoc(l, j), <<d>>, "exists"))
      \/ j = 0 /\ new = 0 /\ To(p, x, l)
      \/ j = 0 /\ new # 0 /\ To(p, m, l) /\ m.panic # ""
      \/ j = 0 /\ new # 0 /\ To(p, t, Put(MakeLoc(l, new), <<d>>, "made")) /\ m.panic = ""
  <2>1. dirlookup(s, d, n) = j
    BY <1>4 DEF dirlookup, LockTo
  <2>2. MakeAll(s, p, d, n, new, ty)
          = SetEntry(IF l.op = "mkdir"
                     THEN SetEntry(SetEntry(AddLinks(Made(s, p, new, ty), d, 1), new, ".", new),
                                   new, "..", d)
                     ELSE Made(s, p, new, ty), d, n, new)
    BY <1>6 DEF MakeAll, Dotted
  <2> HIDE DEF j
  <2> QED
    BY <1>4, <2>1, <2>2 DEF create, MakeLoc, NoDp, SetIp
<1>11. CASE j # 0 /\ NoEntryFor(u, j) /\ To(p, iget(u, j), Put(MakeLoc(l, j), <<d>>, "exists"))
  <2> DEFINE k == Put(MakeLoc(l, j), <<d>>, "exists")
  <2>1. j \in Inums /\ u \in FsType /\ To(p, iget(u, j), k)
    BY <1>4, <1>5, <1>11 DEF UnlockTo
  <2>2. loc[p].pc # "idle" /\ UNCHANGED <<outstanding, calls>> /\ UNCHANGED <<cwd, file>>
    BY <1>1 DEF Same
  <2> HIDE DEF j, u, k
  <2> QED
    BY <1>11, <2>1, <2>2, IgetPanicKeeps
<1>8. CASE j # 0 /\ ~NoEntryFor(u, j) /\ To(p, iget(u, j), Put(MakeLoc(l, j), <<d>>, "exists"))
  <2>1. j \in Inums /\ fs.disk[d].ent[n] = j
    BY <1>5, <1>8
  <2> HIDE DEF l, d, n, s, u, j
  <2> QED
    BY <1>1, <1>2, <1>4, <1>8, <2>1, ExistsKeeps
<1>9. CASE j = 0 /\ new = 0 /\ To(p, x, l)
  <2>1. x.panic = "ialloc: no inodes"
    <3>1. s \in FsType
      BY <1>4 DEF LockTo
    <3>2. "ialloc: no inodes" \in Panics
      BY DEF Panics, LackOfInodes
    <3> HIDE DEF s
    <3> QED
      BY <3>1, <3>2, WithPanic
  <2>2. x.panic \in Panics \ {""} /\ x.panic \in LackOfInodes
    BY <2>1 DEF Panics, LackOfInodes
  <2>3. loc[p].pc # "idle" /\ UNCHANGED <<outstanding, calls>> /\ UNCHANGED <<cwd, file>>
    BY <1>1 DEF Same
  <2> HIDE DEF x, l
  <2> QED
    BY <1>9, <2>1, <2>2, <2>3, SamePanic
<1>12. new # 0 => new \in Inums /\ fs.disk[new].type = "none"
  <2>1. s \in FsType /\ s.disk = fs.disk
    BY <1>4 DEF LockTo
  <2>2. new = 0 \/ (new \in Inums /\ s.disk[new].type = "none")
    <3> HIDE DEF s
    <3> QED
      BY <2>1, FirstFreeIs
  <2> QED
    BY <2>1, <2>2
<1>13. new # 0 => m.panic = IF NoEntryFor(s, new) THEN "iget: no inodes" ELSE ""
  <2>1. s \in FsType /\ Cached(s) /\ s.disk = fs.disk
    BY <1>4 DEF LockTo
  <2> HIDE DEF s, new, ty, l, d
  <2>2. CASE new # 0 /\ NoEntryFor(s, new)
    BY <1>6, <1>12, <2>1, <2>2, MadePanics
  <2>3. CASE new # 0 /\ ~NoEntryFor(s, new)
    <3>1. MadeTo(s, m, p, new, ty)
      BY <1>6, <1>12, <2>1, <2>3, MadeIs
    <3> QED
      BY <1>4, <2>3, <3>1 DEF MadeTo
  <2> QED
    BY <2>2, <2>3
<1>14. CASE j = 0 /\ new # 0 /\ To(p, m, l) /\ m.panic # ""
  <2> HIDE DEF m, l, j, new
  <2>1. m.panic = "iget: no inodes"
    BY <1>13, <1>14
  <2>2. m.panic \in Panics \ {""} /\ m.panic \in LackOfInodes
    BY <2>1 DEF Panics, LackOfInodes
  <2>3. loc[p].pc # "idle" /\ UNCHANGED <<outstanding, calls>> /\ UNCHANGED <<cwd, file>>
    BY <1>1 DEF Same, l
  <2> QED
    BY <1>14, <2>2, <2>3, SamePanic
<1>10. CASE j = 0 /\ new # 0 /\ To(p, t, Put(MakeLoc(l, new), <<d>>, "made")) /\ m.panic = ""
  <2> HIDE DEF m
  <2>1. new \in Inums /\ fs.disk[new].type = "none" /\ ~NoEntryFor(s, new)
    BY <1>10, <1>12, <1>13
  <2>2. fs.disk[d].ent[n] = 0
    BY <1>10
  <2> HIDE DEF l, d, n, s, j, new, ty
  <2>3. n \in Names
    BY <1>3, <2>2, FreeEntry
  <2>4. MakeTo(t, p, d, n, new, ty)
    BY <1>3, <1>4, <1>6, <2>1, <2>3, MakeToIs
  <2> HIDE DEF t
  <2> QED
    BY <1>1, <1>2, <1>6, <1>10, <2>1, <2>2, <2>3, <2>4, MakeKeeps
<1> QED
  BY <1>7, <1>8, <1>9, <1>10, <1>11, <1>14

-----------------------------------------------------------------------------
(* The first state, and those after a crash.                               *)

Booting ==
  /\ stable \in DiskType /\ StableOK /\ fs = Booted(stable)
  /\ outstanding = {} /\ calls \in Nat /\ crashes \in Nat
  /\ cwd = [p \in Procs |-> ROOTINO]
  /\ file = [p \in Procs |-> NULL]
  /\ loc = [p \in Procs |-> Idle]

BootedTo(s, d) ==
  /\ s \in FsType /\ Cached(s) /\ s.disk = d /\ s.panic = ""
  /\ \A i \in Inums : s.inode[i].ref = IF i = ROOTINO THEN Cardinality(Procs) ELSE 0

LEMMA NotCachedIs ==
  ASSUME NEW c \in Nat, NEW r, r = [NotCached EXCEPT !.ref = c]
  PROVE  /\ r \in InodeType /\ r.ref = c /\ r.valid = FALSE
         /\ NotCached \in InodeType /\ NotCached.ref = 0 /\ NotCached.valid = FALSE
<1>1. NotCached \in InodeType /\ NotCached.ref = 0 /\ NotCached.valid = FALSE
  BY DEF NotCached, InodeType, Types
<1> QED
  BY <1>1 DEF InodeType

LEMMA BootedIs ==
  ASSUME NEW d \in DiskType
  PROVE  BootedTo(Booted(d), d)
<1>1. Cardinality(Procs) \in Nat
  BY Consts, FS_CardinalityType
<1> DEFINE s == Booted(d)
           r == [NotCached EXCEPT !.ref = Cardinality(Procs)]
           m == [i \in Inums |-> IF i = ROOTINO THEN r ELSE NotCached]
           k == [i \in Inums |-> NULL]
<1>2. /\ r \in InodeType /\ r.ref = Cardinality(Procs) /\ r.valid = FALSE
      /\ NotCached \in InodeType /\ NotCached.ref = 0 /\ NotCached.valid = FALSE
  BY <1>1, NotCachedIs
<1>3. s = [disk |-> d, lock |-> k, panic |-> "", inode |-> m]
  BY DEF Booted
<1> HIDE DEF r, s
<1>4. m \in [Inums -> InodeType] /\ k \in [Inums -> Procs \cup {NULL}] /\ "" \in Panics
  BY <1>2 DEF Panics
<1>5. \A i \in Inums : /\ m[i].ref = (IF i = ROOTINO THEN Cardinality(Procs) ELSE 0)
                       /\ m[i].valid = FALSE
  BY <1>2
<1> HIDE DEF m, k
<1>6. s \in FsType /\ s.disk = d /\ s.panic = "" /\ s.inode = m
  BY <1>3, <1>4 DEF FsType
<1>7. Cached(s)
  BY <1>5, <1>6 DEF Cached
<1> QED
  BY <1>5, <1>6, <1>7 DEF BootedTo, s

LEMMA Fresh == Booting => SysIndInv
<1> SUFFICES ASSUME Booting PROVE SysIndInv
  OBVIOUS
<1>1. /\ stable \in DiskType /\ StableOK /\ fs = Booted(stable)
      /\ outstanding = {} /\ calls \in Nat /\ crashes \in Nat
      /\ cwd = [p \in Procs |-> ROOTINO]
      /\ file = [p \in Procs |-> NULL]
      /\ loc = [p \in Procs |-> Idle]
  BY DEF Booting
<1>2. /\ fs \in FsType /\ Cached(fs) /\ fs.disk = stable /\ fs.panic = ""
      /\ \A i \in Inums : fs.inode[i].ref = IF i = ROOTINO THEN Cardinality(Procs) ELSE 0
  <2>1. BootedTo(fs, stable)
    BY <1>1, BootedIs
  <2> QED
    BY <2>1 DEF BootedTo
<1>3. \A p \in Procs : loc[p] = Idle /\ cwd[p] = ROOTINO /\ file[p] = NULL
  BY <1>1
<1>4. TypeOK
  <2>1. loc \in [Procs -> LocType]
    BY <1>1, IdleIs
  <2>2. cwd \in [Procs -> Inums] /\ file \in [Procs -> Inums \cup {NULL}]
    BY <1>1, Consts
  <2>3. outstanding = {p \in Procs : loc[p].pc # "idle"}
    BY <1>1, <1>3, IdleIs
  <2> QED
    BY <1>1, <1>2, <2>1, <2>2, <2>3 DEF TypeOK
<1>5. \A p \in Procs : LocOK(loc[p]) /\ HeldOK(fs, p, loc[p]) /\ HeldInUse(fs.disk, loc[p])
  BY <1>3, IdleIs
<1>6. RefCounts
  <2>1. ASSUME NEW i \in Inums PROVE fs.inode[i].ref = Cardinality(Holders(i))
    <3>1. i # NULL
      BY Consts
    <3>2. ASSUME NEW h \in Procs \X {"at", "ip", "dp"} PROVE loc[h[1]][h[2]] # i
      <4>1. h[1] \in Procs /\ h[2] \in {"at", "ip", "dp"}
        OBVIOUS
      <4>2. Idle[h[2]] = NULL
        BY <4>1, IdleIs
      <4> QED
        BY <1>3, <3>1, <4>1, <4>2
    <3>3. ASSUME NEW x, NEW h \in Procs \X {x}
          PROVE  /\ loc[h[1]].put = <<>> /\ Len(loc[h[1]].put) # 2
                 /\ file[h[1]] # i /\ cwd[h[1]] = ROOTINO
      <4>1. h[1] \in Procs
        OBVIOUS
      <4>2. loc[h[1]] = Idle /\ file[h[1]] = NULL /\ cwd[h[1]] = ROOTINO
        BY <1>3, <4>1
      <4>3. Idle.put = <<>> /\ Len(<<>>) # 2
        BY IdleIs, NoSeq
      <4> QED
        BY <3>1, <4>2, <4>3
    <3>4. Holders(i) = {h \in Procs \X {"cwd"} : i = ROOTINO}
      BY <3>2, <3>3 DEF Holders
    <3>5. CASE i = ROOTINO
      <4>1. Holders(i) = Procs \X {"cwd"}
        BY <3>4, <3>5
      <4>2. IsFiniteSet({"cwd"}) /\ Cardinality({"cwd"}) = 1 /\ IsFiniteSet(Procs)
        BY FS_Singleton, Consts
      <4>3. Cardinality(Procs \X {"cwd"}) = Cardinality(Procs) * 1
        BY <4>2, FS_Product
      <4>4. Cardinality(Procs) \in Nat
        BY Consts, FS_CardinalityType
      <4>5. Cardinality(Procs) * 1 = Cardinality(Procs)
        BY <4>4
      <4>6. fs.inode[i].ref = Cardinality(Procs)
        BY <1>2, <3>5
      <4> QED
        BY <4>1, <4>3, <4>5, <4>6
    <3>6. CASE i # ROOTINO
      <4>1. Holders(i) = {}
        BY <3>4, <3>6
      <4> QED
        BY <1>2, <3>6, <4>1, FS_EmptySet
    <3> QED
      BY <3>5, <3>6
  <2> QED
    BY <2>1 DEF RefCounts
<1>7. InUseKept
  <2>1. ASSUME NEW p \in Procs, NEW i \in {cwd[p], file[p]} \ {NULL} PROVE fs.disk[i].type # "none"
    BY <1>1, <1>2, <1>3 DEF StableOK, DirsOK
  <2> QED
    BY <2>1 DEF InUseKept
<1>8. Linked
  <2>1. ASSUME NEW i \in Inums
        PROVE  LinksTo(fs.disk, i) + Cardinality(Pending(i)) <= fs.disk[i].nlink
    <3>1. Pending(i) = {}
      BY <1>3, IdleIs, Consts DEF Pending
    <3>2. Cardinality(Pending(i)) = 0
      BY <3>1, FS_EmptySet
    <3>3. LinksTo(fs.disk, i) \in Nat /\ LinksTo(fs.disk, i) <= fs.disk[i].nlink
      BY <1>1, <1>2, LinksFinite DEF StableOK
    <3> QED
      BY <3>2, <3>3
  <2> QED
    BY <2>1 DEF Linked
<1>9. DirsOK(fs.disk) /\ OnlyInodePanic
  BY <1>1, <1>2 DEF StableOK, OnlyInodePanic
<1> QED
  BY <1>1, <1>2, <1>4, <1>5, <1>6, <1>7, <1>8, <1>9 DEF SysIndInv, SysInv

LEMMA FreshNext == (Booting => SysIndInv)'
BY Fresh, PTL

LEMMA CrashKeeps ==
  ASSUME SysIndInv, Crash
  PROVE  SysIndInv'
<1>1. stable \in DiskType /\ StableOK /\ calls \in Nat /\ crashes \in Nat
  BY InvFacts DEF TypeOK
<1>2. stable' = stable /\ calls' = calls /\ crashes' = crashes + 1
  BY DEF Crash
<1>3. StableOK'
  BY <1>1, <1>2 DEF StableOK
<1>4. fs' = Booted(stable')
  BY <1>2 DEF Crash
<1>5. Booting'
  BY <1>1, <1>2, <1>3, <1>4 DEF Booting, Crash
<1> QED
  BY <1>5, FreshNext

(* The place of n among the files of the image, or 0. *)
ImageNo(n) == SelectInSeq(ImageFiles, LAMBDA f : f = n)

RootEntries ==
  [n \in Names \cup Dots |->
     IF n \in Dots THEN ROOTINO ELSE IF ImageNo(n) = 0 THEN 0 ELSE ImageNo(n) + 1]

LEMMA ImageIs ==
  /\ ImageFiles \in Seq(Names) /\ DOMAIN ImageFiles = 1..Len(ImageFiles)
  /\ \A k \in DOMAIN ImageFiles : k \in Nat \ {0} /\ k + 1 \in Inums /\ k + 1 # 1
BY InodeAssumption

LEMMA ImageNoIs ==
  ASSUME NEW n
  PROVE  \/ ImageNo(n) = 0
         \/ ImageNo(n) \in DOMAIN ImageFiles /\ ImageFiles[ImageNo(n)] = n
<1> DEFINE S == {i \in 1..Len(ImageFiles) : ImageFiles[i] = n}
<1>1. ImageNo(n) = IF S # {} THEN Min(S) ELSE 0
  BY DEF ImageNo, SelectInSeq
<1>2. S \subseteq Nat /\ DOMAIN ImageFiles = 1..Len(ImageFiles)
  BY ImageIs
<1>3. CASE S = {}
  BY <1>1, <1>3
<1>4. CASE S # {}
  <2>1. Min(S) \in S
    BY <1>2, <1>4, MinIn
  <2> QED
    BY <1>1, <1>2, <1>4, <2>1
<1> QED
  BY <1>3, <1>4

LEMMA RootEntriesAre ==
  /\ RootEntries \in [Names \cup Dots -> Inums \cup {0}]
  /\ \A n \in Dots : RootEntries[n] = ROOTINO
  /\ \A n \in Names : RootEntries[n] # 0 =>
       /\ RootEntries[n] - 1 \in DOMAIN ImageFiles /\ RootEntries[n] # ROOTINO
       /\ RootEntries[n] \in Inums /\ ImageFiles[RootEntries[n] - 1] = n
<1>1. Names \cap Dots = {} /\ ROOTINO \in Inums /\ ROOTINO = 1
  BY Consts
<1>2. ASSUME NEW n \in Names, RootEntries[n] # 0
      PROVE  /\ RootEntries[n] - 1 \in DOMAIN ImageFiles /\ RootEntries[n] # ROOTINO
             /\ RootEntries[n] \in Inums /\ ImageFiles[RootEntries[n] - 1] = n
  <2> DEFINE k == ImageNo(n)
  <2>1. RootEntries[n] = IF k = 0 THEN 0 ELSE k + 1
    BY <1>1 DEF RootEntries
  <2> HIDE DEF k
  <2>2. k # 0 /\ RootEntries[n] = k + 1
    BY <1>2, <2>1
  <2>3. k \in DOMAIN ImageFiles /\ ImageFiles[k] = n
    BY <2>2, ImageNoIs DEF k
  <2>4. k \in Nat \ {0} /\ k + 1 \in Inums /\ k + 1 # 1
    BY <2>3, ImageIs
  <2>5. k + 1 - 1 = k
    BY <2>4
  <2> QED
    BY <1>1, <2>2, <2>3, <2>4, <2>5
<1>3. \A n \in Dots : RootEntries[n] = ROOTINO
  BY DEF RootEntries
<1>4. ASSUME NEW n \in Names \cup Dots PROVE RootEntries[n] \in Inums \cup {0}
  BY <1>1, <1>2, <1>3
<1>5. RootEntries = [n \in Names \cup Dots |-> RootEntries[n]]
  BY DEF RootEntries
<1> QED
  BY <1>2, <1>3, <1>4, <1>5

(* An inode of the image. *)
MkfsAt(d, i) ==
  /\ i = ROOTINO => d[i].type = "dir" /\ d[i].nlink = 1 /\ d[i].ent = RootEntries
  /\ i # ROOTINO =>
       /\ d[i].type = IF i - 1 \in DOMAIN ImageFiles THEN "file" ELSE "none"
       /\ d[i].nlink = IF i - 1 \in DOMAIN ImageFiles THEN 1 ELSE 0

FileInode == [FreeInode EXCEPT !.type = "file", !.nlink = 1]

LEMMA FileInodeIs ==
  FileInode \in DinodeType /\ FileInode.type = "file" /\ FileInode.nlink = 1
<1>1. ASSUME NEW r \in DinodeType
      PROVE  [r EXCEPT !.type = "file"] \in DinodeType /\ [r EXCEPT !.type = "file"].type = "file"
  BY DEF DinodeType, Types
<1>2. ASSUME NEW r \in DinodeType
      PROVE  /\ [r EXCEPT !.nlink = 1] \in DinodeType /\ [r EXCEPT !.nlink = 1].nlink = 1
             /\ [r EXCEPT !.nlink = 1].type = r.type
  BY DEF DinodeType
<1> DEFINE g == [FreeInode EXCEPT !.type = "file"]
<1>3. g \in DinodeType /\ g.type = "file"
  BY <1>1, FreeInodeIs
<1>4. FileInode = [g EXCEPT !.nlink = 1]
  BY DEF FileInode
<1> HIDE DEF g
<1> QED
  BY <1>2, <1>3, <1>4

RootInode == [type |-> "dir", nlink |-> 1, ent |-> RootEntries]

LEMMA RootInodeIs ==
  /\ RootInode \in DinodeType /\ RootInode.type = "dir" /\ RootInode.nlink = 1
  /\ RootInode.ent = RootEntries
BY RootEntriesAre DEF RootInode, DinodeType, Types

LEMMA mkfsIs == mkfs \in DiskType /\ \A i \in Inums : MkfsAt(mkfs, i)
<1>1. mkfs = [i \in Inums |-> IF i = ROOTINO THEN RootInode
                              ELSE IF i - 1 \in DOMAIN ImageFiles THEN FileInode ELSE FreeInode]
  BY DEF mkfs, RootInode, RootEntries, ImageNo, FileInode
<1>2. FreeInode \in DinodeType /\ FreeInode.type = "none" /\ FreeInode.nlink = 0
  BY FreeInodeIs
<1>3. mkfs \in DiskType
  BY <1>1, <1>2, FileInodeIs, RootInodeIs DEF DiskType
<1>4. ASSUME NEW i \in Inums PROVE MkfsAt(mkfs, i)
  <2>1. mkfs[i] = IF i = ROOTINO THEN RootInode
                  ELSE IF i - 1 \in DOMAIN ImageFiles THEN FileInode ELSE FreeInode
    BY <1>1
  <2> QED
    BY <1>2, <2>1, FileInodeIs, RootInodeIs DEF MkfsAt
<1> QED
  BY <1>3, <1>4

(* The image that mkfs makes is sound. *)
LEMMA mkfsOK ==
  /\ DirsOK(mkfs)
  /\ \A i \in Inums : LinksTo(mkfs, i) <= mkfs[i].nlink
<1> DEFINE d == mkfs
<1>1. d \in DiskType /\ \A i \in Inums : MkfsAt(d, i)
  BY mkfsIs
<1> HIDE DEF d
<1>2. Names \cap Dots = {} /\ ROOTINO \in Inums /\ ROOTINO = 1 /\ 0 \notin Inums
  BY Consts
<1>3. \A i \in Inums : d[i].type = "dir" => i = ROOTINO
  BY <1>1 DEF MkfsAt
<1>4. d[ROOTINO].type = "dir" /\ d[ROOTINO].nlink = 1 /\ d[ROOTINO].ent = RootEntries
  BY <1>1, <1>2 DEF MkfsAt
<1>5. ASSUME NEW i \in Inums PROVE SubdirsOf(d, i) = {}
  <2>1. ASSUME NEW n \in SubdirsOf(d, i) PROVE FALSE
    <3>1. n \in Names /\ d[i].type = "dir" /\ d[i].ent[n] # 0 /\ d[d[i].ent[n]].type = "dir"
      BY DEF SubdirsOf
    <3>2. d[i].ent[n] = RootEntries[n]
      BY <1>3, <1>4, <3>1
    <3>3. RootEntries[n] \in Inums /\ RootEntries[n] # ROOTINO
      BY <3>1, <3>2, RootEntriesAre
    <3> QED
      BY <1>3, <3>1, <3>2, <3>3
  <2> QED
    BY <2>1
<1>6. ASSUME NEW i \in Inums, NEW e \in NamesOf(d, i)
      PROVE  /\ i # ROOTINO /\ i - 1 \in DOMAIN ImageFiles
             /\ e \in {ROOTINO} \X {ImageFiles[i - 1]}
  <2>1. e \in Inums \X Names /\ d[e[1]].type = "dir" /\ d[e[1]].ent[e[2]] = i
    BY DEF NamesOf
  <2>2. e[1] \in Inums /\ e[2] \in Names
    BY <2>1
  <2>3. e[1] = ROOTINO /\ RootEntries[e[2]] = i
    BY <1>3, <1>4, <2>1, <2>2
  <2>4. i - 1 \in DOMAIN ImageFiles /\ i # ROOTINO /\ ImageFiles[i - 1] = e[2]
    BY <1>2, <2>2, <2>3, RootEntriesAre
  <2> QED
    BY <2>1, <2>3, <2>4
<1>7. ASSUME NEW i \in Inums PROVE LinksTo(d, i) <= d[i].nlink
  <2>1. Cardinality(SubdirsOf(d, i)) = 0
    BY <1>5, FS_EmptySet
  <2>2. Cardinality(NamesOf(d, i)) \in Nat
    BY LinksFinite
  <2>3. CASE i = ROOTINO
    <3>1. NamesOf(d, i) = {}
      BY <1>6, <2>3
    <3>2. Cardinality(NamesOf(d, i)) = 0
      BY <3>1, FS_EmptySet
    <3> QED
      BY <1>4, <2>1, <2>3, <3>2 DEF LinksTo
  <2>4. CASE i # ROOTINO /\ i - 1 \in DOMAIN ImageFiles
    <3> DEFINE S == {ROOTINO} \X {ImageFiles[i - 1]}
    <3>1. S = {<<ROOTINO, ImageFiles[i - 1]>>}
      OBVIOUS
    <3>2. IsFiniteSet(S) /\ Cardinality(S) = 1
      BY <3>1, FS_Singleton
    <3>3. NamesOf(d, i) \in SUBSET S
      BY <1>6
    <3> HIDE DEF S
    <3>4. Cardinality(NamesOf(d, i)) <= 1
      BY <3>2, <3>3, FS_Subset
    <3>5. d[i].nlink = 1
      BY <1>1, <2>4 DEF MkfsAt
    <3> QED
      BY <2>1, <2>2, <2>4, <3>4, <3>5 DEF LinksTo
  <2>5. CASE i # ROOTINO /\ i - 1 \notin DOMAIN ImageFiles
    <3>1. NamesOf(d, i) = {}
      BY <1>6, <2>5
    <3>2. Cardinality(NamesOf(d, i)) = 0
      BY <3>1, FS_EmptySet
    <3>3. d[i].nlink = 0
      BY <1>1, <2>5 DEF MkfsAt
    <3> QED
      BY <2>1, <2>5, <3>2, <3>3 DEF LinksTo
  <2> QED
    BY <2>3, <2>4, <2>5
<1>8. ASSUME NEW i \in Inums
      PROVE  /\ d[i].type = "none" => d[i].nlink = 0
             /\ d[i].type = "dir" => \A n \in Dots : d[i].ent[n] # 0
  <2>1. d[i].type = "none" => d[i].nlink = 0
    BY <1>1 DEF MkfsAt
  <2>2. d[i].type = "dir" => \A n \in Dots : d[i].ent[n] # 0
    BY <1>2, <1>3, <1>4, RootEntriesAre
  <2> QED
    BY <2>1, <2>2
<1> QED
  BY <1>4, <1>5, <1>7, <1>8 DEF DirsOK, d

LEMMA InitKeeps == Init => SysIndInv
<1> SUFFICES ASSUME Init PROVE SysIndInv
  OBVIOUS
<1>1. stable = mkfs /\ fs = Booted(stable)
  BY DEF Init
<1>2. stable \in DiskType /\ StableOK
  BY <1>1, mkfsIs, mkfsOK DEF StableOK
<1>3. Booting
  BY <1>1, <1>2 DEF Init, Booting
<1> QED
  BY <1>3, Fresh

-----------------------------------------------------------------------------
LEMMA CallKeeps ==
  ASSUME SysIndInv, NEW p \in Procs, Call(p)
  PROVE  SysIndInv'
<1>1. ASSUME NEW op \in LookupOps, NEW path \in Paths, NEW parent \in BOOLEAN,
             (parent = TRUE) <=> (op \in ParentOps), NEW new \in Paths \cup {NULL},
             op = "link" => new \in Paths, Begin(p, op, path, parent, new)
      PROVE  SysIndInv'
  BY <1>1, BeginKeeps
<1>2. ASSUME NEW path \in Paths, sys_open(p, path) PROVE SysIndInv'
  BY <1>1, <1>2 DEF sys_open, LookupOps, ParentOps, Makes
<1>3. ASSUME NEW path \in Paths, NEW op \in Makes, sys_make(p, op, path) PROVE SysIndInv'
  BY <1>1, <1>3 DEF sys_make, LookupOps, ParentOps, Makes
<1>6. ASSUME NEW path \in Paths, sys_unlink(p, path) PROVE SysIndInv'
  BY <1>1, <1>6 DEF sys_unlink, LookupOps, ParentOps, Makes
<1>7. ASSUME NEW path \in Paths, sys_chdir(p, path) PROVE SysIndInv'
  BY <1>1, <1>7 DEF sys_chdir, LookupOps, ParentOps, Makes
<1>8. ASSUME NEW path \in Paths, NEW new \in Paths, sys_link(p, path, new) PROVE SysIndInv'
  BY <1>1, <1>8 DEF sys_link, LookupOps, ParentOps, Makes
<1> QED
  BY <1>2, <1>3, <1>6, <1>7, <1>8, sys_closeKeeps DEF Call

LEMMA StepKeeps ==
  ASSUME SysIndInv, NEW p \in Procs, Step(p)
  PROVE  SysIndInv'
BY iputKeeps, iput_refKeeps, namexKeeps, end_opKeeps, open_gotKeeps, createKeeps,
   create_existsKeeps, create_madeKeeps, unlink_dirKeeps, unlink_entryKeeps, GiveUpKeeps,
   unlink_doneKeeps, link_oldKeeps, link_newKeeps, link_undoKeeps, chdir_gotKeeps DEF Step

LEMMA StutterKeeps == SysIndInv /\ UNCHANGED sysVars => SysIndInv'
<1> SUFFICES ASSUME SysIndInv, UNCHANGED sysVars PROVE SysIndInv'
  OBVIOUS
<1>1. /\ fs' = fs /\ stable' = stable /\ outstanding' = outstanding /\ cwd' = cwd
      /\ file' = file /\ loc' = loc /\ calls' = calls /\ crashes' = crashes
  BY DEF sysVars
<1>2. TypeOK'
  BY <1>1, InvFacts DEF TypeOK
<1>3. RefCounts'
  <2>1. \A i : Holders(i)' = Holders(i)
    BY <1>1 DEF Holders
  <2> QED
    BY <1>1, <2>1, InvFacts DEF RefCounts
<1>4. Linked'
  <2>1. \A i : Pending(i)' = Pending(i)
    BY <1>1 DEF Pending
  <2> QED
    BY <1>1, <2>1, InvFacts DEF Linked
<1>5. StableOK' /\ InUseKept'
  BY <1>1, InvFacts DEF StableOK, InUseKept
<1> QED
  BY <1>1, <1>2, <1>3, <1>4, <1>5, InvFacts DEF SysIndInv, SysInv, OnlyInodePanic

(* The file system calls keep the references, the cache, the links and the *)
(* locks in agreement, from mkfs's image on and through any crashes: every *)
(* lock section of fs.c and sysfile.c preserves SysIndInv.                 *)
THEOREM SysInductive == Spec => []SysIndInv
<1>1. ASSUME SysIndInv, [Next]_sysVars PROVE SysIndInv'
  <2>1. ASSUME NEW p \in Procs, Call(p) PROVE SysIndInv'
    BY <1>1, <2>1, CallKeeps
  <2>2. ASSUME NEW p \in Procs, Step(p) PROVE SysIndInv'
    BY <1>1, <2>2, StepKeeps
  <2>3. CASE Crash
    BY <1>1, <2>3, CrashKeeps
  <2>4. CASE UNCHANGED sysVars
    BY <1>1, <2>4, StutterKeeps
  <2> QED
    BY <1>1, <2>1, <2>2, <2>3, <2>4 DEF Next
<1> QED
  BY <1>1, InitKeeps, PTL DEF Spec

(* What a call of sysfile.c found under one lock is still so under the     *)
(* next, and the inode cache is what the disk will be.                     *)
THEOREM CallsAgree == Spec => []SysInv
<1>1. SysIndInv => SysInv
  BY DEF SysIndInv
<1> QED
  BY <1>1, SysInductive, PTL

(* ip->ref is the number of pointers to the inode (fs.c 123-128), for any  *)
(* processes, inodes and paths.                                            *)
THEOREM RefCountsExact == Spec => []RefCounts
<1>1. SysIndInv => RefCounts
  BY DEF SysIndInv
<1> QED
  BY <1>1, SysInductive, PTL

(* No crash leaves a name without its inode or more names than links,      *)
(* whichever calls of sysfile.c (144-309) share the transaction.           *)
THEOREM NamesSurviveCrashes == Spec => []NamesSafe
<1>1. SysIndInv => NamesSafe
  <2> SUFFICES ASSUME SysIndInv, NEW i \in Inums
               PROVE  /\ stable[i].type = "none" => NamesOf(stable, i) = {}
                      /\ LinksTo(stable, i) <= stable[i].nlink
                      /\ \A n \in SubdirsOf(stable, i) : stable[stable[i].ent[n]].ent[".."] = i
    BY DEF NamesSafe
  <2>1. stable \in DiskType /\ DirsOK(stable) /\ LinksTo(stable, i) <= stable[i].nlink
    BY InvFacts DEF StableOK
  <2>2. ASSUME NamesOf(stable, i) # {}, stable[i].type = "none" PROVE FALSE
    <3>1. stable[i].nlink = 0
      BY <2>1, <2>2 DEF DirsOK
    <3>2. LinksTo(stable, i) <= 0
      BY <2>1, <3>1
    <3> QED
      BY <2>2, <3>2, Unlinked
  <2> QED
    BY <2>1, <2>2 DEF DirsOK
<1> QED
  BY <1>1, SysInductive, PTL

(* No inode is freed while it is a process's open file or current          *)
(* directory (fs.c 326-353).                                               *)
THEOREM InUseNeverFreed == Spec => []InUseKept
<1>1. SysIndInv => InUseKept
  BY DEF SysIndInv
<1> QED
  BY <1>1, SysInductive, PTL

(* When no path has "." or ".." in it, ilock meets no free inode (fs.c     *)
(* 311) and sys_unlink no name that is not counted (sysfile.c 237): the    *)
(* only panics are ialloc's (fs.c 214) and iget's (263), for lack of       *)
(* inodes on the disk and in the cache.  With ".." the first one fails.    *)
THEOREM NoPanicWithoutDots == Spec => []OnlyInodePanic
<1>1. SysIndInv => OnlyInodePanic
  BY DEF SysIndInv
<1> QED
  BY <1>1, SysInductive, PTL
=============================================================================
