----------------------------- MODULE LogProofs ------------------------------
(***************************************************************************)
(* Crash safety of the log, for any number of processes, blocks and        *)
(* crashes, and any size of log: LogIndInv is inductive, and every step of *)
(* Log is a step of AtomicDisk or changes nothing that it shows.           *)
(***************************************************************************)
EXTENDS LogInv, FunctionTheorems, FiniteSetTheorems, TLAPS

USE LogAssumption

(* The active calls are finitely many.                                     *)
LEMMA InOpFinite ==
  /\ IsFiniteSet(InOp) /\ Cardinality(InOp) \in Nat
  /\ Cardinality(InOp) = 0 <=> InOp = {}
<1>1. InOp \in SUBSET Procs
  BY DEF InOp
<1>2. IsFiniteSet(InOp)
  BY <1>1, FS_Subset
<1> QED
  BY <1>2, FS_CardinalityType, FS_EmptySet

(* How long the log is.                                                    *)
LEMMA LogTypes ==
  ASSUME TypeOK, Header
  PROVE  /\ lh \in Seq(Blocks) /\ Len(lh) \in Nat /\ tail \in Nat /\ tail <= Len(lh)
         /\ \A i \in 1 .. Len(lh) : i \in Entries /\ i < NLOG /\ lh[i] \in Blocks
         /\ LOGSIZE \in Nat /\ Len(lh) <= LOGSIZE /\ Len(lh) < NLOG
<1>1. lh \in Seq(Blocks) /\ tail \in 0 .. LOGSIZE
  BY DEF TypeOK
<1>2. Len(lh) \in Nat /\ \A i \in 1 .. Len(lh) : lh[i] \in Blocks
  BY <1>1
<1>3. LOGSIZE \in Nat /\ tail <= Len(lh) /\ Len(lh) <= LOGSIZE /\ Len(lh) < NLOG
  BY DEF Header
<1> QED
  BY <1>1, <1>2, <1>3 DEF Entries

LEMMA LogInitInd == Init => LogIndInv
<1> SUFFICES ASSUME Init PROVE LogIndInv
  OBVIOUS
<1>1. TypeOK
  <2>1. head \in Seq(Blocks) /\ lh \in Seq(Blocks)
    BY DEF Init
  <2>2. /\ home \in [Blocks -> Data] /\ slot \in [Entries -> Data]
        /\ cache \in [Blocks -> Data \cup {NoBuf}] /\ dirty \subseteq Blocks
        /\ holder \in [Blocks -> Procs \cup {Nobody}]
        /\ logged \in [Procs -> SUBSET Blocks] /\ committing \in BOOLEAN
    BY DEF Init
  <2>3. /\ outstanding \in Nat /\ tail \in 0 .. LOGSIZE /\ crashes \in 0 .. MaxCrashes
        /\ step \in Steps /\ panic = "none"
        /\ pc \in [Procs -> {"idle", "begin", "sleep", "op", "log", "append", "commit"}]
    BY DEF Init, Steps
  <2> QED
    BY <2>1, <2>2, <2>3 DEF TypeOK
<1>2. InOp = {}
  BY DEF Init, InOp
<1>3. Alone
  BY <1>2, InOpFinite DEF Init, Alone
<1>4. Header /\ Caching /\ Copied
  BY DEF Init, Header, Caching, Copied, Once, Elems
<1> QED
  BY <1>1, <1>3, <1>4 DEF LogIndInv

LEMMA StutterInd ==
  ASSUME LogIndInv, UNCHANGED vars
  PROVE  LogIndInv'
<1> USE DEF LogIndInv, vars, diskVars, logVars, bufVars
<1>1. TypeOK'
  BY DEF TypeOK
<1>2. Header' /\ Alone'
  BY DEF Header, Alone, InOp, Once
<1>3. Caching' /\ Copied'
  BY DEF Caching, Copied, Elems
<1> QED
  BY <1>1, <1>2, <1>3

-----------------------------------------------------------------------------
LEMMA BeginOpInd ==
  ASSUME LogIndInv, NEW p \in Procs, BeginOp(p)
  PROVE  LogIndInv'
<1> USE DEF LogIndInv
<1>1. TypeOK'
  <2>0. outstanding' \in Nat
    <3>1. outstanding \in Nat
      BY DEF TypeOK
    <3> QED
      BY <3>1 DEF BeginOp
  <2>1. pc' \in [Procs -> {"idle", "begin", "sleep", "op", "log", "append", "commit"}]
    BY DEF TypeOK, BeginOp
  <2>2. logged' \in [Procs -> SUBSET Blocks]
    BY DEF TypeOK, BeginOp
  <2>3. UNCHANGED <<home, slot, head, lh, committing, cache, dirty, holder, step, tail, crashes, panic>>
    BY DEF BeginOp, diskVars, bufVars
  <2> QED
    BY <2>0, <2>1, <2>2, <2>3 DEF TypeOK
<1>2. Header' /\ Caching' /\ Copied'
  BY DEF Header, Caching, Copied, BeginOp, Once, Elems, diskVars, bufVars
<1>3. step = "none" /\ step' = step /\ committing' = committing
  BY DEF TypeOK, Steps, Alone, BeginOp, Recovering
<1>4. InOp' = InOp \cup {p} /\ p \notin InOp
  <2>1. pc' = [pc EXCEPT ![p] = "op"] /\ pc[p] \in {"idle", "begin"}
    BY DEF BeginOp
  <2>2. DOMAIN pc = Procs
    BY DEF TypeOK
  <2> QED
    BY <2>1, <2>2 DEF InOp
<1>5. outstanding' = Cardinality(InOp')
  <2>1. Cardinality(InOp \cup {p}) = Cardinality(InOp) + 1
    BY <1>4, InOpFinite, FS_AddElement
  <2> QED
    BY <1>4, <2>1 DEF BeginOp, Alone
<1>6. holder' = holder /\ \A b \in Blocks : holder'[b] # Nobody => pc'[holder'[b]] \in {"log", "append"}
  BY DEF Alone, BeginOp, TypeOK, bufVars
<1> QED
  BY <1>1, <1>2, <1>3, <1>5, <1>6 DEF Alone

LEMMA BeginSleepInd ==
  ASSUME LogIndInv, NEW p \in Procs, BeginSleep(p)
  PROVE  LogIndInv'
<1> USE DEF LogIndInv
<1>1. TypeOK'
  BY DEF TypeOK, BeginSleep, diskVars, logVars, bufVars
<1>2. Header' /\ Caching' /\ Copied'
  BY DEF Header, Caching, Copied, BeginSleep, Once, Elems, diskVars, logVars, bufVars
<1>3. InOp' = InOp
  BY DEF InOp, BeginSleep, TypeOK
<1>4. holder' = holder /\ \A b \in Blocks : holder'[b] # Nobody => pc'[holder'[b]] \in {"log", "append"}
  BY DEF Alone, BeginSleep, TypeOK, bufVars
<1>5. UNCHANGED <<outstanding, committing, step>>
  BY DEF BeginSleep, logVars
<1>6. Alone'
  BY <1>3, <1>4, <1>5 DEF Alone
<1> QED
  BY <1>1, <1>2, <1>6

LEMMA ModifyInd ==
  ASSUME LogIndInv, NEW p \in Procs, NEW b \in Blocks, NEW v \in Data, Modify(p, b, v)
  PROVE  LogIndInv'
<1> USE DEF LogIndInv
<1>1. TypeOK'
  BY DEF TypeOK, Modify, diskVars, logVars
<1>2. InOp' = InOp /\ InOp # {}
  BY DEF InOp, Modify, TypeOK
<1>3. step = "none" /\ UNCHANGED <<step, outstanding, committing>>
  BY <1>2 DEF Alone, Modify, logVars
<1>4. \A c \in Blocks : holder'[c] # Nobody => pc'[holder'[c]] \in {"log", "append"}
  BY DEF Alone, Modify, TypeOK
<1>5. Alone'
  <2>1. \A c, d \in Blocks : holder'[c] # Nobody /\ holder'[c] = holder'[d] => c = d
    BY DEF Alone, Modify, TypeOK
  <2> QED
    BY <1>2, <1>3, <1>4, <2>1 DEF Alone
<1>6. Header' /\ Copied'
  BY <1>3 DEF Header, Copied, Modify, Once, diskVars, logVars
<1>7. Caching'
  <2>1. UNCHANGED <<dirty, lh, home>> /\ dirty = Elems(lh) /\ v # NoBuf
    BY <1>3 DEF Caching, Modify, diskVars, logVars
  <2>2. \A c \in Blocks : c \in dirty' \/ holder'[c] # Nobody => cache'[c] # NoBuf
    BY <2>1 DEF Caching, Modify, TypeOK
  <2>3. \A c \in Blocks : c \notin dirty' /\ holder'[c] = Nobody => cache'[c] \in {NoBuf, home'[c]}
    BY <2>1 DEF Caching, Modify, TypeOK
  <2> QED
    BY <1>3, <2>1, <2>2, <2>3 DEF Caching, Elems
<1> QED
  BY <1>1, <1>5, <1>6, <1>7

LEMMA LogTestInd ==
  ASSUME LogIndInv, NEW p \in Procs, LogTest(p), panic = "none"
  PROVE  LogIndInv'
<1> USE DEF LogIndInv
<1>1. /\ UNCHANGED <<home, slot, head, lh, outstanding, committing, cache, dirty, holder, logged, step,
                     tail, crashes>>
      /\ pc[p] = "log"
  BY DEF LogTest, diskVars, logVars, bufVars
<1>2. panic' \in {"none", "too big a transaction", "log_write outside of trans"}
  BY DEF LogTest
<1>3. pc' \in {pc, [pc EXCEPT ![p] = "append"]}
  BY DEF LogTest
<1>4. TypeOK'
  BY <1>1, <1>2, <1>3 DEF TypeOK
<1>5. InOp' = InOp
  BY <1>1, <1>3 DEF InOp, TypeOK
<1>6. \A b \in Blocks : holder'[b] # Nobody => pc'[holder'[b]] \in {"log", "append"}
  BY <1>1, <1>3 DEF Alone, TypeOK
<1>7. Alone'
  BY <1>1, <1>5, <1>6 DEF Alone
<1>8. Header' /\ Caching' /\ Copied'
  BY <1>1 DEF Header, Caching, Copied, Once, Elems
<1> QED
  BY <1>4, <1>7, <1>8

(* What LogAppend(p) does to the log, the buffer and the call.             *)
Logs(p, b) ==
  /\ b \in Blocks /\ holder[b] = p /\ lh' = Absorbed(b) /\ dirty' = dirty \cup {b}
  /\ holder' = [holder EXCEPT ![b] = Nobody]
  /\ logged' = [logged EXCEPT ![p] = @ \cup {b}]
  /\ pc' = [pc EXCEPT ![p] = "op"]

LEMMA AbsorbedIs ==
  ASSUME lh \in Seq(Blocks), Once(lh), NEW b \in Blocks
  PROVE  /\ Absorbed(b) \in Seq(Blocks) /\ Once(Absorbed(b))
         /\ Elems(Absorbed(b)) = Elems(lh) \cup {b}
         /\ Len(Absorbed(b)) = IF b \in Elems(lh) THEN Len(lh) ELSE Len(lh) + 1
<1>1. CASE b \in Elems(lh)
  BY <1>1 DEF Absorbed
<1>2. CASE b \notin Elems(lh)
  <2> DEFINE h == Absorbed(b)
  <2>1. h = Append(lh, b)
    BY <1>2 DEF Absorbed
  <2> HIDE DEF h
  <2>2. /\ h \in Seq(Blocks) /\ Len(h) = Len(lh) + 1 /\ h[Len(lh) + 1] = b
        /\ \A i \in 1 .. Len(lh) : h[i] = lh[i]
    BY <2>1
  <2>3. Elems(h) = Elems(lh) \cup {b}
    BY <2>2 DEF Elems
  <2>4. Once(h)
    BY <1>2, <2>2 DEF Elems, Once
  <2> QED
    BY <1>2, <2>2, <2>3, <2>4 DEF h
<1> QED
  BY <1>1, <1>2

LEMMA LogAppendInd ==
  ASSUME LogIndInv, NEW p \in Procs, LogAppend(p), Len(lh') <= LOGSIZE, Len(lh') < NLOG
  PROVE  LogIndInv'
<1> USE DEF LogIndInv
<1>1. step = "none" /\ UNCHANGED <<step, outstanding, committing, tail, cache, home, slot, head, crashes, panic>>
  BY DEF InOp, Alone, LogAppend, TypeOK, diskVars
<1>2. PICK b \in Blocks : Logs(p, b)
  BY DEF LogAppend, Pin, Logs
<1> USE DEF Logs
<1>3. lh' \in Seq(Blocks) /\ Elems(lh') = Elems(lh) \cup {b} /\ Once(lh')
  BY <1>2, AbsorbedIs DEF TypeOK, Header
<1>4. TypeOK'
  BY <1>1, <1>2, <1>3 DEF TypeOK
<1>5. Header'
  <2>1. tail = 0 /\ Len(lh') \in Nat
    BY <1>1, <1>3 DEF Header
  <2> QED
    BY <1>1, <1>3, <2>1 DEF Header, Once
<1>6. Alone'
  <2>1. InOp' = InOp
    BY <1>2 DEF InOp, TypeOK, LogAppend
  <2>2. \A c \in Blocks : holder'[c] # Nobody => pc'[holder'[c]] \in {"log", "append"}
    <3> SUFFICES ASSUME NEW c \in Blocks, holder'[c] # Nobody PROVE pc'[holder'[c]] \in {"log", "append"}
      OBVIOUS
    <3>1. c # b /\ holder'[c] = holder[c] /\ holder[c] # p
      BY <1>2 DEF Alone, TypeOK
    <3> QED
      BY <1>2, <3>1 DEF Alone, TypeOK
  <2>3. \A c, d \in Blocks : holder'[c] # Nobody /\ holder'[c] = holder'[d] => c = d
    BY <1>2 DEF Alone, TypeOK
  <2> QED
    BY <1>1, <2>1, <2>2, <2>3 DEF Alone
<1>7. Caching'
  <2>1. dirty' = Elems(lh')
    BY <1>1, <1>2, <1>3 DEF Caching
  <2>2. cache[b] # NoBuf
    BY <1>2 DEF Caching
  <2>3. \A c \in Blocks : c \in dirty' \/ holder'[c] # Nobody => cache'[c] # NoBuf
    BY <1>1, <1>2, <2>2 DEF Caching, TypeOK
  <2>4. \A c \in Blocks : c \notin dirty' /\ holder'[c] = Nobody => cache'[c] \in {NoBuf, home'[c]}
    BY <1>1, <1>2 DEF Caching, TypeOK
  <2> QED
    BY <1>1, <2>1, <2>3, <2>4 DEF Caching
<1>8. Copied'
  BY <1>1 DEF Copied
<1> QED
  BY <1>4, <1>5, <1>6, <1>7, <1>8

(* A step that leaves the log alone and the contents of the pinned buffers *)
(* keeps Copied.                                                           *)
LEMMA CopiedKept ==
  ASSUME LogIndInv, UNCHANGED <<home, slot, lh, tail, step>>,
         \A c \in dirty : cache'[c] = cache[c]
  PROVE  Copied'
<1> USE DEF LogIndInv
<1>1. lh \in Seq(Blocks) /\ Len(lh) \in Nat /\ tail \in Nat /\ tail <= Len(lh)
  BY LogTypes
<1>2. ASSUME step = "write_log", NEW i \in 1 .. tail PROVE slot[i] = cache'[lh[i]]
  <2>1. lh[i] \in dirty
    BY <1>1, <1>2 DEF Caching, Elems
  <2> QED
    BY <1>2, <2>1 DEF Copied
<1>3. ASSUME step = "install", NEW i \in (tail + 1) .. Len(lh) PROVE slot[i] = cache'[lh[i]]
  <2>1. lh[i] \in dirty
    BY <1>3 DEF Caching
  <2> QED
    BY <1>3, <2>1 DEF Copied
<1> QED
  BY <1>2, <1>3 DEF Copied

LEMMA LoadInd ==
  ASSUME LogIndInv, NEW b \in Blocks, Load(b)
  PROVE  LogIndInv'
<1> USE DEF LogIndInv
<1>1. /\ UNCHANGED <<home, slot, head, lh, outstanding, committing, dirty, holder, pc, logged, step,
                     tail, crashes, panic>>
      /\ cache' = [cache EXCEPT ![b] = home[b]] /\ cache[b] = NoBuf
  BY DEF Load, diskVars, logVars
<1>2. TypeOK'
  BY <1>1 DEF TypeOK
<1>3. Header' /\ Alone'
  BY <1>1 DEF Header, Alone, Once, InOp
<1>4. b \notin dirty /\ holder[b] = Nobody
  BY <1>1 DEF Caching
<1>5. Caching'
  <2>1. \A c \in Blocks : c \in dirty' \/ holder'[c] # Nobody => cache'[c] # NoBuf
    BY <1>1, <1>4 DEF Caching, TypeOK
  <2>2. \A c \in Blocks : c \notin dirty' /\ holder'[c] = Nobody => cache'[c] \in {NoBuf, home'[c]}
    BY <1>1, <1>4 DEF Caching, TypeOK
  <2> QED
    BY <1>1, <2>1, <2>2 DEF Caching, Elems
<1>6. Copied'
  <2>1. \A c \in dirty : cache'[c] = cache[c]
    BY <1>1, <1>4 DEF TypeOK
  <2> QED
    BY <1>1, <2>1, CopiedKept
<1> QED
  BY <1>2, <1>3, <1>5, <1>6

LEMMA RecycleInd ==
  ASSUME LogIndInv, NEW b \in Blocks, Recycle(b)
  PROVE  LogIndInv'
<1> USE DEF LogIndInv
<1>1. /\ UNCHANGED <<home, slot, head, lh, outstanding, committing, dirty, holder, pc, logged, step,
                     tail, crashes, panic>>
      /\ cache' = [cache EXCEPT ![b] = NoBuf] /\ b \notin dirty /\ holder[b] = Nobody
  BY DEF Recycle, diskVars, logVars
<1>2. TypeOK'
  BY <1>1 DEF TypeOK
<1>3. Header' /\ Alone'
  BY <1>1 DEF Header, Alone, Once, InOp
<1>4. Caching'
  <2>1. \A c \in Blocks : c \in dirty' \/ holder'[c] # Nobody => cache'[c] # NoBuf
    BY <1>1 DEF Caching, TypeOK
  <2>2. \A c \in Blocks : c \notin dirty' /\ holder'[c] = Nobody => cache'[c] \in {NoBuf, home'[c]}
    BY <1>1 DEF Caching, TypeOK
  <2> QED
    BY <1>1, <2>1, <2>2 DEF Caching, Elems
<1>5. Copied'
  <2>1. \A c \in dirty : cache'[c] = cache[c]
    BY <1>1 DEF TypeOK
  <2> QED
    BY <1>1, <2>1, CopiedKept
<1> QED
  BY <1>2, <1>3, <1>4, <1>5

LEMMA EndOpInd ==
  ASSUME LogIndInv, NEW p \in Procs, EndOp(p), panic = "none"
  PROVE  LogIndInv'
<1> USE DEF LogIndInv
<1>1. p \in InOp /\ step = "none" /\ ~committing /\ head = << >> /\ tail = 0
  BY DEF EndOp, InOp, Alone, Header, TypeOK
<1>2. /\ UNCHANGED <<home, slot, head, lh, cache, dirty, holder, logged, tail, crashes, panic>>
      /\ outstanding' = outstanding - 1
  BY <1>1 DEF EndOp, diskVars, bufVars
<1>3. /\ InOp' = InOp \ {p}
      /\ pc' \in [Procs -> {"idle", "begin", "sleep", "op", "log", "append", "commit"}]
      /\ \A q \in Procs : pc[q] \in {"log", "append"} => pc'[q] = pc[q]
  <2>1. CASE outstanding = 1
    BY <2>1 DEF EndOp, InOp, TypeOK
  <2>2. CASE outstanding # 1
    <3>1. pc' = [Awake EXCEPT ![p] = "idle"] /\ pc[p] = "op"
      BY <2>2 DEF EndOp
    <3> QED
      BY <3>1 DEF InOp, TypeOK, Awake
  <2> QED
    BY <2>1, <2>2
<1>4. outstanding' = Cardinality(InOp') /\ outstanding' \in Nat /\ (outstanding = 1 => InOp' = {})
  <2>1. Cardinality(InOp \ {p}) = Cardinality(InOp) - 1 /\ IsFiniteSet(InOp \ {p})
    BY <1>1, InOpFinite, FS_RemoveElement
  <2>2. Cardinality(InOp \ {p}) \in Nat /\ (Cardinality(InOp \ {p}) = 0 <=> InOp \ {p} = {})
    BY <2>1, FS_CardinalityType, FS_EmptySet
  <2>3. outstanding = Cardinality(InOp) /\ Cardinality(InOp) \in Nat
    BY InOpFinite DEF Alone
  <2> QED
    BY <1>2, <1>3, <2>1, <2>2, <2>3
<1>5. \A b \in Blocks : holder'[b] # Nobody => pc'[holder'[b]] \in {"log", "append"}
  BY <1>2, <1>3 DEF Alone, TypeOK
<1>6. CASE outstanding = 1
  <2>1. committing' = TRUE /\ step' = IF lh = << >> THEN "done" ELSE "write_log"
    BY <1>6 DEF EndOp
  <2>2. TypeOK'
    BY <1>2, <1>3, <1>4, <2>1 DEF TypeOK, Steps
  <2>3. Header'
    BY <1>1, <1>2, <2>1 DEF Header, Once
  <2>4. Alone'
    BY <1>2, <1>4, <1>5, <1>6, <2>1 DEF Alone
  <2>5. Caching'
    <3>1. dirty = Elems(lh) /\ (lh = << >> => Elems(lh) = {})
      BY <1>1 DEF Caching, Elems
    <3> QED
      BY <1>2, <2>1, <3>1 DEF Caching, Elems
  <2>6. Copied'
    BY <1>1, <1>2, <2>1 DEF Copied
  <2> QED
    BY <2>2, <2>3, <2>4, <2>5, <2>6
<1>7. CASE outstanding # 1
  <2>1. UNCHANGED <<committing, step>>
    BY <1>7 DEF EndOp
  <2>2. TypeOK'
    BY <1>2, <1>3, <1>4, <2>1 DEF TypeOK
  <2>3. Header' /\ Copied'
    BY <1>1, <1>2, <2>1 DEF Header, Copied, Once
  <2>4. Alone'
    BY <1>1, <1>2, <1>4, <1>5, <2>1 DEF Alone
  <2>5. Caching'
    BY <1>2, <2>1 DEF Caching, Elems
  <2> QED
    BY <2>2, <2>3, <2>4, <2>5
<1> QED
  BY <1>6, <1>7

LEMMA WriteLogInd ==
  ASSUME LogIndInv, WriteLog
  PROVE  LogIndInv'
<1> USE DEF LogIndInv
<1>0. tail + 1 < NLOG
  BY LogTypes DEF WriteLog
<1>1. /\ UNCHANGED <<home, head, lh, outstanding, committing, cache, dirty, holder, pc, logged, step,
                     crashes, panic>>
      /\ slot' = [slot EXCEPT ![tail + 1] = cache[lh[tail + 1]]] /\ tail' = tail + 1
      /\ step = "write_log" /\ tail < Len(lh)
  BY <1>0 DEF WriteLog, logVars
<1>2. tail + 1 \in 1 .. Len(lh) /\ tail + 1 \in Entries /\ lh[tail + 1] \in Blocks
  BY <1>1, LogTypes
<1>3. cache[lh[tail + 1]] \in Data
  <2>1. lh[tail + 1] \in dirty
    BY <1>1, <1>2 DEF Caching, Elems
  <2> QED
    BY <1>2, <2>1 DEF Caching, TypeOK
<1>4. TypeOK'
  <2>1. slot' \in [Entries -> Data]
    BY <1>1, <1>3 DEF TypeOK
  <2>2. tail' \in 0 .. LOGSIZE
    BY <1>1, <1>2, LogTypes
  <2> QED
    BY <1>1, <2>1, <2>2 DEF TypeOK
<1>5. Header'
  <2>1. tail' <= Len(lh)
    BY <1>1, <1>2, LogTypes
  <2> QED
    BY <1>1, <2>1 DEF Header, Once
<1>6. Alone' /\ Caching'
  BY <1>1 DEF Alone, Caching, InOp, Elems
<1>7. Copied'
  <2>1. ASSUME NEW i \in 1 .. tail + 1 PROVE slot'[i] = cache[lh[i]]
    <3>1. slot \in [Entries -> Data] /\ i \in Entries /\ tail \in Nat
      <4>1. slot \in [Entries -> Data] /\ tail \in 0 .. LOGSIZE
        BY DEF TypeOK
      <4> QED
        BY <1>2, <4>1 DEF Entries
    <3>2. CASE i = tail + 1
      BY <1>1, <3>1, <3>2
    <3>3. CASE i # tail + 1
      BY <1>1, <3>1, <3>3 DEF Copied
    <3> QED
      BY <3>2, <3>3
  <2> QED
    BY <1>1, <2>1 DEF Copied
<1> QED
  BY <1>4, <1>5, <1>6, <1>7

LEMMA WriteHeadInd ==
  ASSUME LogIndInv, WriteHead
  PROVE  LogIndInv'
<1> USE DEF LogIndInv
<1>1. /\ UNCHANGED <<home, slot, lh, outstanding, committing, cache, dirty, holder, pc, logged, crashes,
                     panic>>
      /\ head' = lh /\ step' = "install" /\ tail' = 0 /\ step = "write_log" /\ tail = Len(lh)
  BY DEF WriteHead, LogWritten, logVars, bufVars
<1>2. lh \in Seq(Blocks) /\ Len(lh) \in Nat /\ LOGSIZE \in Nat
  BY LogTypes
<1>3. TypeOK'
  <2>1. head' \in Seq(Blocks)
    BY <1>1, <1>2
  <2>2. step' \in Steps /\ tail' \in 0 .. LOGSIZE
    BY <1>1, <1>2 DEF Steps
  <2> QED
    BY <1>1, <2>1, <2>2 DEF TypeOK
<1>4. Header'
  BY <1>1, <1>2 DEF Header, Once
<1>5. Alone'
  BY <1>1 DEF Alone, InOp
<1>6. Caching'
  <2>1. dirty = {lh[i] : i \in 1 .. Len(lh)}
    BY <1>1 DEF Caching, Elems
  <2>2. dirty' = {lh'[i] : i \in (tail' + 1) .. Len(lh')}
    BY <1>1, <2>1
  <2> QED
    BY <1>1, <2>2 DEF Caching
<1>7. Copied'
  BY <1>1 DEF Copied
<1> QED
  BY <1>3, <1>4, <1>5, <1>6, <1>7

LEMMA InstallInd ==
  ASSUME LogIndInv, Install
  PROVE  LogIndInv'
<1> USE DEF LogIndInv
<1> DEFINE b == lh[tail + 1]
<1>0. tail + 1 < NLOG
  BY LogTypes DEF Install
<1>1. /\ UNCHANGED <<slot, head, lh, outstanding, committing, holder, pc, logged, step, crashes, panic>>
      /\ home' = [home EXCEPT ![b] = slot[tail + 1]] /\ cache' = [cache EXCEPT ![b] = slot[tail + 1]]
      /\ dirty' = dirty \ {b} /\ tail' = tail + 1
      /\ step \in {"install", "recover"} /\ tail < Len(lh)
  BY <1>0 DEF Install, LogBlock, logVars
<1>2. /\ tail + 1 \in 1 .. Len(lh) /\ tail + 1 \in Entries /\ b \in Blocks
      /\ tail \in Nat /\ Len(lh) \in Nat
      /\ slot[tail + 1] \in Data /\ Once(lh)
  <2>1. /\ tail + 1 \in 1 .. Len(lh) /\ tail + 1 \in Entries /\ b \in Blocks
        /\ tail \in Nat /\ Len(lh) \in Nat
    BY <1>1, LogTypes
  <2> QED
    BY <2>1 DEF TypeOK, Header
<1>3. \A i \in 1 .. Len(lh) : lh[i] \in Blocks
  BY LogTypes
<1>4. TypeOK'
  <2>1. home' \in [Blocks -> Data] /\ cache' \in [Blocks -> Data \cup {NoBuf}] /\ dirty' \subseteq Blocks
    BY <1>1, <1>2 DEF TypeOK
  <2>2. tail' \in 0 .. LOGSIZE
    BY <1>1, <1>2, LogTypes
  <2> QED
    BY <1>1, <2>1, <2>2 DEF TypeOK
<1>5. Header'
  <2>1. tail' <= Len(lh)
    BY <1>1, <1>2
  <2> QED
    BY <1>1, <2>1 DEF Header, Once
<1>6. Alone'
  BY <1>1 DEF Alone, InOp
<1>7. Caching'
  <2>1. ASSUME step = "install" PROVE dirty' = {lh[i] : i \in (tail + 2) .. Len(lh)}
    <3>1. dirty = {lh[i] : i \in (tail + 1) .. Len(lh)}
      BY <2>1 DEF Caching
    <3>2. ASSUME NEW x PROVE x \in dirty' <=> x \in {lh[i] : i \in (tail + 2) .. Len(lh)}
      <4>1. ASSUME x \in dirty' PROVE x \in {lh[i] : i \in (tail + 2) .. Len(lh)}
        <5>1. PICK i \in (tail + 1) .. Len(lh) : x = lh[i] /\ x # b
          BY <1>1, <3>1, <4>1
        <5>2. i \in (tail + 2) .. Len(lh)
          BY <1>2, <5>1
        <5> QED
          BY <5>1, <5>2
      <4>2. ASSUME NEW i \in (tail + 2) .. Len(lh), x = lh[i] PROVE x \in dirty'
        <5>1. i \in (tail + 1) .. Len(lh) /\ i \in 1 .. Len(lh) /\ i # tail + 1
          BY <1>2
        <5>2. x \in dirty /\ x # b
          BY <1>2, <3>1, <4>2, <5>1 DEF Once
        <5> QED
          BY <1>1, <5>2
      <4> QED
        BY <4>1, <4>2
    <3> QED
      BY <3>2
  <2>2. step = "recover" => dirty' = {}
    BY <1>1 DEF Caching
  <2>3. \A c \in Blocks : c \in dirty' \/ holder'[c] # Nobody => cache'[c] # NoBuf
    BY <1>1, <1>2 DEF Caching, TypeOK
  <2>4. \A c \in Blocks : c \notin dirty' /\ holder'[c] = Nobody => cache'[c] \in {NoBuf, home'[c]}
    BY <1>1, <1>2 DEF Caching, TypeOK
  <2>5. step' = "install" => dirty' = {lh'[i] : i \in (tail' + 1) .. Len(lh')}
    <3>1. tail' + 1 = tail + 2
      BY <1>1, <1>2
    <3> QED
      BY <1>1, <2>1, <3>1
  <2> QED
    BY <1>1, <2>2, <2>3, <2>4, <2>5 DEF Caching
<1>8. Copied'
  <2>1. ASSUME step = "install", NEW i \in (tail + 2) .. Len(lh) PROVE slot[i] = cache'[lh[i]]
    <3>1. i \in (tail + 1) .. Len(lh) /\ i \in 1 .. Len(lh) /\ i # tail + 1
      BY <1>2
    <3>2. lh[i] # b /\ lh[i] \in Blocks
      BY <1>2, <1>3, <3>1 DEF Once
    <3>3. cache'[lh[i]] = cache[lh[i]]
      BY <1>1, <3>2 DEF TypeOK
    <3> QED
      BY <2>1, <3>1, <3>3 DEF Copied
  <2>2. ASSUME NEW i \in 1 .. tail + 1 PROVE home'[lh[i]] = slot[i]
    <3>1. i \in 1 .. Len(lh)
      BY <1>2
    <3>2. CASE i = tail + 1
      BY <1>1, <1>2, <3>2 DEF TypeOK
    <3>3. CASE i # tail + 1
      <4>1. lh[i] # b /\ lh[i] \in Blocks /\ i \in 1 .. tail
        BY <1>2, <1>3, <3>1, <3>3 DEF Once
      <4> QED
        BY <1>1, <4>1 DEF Copied, TypeOK
    <3> QED
      BY <3>2, <3>3
  <2>3. tail' + 1 = tail + 2
    BY <1>1, <1>2
  <2> QED
    BY <1>1, <2>1, <2>2, <2>3 DEF Copied
<1> QED
  BY <1>4, <1>5, <1>6, <1>7, <1>8

LEMMA EraseHeadInd ==
  ASSUME LogIndInv, EraseHead
  PROVE  LogIndInv'
<1> USE DEF LogIndInv
<1>1. /\ UNCHANGED <<home, slot, outstanding, committing, cache, dirty, holder, pc, logged, crashes, panic>>
      /\ lh' = << >> /\ head' = << >> /\ tail' = 0
      /\ step' = IF step = "install" THEN "done" ELSE "none"
      /\ step \in {"install", "recover"} /\ tail = Len(lh)
  BY DEF EraseHead, bufVars
<1>2. TypeOK'
  <2>1. lh' \in Seq(Blocks) /\ head' \in Seq(Blocks)
    BY <1>1
  <2>2. step' \in Steps /\ tail' \in 0 .. LOGSIZE
    BY <1>1 DEF Steps
  <2> QED
    BY <1>1, <2>1, <2>2 DEF TypeOK
<1>3. Header'
  BY <1>1 DEF Header, Once
<1>4. Alone'
  BY <1>1 DEF Alone, InOp
<1>5. dirty = {}
  <2>1. CASE step = "install"
    <3>1. dirty = {lh[i] : i \in (Len(lh) + 1) .. Len(lh)} /\ Len(lh) \in Nat
      BY <1>1, <2>1, LogTypes DEF Caching
    <3> QED
      BY <3>1
  <2>2. CASE step = "recover"
    BY <2>2 DEF Caching
  <2> QED
    BY <1>1, <2>1, <2>2
<1>6. Caching'
  BY <1>1, <1>5 DEF Caching, Elems
<1>7. Copied'
  BY <1>1 DEF Copied
<1> QED
  BY <1>2, <1>3, <1>4, <1>6, <1>7

LEMMA CommitDoneInd ==
  ASSUME LogIndInv, NEW p \in Procs, CommitDone(p)
  PROVE  LogIndInv'
<1> USE DEF LogIndInv
<1>1. /\ UNCHANGED <<home, slot, head, lh, outstanding, cache, dirty, holder, logged, tail, crashes, panic>>
      /\ ~committing' /\ step' = "none" /\ step = "done" /\ pc[p] = "commit"
      /\ committing' \in BOOLEAN /\ pc' = [Awake EXCEPT ![p] = "idle"]
  BY DEF CommitDone, diskVars, bufVars
<1>2. /\ InOp' = InOp
      /\ pc' \in [Procs -> {"idle", "begin", "sleep", "op", "log", "append", "commit"}]
      /\ \A q \in Procs : pc[q] \in {"log", "append"} => pc'[q] = pc[q]
  BY <1>1 DEF InOp, TypeOK, Awake
<1>3. TypeOK'
  BY <1>1, <1>2 DEF TypeOK, Steps
<1>4. Header' /\ Copied'
  BY <1>1 DEF Header, Copied, Once
<1>5. Alone'
  <2>1. \A b \in Blocks : holder'[b] # Nobody => pc'[holder'[b]] \in {"log", "append"}
    <3>1. \A b \in Blocks : holder[b] # Nobody => holder[b] \in Procs
      BY DEF TypeOK
    <3>2. \A b \in Blocks : holder[b] # Nobody => pc[holder[b]] \in {"log", "append"}
      BY DEF Alone
    <3> QED
      BY <1>1, <1>2, <3>1, <3>2
  <2> QED
    BY <1>1, <1>2, <2>1 DEF Alone
<1>6. Caching'
  <2>1. Elems(lh) = {}
    BY <1>1 DEF Header, Elems
  <2> QED
    BY <1>1, <2>1 DEF Caching, Elems
<1> QED
  BY <1>3, <1>4, <1>5, <1>6

LEMMA CrashInd ==
  ASSUME LogIndInv, Crash
  PROVE  LogIndInv'
<1> USE DEF LogIndInv
<1>1. /\ UNCHANGED <<home, slot, head>> /\ crashes < MaxCrashes /\ crashes' = crashes + 1
      /\ lh' = << >> /\ outstanding' = 0 /\ committing' = FALSE
      /\ cache' = [b \in Blocks |-> NoBuf] /\ dirty' = {} /\ holder' = [b \in Blocks |-> Nobody]
      /\ pc' = [p \in Procs |-> "idle"] /\ logged' = [p \in Procs |-> {}]
      /\ step' = "read_head" /\ tail' = 0 /\ panic' = "none"
  BY DEF Crash, diskVars
<1>2. TypeOK'
  <2>1. lh' \in Seq(Blocks)
    BY <1>1
  <2>2. /\ outstanding' \in Nat /\ tail' \in 0 .. LOGSIZE /\ step' \in Steps
    BY <1>1 DEF Steps
  <2>3. crashes' \in 0 .. MaxCrashes
    <3>1. crashes \in 0 .. MaxCrashes
      BY DEF TypeOK
    <3> QED
      BY <1>1, <3>1
  <2> QED
    BY <1>1, <2>1, <2>2, <2>3 DEF TypeOK
<1>3. Header' /\ Copied' /\ Caching'
  BY <1>1 DEF Header, Copied, Caching, Once
<1>4. InOp' = {}
  BY <1>1 DEF InOp
<1>5. Alone'
  <2>1. Cardinality({}) = 0
    BY FS_EmptySet
  <2> QED
    BY <1>1, <1>4, <2>1 DEF Alone
<1> QED
  BY <1>2, <1>3, <1>5

LEMMA ReadHeadInd ==
  ASSUME LogIndInv, ReadHead
  PROVE  LogIndInv'
<1> USE DEF LogIndInv
<1>1. /\ UNCHANGED <<home, slot, head, outstanding, committing, cache, dirty, holder, pc, logged, tail,
                     crashes, panic>>
      /\ lh' = head /\ step' = "recover" /\ step = "read_head"
  BY DEF ReadHead, diskVars, bufVars
<1>2. TypeOK'
  <2>1. lh' \in Seq(Blocks) /\ step' \in Steps
    BY <1>1 DEF TypeOK, Steps
  <2> QED
    BY <1>1, <2>1 DEF TypeOK
<1>3. head \in Seq(Blocks) /\ Len(head) \in Nat /\ tail = 0
  <2>1. head \in Seq(Blocks)
    BY DEF TypeOK
  <2> QED
    BY <1>1, <2>1 DEF Header
<1>4. Header'
  BY <1>1, <1>3 DEF Header, Once
<1>5. Alone' /\ Caching'
  BY <1>1 DEF Alone, Caching, InOp
<1>6. Copied'
  BY <1>1, <1>3 DEF Copied
<1> QED
  BY <1>2, <1>4, <1>5, <1>6

-----------------------------------------------------------------------------
(* The reservation of begin_op.                                            *)
LEMMA Limits ==
  /\ OpBlocks \in Nat /\ OpBlocks >= 1 /\ OpBlocks <= MAXOPBLOCKS
  /\ Limit \in Nat /\ 1 <= Limit /\ Limit <= LOGSIZE
  /\ \A n \in Nat : n * OpBlocks \in Nat
BY DEF Limit

LEMMA ReservedIs ==
  Reserved <=> (~Recovering => Len(lh) + outstanding * OpBlocks - Cardinality(Written) <= Limit)
BY DEF Reserved, Limit

LEMMA ElemsFinite ==
  ASSUME lh \in Seq(Blocks)
  PROVE  IsFiniteSet(Elems(lh))
<1> DEFINE f == [i \in 1 .. Len(lh) |-> lh[i]]
<1>1. Len(lh) \in Nat /\ IsFiniteSet(1 .. Len(lh))
  <2>1. Len(lh) \in Nat
    OBVIOUS
  <2> QED
    BY <2>1, FS_Interval
<1>2. f \in Surjection(1 .. Len(lh), Elems(lh))
  BY <1>1 DEF Surjection, Elems
<1> QED
  BY <1>1, <1>2, FS_Surjection

(* The blocks that a call logged are in the log, so there are finitely     *)
(* many pairs of a call and a block it logged.                             *)
LEMMA WrittenFinite ==
  ASSUME TypeOK, Reservation
  PROVE  /\ IsFiniteSet(Written) /\ Cardinality(Written) \in Nat
         /\ \A p \in InOp : /\ IsFiniteSet(logged[p]) /\ logged[p] \subseteq Blocks
                            /\ Cardinality(logged[p]) \in Nat
<1>1. lh \in Seq(Blocks)
  BY DEF TypeOK
<1>2. IsFiniteSet(Elems(lh)) /\ IsFiniteSet(InOp)
  BY <1>1, ElemsFinite, InOpFinite
<1>3. IsFiniteSet(InOp \X Elems(lh))
  BY <1>2, FS_Product
<1>4. Written \in SUBSET (InOp \X Elems(lh))
  BY DEF Written, Reservation
<1>5. IsFiniteSet(Written)
  BY <1>3, <1>4, FS_Subset
<1>6. ASSUME NEW p \in InOp
      PROVE IsFiniteSet(logged[p]) /\ logged[p] \subseteq Blocks /\ Cardinality(logged[p]) \in Nat
  <2>1. logged[p] \in SUBSET Elems(lh)
    BY DEF Reservation
  <2>2. IsFiniteSet(logged[p])
    BY <1>2, <2>1, FS_Subset
  <2>3. p \in Procs
    BY DEF InOp
  <2> QED
    BY <2>2, <2>3, FS_CardinalityType DEF TypeOK
<1> QED
  BY <1>5, <1>6, FS_CardinalityType

(* The blocks of one call are as many as its pairs in Written.             *)
LEMMA WrittenOf ==
  ASSUME TypeOK, NEW p \in InOp, IsFiniteSet(logged[p]), logged[p] \subseteq Blocks
  PROVE  /\ {w \in Written : w[1] = p} = {p} \X logged[p]
         /\ IsFiniteSet({p} \X logged[p]) /\ Cardinality({p} \X logged[p]) = Cardinality(logged[p])
<1>1. p \in Procs
  BY DEF InOp
<1>2. IsFiniteSet({p}) /\ Cardinality({p}) = 1 /\ Cardinality(logged[p]) \in Nat
  BY FS_Singleton, FS_CardinalityType
<1> QED
  BY <1>1, <1>2, FS_Product DEF Written

LEMMA BeginOpRoom ==
  ASSUME LogIndInv, Reservation, NEW p \in Procs, BeginOp(p)
  PROVE  Reservation'
<1>1. /\ UNCHANGED <<lh, holder, step>> /\ outstanding' = outstanding + 1 /\ HasRoom
      /\ pc' = [pc EXCEPT ![p] = "op"] /\ logged' = [logged EXCEPT ![p] = {}]
      /\ pc[p] \in {"idle", "begin"} /\ ~Recovering
  BY DEF BeginOp, bufVars
<1>2. TypeOK /\ Alone /\ pc \in [Procs -> {"idle", "begin", "sleep", "op", "log", "append", "commit"}]
      /\ logged \in [Procs -> SUBSET Blocks]
  BY DEF LogIndInv, TypeOK
<1>3. InOp' = InOp \cup {p} /\ p \notin InOp
  BY <1>1, <1>2 DEF InOp
<1>4. \A q \in InOp : logged'[q] = logged[q]
  BY <1>1, <1>2, <1>3 DEF InOp
<1>5. logged'[p] = {}
  BY <1>1, <1>2
<1>6. ASSUME NEW q \in InOp'
      PROVE Cardinality(logged'[q]) <= OpBlocks /\ \A b \in logged'[q] : b \in Elems(lh')
  <2>1. CASE q = p
    BY <1>5, <2>1, FS_EmptySet
  <2>2. CASE q # p
    BY <1>1, <1>3, <1>4, <2>2 DEF Reservation, Elems
  <2> QED
    BY <2>1, <2>2
<1>7. ASSUME NEW b \in Blocks, holder'[b] # Nobody
      PROVE Cardinality(logged'[holder'[b]] \cup {b}) <= OpBlocks
  <2>1. holder[b] \in Procs /\ pc[holder[b]] \in {"log", "append"}
    BY <1>1, <1>2, <1>7 DEF Alone, TypeOK
  <2>2. holder[b] \in InOp
    BY <2>1 DEF InOp
  <2> QED
    BY <1>1, <1>4, <1>7, <2>2 DEF Reservation
<1>8. Reserved'
  <2>1. Written' = Written
    BY <1>2, <1>3, <1>4, <1>5 DEF Written
  <2>2. Cardinality(Written) \in Nat /\ Len(lh) \in Nat /\ outstanding \in Nat
    <3>1. lh \in Seq(Blocks) /\ outstanding \in Nat
      BY <1>2 DEF TypeOK
    <3> QED
      BY <1>2, <3>1, WrittenFinite
  <2>3. Len(lh) + (outstanding + 1) * MAXOPBLOCKS <= LOGSIZE
    BY <1>1 DEF HasRoom
  <2>4. Len(lh) + (outstanding + 1) * OpBlocks <= Limit
    <3> DEFINE d == MAXOPBLOCKS - OpBlocks
    <3>1. d \in Nat /\ \A n \in Nat : n * d \in Nat
      BY Limits
    <3>2. MAXOPBLOCKS = OpBlocks + d /\ Limit = LOGSIZE - d
      BY DEF Limit
    <3> HIDE DEF d
    <3>3. (outstanding + 1) * MAXOPBLOCKS = (outstanding + 1) * OpBlocks + outstanding * d + d
      BY <2>2, <3>1, <3>2, Limits
    <3>4. outstanding * d \in Nat /\ (outstanding + 1) * OpBlocks \in Nat
      BY <2>2, <3>1, Limits
    <3> QED
      BY <2>2, <2>3, <3>1, <3>2, <3>3, <3>4
  <2>5. Len(lh) + outstanding' * OpBlocks - Cardinality(Written) <= Limit
    <3>1. outstanding' * OpBlocks \in Nat /\ outstanding' * OpBlocks = (outstanding + 1) * OpBlocks
      BY <1>1, <2>2, Limits
    <3> QED
      BY <2>2, <2>4, <3>1, Limits
  <2> QED
    BY <1>1, <2>1, <2>5, Limits DEF Reserved, Limit
<1> QED
  BY <1>6, <1>7, <1>8 DEF Reservation

LEMMA ModifyRoom ==
  ASSUME LogIndInv, Reservation, NEW p \in Procs, NEW b \in Blocks, NEW v \in Data, Modify(p, b, v)
  PROVE  Reservation'
<1>1. /\ UNCHANGED <<lh, logged, outstanding, step>>
      /\ holder' = [holder EXCEPT ![b] = p] /\ pc' = [pc EXCEPT ![p] = "log"] /\ pc[p] = "op"
      /\ Cardinality(logged[p] \cup {b}) <= OpBlocks
  BY DEF Modify, logVars
<1>2. holder \in [Blocks -> Procs \cup {Nobody}] /\ pc \in [Procs -> {"idle", "begin", "sleep", "op", "log", "append", "commit"}]
  BY DEF LogIndInv, TypeOK
<1>3. InOp' = InOp
  BY <1>1, <1>2 DEF InOp
<1>4. \A c \in Blocks : holder'[c] # Nobody => Cardinality(logged'[holder'[c]] \cup {c}) <= OpBlocks
  BY <1>1, <1>2 DEF Reservation
<1>5. Reserved'
  BY <1>1, <1>3 DEF Reservation, Reserved, Written, Recovering
<1> QED
  BY <1>1, <1>3, <1>4, <1>5 DEF Reservation, Elems

LEMMA LogTestRoom ==
  ASSUME LogIndInv, Reservation, NEW p \in Procs, LogTest(p)
  PROVE  Reservation'
<1>1. UNCHANGED <<lh, holder, logged, outstanding, step>>
  BY DEF LogTest, logVars, bufVars
<1>2. InOp' = InOp
  BY DEF LogTest, InOp, LogIndInv, TypeOK
<1> QED
  BY <1>1, <1>2 DEF Reservation, Reserved, Written, Recovering, Elems

LEMMA LogAppendRoom ==
  ASSUME LogIndInv, Reservation, NEW p \in Procs, LogAppend(p)
  PROVE  Reservation'
<1>1. step = "none" /\ UNCHANGED <<step, outstanding>> /\ pc[p] = "append" /\ p \in InOp
  BY DEF InOp, LogIndInv, Alone, LogAppend, TypeOK
<1>2. PICK b \in Blocks : Logs(p, b)
  BY DEF LogAppend, Pin, Logs
<1> USE DEF Logs
<1>3. /\ TypeOK /\ Alone /\ pc \in [Procs -> {"idle", "begin", "sleep", "op", "log", "append", "commit"}]
      /\ logged \in [Procs -> SUBSET Blocks] /\ holder \in [Blocks -> Procs \cup {Nobody}]
      /\ lh \in Seq(Blocks) /\ outstanding \in Nat
  BY DEF LogIndInv, TypeOK
<1>4. InOp' = InOp
  BY <1>1, <1>2, <1>3 DEF InOp
<1>5. logged'[p] = logged[p] \cup {b} /\ \A q \in InOp : q # p => logged'[q] = logged[q]
  BY <1>2, <1>3 DEF InOp
<1>6. /\ Elems(lh') = Elems(lh) \cup {b}
      /\ Len(lh') = IF b \in Elems(lh) THEN Len(lh) ELSE Len(lh) + 1
  BY <1>2, <1>3, AbsorbedIs DEF LogIndInv, Header
<1>7. ASSUME NEW q \in InOp'
      PROVE Cardinality(logged'[q]) <= OpBlocks /\ \A c \in logged'[q] : c \in Elems(lh')
  <2>1. CASE q = p
    <3>1. Cardinality(logged'[p]) <= OpBlocks
      <4>1. b \in Blocks /\ holder[b] # Nobody
        BY <1>2, LogAssumption
      <4> QED
        BY <1>2, <1>5, <4>1 DEF Reservation
    <3>2. \A c \in logged'[p] : c \in Elems(lh')
      BY <1>1, <1>5, <1>6 DEF Reservation
    <3> QED
      BY <2>1, <3>1, <3>2
  <2>2. CASE q # p
    BY <1>4, <1>5, <1>6, <2>2 DEF Reservation
  <2> QED
    BY <2>1, <2>2
<1>8. ASSUME NEW c \in Blocks, holder'[c] # Nobody
      PROVE Cardinality(logged'[holder'[c]] \cup {c}) <= OpBlocks
  <2>1. c # b /\ holder'[c] = holder[c] /\ holder[c] # p
    BY <1>2, <1>3, <1>8 DEF Alone
  <2>2. holder[c] \in InOp
    BY <1>3, <1>8, <2>1 DEF Alone, InOp
  <2> QED
    BY <1>5, <1>8, <2>1, <2>2 DEF Reservation
<1>9. Reserved'
  <2>1. Written' = Written \cup {<<p, b>>}
    <3>1. \A q \in InOp, c \in Blocks : c \in logged'[q] <=> c \in logged[q] \/ (q = p /\ c = b)
      BY <1>5
    <3>2. ASSUME NEW q \in Procs, NEW c \in Blocks
          PROVE <<q, c>> \in Written' <=> <<q, c>> \in Written \cup {<<p, b>>}
      BY <1>1, <1>4, <3>1 DEF Written
    <3> QED
      BY <1>2, <3>2 DEF Written
  <2>2. IsFiniteSet(Written) /\ Cardinality(Written) \in Nat
    BY <1>3, WrittenFinite
  <2>3. Cardinality(Written') = IF <<p, b>> \in Written THEN Cardinality(Written) ELSE Cardinality(Written) + 1
    BY <2>1, <2>2, FS_AddElement
  <2>4. <<p, b>> \in Written => b \in Elems(lh)
    BY DEF Written, Reservation
  <2>5. Len(lh) + outstanding * OpBlocks - Cardinality(Written) <= Limit
    BY <1>1, ReservedIs DEF Reservation, Recovering
  <2>6. outstanding * OpBlocks \in Nat /\ Limit \in Nat
    BY <1>3, Limits
  <2>7. Len(lh') - Cardinality(Written') <= Len(lh) - Cardinality(Written)
        /\ Len(lh') \in Nat /\ Cardinality(Written') \in Nat
    BY <1>3, <1>6, <2>2, <2>3, <2>4
  <2>8. Len(lh') + outstanding * OpBlocks - Cardinality(Written') <= Limit
    BY <1>3, <2>2, <2>5, <2>6, <2>7
  <2> QED
    BY <1>1, <2>8 DEF Reserved, Limit
<1> QED
  BY <1>7, <1>8, <1>9 DEF Reservation

(* A call that ends gives back what it reserved and did not use.           *)
LEMMA EndOpRoom ==
  ASSUME LogIndInv, Reservation, NEW p \in Procs, EndOp(p), panic = "none"
  PROVE  Reservation'
<1>1. p \in InOp /\ step = "none" /\ UNCHANGED <<lh, holder, logged>> /\ pc[p] = "op"
      /\ outstanding' = outstanding - 1
  BY DEF EndOp, InOp, LogIndInv, Alone, TypeOK, bufVars
<1>2. /\ TypeOK /\ Alone /\ Len(lh) \in Nat /\ outstanding \in Nat
      /\ holder \in [Blocks -> Procs \cup {Nobody}]
  BY DEF LogIndInv, TypeOK
<1>3. InOp' = InOp \ {p}
  <2>1. CASE outstanding = 1
    BY <2>1 DEF EndOp, InOp, LogIndInv, TypeOK
  <2>2. CASE outstanding # 1
    <3>1. pc' = [Awake EXCEPT ![p] = "idle"]
      BY <2>2 DEF EndOp
    <3> QED
      BY <1>1, <3>1 DEF InOp, LogIndInv, TypeOK, Awake
  <2> QED
    BY <2>1, <2>2
<1>4. outstanding' \in Nat
  <2>1. outstanding # 0
    BY <1>1, <1>2, InOpFinite DEF Alone
  <2> QED
    BY <1>1, <1>2, <2>1
<1> DEFINE W == {p} \X logged[p]
<1>5. /\ IsFiniteSet(Written) /\ Cardinality(Written) \in Nat
      /\ IsFiniteSet(logged[p]) /\ logged[p] \subseteq Blocks /\ Cardinality(logged[p]) \in Nat
  BY <1>1, <1>2, WrittenFinite
<1>6. IsFiniteSet(W) /\ Cardinality(W) = Cardinality(logged[p]) /\ {w \in Written : w[1] = p} = W
  BY <1>1, <1>2, <1>5, WrittenOf
<1>7. Written' = Written \ W
  <2>1. Written' = {w \in Written : w[1] # p}
    BY <1>1, <1>3 DEF Written
  <2> QED
    BY <1>6, <2>1
<1>8. Cardinality(Written') = Cardinality(Written) - Cardinality(logged[p])
  <2>1. Written \cap W = W
    BY <1>6
  <2>2. Cardinality(Written \ W) = Cardinality(Written) - Cardinality(Written \cap W)
    BY <1>5, FS_Difference
  <2> QED
    BY <1>6, <1>7, <2>1, <2>2
<1>9. Cardinality(logged[p]) <= OpBlocks
  BY <1>1 DEF Reservation
<1>10. Reserved'
  <2>1. Len(lh) + outstanding * OpBlocks - Cardinality(Written) <= Limit
    BY <1>1, ReservedIs DEF Reservation, Recovering
  <2>2. outstanding * OpBlocks = outstanding' * OpBlocks + OpBlocks
    BY <1>1, <1>2, <1>4, Limits
  <2>3. outstanding' * OpBlocks \in Nat
    BY <1>4, Limits
  <2>4. Len(lh) + outstanding' * OpBlocks - Cardinality(Written') <= Limit
    <3>1. Len(lh) \in Nat /\ OpBlocks \in Nat /\ Limit \in Nat
      BY <1>2, Limits
    <3> HIDE DEF W
    <3> QED
      BY <1>5, <1>8, <1>9, <2>1, <2>2, <2>3, <3>1
  <2> QED
    BY <1>1, <2>4 DEF Reserved, Limit
<1>11. Elems(lh') = Elems(lh)
  BY <1>1 DEF Elems
<1> QED
  BY <1>1, <1>3, <1>10, <1>11 DEF Reservation

(* While nobody is in a call, what the log holds is all there is to count. *)
LEMMA EmptyRoom ==
  ASSUME TypeOK, Alone, Reservation, InOp = {}, ~Recovering
  PROVE  Len(lh) <= Limit
<1>1. outstanding = 0 /\ Written = {}
  BY FS_EmptySet DEF Alone, Written
<1>2. lh \in Seq(Blocks)
  BY DEF TypeOK
<1> QED
  BY <1>1, <1>2, ReservedIs, Limits, FS_EmptySet DEF Reservation

LEMMA AloneRoom ==
  ASSUME TypeOK', Alone', InOp' = {}, ~Recovering' => Len(lh') <= Limit
  PROVE  Reservation'
<1>1. outstanding' = 0 /\ Written' = {}
  BY FS_EmptySet DEF Alone, Written
<1>2. \A b \in Blocks : holder'[b] = Nobody
  BY DEF Alone, TypeOK, InOp
<1>3. Len(lh') \in Nat
  <2>1. lh' \in Seq(Blocks)
    BY DEF TypeOK
  <2> QED
    BY <2>1
<1>4. ~Recovering' => Len(lh') + outstanding' * OpBlocks - Cardinality(Written') <= Limit
  BY <1>1, <1>3, Limits, FS_EmptySet
<1>5. Reserved'
  BY <1>4 DEF Reserved, Limit
<1> QED
  BY <1>2, <1>5 DEF Reservation

LEMMA ReservationKept ==
  ASSUME LogIndInv, LogIndInv', Reservation, [Next]_vars
  PROVE  Reservation'
<1>0. TypeOK' /\ Header' /\ Alone' /\ TypeOK /\ Alone
  BY DEF LogIndInv
<1>1. ASSUME NEW p \in Procs, BeginSleep(p) PROVE Reservation'
  <2>1. UNCHANGED <<lh, holder, logged, outstanding, step>>
    BY <1>1 DEF BeginSleep, bufVars, logVars
  <2>2. InOp' = InOp
    BY <1>1 DEF InOp, BeginSleep, LogIndInv, TypeOK
  <2> QED
    BY <2>1, <2>2 DEF Reservation, Reserved, Written, Elems, Recovering
<1>2. ASSUME NEW p \in Procs, CommitDone(p) PROVE Reservation'
  <2>1. step = "done" /\ InOp' = InOp /\ lh' = lh
    BY <1>2 DEF InOp, CommitDone, LogIndInv, TypeOK, Awake
  <2>2. InOp = {} /\ ~Recovering
    BY <1>0, <2>1 DEF Alone, Recovering
  <2>3. Len(lh') <= Limit
    BY <1>0, <2>1, <2>2, EmptyRoom
  <2> QED
    BY <1>0, <2>1, <2>2, <2>3, AloneRoom
<1>3. ASSUME NEW b \in Blocks, Load(b) \/ Recycle(b) PROVE Reservation'
  <2>1. UNCHANGED <<lh, holder, logged, outstanding, step, pc>>
    BY <1>3 DEF Load, Recycle, logVars
  <2> QED
    BY <2>1 DEF Reservation, Reserved, Written, Elems, Recovering, InOp
<1>4. ASSUME Commit PROVE Reservation'
  <2>1. step # "none" /\ pc' = pc
    BY <1>4 DEF Commit, WriteLog, WriteHead, Install, EraseHead, ReadHead
  <2>2. InOp = {} /\ InOp' = {}
    BY <1>0, <2>1 DEF Alone, InOp
  <2>3. ~Recovering' => lh' = << >> \/ (lh' = lh /\ ~Recovering)
    BY <1>4 DEF Commit, WriteLog, WriteHead, Install, EraseHead, ReadHead, Recovering, logVars
  <2>4. ~Recovering' => Len(lh') <= Limit
    BY <1>0, <2>2, <2>3, EmptyRoom, Limits
  <2> QED
    BY <1>0, <2>2, <2>4, AloneRoom
<1>5. ASSUME Crash PROVE Reservation'
  <2>1. InOp' = {} /\ Recovering'
    BY <1>5 DEF Crash, InOp, Recovering
  <2> QED
    BY <1>0, <2>1, AloneRoom
<1>6. ASSUME UNCHANGED vars PROVE Reservation'
  <2>1. UNCHANGED <<lh, holder, logged, outstanding, step, pc>>
    BY <1>6 DEF vars, logVars, bufVars
  <2> QED
    BY <2>1 DEF Reservation, Reserved, Written, Elems, Recovering, InOp
<1>7. ASSUME NEW p \in Procs, Call(p), panic = "none" PROVE Reservation'
  BY <1>1, <1>2, <1>7, BeginOpRoom, LogTestRoom, LogAppendRoom, EndOpRoom, ModifyRoom DEF Call
<1> QED
  BY <1>3, <1>4, <1>5, <1>6, <1>7 DEF Next

LEMMA ReservationInit == Init => Reservation
<1> SUFFICES ASSUME Init PROVE Reservation
  OBVIOUS
<1>1. InOp = {} /\ lh = << >> /\ outstanding = 0 /\ \A b \in Blocks : holder[b] = Nobody
  BY DEF Init, InOp
<1>2. Written = {}
  BY <1>1 DEF Written
<1>3. Len(lh) + outstanding * OpBlocks - Cardinality(Written) <= Limit
  BY <1>1, <1>2, FS_EmptySet, Limits
<1> QED
  BY <1>1, <1>3, ReservedIs DEF Reservation

(* A call that has logged fewer blocks than it may leaves room for one.    *)
LEMMA WrittenBound ==
  ASSUME TypeOK, Reservation, NEW p \in InOp, Cardinality(logged[p]) < OpBlocks
  PROVE  Cardinality(Written) < Cardinality(InOp) * OpBlocks
<1> DEFINE R(q) == IF q = p THEN 1 .. OpBlocks - 1 ELSE 1 .. OpBlocks
           All == InOp \X (1 .. OpBlocks)
           T == All \ {<<p, OpBlocks>>}
           g == [q \in InOp |-> CHOOSE h : h \in Injection(logged[q], R(q))]
           F == [w \in Written |-> <<w[1], g[w[1]][w[2]]>>]
<1>1. ASSUME NEW q \in InOp PROVE \E h : h \in Injection(logged[q], R(q))
  <2>1. /\ IsFiniteSet(logged[q]) /\ Cardinality(logged[q]) \in Nat
        /\ Cardinality(logged[q]) <= OpBlocks
    BY WrittenFinite DEF Reservation
  <2> DEFINE n == Cardinality(logged[q])
             S == logged[q]
  <2>2. ExistsBijection(1 .. n, S)
    BY <2>1, FS_CardinalityType
  <2>3. ExistsBijection(S, 1 .. n)
    BY <2>2, Fun_ExistsBijSymmetric
  <2>4. PICK h : h \in Bijection(S, 1 .. n)
    BY <2>3 DEF ExistsBijection
  <2>5. 1 .. n \subseteq R(q)
    BY <2>1
  <2>6. h \in Injection(S, R(q))
    <3> HIDE DEF n, S, R
    <3> QED
      BY <2>4, <2>5 DEF Bijection, Injection, Surjection
  <2> QED
    BY <2>6
<1>2. \A q \in InOp : g[q] \in Injection(logged[q], R(q))
  <2> HIDE DEF R
  <2> QED
    BY <1>1
<1>3. \A q \in InOp : R(q) \subseteq 1 .. OpBlocks /\ (q = p => OpBlocks \notin R(q))
  OBVIOUS
<1>4. \A w \in Written : w = <<w[1], w[2]>> /\ w[1] \in InOp /\ w[2] \in logged[w[1]]
  BY DEF Written
<1>5. F \in Injection(Written, T)
  <2> HIDE DEF g, R
  <2>1. ASSUME NEW w \in Written
        PROVE  <<w[1], g[w[1]][w[2]]>> \in T
    <3>1. g[w[1]][w[2]] \in R(w[1])
      BY <1>2, <1>4 DEF Injection
    <3> QED
      BY <1>3, <1>4, <3>1
  <2>2. ASSUME NEW v \in Written, NEW w \in Written,
               <<v[1], g[v[1]][v[2]]>> = <<w[1], g[w[1]][w[2]]>>
        PROVE  v = w
    <3>1. v[1] = w[1] /\ g[v[1]][v[2]] = g[v[1]][w[2]] /\ v[1] \in InOp
          /\ v[2] \in logged[v[1]] /\ w[2] \in logged[v[1]]
      BY <1>4, <2>2
    <3>2. v[2] = w[2]
      BY <1>2, <3>1 DEF Injection, IsInjective
    <3> QED
      BY <1>4, <3>1, <3>2
  <2> HIDE DEF T
  <2> QED
    BY <2>1, <2>2 DEF Injection, IsInjective
<1>6. /\ IsFiniteSet(All) /\ Cardinality(All) = Cardinality(InOp) * OpBlocks
      /\ Cardinality(All) \in Nat
  <2>1. IsFiniteSet(1 .. OpBlocks) /\ Cardinality(1 .. OpBlocks) = OpBlocks
    BY FS_Interval
  <2>2. IsFiniteSet(All) /\ Cardinality(All) = Cardinality(InOp) * OpBlocks
    BY <2>1, InOpFinite, FS_Product
  <2> QED
    BY <2>2, FS_CardinalityType
<1>7. IsFiniteSet(T) /\ Cardinality(T) = Cardinality(All) - 1
  <2>1. <<p, OpBlocks>> \in All
    OBVIOUS
  <2> HIDE DEF All
  <2> QED
    BY <1>6, <2>1, FS_RemoveElement
<1>8. Cardinality(Written) <= Cardinality(T)
  <2> HIDE DEF F, T
  <2> QED
    BY <1>5, <1>7, FS_Injection
<1>9. Cardinality(Written) \in Nat
  BY WrittenFinite
<1> HIDE DEF T, All
<1> QED
  BY <1>6, <1>7, <1>8, <1>9

(* So there is room for a block that is not in the log yet, when log_write *)
(* tests for it and still when it appends it.                              *)
NewEntryFits ==
  \A p \in Procs, b \in Blocks :
    pc[p] \in {"log", "append"} /\ holder[b] = p /\ b \notin Elems(lh) => Len(lh) < Limit

LEMMA EntryFits ==
  ASSUME LogIndInv, Reservation
  PROVE  NewEntryFits
<1> SUFFICES ASSUME NEW p \in Procs, NEW b \in Blocks,
                    pc[p] \in {"log", "append"}, holder[b] = p, b \notin Elems(lh)
             PROVE  Len(lh) < Limit
  BY DEF NewEntryFits
<1>1. p \in InOp /\ TypeOK /\ Alone
  BY DEF InOp, LogIndInv
<1>2. Len(lh) \in Nat /\ outstanding \in Nat /\ outstanding = Cardinality(InOp)
  <2>1. lh \in Seq(Blocks) /\ outstanding \in Nat
    BY <1>1 DEF TypeOK
  <2> QED
    BY <1>1, <2>1 DEF Alone
<1>3. ~Recovering
  BY <1>1 DEF Alone, Recovering
<1>4. Cardinality(logged[p]) < OpBlocks
  <2>1. b \notin logged[p]
    BY <1>1 DEF Reservation
  <2>2. Cardinality(logged[p] \cup {b}) = Cardinality(logged[p]) + 1 /\ Cardinality(logged[p]) \in Nat
    BY <1>1, <2>1, WrittenFinite, FS_AddElement
  <2>3. Cardinality(logged[p] \cup {b}) <= OpBlocks
    BY LogAssumption DEF Reservation
  <2> QED
    BY <2>2, <2>3, Limits
<1>5. Cardinality(Written) < outstanding * OpBlocks
  BY <1>1, <1>2, <1>4, WrittenBound
<1>6. Cardinality(Written) \in Nat /\ outstanding * OpBlocks \in Nat
  BY <1>1, <1>2, WrittenFinite, Limits
<1>7. Len(lh) + outstanding * OpBlocks - Cardinality(Written) <= Limit
  BY <1>3, ReservedIs DEF Reservation
<1> QED
  BY <1>2, <1>5, <1>6, <1>7, Limits

-----------------------------------------------------------------------------
(* Every step keeps LogIndInv, and the reservation.                        *)
LEMMA LogNextInd ==
  ASSUME Fits, LogIndInv, Reservation, [Next]_vars
  PROVE  LogIndInv'
<1>0. ASSUME NEW p \in Procs, LogAppend(p) PROVE Len(lh') <= LOGSIZE /\ Len(lh') < NLOG
  <2>1. PICK b \in Blocks : Logs(p, b)
    BY <1>0 DEF LogAppend, Pin, Logs
  <2>2. lh \in Seq(Blocks) /\ Len(lh) <= LOGSIZE /\ Len(lh) < NLOG /\ Once(lh)
    BY DEF LogIndInv, TypeOK, Header
  <2>3. Len(lh') = IF b \in Elems(lh) THEN Len(lh) ELSE Len(lh) + 1
    BY <2>1, <2>2, AbsorbedIs DEF Logs
  <2>4. b \notin Elems(lh) => Len(lh) < Limit
    BY <1>0, <2>1, EntryFits DEF NewEntryFits, LogAppend, Logs
  <2>5. Len(lh) \in Nat /\ LOGSIZE \in Nat /\ NLOG \in Nat
    BY <2>2
  <2> QED
    BY <2>2, <2>3, <2>4, <2>5, Limits DEF Fits
<1>1. ASSUME NEW p \in Procs, Call(p), panic = "none" PROVE LogIndInv'
  BY <1>0, <1>1, BeginOpInd, BeginSleepInd, LogTestInd, LogAppendInd, EndOpInd, CommitDoneInd, ModifyInd
     DEF Call
<1>2. ASSUME NEW b \in Blocks, Load(b) \/ Recycle(b) PROVE LogIndInv'
  BY <1>2, LoadInd, RecycleInd
<1>3. ASSUME Commit PROVE LogIndInv'
  BY <1>3, WriteLogInd, WriteHeadInd, InstallInd, EraseHeadInd, ReadHeadInd DEF Commit
<1>4. ASSUME Crash PROVE LogIndInv'
  BY <1>4, CrashInd
<1>5. ASSUME UNCHANGED vars PROVE LogIndInv'
  BY <1>5, StutterInd
<1> QED
  BY <1>1, <1>2, <1>3, <1>4, <1>5 DEF Next

LEMMA LogReservation ==
  ASSUME Fits
  PROVE  Spec => [](LogIndInv /\ Reservation)
<1>1. Init => LogIndInv /\ Reservation
  BY LogInitInd, ReservationInit
<1>2. LogIndInv /\ Reservation /\ [Next]_vars => (LogIndInv /\ Reservation)'
  BY LogNextInd, ReservationKept
<1> QED
  BY <1>1, <1>2, PTL DEF Spec

(* The log, the cache and the disk agree as LogIndInv says at every point  *)
(* of commit, recovery and the calls around them (log.c, bio.c), if the    *)
(* calls write few enough blocks for the log on the disk.                  *)
THEOREM LogInductive ==
  ASSUME Fits
  PROVE  Spec => []LogIndInv
BY LogReservation, PTL

(* What begin_op's test reserves is enough, for any LOGSIZE and            *)
(* MAXOPBLOCKS: the calls in progress find an entry in the log for every   *)
(* block they may still write (begin_op, log_write, end_op).               *)
THEOREM LogReserved ==
  ASSUME Fits
  PROVE  Spec => []Reserved
<1>1. LogIndInv /\ Reservation => Reserved
  BY DEF Reservation
<1> QED
  BY <1>1, LogReservation, PTL

(* A block that is not in the log yet finds an entry in it, and a place in *)
(* the log on the disk, though others may append between the test of       *)
(* log_write and its own append.                                           *)
THEOREM LogNewEntryFits ==
  ASSUME Fits
  PROVE  Spec => []NewEntryFits
<1>1. LogIndInv /\ Reservation => NewEntryFits
  BY EntryFits
<1> QED
  BY <1>1, LogReservation, PTL

-----------------------------------------------------------------------------
(* No update is lost to the buffer cache: bget recycles a buffer only when *)
(* its block is at home or has not been logged yet (bio.c bget, log_write).*)
THEOREM LogPinned ==
  ASSUME Fits
  PROVE  Spec => []Pinned
<1>1. LogIndInv => Pinned
  <2> SUFFICES ASSUME LogIndInv, ~Recovering, NEW b \in Blocks,
                      cache[b] \notin {NoBuf, home[b]}, holder[b] = Nobody
               PROVE  b \in dirty /\ b \in Elems(lh)
    BY DEF Pinned
  <2>1. b \in dirty
    BY DEF LogIndInv, Caching
  <2>2. step \in {"none", "write_log", "install"}
    BY <2>1 DEF LogIndInv, Caching, TypeOK, Steps, Recovering
  <2>3. CASE step \in {"none", "write_log"}
    BY <2>1, <2>3 DEF LogIndInv, Caching
  <2>4. CASE step = "install"
    <3>1. PICK i \in (tail + 1) .. Len(lh) : b = lh[i]
      BY <2>1, <2>4 DEF LogIndInv, Caching
    <3>2. i \in 1 .. Len(lh)
      BY LogTypes DEF LogIndInv
    <3> QED
      BY <2>1, <3>1, <3>2 DEF Elems
  <2> QED
    BY <2>2, <2>3, <2>4
<1> QED
  BY <1>1, LogInductive, PTL

(* No sleeper in begin_op is forgotten.  It rests on a log that is empty   *)
(* when no call is in progress, so that the first one always has room.     *)
Restful == step = "none" /\ outstanding = 0 => lh = << >>

THEOREM LogSleeperHasWaker ==
  ASSUME Fits
  PROVE  Spec => []SleeperHasWaker
<1> DEFINE Inv == SleeperHasWaker /\ Restful
<1>1. Init => Inv
  BY DEF Init, SleeperHasWaker, Restful
<1>2. LogIndInv /\ Inv /\ [Next]_vars => Inv'
  <2> SUFFICES ASSUME LogIndInv, Inv, [Next]_vars PROVE Inv'
    OBVIOUS
  <2>0. /\ outstanding \in Nat /\ pc \in [Procs -> {"idle", "begin", "sleep", "op", "log", "append", "commit"}]
        /\ step \in Steps
    BY DEF LogIndInv, TypeOK
  <2>1. ASSUME NEW p \in Procs, BeginOp(p) PROVE Inv'
    BY <2>0, <2>1 DEF BeginOp, SleeperHasWaker, Restful
  <2>2. ASSUME NEW p \in Procs, BeginSleep(p) PROVE Inv'
    <3>1. UNCHANGED <<lh, outstanding, committing, step>>
      BY <2>2 DEF BeginSleep, logVars
    <3>2. CASE committing
      BY <3>1, <3>2 DEF SleeperHasWaker, Restful
    <3>3. CASE ~committing
      <4>1. step = "none" /\ ~HasRoom
        BY <2>0, <2>2, <3>3 DEF BeginSleep, LogIndInv, Alone, Recovering, Steps
      <4>2. outstanding # 0
        <5> SUFFICES ASSUME outstanding = 0 PROVE FALSE
          OBVIOUS
        <5>1. Len(lh) = 0
          BY <4>1 DEF Restful
        <5>2. Len(lh) + (outstanding + 1) * MAXOPBLOCKS = MAXOPBLOCKS
          BY <5>1
        <5> QED
          BY <4>1, <5>2 DEF HasRoom
      <4> QED
        BY <2>0, <3>1, <4>2 DEF SleeperHasWaker, Restful
    <3> QED
      BY <3>2, <3>3
  <2>3. ASSUME NEW p \in Procs, LogTest(p) \/ LogAppend(p) PROVE Inv'
    <3>1. outstanding # 0 /\ UNCHANGED <<outstanding, committing, step>>
      <4>1. InOp # {}
        BY <2>3 DEF LogTest, LogAppend, InOp
      <4> QED
        BY <2>3, <4>1, InOpFinite DEF LogTest, LogAppend, LogIndInv, Alone, logVars
    <3> QED
      BY <2>0, <3>1 DEF SleeperHasWaker, Restful
  <2>4. ASSUME NEW p \in Procs, EndOp(p) PROVE Inv'
    <3>1. outstanding # 0 /\ outstanding' = outstanding - 1
      <4>1. InOp # {}
        BY <2>4 DEF EndOp, InOp
      <4> QED
        BY <2>4, <4>1, InOpFinite DEF EndOp, LogIndInv, Alone
    <3>2. CASE outstanding = 1
      BY <2>4, <3>2 DEF EndOp, SleeperHasWaker, Restful
    <3>3. CASE outstanding # 1
      BY <2>0, <3>1, <3>3 DEF SleeperHasWaker, Restful
    <3> QED
      BY <3>2, <3>3
  <2>5. ASSUME NEW p \in Procs, CommitDone(p) PROVE Inv'
    <3>1. \A q \in Procs : pc'[q] # "sleep"
      BY <2>0, <2>5 DEF CommitDone, Awake
    <3>2. lh' = << >>
      BY <2>5 DEF CommitDone, LogIndInv, Header
    <3> QED
      BY <3>1, <3>2 DEF SleeperHasWaker, Restful
  <2>6. ASSUME NEW p \in Procs, NEW b \in Blocks, NEW v \in Data, Modify(p, b, v) PROVE Inv'
    BY <2>0, <2>6 DEF Modify, SleeperHasWaker, Restful, logVars
  <2>7. ASSUME NEW b \in Blocks, Load(b) \/ Recycle(b) PROVE Inv'
    BY <2>7 DEF Load, Recycle, SleeperHasWaker, Restful, logVars
  <2>8. ASSUME WriteLog \/ WriteHead \/ Install PROVE Inv'
    BY <2>8 DEF WriteLog, WriteHead, Install, SleeperHasWaker, Restful, logVars
  <2>9. ASSUME EraseHead \/ ReadHead PROVE Inv'
    BY <2>9 DEF EraseHead, ReadHead, SleeperHasWaker, Restful
  <2>10. ASSUME Crash PROVE Inv'
    BY <2>10 DEF Crash, SleeperHasWaker, Restful
  <2>11. ASSUME UNCHANGED vars PROVE Inv'
    BY <2>11 DEF vars, logVars, SleeperHasWaker, Restful
  <2>12. ASSUME NEW p \in Procs, Call(p), panic = "none" PROVE Inv'
    BY <2>1, <2>2, <2>3, <2>4, <2>5, <2>6, <2>12 DEF Call
  <2>13. ASSUME Commit PROVE Inv'
    BY <2>8, <2>9, <2>13 DEF Commit
  <2> QED
    BY <2>7, <2>10, <2>11, <2>12, <2>13 DEF Next
<1>3. Inv => SleeperHasWaker
  OBVIOUS
<1> QED
  BY <1>1, <1>2, <1>3, LogInductive, PTL DEF Spec

-----------------------------------------------------------------------------
(* A header that names a block once names it at one place, in the log on   *)
(* the disk.                                                               *)
LEMMA OnceChoose ==
  ASSUME NEW h \in Seq(Blocks), Once(h), NEW i \in 1 .. Len(h)
  PROVE  (CHOOSE k \in 1 .. Len(h) : h[k] = h[i]) = i
<1> DEFINE j == CHOOSE k \in 1 .. Len(h) : h[k] = h[i]
<1>1. j \in 1 .. Len(h) /\ h[j] = h[i]
  OBVIOUS
<1> QED
  BY <1>1 DEF Once

LEMMA HeadPlace ==
  ASSUME NEW h \in Seq(Blocks), Once(h), Len(h) < NLOG, NEW b \in Blocks, b \in Elems(h)
  PROVE  \E i \in 1 .. Len(h) :
           h[i] = b /\ i < NLOG /\ (CHOOSE k \in 1 .. Len(h) : h[k] = b) = i
<1>1. PICK i \in 1 .. Len(h) : h[i] = b
  BY DEF Elems
<1>2. Len(h) \in Nat /\ NLOG \in Nat
  OBVIOUS
<1> QED
  BY <1>1, <1>2, OnceChoose

(* What recovery would leave: the log block where the header names the     *)
(* home location, else what is there.                                      *)
LEMMA RecoveredIs ==
  ASSUME LogIndInv
  PROVE  /\ \A i \in 1 .. Len(head) : head[i] \in Blocks /\ Recovered[head[i]] = slot[i]
         /\ \A b \in Blocks : b \notin Elems(head) => Recovered[b] = home[b]
<1>1. head \in Seq(Blocks) /\ Once(head)
  BY DEF LogIndInv, TypeOK, Header
<1>2. ASSUME NEW i \in 1 .. Len(head) PROVE head[i] \in Blocks /\ Recovered[head[i]] = slot[i]
  <2> DEFINE j == CHOOSE k \in 1 .. Len(head) : head[k] = head[i]
  <2>2. j = i
    BY <1>1, OnceChoose
  <2>3. head[i] \in Blocks /\ head[i] \in Elems(head)
    BY <1>1 DEF Elems
  <2>4. Recovered[head[i]] = slot[j]
    <3>0. Len(head) \in Nat /\ Len(head) < NLOG /\ NLOG \in Nat
      BY <1>1 DEF LogIndInv, Header
    <3>1. j < NLOG
      BY <2>2, <3>0
    <3> HIDE DEF j
    <3>2. Recovered[head[i]] = LogBlock(j)
      BY <2>3 DEF Recovered, j
    <3> QED
      BY <3>1, <3>2 DEF LogBlock
  <2> QED
    BY <2>2, <2>3, <2>4
<1> QED
  BY <1>2 DEF Recovered

(* The same after a step, where only the disk matters.                     *)
LEMMA RecoveredSame ==
  ASSUME UNCHANGED <<home, slot, head>>
  PROVE  Recovered' = Recovered
BY DEF Recovered, Elems, LogBlock

LEMMA RecoveredHome ==
  ASSUME LogIndInv, head = << >>
  PROVE  Recovered = home
<1>1. home = [b \in Blocks |-> home[b]]
  BY DEF LogIndInv, TypeOK
<1>2. Elems(head) = {}
  BY DEF Elems
<1> QED
  BY <1>1, <1>2 DEF Recovered

LEMMA RecoveredHomeAfter ==
  ASSUME home' \in [Blocks -> Data], head' = << >>
  PROVE  Recovered' = home'
<1>1. home' = [b \in Blocks |-> home'[b]]
  OBVIOUS
<1>2. Elems(head)' = {}
  BY DEF Elems
<1> QED
  BY <1>1, <1>2 DEF Recovered

(* What AtomicDisk shows of a state.                                       *)
Shown == <<Recovered, Seen, InOp>>

LEMMA SeenSame ==
  ASSUME UNCHANGED <<home, slot, head, cache>>, Recovering' <=> Recovering
  PROVE  Recovered' = Recovered /\ Seen' = Seen
<1>1. Recovered' = Recovered
  BY RecoveredSame
<1> QED
  BY <1>1 DEF Seen

LEMMA BeginOpSim ==
  ASSUME LogIndInv, NEW p \in Procs, BeginOp(p)
  PROVE  Disk!Begin(p)
<1>1. UNCHANGED <<home, slot, head, cache, step>>
  BY DEF BeginOp, diskVars, bufVars
<1>2. Recovered' = Recovered /\ Seen' = Seen
  BY <1>1, SeenSame DEF Recovering
<1>3. p \notin InOp /\ InOp' = InOp \cup {p}
  <2>1. pc' = [pc EXCEPT ![p] = "op"] /\ pc[p] \in {"idle", "begin"}
    BY DEF BeginOp
  <2>2. DOMAIN pc = Procs
    BY DEF LogIndInv, TypeOK
  <2> QED
    BY <2>1, <2>2 DEF InOp
<1> QED
  BY <1>2, <1>3 DEF Disk!Begin

LEMMA ModifySim ==
  ASSUME LogIndInv, NEW p \in Procs, NEW b \in Blocks, NEW v \in Data, Modify(p, b, v)
  PROVE  Disk!Write(p, b, v)
<1>1. UNCHANGED <<home, slot, head, step>> /\ cache' = [cache EXCEPT ![b] = v] /\ pc[p] = "op"
  BY DEF Modify, diskVars
<1>2. Recovered' = Recovered
  BY <1>1, RecoveredSame
<1>3. p \in InOp /\ InOp' = InOp
  BY DEF Modify, InOp, LogIndInv, TypeOK
<1>4. ~Recovering /\ ~Recovering'
  BY <1>1, <1>3 DEF LogIndInv, Alone, Recovering
<1>5. Seen' = [Seen EXCEPT ![b] = v]
  <2>1. v # NoBuf /\ cache \in [Blocks -> Data \cup {NoBuf}]
    BY DEF LogIndInv, TypeOK
  <2>2. \A c \in Blocks : Seen'[c] = IF c = b THEN v ELSE Seen[c]
    BY <1>1, <1>4, <2>1 DEF Seen
  <2> QED
    BY <2>2 DEF Seen
<1> QED
  BY <1>2, <1>3, <1>5 DEF Disk!Write

LEMMA EndOpSim ==
  ASSUME LogIndInv, NEW p \in Procs, EndOp(p), panic = "none"
  PROVE  Disk!End(p)
<1>1. UNCHANGED <<home, slot, head, cache>> /\ pc[p] = "op"
  BY DEF EndOp, diskVars, bufVars
<1>2. p \in InOp
  BY <1>1 DEF InOp
<1>3. ~Recovering /\ ~Recovering'
  BY <1>2 DEF LogIndInv, Alone, Recovering, EndOp
<1>4. Recovered' = Recovered /\ Seen' = Seen
  BY <1>1, <1>3, SeenSame
<1>5. InOp' = InOp \ {p}
  <2>1. CASE outstanding = 1
    BY <2>1 DEF EndOp, InOp, LogIndInv, TypeOK
  <2>2. CASE outstanding # 1
    <3>1. pc' = [Awake EXCEPT ![p] = "idle"] /\ pc[p] = "op"
      BY <2>2 DEF EndOp
    <3> QED
      BY <3>1 DEF InOp, LogIndInv, TypeOK, Awake
  <2> QED
    BY <2>1, <2>2
<1> QED
  BY <1>2, <1>4, <1>5 DEF Disk!End

(* The commit point: write_head makes every call since the last commit     *)
(* durable at once.                                                        *)
LEMMA WriteHeadSim ==
  ASSUME LogIndInv, LogIndInv', WriteHead
  PROVE  Disk!Sync
<1>1. /\ UNCHANGED <<home, slot, lh, cache, pc>> /\ head' = lh /\ step' = "install"
      /\ step = "write_log" /\ tail = Len(lh)
  BY DEF WriteHead, LogWritten, logVars, bufVars
<1>2. InOp = {} /\ InOp' = InOp
  BY <1>1 DEF LogIndInv, Alone, InOp
<1>3. Seen' = Seen
  BY <1>1 DEF Seen, Recovering
<1>4. ASSUME NEW b \in Blocks PROVE Recovered'[b] = Seen[b]
  <2>1. Seen[b] = IF cache[b] = NoBuf THEN home[b] ELSE cache[b]
    BY <1>1 DEF Seen, Recovering
  <2>2. CASE b \in Elems(lh)
    <3>1. PICK i \in 1 .. Len(lh) : b = lh[i]
      BY <2>2 DEF Elems
    <3>2. slot[i] = cache[b]
      BY <1>1, <3>1 DEF LogIndInv, Copied
    <3>3. cache[b] # NoBuf
      BY <1>1, <2>2 DEF LogIndInv, Caching
    <3>4. Recovered'[b] = slot[i]
      <4> DEFINE k == CHOOSE j \in 1 .. Len(lh) : lh[j] = b
      <4>1. k = i /\ k < NLOG
        <5>1. lh \in Seq(Blocks) /\ Once(lh) /\ Len(lh) < NLOG
          BY DEF LogIndInv, TypeOK, Header
        <5>2. Len(lh) \in Nat /\ NLOG \in Nat
          BY <5>1
        <5> QED
          BY <3>1, <5>1, <5>2, OnceChoose
      <4>2. Recovered'[b] = IF k < NLOG THEN slot[k] ELSE home[After]
        BY <1>1, <2>2 DEF Recovered, LogBlock, Elems
      <4> QED
        BY <4>1, <4>2
    <3> QED
      BY <2>1, <3>2, <3>3, <3>4
  <2>3. CASE b \notin Elems(lh)
    <3>1. holder[b] = Nobody
      BY <1>2 DEF LogIndInv, Alone, TypeOK, InOp
    <3>2. cache[b] \in {NoBuf, home[b]}
      BY <1>1, <2>3, <3>1 DEF LogIndInv, Caching
    <3>3. Recovered'[b] = home[b]
      BY <1>1, <2>3 DEF Recovered, Elems
    <3> QED
      BY <2>1, <3>2, <3>3
  <2> QED
    BY <2>2, <2>3
<1>5. Recovered' = Seen
  BY <1>4 DEF Recovered, Seen
<1> QED
  BY <1>2, <1>3, <1>5 DEF Disk!Sync

LEMMA CrashSim ==
  ASSUME Crash
  PROVE  Disk!Crash
<1>1. UNCHANGED <<home, slot, head>> /\ step' = "read_head" /\ pc' = [p \in Procs |-> "idle"]
  BY DEF Crash, diskVars
<1>2. Recovered' = Recovered
  BY <1>1, RecoveredSame
<1>3. Seen' = Recovered
  BY <1>1, <1>2 DEF Seen, Recovering, Recovered
<1>4. InOp' = {}
  BY <1>1 DEF InOp
<1> QED
  BY <1>2, <1>3, <1>4 DEF Disk!Crash

(* The calls' steps that nobody sees.                                      *)
LEMMA CallSim ==
  ASSUME LogIndInv, NEW p \in Procs, BeginSleep(p) \/ LogTest(p) \/ LogAppend(p) \/ CommitDone(p)
  PROVE  UNCHANGED Shown
<1>1. UNCHANGED <<home, slot, head, cache>> /\ (Recovering' <=> Recovering)
  BY DEF BeginSleep, LogTest, LogAppend, CommitDone, diskVars, bufVars, Recovering
<1>2. InOp' = InOp
  <2>1. CASE BeginSleep(p)
    BY <2>1 DEF BeginSleep, InOp, LogIndInv, TypeOK
  <2>2. CASE LogTest(p) \/ LogAppend(p)
    <3>1. /\ pc[p] \in {"log", "append"}
          /\ pc' \in {pc, [pc EXCEPT ![p] = "append"], [pc EXCEPT ![p] = "op"]}
      BY <2>2 DEF LogTest, LogAppend
    <3> QED
      BY <3>1 DEF InOp, LogIndInv, TypeOK
  <2>3. CASE CommitDone(p)
    BY <2>3 DEF CommitDone, InOp, Awake, LogIndInv, TypeOK
  <2> QED
    BY <2>1, <2>2, <2>3
<1> QED
  BY <1>1, <1>2, SeenSame DEF Shown

(* Reading and recycling buffers shows nothing.                            *)
LEMMA BufferSim ==
  ASSUME LogIndInv, NEW b \in Blocks, Load(b) \/ Recycle(b)
  PROVE  UNCHANGED Shown
<1>1. UNCHANGED <<home, slot, head, pc, step>>
  BY DEF Load, Recycle, diskVars
<1>2. Recovered' = Recovered /\ InOp' = InOp
  BY <1>1, RecoveredSame DEF InOp
<1>3. \A c \in Blocks : (IF cache'[c] = NoBuf THEN home[c] ELSE cache'[c])
                          = IF cache[c] = NoBuf THEN home[c] ELSE cache[c]
  <2>1. CASE Load(b)
    BY <2>1 DEF Load, LogIndInv, TypeOK
  <2>2. CASE Recycle(b)
    <3>1. cache[b] \in {NoBuf, home[b]} /\ cache' = [cache EXCEPT ![b] = NoBuf]
      BY <2>2 DEF Recycle, LogIndInv, Caching
    <3> QED
      BY <3>1 DEF LogIndInv, TypeOK
  <2> QED
    BY <2>1, <2>2
<1>4. Seen' = Seen
  BY <1>1, <1>2, <1>3 DEF Seen, Recovering
<1> QED
  BY <1>2, <1>4 DEF Shown

LEMMA WriteLogSim ==
  ASSUME LogIndInv, LogIndInv', WriteLog
  PROVE  UNCHANGED Shown
<1>0. tail < Len(lh) => tail + 1 < NLOG
  <2>1. Len(lh) \in Nat /\ tail \in Nat /\ Len(lh) < NLOG
    BY LogTypes DEF LogIndInv
  <2> QED
    BY <2>1
<1>1. UNCHANGED <<home, head, cache, pc, step>> /\ step = "write_log"
  BY <1>0 DEF WriteLog, bufVars
<1>2. head = << >> /\ head' = << >>
  BY <1>1 DEF LogIndInv, Header
<1>3. Recovered = home /\ Recovered' = home'
  <2>1. home' \in [Blocks -> Data]
    BY DEF LogIndInv, TypeOK
  <2> QED
    BY <1>2, <2>1, RecoveredHome, RecoveredHomeAfter
<1>4. Recovered' = Recovered /\ InOp' = InOp
  BY <1>1, <1>3 DEF InOp
<1> QED
  BY <1>1, <1>4 DEF Seen, Recovering, Shown

LEMMA InstallSim ==
  ASSUME LogIndInv, LogIndInv', Install
  PROVE  UNCHANGED Shown
<1> DEFINE b == lh[tail + 1]
<1>0. tail < Len(lh) => tail + 1 < NLOG
  <2>1. Len(lh) \in Nat /\ tail \in Nat /\ Len(lh) < NLOG
    BY LogTypes DEF LogIndInv
  <2> QED
    BY <2>1
<1>1. /\ UNCHANGED <<slot, head, pc, step>> /\ head = lh /\ tail < Len(lh)
      /\ step \in {"install", "recover"}
      /\ home' = [home EXCEPT ![b] = slot[tail + 1]] /\ cache' = [cache EXCEPT ![b] = slot[tail + 1]]
  BY <1>0 DEF Install, LogBlock, LogIndInv, Header
<1>2. tail + 1 \in 1 .. Len(lh) /\ tail + 1 \in Entries /\ b \in Blocks
  BY <1>1, LogTypes DEF LogIndInv
<1>3. \A c \in Blocks : c # b => home'[c] = home[c] /\ cache'[c] = cache[c]
  BY <1>1 DEF LogIndInv, TypeOK
<1>4. b \in Elems(head)
  BY <1>1, <1>2 DEF Elems
<1>5. Recovered' = Recovered
  <2>1. \A c \in Blocks : c \notin Elems(head) => home'[c] = home[c]
    BY <1>3, <1>4
  <2>2. ASSUME NEW c \in Blocks, c \in Elems(head) PROVE Recovered'[c] = Recovered[c]
    <3> DEFINE k == CHOOSE j \in 1 .. Len(head) : head[j] = c
    <3>0. head \in Seq(Blocks) /\ Once(head) /\ Len(head) < NLOG
      BY DEF LogIndInv, TypeOK, Header
    <3>1. k < NLOG
      BY <2>2, <3>0, HeadPlace
    <3>2. Recovered[c] = LogBlock(k)
      BY <2>2 DEF Recovered
    <3>3. Recovered'[c] = IF k < NLOG THEN slot[k] ELSE home'[After]
      BY <1>1, <2>2 DEF Recovered, LogBlock, Elems
    <3> HIDE DEF k
    <3> QED
      BY <3>1, <3>2, <3>3 DEF LogBlock
  <2>3. ASSUME NEW c \in Blocks, c \notin Elems(head) PROVE Recovered'[c] = Recovered[c]
    <3>1. Recovered[c] = home[c] /\ Recovered'[c] = home'[c]
      BY <1>1, <2>3 DEF Recovered, Elems
    <3> QED
      BY <2>1, <2>3, <3>1
  <2>4. \A c \in Blocks : Recovered'[c] = Recovered[c]
    BY <2>2, <2>3
  <2> QED
    BY <2>4 DEF Recovered
<1>6. CASE step = "recover"
  BY <1>1, <1>5, <1>6 DEF Seen, Recovering, Shown, InOp
<1>7. CASE step = "install"
  <2>1. slot[tail + 1] = cache[b] /\ slot[tail + 1] \in Data
    <3>1. tail + 1 \in (tail + 1) .. Len(lh)
      BY <1>1, LogTypes DEF LogIndInv
    <3> QED
      BY <1>2, <1>7, <3>1 DEF LogIndInv, Copied, TypeOK
  <2>2. cache'[b] = cache[b] /\ cache[b] # NoBuf
    BY <1>1, <1>2, <2>1 DEF LogIndInv, TypeOK
  <2>3. \A c \in Blocks : (IF cache'[c] = NoBuf THEN home'[c] ELSE cache'[c])
                            = IF cache[c] = NoBuf THEN home[c] ELSE cache[c]
    BY <1>3, <2>2
  <2>4. Seen' = Seen
    BY <1>1, <1>7, <2>3 DEF Seen, Recovering
  <2> QED
    BY <1>1, <1>5, <2>4 DEF Shown, InOp
<1> QED
  BY <1>1, <1>6, <1>7

LEMMA EraseHeadSim ==
  ASSUME LogIndInv, LogIndInv', EraseHead
  PROVE  UNCHANGED Shown
<1>1. /\ UNCHANGED <<home, cache, pc, holder, dirty>> /\ head' = << >> /\ tail = Len(lh)
      /\ step \in {"install", "recover"} /\ head = lh
      /\ step' = IF step = "install" THEN "done" ELSE "none"
  BY DEF EraseHead, LogIndInv, Header, bufVars
<1>2. Recovered' = home
  <2>1. home' \in [Blocks -> Data] /\ home' = home
    BY <1>1 DEF LogIndInv, TypeOK
  <2> QED
    BY <1>1, <2>1, RecoveredHomeAfter
<1>3. ASSUME NEW b \in Blocks PROVE Recovered[b] = home[b]
  <2>1. CASE b \in Elems(head)
    <3>1. PICK i \in 1 .. Len(head) : b = head[i]
      BY <2>1 DEF Elems
    <3>2. Recovered[b] = slot[i]
      BY <3>1, RecoveredIs
    <3>3. home[b] = slot[i]
      BY <1>1, <3>1 DEF LogIndInv, Copied
    <3> QED
      BY <3>2, <3>3
  <2>2. CASE b \notin Elems(head)
    BY <2>2, RecoveredIs
  <2> QED
    BY <2>1, <2>2
<1>4. Recovered' = Recovered
  <2>1. home = [b \in Blocks |-> home[b]]
    BY DEF LogIndInv, TypeOK
  <2>2. Recovered = [b \in Blocks |-> Recovered[b]]
    BY DEF Recovered
  <2> QED
    BY <1>2, <1>3, <2>1, <2>2
<1>5. CASE step = "install"
  BY <1>1, <1>4, <1>5 DEF Seen, Recovering, Shown, InOp
<1>6. CASE step = "recover"
  <2>1. \A b \in Blocks : cache[b] \in {NoBuf, home[b]}
    <3>1. InOp = {} /\ dirty = {}
      BY <1>6 DEF LogIndInv, Alone, Caching
    <3>2. \A b \in Blocks : holder[b] = Nobody
      <4>1. \A b \in Blocks : holder[b] # Nobody => holder[b] \in Procs
        BY DEF LogIndInv, TypeOK
      <4>2. \A b \in Blocks : holder[b] # Nobody => pc[holder[b]] \in {"log", "append"}
        BY DEF LogIndInv, Alone
      <4> QED
        BY <3>1, <4>1, <4>2 DEF InOp
    <3> QED
      BY <3>1, <3>2 DEF LogIndInv, Caching
  <2>2. Seen = Recovered
    BY <1>6 DEF Seen, Recovering, Recovered
  <2>3. Seen' = [b \in Blocks |-> home[b]]
    BY <1>1, <1>6, <2>1 DEF Seen, Recovering
  <2>4. home = [b \in Blocks |-> home[b]]
    BY DEF LogIndInv, TypeOK
  <2> QED
    BY <1>1, <1>2, <1>4, <2>2, <2>3, <2>4 DEF Shown, InOp
<1> QED
  BY <1>1, <1>5, <1>6

LEMMA ReadHeadSim ==
  ASSUME ReadHead
  PROVE  UNCHANGED Shown
<1>1. UNCHANGED <<home, slot, head, cache, pc>> /\ Recovering /\ Recovering'
  BY DEF ReadHead, diskVars, bufVars, Recovering
<1> QED
  BY <1>1, SeenSame DEF Shown, InOp

LEMMA LogStepSim == LogIndInv /\ LogIndInv' /\ [Next]_vars => [Disk!Next]_(Disk!diskVars)
<1> SUFFICES ASSUME LogIndInv, LogIndInv', [Next]_vars PROVE Disk!Next \/ UNCHANGED Shown
  BY DEF Disk!diskVars, Shown
<1>1. ASSUME NEW p \in Procs, Call(p), panic = "none" PROVE Disk!Next \/ UNCHANGED Shown
  <2>1. CASE BeginOp(p)
    BY <2>1, BeginOpSim DEF Disk!Next
  <2>2. CASE EndOp(p)
    BY <1>1, <2>2, EndOpSim DEF Disk!Next
  <2>3. CASE BeginSleep(p) \/ LogTest(p) \/ LogAppend(p) \/ CommitDone(p)
    BY <2>3, CallSim
  <2>4. ASSUME NEW b \in Blocks, NEW v \in Data, Modify(p, b, v) PROVE Disk!Next
    BY <2>4, ModifySim DEF Disk!Next
  <2> QED
    BY <1>1, <2>1, <2>2, <2>3, <2>4 DEF Call
<1>2. ASSUME NEW b \in Blocks, Load(b) \/ Recycle(b) PROVE UNCHANGED Shown
  BY <1>2, BufferSim
<1>3. ASSUME Commit PROVE Disk!Next \/ UNCHANGED Shown
  <2>1. CASE WriteHead
    BY <2>1, WriteHeadSim DEF Disk!Next
  <2>2. CASE WriteLog \/ Install \/ EraseHead \/ ReadHead
    BY <2>2, WriteLogSim, InstallSim, EraseHeadSim, ReadHeadSim
  <2> QED
    BY <1>3, <2>1, <2>2 DEF Commit
<1>4. ASSUME Crash PROVE Disk!Next
  BY <1>4, CrashSim DEF Disk!Next
<1>5. ASSUME UNCHANGED vars PROVE UNCHANGED Shown
  <2>1. UNCHANGED <<home, slot, head, cache, pc, step>>
    BY <1>5 DEF vars, diskVars, bufVars
  <2> QED
    BY <2>1, SeenSame DEF Shown, InOp, Recovering
<1> QED
  BY <1>1, <1>2, <1>3, <1>4, <1>5 DEF Next

LEMMA LogInitSim == Init => Disk!Init
<1> SUFFICES ASSUME Init PROVE Disk!Init
  OBVIOUS
<1>1. Recovered = home
  BY LogInitInd, RecoveredHome DEF Init
<1>2. Seen = [b \in Blocks |-> home[b]]
  BY DEF Init, Seen, Recovering
<1>3. home \in [Blocks -> Data] /\ home = [b \in Blocks |-> home[b]]
  BY DEF Init
<1>4. InOp = {}
  BY DEF Init, InOp
<1> QED
  BY <1>1, <1>2, <1>3, <1>4 DEF Disk!Init

(* Crash safety: if the calls write few enough blocks for the log on the   *)
(* disk, log.c, crashes during commit and recovery included, implements a  *)
(* disk on which all calls since the last commit become durable at once    *)
(* (begin_op, log_write, end_op, commit, recover_from_log).                *)
THEOREM LogCrashSafe ==
  ASSUME Fits
  PROVE  Spec => CrashSafe
BY LogInductive, LogInitSim, LogStepSim, PTL DEF Spec, CrashSafe, Disk!Spec
=============================================================================
