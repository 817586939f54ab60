-------------------------------- MODULE Log ---------------------------------
(***************************************************************************)
(* The redo log of log.c, over as much of the buffer cache as it relies    *)
(* on: a logged block is pinned by B_DIRTY until it has been installed, a  *)
(* clean one may be recycled at any time (bio.c), and a block reaches the  *)
(* disk whole or not at all.  The header has an entry more than the log    *)
(* has blocks on the disk: a transaction of NLOG entries runs over into    *)
(* the block after the log, the first one of inodes.  The machine may      *)
(* crash between any two steps, recovery included.                         *)
(***************************************************************************)
EXTENDS Integers, Sequences, FiniteSetsExt

CONSTANTS
  Procs,          \* processes that make file system calls
  Blocks,         \* home locations on the disk
  After,          \* the one that follows the log (inodestart, mkfs.c)
  Data,           \* contents of a block
  Zero,           \* the contents mkfs gives the log blocks
  NoBuf,          \* a block that is not cached
  Nobody,         \* a buffer that is not locked
  LOGSIZE,        \* entries of struct logheader (30)
  NLOG,           \* log.size: blocks of the log on disk, its header included (30)
  MAXOPBLOCKS,    \* blocks begin_op reserves for one system call (10)
  OpBlocks,       \* bound: blocks one system call writes
  MaxCrashes      \* bound: crashes in a behaviour

ASSUME LogAssumption ==
  /\ LOGSIZE \in Nat /\ NLOG \in Nat \ {0} /\ MAXOPBLOCKS \in Nat \ {0} /\ MaxCrashes \in Nat
  /\ MAXOPBLOCKS <= LOGSIZE /\ LOGSIZE <= NLOG /\ OpBlocks \in 1 .. MAXOPBLOCKS
  /\ After \in Blocks /\ IsFiniteSet(Procs)
  /\ Zero \in Data /\ NoBuf \notin Data /\ Nobody \notin Procs

VARIABLES
  home, slot, head,              \* on disk: home locations, log blocks, header
  lh, outstanding, committing,   \* struct log
  cache, dirty, holder,          \* buffers: contents, B_DIRTY, who has it locked
  pc, logged,                    \* per process: where it is, blocks its call has logged
  step, tail,                    \* where commit or recovery is
  crashes, panic

diskVars == <<home, slot, head>>
logVars  == <<lh, outstanding, committing>>
bufVars  == <<cache, dirty, holder>>
vars == <<diskVars, logVars, bufVars, pc, logged, step, tail, crashes, panic>>

Elems(s) == {s[i] : i \in 1 .. Len(s)}
Entries == 1 .. NLOG - 1                      \* the log blocks on the disk

Init ==
  /\ home \in [Blocks -> Data] /\ slot = [i \in Entries |-> Zero] /\ head = << >>
  /\ lh = << >> /\ outstanding = 0 /\ committing = FALSE
  /\ cache = [b \in Blocks |-> NoBuf] /\ dirty = {} /\ holder = [b \in Blocks |-> Nobody]
  /\ pc = [p \in Procs |-> "idle"] /\ logged = [p \in Procs |-> {}]
  /\ step = "none" /\ tail = 0
  /\ crashes = 0 /\ panic = "none"

(* initlog has not finished: there are no other processes yet.             *)
Recovering == step \in {"read_head", "recover"}

(* wakeup(&log).                                                           *)
AwakeNone == pc                               \* mutant: nobody is woken
Awake == [p \in Procs |-> IF pc[p] = "sleep" THEN "begin" ELSE pc[p]]

-----------------------------------------------------------------------------
(* begin_op: a system call starts unless a commit is in progress or the    *)
(* log might not have room for it; then it sleeps and tries again.         *)
HasRoomNow == Len(lh) + outstanding * MAXOPBLOCKS <= LOGSIZE   \* mutant: forgets this call
HasRoom == Len(lh) + (outstanding + 1) * MAXOPBLOCKS <= LOGSIZE

BeginOp(p) ==
  /\ pc[p] \in {"idle", "begin"} /\ ~Recovering
  /\ ~committing /\ HasRoom
  /\ outstanding' = outstanding + 1
  /\ pc' = [pc EXCEPT ![p] = "op"]
  /\ logged' = [logged EXCEPT ![p] = {}]
  /\ UNCHANGED <<diskVars, lh, committing, bufVars, step, tail, crashes, panic>>

BeginSleep(p) ==
  /\ pc[p] \in {"idle", "begin"} /\ ~Recovering
  /\ committing \/ ~HasRoom
  /\ pc' = [pc EXCEPT ![p] = "sleep"]
  /\ UNCHANGED <<diskVars, logVars, bufVars, logged, step, tail, crashes, panic>>

(* Inside the call: bread a buffer and change it.  Nothing in log.c holds  *)
(* a call to a number of blocks; here it is OpBlocks.                      *)
Modify(p, b, v) ==
  /\ pc[p] = "op" /\ holder[b] = Nobody
  /\ Cardinality(logged[p] \cup {b}) <= OpBlocks
  /\ cache' = [cache EXCEPT ![b] = v]
  /\ holder' = [holder EXCEPT ![b] = p]
  /\ pc' = [pc EXCEPT ![p] = "log"]
  /\ UNCHANGED <<diskVars, logVars, dirty, logged, step, tail, crashes, panic>>

(* log_write and brelse.  The test for room comes before the search for an *)
(* entry that could be used again, and before log.lock is acquired: others *)
(* may log a block between the test and the append.                        *)
LogTest(p) ==
  /\ pc[p] = "log"
  /\ panic' = IF Len(lh) >= LOGSIZE \/ Len(lh) >= NLOG - 1 THEN "too big a transaction"
              ELSE IF outstanding < 1 THEN "log_write outside of trans" ELSE panic
  /\ pc' = IF panic' = panic THEN [pc EXCEPT ![p] = "append"] ELSE pc
  /\ UNCHANGED <<diskVars, logVars, bufVars, logged, step, tail, crashes>>
AbsorbedAlways(b) == Append(lh, b)            \* mutant: no search
Absorbed(b) == IF b \in Elems(lh) THEN lh ELSE Append(lh, b)
PinNone(b) == dirty                           \* mutant: B_DIRTY is not set
Pin(b) == dirty \cup {b}

LogAppend(p) ==
  /\ pc[p] = "append"
  /\ \E b \in Blocks :
       /\ holder[b] = p
       /\ lh' = Absorbed(b)
       /\ dirty' = Pin(b)
       /\ holder' = [holder EXCEPT ![b] = Nobody]
       /\ logged' = [logged EXCEPT ![p] = @ \cup {b}]
  /\ pc' = [pc EXCEPT ![p] = "op"]
  /\ UNCHANGED <<diskVars, outstanding, committing, cache, step, tail, crashes, panic>>

(* A read of a block, inside a call or not, and bget recycling a buffer.   *)
Load(b) ==
  /\ cache[b] = NoBuf /\ ~Recovering
  /\ cache' = [cache EXCEPT ![b] = home[b]]
  /\ UNCHANGED <<diskVars, logVars, dirty, holder, pc, logged, step, tail, crashes, panic>>

Recycle(b) ==
  /\ cache[b] # NoBuf /\ b \notin dirty /\ holder[b] = Nobody
  /\ cache' = [cache EXCEPT ![b] = NoBuf]
  /\ UNCHANGED <<diskVars, logVars, dirty, holder, pc, logged, step, tail, crashes, panic>>

-----------------------------------------------------------------------------
(* end_op: the last call commits, any other one wakes whoever waits for    *)
(* log space.                                                              *)
EndOp(p) ==
  /\ pc[p] = "op"
  /\ outstanding' = outstanding - 1
  /\ panic' = IF committing THEN "log.committing" ELSE panic
  /\ IF outstanding = 1
     THEN /\ committing' = TRUE
          /\ step' = IF lh = << >> THEN "done" ELSE "write_log"
          /\ pc' = [pc EXCEPT ![p] = "commit"]
     ELSE /\ pc' = [Awake EXCEPT ![p] = "idle"]
          /\ UNCHANGED <<committing, step>>
  /\ UNCHANGED <<diskVars, lh, bufVars, logged, tail, crashes>>

(* write_log: the cached blocks go to the log, one by one, and the last    *)
(* one of NLOG to the block after it, whose buffer is then clean.  If that *)
(* is the very block to be logged, commit waits for its lock for ever.     *)
BothBuffers == tail + 1 < NLOG \/ lh[tail + 1] # After
WriteLog ==
  /\ step = "write_log" /\ tail < Len(lh) /\ BothBuffers
  /\ LET v == cache[lh[tail + 1]]
     IN  IF tail + 1 < NLOG
         THEN /\ slot' = [slot EXCEPT ![tail + 1] = v]
              /\ UNCHANGED <<home, cache, dirty>>
         ELSE /\ home' = [home EXCEPT ![After] = v]
              /\ cache' = [cache EXCEPT ![After] = v]
              /\ dirty' = dirty \ {After}
              /\ UNCHANGED slot
  /\ tail' = tail + 1
  /\ UNCHANGED <<head, logVars, holder, pc, logged, step, crashes, panic>>

(* write_head: the transaction is committed.                               *)
LogWrittenAlmost == tail + 1 >= Len(lh)       \* mutant: write_log stops one short
LogWritten == tail = Len(lh)
WriteHead ==
  /\ step = "write_log" /\ LogWritten
  /\ head' = lh
  /\ step' = "install" /\ tail' = 0
  /\ UNCHANGED <<home, slot, logVars, bufVars, pc, logged, crashes, panic>>

(* install_trans, in commit and in recovery: the log blocks go home, and   *)
(* the buffers they go through are clean again.                            *)
LogBlock(i) == IF i < NLOG THEN slot[i] ELSE home[After]
Install ==
  /\ step \in {"install", "recover"} /\ tail < Len(lh) /\ BothBuffers
  /\ LET b == lh[tail + 1]
     IN  /\ home' = [home EXCEPT ![b] = LogBlock(tail + 1)]
         /\ cache' = [cache EXCEPT ![b] = LogBlock(tail + 1)]
         /\ dirty' = dirty \ {b}
  /\ tail' = tail + 1
  /\ UNCHANGED <<slot, head, logVars, holder, pc, logged, step, crashes, panic>>

(* log.lh.n = 0 and write_head: the transaction is erased.                 *)
EraseHead ==
  /\ step \in {"install", "recover"} /\ tail = Len(lh)
  /\ lh' = << >> /\ head' = << >>
  /\ step' = IF step = "install" THEN "done" ELSE "none"
  /\ tail' = 0
  /\ UNCHANGED <<home, slot, outstanding, committing, bufVars, pc, logged, crashes, panic>>

(* The end of end_op.                                                      *)
CommitDone(p) ==
  /\ pc[p] = "commit" /\ step = "done"
  /\ committing' = FALSE
  /\ pc' = [Awake EXCEPT ![p] = "idle"]
  /\ step' = "none"
  /\ UNCHANGED <<diskVars, lh, outstanding, bufVars, logged, tail, crashes, panic>>

-----------------------------------------------------------------------------
(* A crash, or the reboot after a panic: everything but the disk is lost,  *)
(* and initlog starts again.                                               *)
Crash ==
  /\ crashes < MaxCrashes
  /\ crashes' = crashes + 1
  /\ lh' = << >> /\ outstanding' = 0 /\ committing' = FALSE
  /\ cache' = [b \in Blocks |-> NoBuf] /\ dirty' = {}
  /\ holder' = [b \in Blocks |-> Nobody]
  /\ pc' = [p \in Procs |-> "idle"] /\ logged' = [p \in Procs |-> {}]
  /\ step' = "read_head" /\ tail' = 0
  /\ panic' = "none"
  /\ UNCHANGED diskVars

ReadHead ==
  /\ step = "read_head"
  /\ lh' = head /\ step' = "recover"
  /\ UNCHANGED <<diskVars, outstanding, committing, bufVars, pc, logged, tail, crashes, panic>>

Commit == WriteLog \/ WriteHead \/ Install \/ EraseHead \/ ReadHead

Call(p) ==
  \/ BeginOp(p) \/ BeginSleep(p) \/ LogTest(p) \/ LogAppend(p) \/ EndOp(p) \/ CommitDone(p)
  \/ \E b \in Blocks, v \in Data : Modify(p, b, v)

(* A kernel that panicked does nothing until it is rebooted.               *)
Next ==
  \/ /\ panic = "none"
     /\ \/ \E p \in Procs : Call(p)
        \/ \E b \in Blocks : Load(b) \/ Recycle(b)
        \/ Commit
  \/ Crash

(* A call writes finitely many blocks and then ends; commit and recovery   *)
(* go on as long as the machine runs.                                      *)
Fairness ==
  /\ WF_vars(panic = "none" /\ Commit)
  /\ \A p \in Procs : /\ WF_vars(panic = "none" /\ (LogTest(p) \/ LogAppend(p) \/ CommitDone(p)))
                      /\ SF_vars(panic = "none" /\ EndOp(p))
Spec == Init /\ [][Next]_vars /\ Fairness

-----------------------------------------------------------------------------
Steps == {"none", "write_log", "install", "done", "read_head", "recover"}
TypeOK ==
  /\ home \in [Blocks -> Data] /\ slot \in [Entries -> Data]
  /\ head \in Seq(Blocks) /\ lh \in Seq(Blocks)
  /\ outstanding \in Nat /\ committing \in BOOLEAN
  /\ cache \in [Blocks -> Data \cup {NoBuf}] /\ dirty \subseteq Blocks
  /\ holder \in [Blocks -> Procs \cup {Nobody}]
  /\ pc \in [Procs -> {"idle", "begin", "sleep", "op", "log", "append", "commit"}]
  /\ logged \in [Procs -> SUBSET Blocks]
  /\ step \in Steps /\ tail \in 0 .. LOGSIZE
  /\ crashes \in 0 .. MaxCrashes
  /\ panic \in {"none", "too big a transaction", "log_write outside of trans", "log.committing"}

(* The abstract disk.  A crash now leaves the home locations overwritten   *)
(* with the blocks that the header names.                                  *)
InOp == {p \in Procs : pc[p] \in {"op", "log", "append"}}
Recovered ==
  [b \in Blocks |->
     IF b \in Elems(head) THEN LogBlock(CHOOSE i \in 1 .. Len(head) : head[i] = b) ELSE home[b]]
Seen ==
  [b \in Blocks |->
     IF Recovering THEN Recovered[b]
     ELSE IF cache[b] = NoBuf THEN home[b] ELSE cache[b]]

Disk == INSTANCE AtomicDisk WITH durable <- Recovered, current <- Seen, active <- InOp

(* Crash safety: whatever the interleaving of calls, buffer recycling,     *)
(* commit and crashes, the disk after recovery is what it was at some      *)
(* moment when no call was active (commit, recover_from_log, log_write).   *)
(* So it is as long as the calls write few enough blocks that the log on   *)
(* the disk, NLOG - 1 of them, is not overrun (LogInv!Fits); the README    *)
(* shows what happens otherwise.                                           *)
CrashSafe == Disk!Spec

(* No update is lost: a cached block that differs from its home location   *)
(* is pinned and in the log, or its call is about to log it (log_write,    *)
(* bget).                                                                  *)
Pinned ==
  ~Recovering =>
    \A b \in Blocks : cache[b] \notin {NoBuf, home[b]} =>
      holder[b] # Nobody \/ (b \in dirty /\ b \in Elems(lh))

(* Nobody sleeps in begin_op without someone left to wake him (begin_op,   *)
(* end_op).                                                                *)
SleeperHasWaker ==
  (\E p \in Procs : pc[p] = "sleep") => outstanding > 0 \/ committing

(* The reservation of begin_op: the header has an entry for every block    *)
(* the calls in progress may still write, and as many to spare as a call   *)
(* writes less than the MAXOPBLOCKS it reserves.                           *)
Written == {w \in Procs \X Blocks : w[1] \in InOp /\ w[2] \in logged[w[1]]}
Reserved ==
  ~Recovering =>
    Len(lh) + outstanding * OpBlocks - Cardinality(Written) <= LOGSIZE - (MAXOPBLOCKS - OpBlocks)

(* Whoever sleeps in begin_op is woken (end_op).                           *)
SleeperWakes ==
  \A p \in Procs : pc[p] = "sleep" ~> pc[p] # "sleep" \/ panic # "none"

(* param.h: LOGSIZE is the number of data blocks in the log on disk, and   *)
(* begin_op reserves that many; log_write must find room.                  *)
RoomInLog == panic # "too big a transaction"
=============================================================================
