------------------------------- MODULE LogInv -------------------------------
(***************************************************************************)
(* The inductive invariant behind CrashSafe: what the log, the cache and   *)
(* the disk hold at each point of commit and recovery.                     *)
(***************************************************************************)
EXTENDS Log

(* What begin_op lets into the log when a call writes OpBlocks blocks at   *)
(* most; and that it is less than the blocks of the log on the disk, its   *)
(* header's included.  With the sizes of param.h and mkfs.c it is so when  *)
(* a call writes 9 blocks of the 10 reserved for it.                       *)
Limit == LOGSIZE - (MAXOPBLOCKS - OpBlocks)
Fits  == Limit < NLOG

(* The on-disk header is empty except while a committed transaction is     *)
(* being installed; a header names a block once, and no more of them than  *)
(* the log on the disk has room for.                                       *)
Once(s) == \A i, j \in 1 .. Len(s) : s[i] = s[j] => i = j
Header ==
  /\ Len(lh) <= LOGSIZE /\ Len(lh) < NLOG /\ Once(lh)
  /\ Len(head) <= LOGSIZE /\ Len(head) < NLOG /\ Once(head)
  /\ step \in {"install", "recover"} => head = lh
  /\ step \in {"none", "write_log", "done"} => head = << >>
  /\ step \in {"read_head", "done"} => lh = << >>
  /\ step \in {"none", "read_head", "done"} => tail = 0
  /\ tail <= Len(lh)

(* Commit runs alone: a call is active only outside of it, and outstanding *)
(* counts the active calls, each of which has one buffer locked at most.   *)
Alone ==
  /\ outstanding = Cardinality(InOp)
  /\ step # "none" => InOp = {}
  /\ committing <=> step \in {"write_log", "install", "done"}
  /\ \A b \in Blocks : holder[b] # Nobody => pc[holder[b]] \in {"log", "append"}
  /\ \A b, c \in Blocks : holder[b] # Nobody /\ holder[b] = holder[c] => b = c

(* A logged block is cached and pinned until it is installed; nothing else *)
(* differs from its home location, but what a call is changing.            *)
Caching ==
  /\ step \in {"none", "write_log"} => dirty = Elems(lh)
  /\ step = "install" => dirty = {lh[i] : i \in (tail + 1) .. Len(lh)}
  /\ step \in {"read_head", "recover", "done"} => dirty = {}
  /\ \A b \in Blocks : b \in dirty \/ holder[b] # Nobody => cache[b] # NoBuf
  /\ \A b \in Blocks : b \notin dirty /\ holder[b] = Nobody => cache[b] \in {NoBuf, home[b]}

(* The log blocks written so far are what the cache holds; the ones that   *)
(* were installed are what the home locations hold.                        *)
Copied ==
  /\ step = "write_log" => \A i \in 1 .. tail : slot[i] = cache[lh[i]]
  /\ step = "install" => \A i \in (tail + 1) .. Len(lh) : slot[i] = cache[lh[i]]
  /\ step \in {"install", "recover"} => \A i \in 1 .. tail : home[lh[i]] = slot[i]

(* The space the calls in progress have reserved and used: a call logs     *)
(* OpBlocks blocks at most, and what it logged stays in the log.           *)
Reservation ==
  /\ \A p \in InOp : /\ Cardinality(logged[p]) <= OpBlocks
                    /\ \A b \in logged[p] : b \in Elems(lh)
  /\ \A b \in Blocks : holder[b] # Nobody => Cardinality(logged[holder[b]] \cup {b}) <= OpBlocks
  /\ Reserved

LogIndInv == TypeOK /\ Header /\ Alone /\ Caching /\ Copied
=============================================================================
