----------------------------- MODULE AtomicDisk -----------------------------
(***************************************************************************)
(* What log.c promises the file system (log.c 9-30): system calls bracket  *)
(* their writes, and what survives a crash is what the disk was at some    *)
(* moment when no system call was inside its bracket.                      *)
(***************************************************************************)
CONSTANTS Procs, Blocks, Data

VARIABLES
  durable,        \* what the disk holds after a crash now
  current,        \* what the system calls read and write
  active          \* the processes inside a bracket

diskVars == <<durable, current, active>>

Init ==
  /\ durable \in [Blocks -> Data] /\ current = durable
  /\ active = {}

Begin(p) ==
  /\ p \notin active
  /\ active' = active \cup {p} /\ UNCHANGED <<durable, current>>

Write(p, b, v) ==
  /\ p \in active
  /\ current' = [current EXCEPT ![b] = v] /\ UNCHANGED <<durable, active>>

End(p) ==
  /\ p \in active
  /\ active' = active \ {p} /\ UNCHANGED <<durable, current>>

(* All the writes since the last one become durable at once.               *)
Sync ==
  /\ active = {}
  /\ durable' = current /\ UNCHANGED <<current, active>>

Crash == current' = durable /\ active' = {} /\ UNCHANGED durable

Next ==
  \/ \E p \in Procs : Begin(p) \/ End(p) \/ \E b \in Blocks, v \in Data : Write(p, b, v)
  \/ Sync \/ Crash

Spec == Init /\ [][Next]_diskVars
=============================================================================
