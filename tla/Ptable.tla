------------------------------- MODULE Ptable -------------------------------
(***************************************************************************)
(* The shared state of the process subsystem: struct proc, struct mlfq,    *)
(* ptable.lock and the per-CPU locals of scheduler() (proc.h, proc.c 15-20 *)
(* and 698-752), with the operators every part uses to change it.          *)
(*                                                                         *)
(* Passes are kept relative to ptable.mlfq.pass, which is therefore 0      *)
(* throughout: the code only ever compares a pass with it and copies one.  *)
(* The pass of a slot without a share is never read (set_cpu_share writes  *)
(* it) and is kept at 0; pids and tids are slots, as no two live processes *)
(* share a pid.                                                            *)
(***************************************************************************)
EXTENDS Mlfq

CONSTANTS
  CPUs,           \* the processors that run scheduler()
  Calls,          \* the system calls the processes of this workload make
  Shares,         \* the arguments they give set_cpu_share
  Guesses,        \* whether they kill by pids that no fork has returned to them
  NullRead,       \* outcomes of reading mproc->percentage != 0 when mproc is NULL
  PBOOST,         \* MLFQ ticks between two boosts (100)
  MAXTICKET,      \* dividend of the strides (10000000)
  TimeQuantum,    \* per level: 1, 2, 4
  TimeAllotment,  \* per level: 5, 10, 100
  PassFloor,      \* bound: a relative pass stops falling at -PassFloor
  MaxCur          \* bound: curticks stops growing at MaxCur

ASSUME CpuAssumption == CPUs # {} /\ NULL \notin CPUs
ASSUME KillAssumption == Guesses \in BOOLEAN
ASSUME ShareAssumption == Shares \subseteq Int /\ NullRead \subseteq BOOLEAN /\ NullRead # {}
ASSUME TickAssumption ==
  /\ PBOOST \in Nat \ {0} /\ MAXTICKET \in Nat \ {0}
  /\ PassFloor \in Nat /\ MaxCur \in Nat \ {0}
  /\ TimeQuantum \in [Levels -> Nat \ {0}]
  /\ TimeAllotment \in [Levels -> Nat \ {0}]

VARIABLES
  state, pid, parent, chan, killed,             \* struct proc: the process
  mthread, cthread, rrlast,                     \* struct proc: its threads
  priority, ticks, curticks, percentage, pass, inqueue,  \* struct proc: scheduling
  kop, intrap,                                  \* where its kernel stack is suspended
  queue, index, share, minpass,                 \* struct mlfq and ptable.minpass
  lock,                                         \* the CPU that holds ptable.lock
  spc, cproc, mproc, branch, lvl, done, mono, boostin,   \* scheduler() on each CPU
  loop,                                         \* the lock-held loop in progress
  panic                                         \* "none", or why the kernel stopped

procVars   == <<state, pid, parent, chan, killed>>
threadVars == <<mthread, cthread, rrlast>>
schedVars  == <<priority, ticks, curticks, percentage, pass, inqueue>>
kernVars   == <<kop, intrap>>
mlfqVars   == <<queue, index, share, minpass>>
cpuVars    == <<lock, spc, cproc, mproc, branch, lvl, done, mono, boostin>>
vars == <<procVars, threadVars, schedVars, kernVars, mlfqVars, cpuVars, loop, panic>>

InitProc == 0       \* the slot userinit takes
IO == NPROC         \* a sleep channel that is no process: a device, a pipe, the clock

States == {"UNUSED", "EMBRYO", "SLEEPING", "RUNNABLE", "RUNNING", "ZOMBIE"}

(* Where the kernel stack of a slot is: in user mode, at one of the points *)
(* of fork, thread_create, wait or thread_join at which another thread may *)
(* run, or past the last sched() of exit.                                  *)
KernPoints == {"user", "fork", "forked", "create", "created", "wait", "join", "dead"}
Kop(pc, np) == [pc |-> pc, np |-> np]
Kops  == [pc : KernPoints, np : SlotOrNull]
Loops == [op : {"none", "pop", "push", "exit", "reap"}, m : SlotOrNull, pct : Int]
NoLoop == [op |-> "none", m |-> NULL, pct |-> 0]

(* The last two are no panics of the kernel.  It goes on, in the one case  *)
(* with a thread on a stack that was given back ("freed"), in the other    *)
(* with a scheduler that has left a stack it is not on ("stale"): what     *)
(* happens then is undefined, and the model stops there.                   *)
Panics == {"none", "acquire", "pop", "push", "divide", "zombie exit", "freed", "stale"}

-----------------------------------------------------------------------------
Least(S) == CHOOSE x \in S : \A y \in S : x <= y

(* The thread running on c, its process, and the end of its time on c:     *)
(* sched() switches to the scheduler of c with ptable.lock held.           *)
Running(c) == spc[c] = "run"
Main(c)    == mthread[cproc[c]]
ToScheduler(c) == spc' = [spc EXCEPT ![c] = "back"] /\ lock' = c

(* A thread in user mode that makes system call f; a killed process is     *)
(* turned into exit() at the entry of trap, and init only forks, waits and *)
(* sleeps (init.c).                                                        *)
InUser(c) ==
  /\ Running(c) /\ lock = NULL
  /\ kop[cproc[c]].pc = "user" /\ ~intrap[cproc[c]]
Syscall(c, f) ==
  /\ InUser(c)
  /\ f \in Calls /\ ~killed[Main(c)]
  /\ cproc[c] = InitProc => f \in {"fork", "wait", "sleep"}

(* acquire(&ptable.lock) followed by work that ends with release().        *)
LockFree == lock = NULL
Holding(c) == lock = c

(* wakeup1: every thread sleeping on ch becomes RUNNABLE.                  *)
WokenFirst(st, ch) ==                         \* mutant: returns after one
  LET A == {s \in Slots : st[s] = "SLEEPING" /\ chan[s] = ch}
  IN  [s \in Slots |-> IF s \in A /\ s = Least(A) THEN "RUNNABLE" ELSE st[s]]
Woken(st, ch) ==
  [s \in Slots |-> IF st[s] = "SLEEPING" /\ chan[s] = ch THEN "RUNNABLE" ELSE st[s]]

(* The stride of a share (C division), and the effect on every relative    *)
(* pass of mlfq.pass += x.                                                 *)
Stride(pct) ==
  IF pct > 0 THEN MAXTICKET \div pct ELSE -(MAXTICKET \div (-pct))
Passes == {x \in Int : x >= -PassFloor}
Floored(x) == IF x < -PassFloor THEN -PassFloor ELSE x
AdvanceMlfq(x) ==
  /\ pass' = [s \in Slots |-> IF percentage[s] # 0 THEN Floored(pass[s] - x) ELSE pass[s]]

(* initpush of p into the highest queue, push of p, and pop of p: each is  *)
(* a panic when there is no room, or no p.                                 *)
InitPush(p) ==
  IF Full(queue[0])
  THEN panic' = "push" /\ UNCHANGED <<queue, index, inqueue>>
  ELSE /\ queue' = [queue EXCEPT ![0] = InitPushed(@, p)]
       /\ index' = [index EXCEPT ![0] = -1]
       /\ inqueue' = [inqueue EXCEPT ![p] = TRUE]
       /\ UNCHANGED panic

Pop(p) ==
  IF ~Queued(queue, p)
  THEN panic' = "pop" /\ UNCHANGED <<queue, index, inqueue>>
  ELSE /\ queue' = Popped(queue, p)
       /\ index' = [index EXCEPT ![LevelOf(queue, p)] = PlaceOf(queue[LevelOf(queue, p)], p)]
       /\ inqueue' = [inqueue EXCEPT ![p] = FALSE]
       /\ UNCHANGED panic

PopNever(p) == UNCHANGED <<queue, index, inqueue, panic>>   \* mutant: the slot stays queued
PopIfQueued(p) ==
  IF inqueue[p] THEN Pop(p) ELSE UNCHANGED <<queue, index, inqueue, panic>>

-----------------------------------------------------------------------------
(* The state after userinit, with every CPU in the loop of scheduler().    *)
Init ==
  /\ state = [s \in Slots |-> IF s = InitProc THEN "RUNNABLE" ELSE "UNUSED"]
  /\ pid = [s \in Slots |-> IF s = InitProc THEN InitProc ELSE NULL]
  /\ parent = [s \in Slots |-> IF s = InitProc THEN InitProc ELSE NULL]
  /\ chan = [s \in Slots |-> NULL]
  /\ killed = [s \in Slots |-> FALSE]
  /\ mthread = [s \in Slots |-> IF s = InitProc THEN InitProc ELSE NULL]
  /\ cthread = [s \in Slots |-> [i \in Slots |->
                  IF s = InitProc /\ i = 0 THEN InitProc ELSE NULL]]
  /\ rrlast = [s \in Slots |-> 0]
  /\ priority = [s \in Slots |-> 0]
  /\ ticks = [s \in Slots |-> 0] /\ curticks = [s \in Slots |-> 0]
  /\ percentage = [s \in Slots |-> 0] /\ pass = [s \in Slots |-> 0]
  /\ inqueue = [s \in Slots |-> s = InitProc]
  /\ kop = [s \in Slots |-> Kop("user", NULL)] /\ intrap = [s \in Slots |-> FALSE]
  /\ queue = [l \in Levels |-> [k \in Slots |->
                IF l = 0 /\ k = 0 THEN InitProc ELSE NULL]]
  /\ index = [l \in Levels |-> IF l = 0 THEN -1 ELSE 0]
  /\ share = 100 /\ minpass = 0
  /\ lock = NULL
  /\ spc = [c \in CPUs |-> "loop"]
  /\ cproc = [c \in CPUs |-> NULL] /\ mproc = [c \in CPUs |-> NULL]
  /\ branch = [c \in CPUs |-> "mlfq"]
  /\ lvl = [c \in CPUs |-> 0]
  /\ done = [c \in CPUs |-> FALSE] /\ mono = [c \in CPUs |-> TRUE]
  /\ boostin = [c \in CPUs |-> PBOOST]
  /\ loop = NoLoop
  /\ panic = "none"

(* The type of every variable. *)
TypeOK ==
  /\ state \in [Slots -> States]
  /\ pid \in [Slots -> SlotOrNull]
  /\ parent \in [Slots -> SlotOrNull]
  /\ chan \in [Slots -> SlotOrNull \cup {IO}]
  /\ killed \in [Slots -> BOOLEAN]
  /\ mthread \in [Slots -> SlotOrNull]
  /\ cthread \in [Slots -> [Slots -> SlotOrNull]]
  /\ rrlast \in [Slots -> Slots]
  /\ priority \in [Slots -> Levels]
  /\ ticks \in [Slots -> Nat]
  /\ curticks \in [Slots -> 0 .. MaxCur]
  /\ percentage \in [Slots -> Int]
  /\ pass \in [Slots -> Passes]
  /\ inqueue \in [Slots -> BOOLEAN]
  /\ kop \in [Slots -> Kops]
  /\ intrap \in [Slots -> BOOLEAN]
  /\ queue \in [Levels -> [Slots -> SlotOrNull]]
  /\ index \in [Levels -> -1 .. (NPROC - 1)]
  /\ share \in Int /\ minpass \in Passes
  /\ lock \in CPUs \cup {NULL}
  /\ spc \in [CPUs -> {"loop", "mlfq", "run", "back", "boost"}]
  /\ cproc \in [CPUs -> SlotOrNull] /\ mproc \in [CPUs -> SlotOrNull]
  /\ branch \in [CPUs -> {"mlfq", "stride"}]
  /\ lvl \in [CPUs -> 0 .. 3]
  /\ done \in [CPUs -> BOOLEAN] /\ mono \in [CPUs -> BOOLEAN]
  /\ boostin \in [CPUs -> 0 .. PBOOST]
  /\ loop \in Loops
  /\ panic \in Panics
=============================================================================
