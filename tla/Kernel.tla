------------------------------- MODULE Kernel -------------------------------
(***************************************************************************)
(* The process subsystem of the kernel: the scheduler and the timer of     *)
(* every CPU, the system calls of the threads that run on them, and the    *)
(* wakeups that devices cause, over one process table.                     *)
(***************************************************************************)
EXTENDS Sched, Thread

(* A kernel that panicked has stopped.                                     *)
Next ==
  /\ panic = "none"
  /\ \/ \E c \in CPUs : Schedule(c) \/ Timer(c) \/ ProcessStep(c) \/ ThreadStep(c)
     \/ \E s \in Slots : Wakeup(s)

Spec == Init /\ [][Next]_vars

-----------------------------------------------------------------------------
(* Every queue is filled from place 0 without a gap, except the two that a *)
(* boost is emptying.                                                      *)
Boosting   == \E c \in CPUs : spc[c] = "boost"
QueuesCompact ==
  /\ Compact(queue[0])
  /\ Boosting \/ (Compact(queue[1]) /\ Compact(queue[2]))

(* No thread is queued twice.                                              *)
QueuedOnce == Once(queue)

(* The inqueue flag of a slot says whether some queue holds it.            *)
InqueueExact == \A s \in Slots : inqueue[s] <=> Queued(queue, s)

(* The run queues are intact: no gap in a queue, no thread queued twice,   *)
(* inqueue exact, and no freed slot still queued (initpush, push, pop,     *)
(* droppriority, boostpriority and every place that sets or tests inqueue).*)
QueueInv ==
  /\ QueuesCompact
  /\ QueuedOnce
  /\ InqueueExact
  /\ \A s \in Slots : state[s] = "UNUSED" => ~inqueue[s]

(* No ticket is lost or made: the shares add up to 100 with the MLFQ's     *)
(* (set_cpu_share, and the three places that give a share back).           *)
ShareInv ==
  LET total[n \in 0 .. NPROC] == IF n = 0 THEN share ELSE total[n - 1] + percentage[n - 1]
  IN  total[NPROC] = 100

(* No thread falls between the two schedulers: a thread that may still run *)
(* is in a queue exactly when its process has no share, except while       *)
(* set_cpu_share is moving the threads.                                    *)
Live(s) == state[s] \in {"SLEEPING", "RUNNABLE", "RUNNING"}
NoLostThread ==
  loop.op \notin {"pop", "push"} =>
    \A s \in Slots : Live(s) => (inqueue[s] <=> percentage[mthread[s]] = 0)

(* The process tree is intact.  A thread that may still run is in exactly  *)
(* one place of the cthread array of its main thread, which has not been   *)
(* freed; a process that has not been reaped has a parent that has not     *)
(* exited, once an exit in progress is done; and every thread that an      *)
(* array names belongs to that process, or is still being created (fork,   *)
(* exit, killzombie, wait, thread_create, thread_join).                    *)
FamilyInv ==
  /\ \A s \in Slots : Live(s) =>
       /\ mthread[s] # NULL /\ state[mthread[s]] # "UNUSED"
       /\ \E i \in Slots : /\ cthread[mthread[s]][i] = s
                          /\ \A j \in Slots : cthread[mthread[s]][j] = s => i = j
  /\ loop.op # "exit" => \A s \in Slots :
       state[s] \in {"SLEEPING", "RUNNABLE", "RUNNING", "ZOMBIE"} /\ mthread[s] = s =>
         parent[s] # NULL /\ Live(parent[s])
  /\ \A m \in Slots : Live(m) /\ mthread[m] = m =>
       \A t \in Threads(m) : state[t] # "UNUSED" /\ (mthread[t] = m \/ state[t] = "EMBRYO")

(* No wakeup is lost: nobody sleeps in wait with a child to reap, or in    *)
(* thread_join of a thread that is done or gone (sleep, wakeup1, and who   *)
(* calls them in exit and thread_exit).                                    *)
NoLostWakeup ==
  \A s \in Slots : state[s] = "SLEEPING" =>
    /\ kop[s].pc = "wait" => Zombies(mthread[s]) = {}
    /\ kop[s].pc = "join" => kop[s].np # NULL /\ state[kop[s].np] # "ZOMBIE"

(* The kernel does not panic, nor run on a stack that was freed or that    *)
(* another CPU is on.                                                      *)
NoPanic == panic = "none"

(* Until exit or wait takes for a ZOMBIE a thread that another CPU runs,   *)
(* and is about to free it ("freed"), and in that state too, no slot is    *)
(* run by two CPUs, and what a CPU runs is RUNNING, or on its way out of   *)
(* exit.  Of what happens afterwards nothing is said, nor of kill, which   *)
(* makes a main thread RUNNABLE while a CPU runs it (scheduler, sched).    *)
OneCpu ==
  panic \in {"none", "freed"} => \A c \in CPUs : Running(c) =>
    /\ \/ state[cproc[c]] = "RUNNING"
       \/ state[cproc[c]] = "ZOMBIE" /\ (panic = "freed" \/ (loop.op = "exit" /\ lock = c))
    /\ \A d \in CPUs \ {c} : Running(d) => cproc[d] # cproc[c]

(* No thread is freed while a CPU runs it.  With several CPUs and threads  *)
(* exit and wait do just that (see the README, Disagreements).             *)
FreedOffCpu == panic # "freed"

(* exit: an exited process remains in the zombie state until it is reaped. *)
ZombieStays ==
  [][\A s \in Slots : state[s] = "ZOMBIE" => state'[s] \in {"ZOMBIE", "UNUSED"}]_vars

-----------------------------------------------------------------------------
(* A CPU that holds ptable.lock executes on; the scheduler loop runs       *)
(* forever; a timer interrupt that is pending is taken when interrupts are *)
(* enabled again, however often they are disabled, and is where a process  *)
(* that was killed exits; a thread that is in the kernel to create another *)
(* gets ahead in the time it has between two interrupts.                   *)
Locked(c) ==
  PopShare(c) \/ TakeShare(c) \/ PushShare(c) \/ LeaveShare(c) \/ KillZombie(c) \/ ExitDone(c)
    \/ WaitDone(c) \/ (InWait(c, "wait") /\ (WaitReap(c) \/ WaitSleep(c) \/ WaitFail(c)))
    \/ (InWait(c, "join") /\ (JoinReap(c) \/ JoinSleep(c) \/ JoinFail(c)))
KilledExit(c) == InUser(c) /\ killed[Main(c)] /\ Exit(c)
Creating(c)   == CreateFail(c) \/ ForkCopy(c) \/ ForkDone(c) \/ ThreadStack(c) \/ ThreadStart(c)
Fairness ==
  /\ \A c \in CPUs : /\ WF_vars(panic = "none" /\ Schedule(c))
                    /\ WF_vars(panic = "none" /\ Locked(c))
                    /\ SF_vars(panic = "none" /\ (Timer(c) \/ KilledExit(c)))
  /\ \A s \in Slots : SF_vars(panic = "none" /\ \E c \in CPUs : cproc[c] = s /\ Creating(c))
FairSpec == Spec /\ Fairness

(* Nobody starves: every RUNNABLE thread runs (scheduler, boostpriority),  *)
(* or is no longer there, unless the kernel panics.                        *)
NoStarvation ==
  \A s \in Slots : state[s] = "RUNNABLE" ~> state[s] # "RUNNABLE" \/ panic # "none"

(* A process that is killed exits, wherever it was (kill, trap).           *)
KillEnds ==
  \A s \in Slots : killed[s] /\ Live(s) ~> ~Live(s) \/ panic # "none"

-----------------------------------------------------------------------------
(* What the repository's own comments, assertions and documents say, and   *)
(* the code does not do (see the README, Disagreements).                   *)

(* spinlock.c: a CPU never acquires a lock it holds.                       *)
AcquireOnce == panic # "acquire"

(* readme: the MLFQ is guaranteed 20% of the CPU (set_cpu_share refuses    *)
(* what would leave it less, but takes a negative share).                  *)
MlfqKeeps20 == share >= 20

(* readme: a second set_cpu_share(0) returns the process to the MLFQ.      *)
ShareCanBeReturned == panic # "divide"
=============================================================================
