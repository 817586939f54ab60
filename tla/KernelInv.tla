----------------------------- MODULE KernelInv ------------------------------
(***************************************************************************)
(* The inductive invariant behind TypeOK and QueueInv: what the holder of  *)
(* ptable.lock may assume about the threads and about slots that are being *)
(* created.  It holds as long as nobody calls kill (see README), and says  *)
(* nothing of a kernel that has panicked.                                  *)
(***************************************************************************)
EXTENDS Kernel

Positive == Slots \ {0}

(* Who is where: the lock belongs to the CPU that is inside scheduler() or *)
(* a lock-held loop; a CPU runs a RUNNING thread of its own, unless that   *)
(* thread is on its way out of exit().                                     *)
CtlLock ==
  /\ \A c \in CPUs : spc[c] \in {"mlfq", "back", "boost"} => lock = c
  /\ loop.op # "none" => /\ lock \in CPUs /\ spc[lock] = "run"
                         /\ loop.m \in Slots
CtlProc ==
  /\ \A c \in CPUs : spc[c] \in {"mlfq", "boost"} => branch[c] = "mlfq"
  /\ \A c \in CPUs : spc[c] \in {"run", "back"} =>
       cproc[c] \in Slots /\ (branch[c] = "stride" => mproc[c] \in Slots)
  /\ \A c \in CPUs : spc[c] = "run" =>
       \/ state[cproc[c]] = "RUNNING"
       \/ loop.op = "exit" /\ lock = c /\ state[cproc[c]] = "ZOMBIE"
  /\ \A c, d \in CPUs : spc[c] = "run" /\ spc[d] = "run" /\ cproc[c] = cproc[d] => c = d
CtlLoop ==
  /\ loop.op \in {"pop", "push", "exit"} => loop.m = mthread[cproc[lock]]
  /\ loop.op = "reap" =>
       /\ state[loop.m] = "ZOMBIE" /\ mthread[loop.m] = loop.m /\ parent[loop.m] # NULL
       /\ \A i \in Positive : cthread[loop.m][i] # NULL => state[cthread[loop.m][i]] = "ZOMBIE"

(* The threads of a process: place 0 is the main thread itself, each other *)
(* place names a thread of that process, or one that thread_create has not *)
(* finished, and no thread has two places.                                 *)
FamOwn ==
  \A s \in Slots : state[s] # "UNUSED" =>
    /\ mthread[s] \in Slots
    /\ mthread[s] = s => cthread[s][0] = s
    /\ mthread[s] # s => \E i \in Positive : cthread[mthread[s]][i] = s
FamArray ==
  \A m \in Slots :
    /\ cthread[m][0] \in {m, NULL}
    /\ \A i \in Positive : cthread[m][i] # NULL =>
         LET t == cthread[m][i]
         IN  /\ t # m /\ state[t] # "UNUSED" /\ state[m] \notin {"UNUSED", "EMBRYO"}
             /\ mthread[t] \in {m, t}
             /\ mthread[t] = t => state[t] \in {"EMBRYO", "ZOMBIE"} /\ parent[t] = NULL
             /\ \A j \in Positive : cthread[t][j] = NULL
FamOnce ==
  \A m, n \in Slots : \A i, j \in Positive :
    cthread[m][i] # NULL /\ cthread[m][i] = cthread[n][j] => m = n /\ i = j

(* A slot that fork or thread_create has allocated is an EMBRYO that       *)
(* nobody else creates, that is not queued and that no array names, until  *)
(* thread_create has entered it into the array of its process.             *)
Creates(t) == state[t] \notin {"UNUSED", "ZOMBIE"} /\
              kop[t].pc \in {"fork", "forked", "create", "created"}
NewSlot ==
  \A t \in Slots : Creates(t) =>
    LET np == kop[t].np
    IN  /\ np \in Slots /\ np # t /\ state[np] = "EMBRYO" /\ mthread[np] = np
        /\ \A j \in Positive : cthread[np][j] = NULL
        /\ kop[t].pc # "forked" => parent[np] = NULL
        /\ kop[t].pc # "created" =>
             ~inqueue[np] /\ \A m \in Slots : \A i \in Positive : cthread[m][i] # np
        /\ kop[t].pc = "created" => \E i \in Positive : cthread[mthread[t]][i] = np
NewOnce ==
  \A t, u \in Slots : Creates(t) /\ Creates(u) /\ kop[t].np = kop[u].np => t = u
FreeSlot ==
  \A s \in Slots : state[s] = "UNUSED" => parent[s] = NULL
EmbryoIdle ==
  \A s \in Slots : state[s] = "EMBRYO" => kop[s].pc = "user" /\ mthread[s] = s

Control == CtlLock /\ CtlProc /\ CtlLoop
Family  == FamOwn /\ FamArray /\ FamOnce /\ NewSlot /\ NewOnce /\ FreeSlot /\ EmbryoIdle
Structure == Control /\ Family

(* The inductive invariant.                                                *)
IndInv == TypeOK /\ QueueInv /\ (panic = "none" => Structure)

-----------------------------------------------------------------------------
(* What FamilyInv and NoLostWakeup need beside IndInv.                     *)

(* init lives for ever and has no other thread.                            *)
InitLives ==
  /\ Live(InitProc) /\ mthread[InitProc] = InitProc
  /\ \A i \in Positive : cthread[InitProc][i] = NULL
  /\ kop[InitProc].pc \notin {"create", "created"}

(* The threads of an exited process are ZOMBIEs too, and those whose       *)
(* creation it cut off are gone when exit is done.                         *)
ZombieThreads ==
  \A m \in Slots : state[m] = "ZOMBIE" /\ mthread[m] = m =>
    \A i \in Positive : cthread[m][i] # NULL =>
      /\ state[cthread[m][i]] = "ZOMBIE"
      /\ mthread[cthread[m][i]] = m \/ (loop.op = "exit" /\ loop.m = m)
ExitLoop == loop.op = "exit" => state[loop.m] = "ZOMBIE" /\ mthread[loop.m] = loop.m

(* The processes that have not been reaped, without the half-made threads  *)
(* that an exit in progress is about to free: each has a parent that is    *)
(* one of them and has not exited, and no parent descends from its child.  *)
CutOff(s) == loop.op = "exit" /\ \E i \in Positive : cthread[loop.m][i] = s
Mains == {s \in Slots : /\ Live(s) \/ state[s] = "ZOMBIE"
                        /\ mthread[s] = s /\ ~CutOff(s)}
Parents == \A s \in Mains : parent[s] \in Slots /\ Live(parent[s]) /\ mthread[parent[s]] = parent[s]
NoCycle ==
  \A C \in SUBSET (Mains \ {InitProc}) : C # {} => \E s \in C : parent[s] \notin C
ForkParent ==
  \A t \in Slots : Creates(t) /\ kop[t].pc = "forked" => parent[kop[t].np] = mthread[t]

(* Who sleeps in wait or thread_join sleeps where exit and thread_exit     *)
(* wake, has no exited child, and joins a thread of its process that has   *)
(* not exited.                                                             *)
Sleepers ==
  \A s \in Slots : state[s] = "SLEEPING" /\ kop[s].pc \in {"wait", "join"} =>
    /\ chan[s] = mthread[s]
    /\ kop[s].pc = "wait" => Zombies(mthread[s]) = {}
    /\ kop[s].pc = "join" =>
         /\ kop[s].np \in Slots /\ state[kop[s].np] # "ZOMBIE"
         /\ \E i \in Positive : cthread[mthread[s]][i] = kop[s].np

(* The process tree and who waits on it, as fork, exit, wait, thread_exit  *)
(* and thread_join keep it: init lives, threads do not outlive their       *)
(* process, every process has a parent that can reap it and descends from  *)
(* init, and a sleeper in wait or thread_join will be woken.               *)
TreeInv == InitLives /\ ZombieThreads /\ ExitLoop /\ Parents /\ NoCycle /\ ForkParent /\ Sleepers
-----------------------------------------------------------------------------
(* What ShareInv and NoLostThread need beside IndInv.                      *)

(* Only a main thread has a share, and none while set_cpu_share moves its  *)
(* threads; a thread that may still run is queued exactly when its process *)
(* has no share, unless its process is the one whose threads are moving,   *)
(* and one that thread_create is making is not queued when it has one.     *)
Moving(m) == loop.op \in {"pop", "push"} /\ loop.m = m
ShareOwners ==
  /\ \A s \in Slots : percentage[s] # 0 =>
       state[s] \notin {"UNUSED", "EMBRYO"} /\ \A m \in Slots : \A i \in Positive : cthread[m][i] # s
  /\ loop.op \in {"pop", "push"} => percentage[loop.m] = 0
  /\ loop.op = "pop" => loop.pct # 0
QueuedWithoutShare ==
  /\ \A s \in Slots : Live(s) /\ ~Moving(mthread[s]) => (inqueue[s] <=> percentage[mthread[s]] = 0)
  /\ \A m \in Slots : \A i \in Positive :
       cthread[m][i] # NULL /\ ~Moving(m) /\ state[cthread[m][i]] = "EMBRYO" =>
         (inqueue[cthread[m][i]] => percentage[m] = 0)

-----------------------------------------------------------------------------
(* What NoPanic needs beside IndInv and TreeInv on one CPU, when nobody    *)
(* asks for a share: the MLFQ keeps all tickets; what is RUNNING is on the *)
(* CPU, so the CPU is on no stack when it is in scheduler(); the thread it *)
(* runs, or comes back from, is queued, even one that has exited; and only *)
(* an exited thread is past the last sched() of exit.                      *)
NoShares ==
  /\ share = 100 /\ loop.op \notin {"pop", "push"}
  /\ \A s \in Slots : percentage[s] = 0
  /\ \A c \in CPUs : branch[c] = "mlfq"
DeadExited == \A s \in Slots : kop[s].pc = "dead" => state[s] \in {"ZOMBIE", "UNUSED"}
RunningOnCpu ==
  /\ \A s \in Slots : state[s] = "RUNNING" => \E c \in CPUs : Running(c) /\ cproc[c] = s
  /\ loop.op = "exit" => \A c \in CPUs : Running(c) => state[cproc[c]] = "ZOMBIE"
RunnerQueued == \A c \in CPUs : spc[c] \in {"run", "back"} => inqueue[cproc[c]]
PlainInv == panic = "none" /\ NoShares /\ DeadExited /\ RunningOnCpu /\ RunnerQueued
=============================================================================
