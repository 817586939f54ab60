------------------------------ MODULE Process -------------------------------
(***************************************************************************)
(* The system calls of proc.c: set_cpu_share, fork, exit, wait, yield,     *)
(* sleep, wakeup and kill.  Files, memory and return values are left out.  *)
(* A loop that runs with ptable.lock held takes one step per element; the  *)
(* register `loop' says which one, for which process.                      *)
(***************************************************************************)
EXTENDS Ptable

(* The threads of m, by place in its cthread array.                        *)
Places(m) == {i \in Slots : cthread[m][i] # NULL}
Threads(m) == {cthread[m][i] : i \in Places(m)}

Return(c, p) == kop' = [kop EXCEPT ![p] = Kop("user", NULL)]

-----------------------------------------------------------------------------
(* The test of set_cpu_share: the MLFQ keeps at least 20% of the tickets.   *)
Affords(diff) == share - diff >= 20

(* set_cpu_share by a process that has no share: its threads are popped    *)
(* one by one (PopShare), then the share is taken (TakeShare).             *)
SetShare(c) ==
  /\ Syscall(c, "set_cpu_share") /\ percentage[Main(c)] = 0
  /\ \E pct \in Shares :
       /\ Affords(pct) /\ pct # 0
       /\ loop' = [op |-> "pop", m |-> Main(c), pct |-> pct]
  /\ lock' = c
  /\ UNCHANGED <<procVars, threadVars, schedVars, kernVars, mlfqVars, spc, cproc, mproc, branch,
                 lvl, done, mono, boostin, panic>>

ToPopMain(m) ==                               \* mutant: only the main thread leaves
  {i \in Places(m) \cap {0} : inqueue[cthread[m][i]]}
ToPop(m)  == {i \in Places(m) : inqueue[cthread[m][i]] /\ state[cthread[m][i]] # "ZOMBIE"}
ToPush(m) == {i \in Places(m) : ~inqueue[cthread[m][i]] /\ state[cthread[m][i]] # "ZOMBIE"}

PopShare(c) ==
  /\ Holding(c) /\ loop.op = "pop" /\ ToPop(loop.m) # {}
  /\ Pop(cthread[loop.m][Least(ToPop(loop.m))])
  /\ UNCHANGED <<procVars, threadVars, priority, ticks, curticks, percentage, pass, kernVars,
                 share, minpass, cpuVars, loop>>

TakeShare(c) ==
  /\ Holding(c) /\ loop.op = "pop" /\ ToPop(loop.m) = {}
  /\ percentage' = [percentage EXCEPT ![loop.m] = loop.pct]
  /\ pass' = [pass EXCEPT ![loop.m] = minpass]
  /\ share' = share - loop.pct
  /\ loop' = NoLoop /\ lock' = NULL
  /\ UNCHANGED <<procVars, threadVars, priority, ticks, curticks, inqueue, kernVars,
                 queue, index, minpass, spc, cproc, mproc, branch, lvl, done, mono, boostin, panic>>

(* set_cpu_share by a process that has one; a share of 0 puts its threads  *)
(* back into the highest queue one by one (PushShare).                     *)
ChangeShare(c) ==
  /\ Syscall(c, "set_cpu_share") /\ percentage[Main(c)] # 0
  /\ \E pct \in Shares :
       /\ Affords(pct - percentage[Main(c)])
       /\ percentage' = [percentage EXCEPT ![Main(c)] = pct]
       /\ pass' = [pass EXCEPT ![Main(c)] = IF pct = 0 THEN 0 ELSE @]
       /\ share' = share - (pct - percentage[Main(c)])
       /\ IF pct = 0
          THEN loop' = [op |-> "push", m |-> Main(c), pct |-> 0] /\ lock' = c
          ELSE UNCHANGED <<loop, lock>>
  /\ UNCHANGED <<procVars, threadVars, priority, ticks, curticks, inqueue, kernVars,
                 queue, index, minpass, spc, cproc, mproc, branch, lvl, done, mono, boostin, panic>>

PushShare(c) ==
  /\ Holding(c) /\ loop.op = "push" /\ ToPush(loop.m) # {}
  /\ InitPush(cthread[loop.m][Least(ToPush(loop.m))])
  /\ UNCHANGED <<procVars, threadVars, priority, ticks, curticks, percentage, pass, kernVars,
                 share, minpass, cpuVars, loop>>

LeaveShare(c) ==
  /\ Holding(c) /\ loop.op = "push" /\ ToPush(loop.m) = {}
  /\ loop' = NoLoop /\ lock' = NULL
  /\ UNCHANGED <<procVars, threadVars, schedVars, kernVars, mlfqVars, spc, cproc, mproc, branch,
                 lvl, done, mono, boostin, panic>>

-----------------------------------------------------------------------------
(* allocproc: the first UNUSED slot becomes an EMBRYO.  With none, or      *)
(* without memory for its kernel stack, the call fails.                    *)
UnusedOrZombie ==                             \* mutant: takes an exited slot
  {s \in Slots : state[s] \in {"UNUSED", "ZOMBIE"}}
Unused == {s \in Slots : state[s] = "UNUSED"}

AllocProc(c, np) ==
  /\ Unused # {} /\ np = Least(Unused)
  /\ state' = [state EXCEPT ![np] = "EMBRYO"]
  /\ pid' = [pid EXCEPT ![np] = np]
  /\ chan' = [chan EXCEPT ![np] = NULL]
  /\ killed' = [killed EXCEPT ![np] = FALSE]
  /\ ticks' = [ticks EXCEPT ![np] = 0]
  /\ curticks' = [curticks EXCEPT ![np] = 0]
  /\ priority' = [priority EXCEPT ![np] = 0]
  /\ percentage' = [percentage EXCEPT ![np] = 0]
  /\ pass' = [pass EXCEPT ![np] = 0]
  /\ inqueue' = [inqueue EXCEPT ![np] = FALSE]
  /\ mthread' = [mthread EXCEPT ![np] = np]
  /\ cthread' = [cthread EXCEPT ![np] = [i \in Slots |-> IF i = 0 THEN np ELSE NULL]]
  /\ rrlast' = [rrlast EXCEPT ![np] = 0]

(* The call of fork or thread_create named f allocates.                    *)
StartCreate(c, f, pc) ==
  /\ Syscall(c, f)
  /\ \E np \in Slots :
       /\ AllocProc(c, np)
       /\ kop' = [kop EXCEPT ![cproc[c]] = Kop(pc, np), ![np] = Kop("user", NULL)]
       /\ intrap' = [intrap EXCEPT ![np] = FALSE]
  /\ UNCHANGED <<parent, mlfqVars, cpuVars, loop, panic>>

Fork(c) == StartCreate(c, "fork", "fork")

(* Out of memory, in allocproc or in copyuvm: the slot is given back       *)
(* without ptable.lock.                                                    *)
CreateFail(c) ==
  /\ Running(c) /\ lock # c /\ ~intrap[cproc[c]]
  /\ kop[cproc[c]].pc \in {"fork", "create"}
  /\ state' = [state EXCEPT ![kop[cproc[c]].np] = "UNUSED"]
  /\ Return(c, cproc[c])
  /\ UNCHANGED <<pid, parent, chan, killed, threadVars, schedVars, intrap, mlfqVars, cpuVars,
                 loop, panic>>

ForkCopy(c) ==
  /\ Running(c) /\ lock # c /\ ~intrap[cproc[c]] /\ kop[cproc[c]].pc = "fork"
  /\ parent' = [parent EXCEPT ![kop[cproc[c]].np] = Main(c)]
  /\ kop' = [kop EXCEPT ![cproc[c]].pc = "forked"]
  /\ UNCHANGED <<state, pid, chan, killed, threadVars, schedVars, intrap, mlfqVars, cpuVars,
                 loop, panic>>

ForkDone(c) ==
  /\ Running(c) /\ LockFree /\ ~intrap[cproc[c]] /\ kop[cproc[c]].pc = "forked"
  /\ LET np == kop[cproc[c]].np
     IN  /\ state' = [state EXCEPT ![np] = "RUNNABLE"]
         /\ InitPush(np)
  /\ Return(c, cproc[c])
  /\ UNCHANGED <<pid, parent, chan, killed, threadVars, priority, ticks, curticks, percentage,
                 pass, intrap, share, minpass, cpuVars, loop>>

-----------------------------------------------------------------------------
(* The children of m go to the parent of m.                                *)
ReparentedNone(m) == parent                   \* mutant: orphans keep a dead parent
Reparented(m) == [s \in Slots |-> IF parent[s] = m THEN parent[m] ELSE parent[s]]

(* exit, by call or because the process was killed: every thread of the    *)
(* process becomes a ZOMBIE, the parent is woken and gets the children,    *)
(* and killzombie frees every thread but the caller and the main thread.   *)
(* Nobody looks whether another CPU is running one of them: it goes on, on *)
(* a stack that is given back.                                             *)
Exit(c) ==
  /\ \/ Syscall(c, "exit")
     \/ Syscall(c, "thread_exit") /\ cproc[c] = Main(c)
     \/ InUser(c) /\ killed[Main(c)] /\ cproc[c] # InitProc
  /\ LET m == Main(c)
         st == [s \in Slots |-> IF s \in Threads(m) THEN "ZOMBIE" ELSE state[s]]
     IN  /\ state' = Woken(st, parent[m])
         /\ parent' = Reparented(m)
         /\ loop' = [op |-> "exit", m |-> m, pct |-> 0]
         /\ panic' = IF \E d \in CPUs \ {c} : Running(d) /\ cproc[d] \in Threads(m)
                     THEN "freed" ELSE panic
  /\ lock' = c
  /\ UNCHANGED <<pid, chan, killed, threadVars, schedVars, kernVars, mlfqVars, spc, cproc, mproc,
                 branch, lvl, done, mono, boostin>>

(* The share of s goes back to the MLFQ.                                   *)
RefundNone(s) == share                        \* mutant: the share is lost
Refund(s) == share + percentage[s]

(* What wait and killzombie do to slot s they free.                        *)
Free(s) ==
  /\ state' = [state EXCEPT ![s] = "UNUSED"]
  /\ pid' = [pid EXCEPT ![s] = NULL]
  /\ parent' = [parent EXCEPT ![s] = NULL]
  /\ chan' = [chan EXCEPT ![s] = NULL]
  /\ killed' = [killed EXCEPT ![s] = FALSE]
  /\ PopIfQueued(s)
  /\ share' = Refund(s)
  /\ ticks' = [ticks EXCEPT ![s] = 0]
  /\ curticks' = [curticks EXCEPT ![s] = 0]
  /\ priority' = [priority EXCEPT ![s] = 0]
  /\ percentage' = [percentage EXCEPT ![s] = 0]
  /\ pass' = [pass EXCEPT ![s] = 0]

(* A thread id that is gone is found by no thread_join that waits for it.  *)
Forget(s) ==
  kop' = [t \in Slots |-> IF kop[t].pc = "join" /\ kop[t].np = s THEN Kop("join", NULL)
                          ELSE kop[t]]

(* One thread that killzombie frees: never the one that called it.         *)
ToKillCaller(m, keep) ==                      \* mutant: the caller is freed too
  {i \in Places(m) \ {0} : state[cthread[m][i]] = "ZOMBIE"}
ToKill(m, keep) ==
  {i \in Places(m) \ {0} : state[cthread[m][i]] = "ZOMBIE" /\ cthread[m][i] # keep}
Keep(c) == IF loop.op = "exit" THEN cproc[c] ELSE loop.m

KillZombie(c) ==
  /\ Holding(c) /\ loop.op \in {"exit", "reap"} /\ ToKill(loop.m, Keep(c)) # {}
  /\ LET i == Least(ToKill(loop.m, Keep(c)))
         s == cthread[loop.m][i]
     IN  /\ Free(s)
         /\ Forget(s)
         /\ cthread' = [cthread EXCEPT ![loop.m][i] = NULL]
  /\ UNCHANGED <<mthread, rrlast, intrap, minpass, cpuVars, loop>>

ExitDone(c) ==
  /\ Holding(c) /\ loop.op = "exit" /\ ToKill(loop.m, Keep(c)) = {}
  /\ ToScheduler(c)
  /\ kop' = [kop EXCEPT ![cproc[c]] = Kop("dead", NULL)]
  /\ loop' = NoLoop
  /\ UNCHANGED <<procVars, threadVars, schedVars, intrap, mlfqVars, cproc, mproc, branch, lvl,
                 done, mono, boostin, panic>>

-----------------------------------------------------------------------------
(* wait: called, or resumed in its loop with ptable.lock held.  The first  *)
(* ZOMBIE child is reaped, whatever its threads are doing and wherever     *)
(* they run; with children but no ZOMBIE the caller sleeps.                *)
InWait(c, pc) == Running(c) /\ Holding(c) /\ kop[cproc[c]].pc = pc
Children(m) == {s \in Slots : parent[s] = m /\ mthread[s] = s}
Zombies(m)  == {s \in Children(m) : state[s] = "ZOMBIE"}

WaitReap(c) ==
  /\ loop.op = "none"
  /\ Syscall(c, "wait") \/ InWait(c, "wait")
  /\ Zombies(Main(c)) # {}
  /\ LET z == Least(Zombies(Main(c)))
         W == {cthread[z][i] : i \in Places(z) \ {0}}
     IN  /\ state' = [s \in Slots |-> IF s \in W THEN "ZOMBIE" ELSE state[s]]
         /\ loop' = [op |-> "reap", m |-> z, pct |-> 0]
         /\ panic' = IF \E d \in CPUs : Running(d) /\ cproc[d] \in W THEN "freed" ELSE panic
  /\ lock' = c
  /\ UNCHANGED <<pid, parent, chan, killed, threadVars, schedVars, kernVars, mlfqVars, spc, cproc,
                 mproc, branch, lvl, done, mono, boostin>>

WaitDone(c) ==
  /\ Holding(c) /\ loop.op = "reap" /\ ToKill(loop.m, loop.m) = {}
  /\ Free(loop.m)
  /\ Return(c, cproc[c])
  /\ loop' = NoLoop /\ lock' = NULL
  /\ UNCHANGED <<threadVars, intrap, minpass, spc, cproc, mproc, branch, lvl, done,
                 mono, boostin>>

(* The caller sleeps on its main thread, in the loop it will resume.       *)
SleepInOwn(c, pc, np) ==                      \* mutant: on the calling thread itself
  /\ state' = [state EXCEPT ![cproc[c]] = "SLEEPING"]
  /\ chan' = [chan EXCEPT ![cproc[c]] = cproc[c]]
  /\ kop' = [kop EXCEPT ![cproc[c]] = Kop(pc, np)]
  /\ ToScheduler(c)
SleepIn(c, pc, np) ==
  /\ state' = [state EXCEPT ![cproc[c]] = "SLEEPING"]
  /\ chan' = [chan EXCEPT ![cproc[c]] = Main(c)]
  /\ kop' = [kop EXCEPT ![cproc[c]] = Kop(pc, np)]
  /\ ToScheduler(c)

WaitSleep(c) ==
  /\ loop.op = "none"
  /\ Syscall(c, "wait") \/ InWait(c, "wait")
  /\ Zombies(Main(c)) = {} /\ Children(Main(c)) # {} /\ ~killed[Main(c)]
  /\ SleepIn(c, "wait", NULL)
  /\ UNCHANGED <<pid, parent, killed, threadVars, schedVars, intrap, mlfqVars, cproc, mproc,
                 branch, lvl, done, mono, boostin, loop, panic>>

WaitFail(c) ==
  /\ loop.op = "none" /\ InWait(c, "wait")
  /\ Zombies(Main(c)) = {} /\ (Children(Main(c)) = {} \/ killed[Main(c)])
  /\ Return(c, cproc[c]) /\ lock' = NULL
  /\ UNCHANGED <<procVars, threadVars, schedVars, intrap, mlfqVars, spc, cproc, mproc, branch,
                 lvl, done, mono, boostin, loop, panic>>

-----------------------------------------------------------------------------
Yield(c) ==
  /\ Syscall(c, "yield")
  /\ state' = [state EXCEPT ![cproc[c]] = "RUNNABLE"]
  /\ ToScheduler(c)
  /\ UNCHANGED <<pid, parent, chan, killed, threadVars, schedVars, kernVars, mlfqVars,
                 cproc, mproc, branch, lvl, done, mono, boostin, loop, panic>>

(* sleep on anything that is not a process: a device, a pipe, the clock;   *)
(* and the wakeup for one thread that sleeps on such a channel.            *)
Sleep(c) ==
  /\ Syscall(c, "sleep")
  /\ state' = [state EXCEPT ![cproc[c]] = "SLEEPING"]
  /\ chan' = [chan EXCEPT ![cproc[c]] = IO]
  /\ ToScheduler(c)
  /\ UNCHANGED <<pid, parent, killed, threadVars, schedVars, kernVars, mlfqVars,
                 cproc, mproc, branch, lvl, done, mono, boostin, loop, panic>>

Wakeup(s) ==
  /\ LockFree /\ state[s] = "SLEEPING" /\ chan[s] = IO
  /\ state' = [state EXCEPT ![s] = "RUNNABLE"]
  /\ UNCHANGED <<pid, parent, chan, killed, threadVars, schedVars, kernVars, mlfqVars, cpuVars,
                 loop, panic>>

(* kill of pid t: the first slot that has it, in whatever state, and its   *)
(* main thread whatever that is doing.  Unless a program Guesses, it kills *)
(* by pids that fork has returned.                                         *)
KillStateAsleep(p, m) == state                \* mutant: nobody is woken
KillState(p, m) ==
  [state EXCEPT ![p] = IF @ = "SLEEPING" THEN "RUNNABLE" ELSE @, ![m] = "RUNNABLE"]

Kill(c) ==
  /\ Syscall(c, "kill")
  /\ \E t \in Slots \ {InitProc} :
       LET P == {s \in Slots : pid[s] = t}
           p == Least(P)
           m == mthread[p]
       IN  /\ P # {} /\ (Guesses \/ state[t] \notin {"UNUSED", "EMBRYO"})
           /\ killed' = [killed EXCEPT ![p] = TRUE, ![m] = TRUE]
           /\ state' = KillState(p, m)
  /\ UNCHANGED <<pid, parent, chan, threadVars, schedVars, kernVars, mlfqVars, cpuVars,
                 loop, panic>>

ProcessStep(c) ==
  SetShare(c) \/ PopShare(c) \/ TakeShare(c) \/ ChangeShare(c) \/ PushShare(c) \/ LeaveShare(c)
    \/ Fork(c) \/ CreateFail(c) \/ ForkCopy(c) \/ ForkDone(c) \/ Exit(c) \/ KillZombie(c)
    \/ ExitDone(c) \/ WaitReap(c) \/ WaitDone(c) \/ WaitSleep(c) \/ WaitFail(c)
    \/ Yield(c) \/ Sleep(c) \/ Kill(c)
=============================================================================
