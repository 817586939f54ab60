------------------------------- MODULE Sched --------------------------------
(***************************************************************************)
(* scheduler() on each CPU (proc.c 695-826) and the timer interrupt        *)
(* (trap.c 102-119).  One action per pass through a piece of scheduler()   *)
(* between two points at which another actor can run, or at which a loop   *)
(* of a callee goes round; ptable.lock is held in between.                 *)
(***************************************************************************)
EXTENDS Ptable

(* swtch to p.  The thread resumes in yield, sleep or forkret, which       *)
(* release ptable.lock, or in the loop of wait or thread_join, which keeps *)
(* it; an exited thread would return into panic("zombie exit").            *)
Dispatch(c, p) ==
  /\ cproc' = [cproc EXCEPT ![c] = p]
  /\ state' = [state EXCEPT ![p] = "RUNNING"]
  /\ chan' = [chan EXCEPT ![p] = NULL]
  /\ spc' = [spc EXCEPT ![c] = "run"]
  /\ lock' = IF kop[p].pc \in {"wait", "join"} THEN c ELSE NULL
  /\ panic' = IF kop[p].pc = "dead" THEN "zombie exit"
              ELSE panic

-----------------------------------------------------------------------------
(* The processes with a share whose pass is below that of the MLFQ, and    *)
(* the one scheduler() chooses: the least pass, and of equals the first.   *)
Behind ==
  IF share = 100 THEN {}
  ELSE {s \in Slots : /\ percentage[s] # 0
                      /\ state[s] \in {"SLEEPING", "RUNNABLE", "RUNNING"}
                      /\ pass[s] < 0}
Furthest ==
  Least({s \in Behind : \A t \in Behind : pass[s] <= pass[t]})

(* The top of the loop, when the MLFQ has the least pass.                  *)
PickMlfq(c) ==
  /\ spc[c] = "loop" /\ LockFree /\ Behind = {} /\ share # 0
  /\ spc' = [spc EXCEPT ![c] = "mlfq"] /\ lock' = c
  /\ branch' = [branch EXCEPT ![c] = "mlfq"]
  /\ lvl' = [lvl EXCEPT ![c] = 0]
  /\ done' = [done EXCEPT ![c] = FALSE]
  /\ mono' = [mono EXCEPT ![c] = (share = 100)]
  /\ IF share = 100
     THEN minpass' = 0 /\ UNCHANGED pass
     ELSE minpass' = Floored(-Stride(share)) /\ AdvanceMlfq(Stride(share))
  /\ UNCHANGED <<procVars, threadVars, kernVars, queue, index, share, cproc, mproc, boostin,
                 priority, ticks, curticks, percentage, inqueue, loop, panic>>

(* The top of the loop, when a process with a share has it: its threads    *)
(* take turns.  With none of them RUNNABLE the loop is continued with      *)
(* ptable.lock held, and the next acquire panics.                          *)
PickStride(c) ==
  /\ spc[c] = "loop" /\ LockFree /\ Behind # {}
  /\ LET m == Furthest
         G == {i \in Slots : cthread[m][i] # NULL /\ state[cthread[m][i]] = "RUNNABLE"}
         r == Place(rrlast[m], Distance(rrlast[m], G))
     IN  /\ mproc' = [mproc EXCEPT ![c] = m]
         /\ minpass' = pass[m]
         /\ branch' = [branch EXCEPT ![c] = "stride"]
         /\ rrlast' = [rrlast EXCEPT ![m] = r]
         /\ IF G = {}
            THEN lock' = c /\ panic' = "acquire" /\ UNCHANGED <<spc, cproc, state, chan>>
            ELSE Dispatch(c, cthread[m][r])
  /\ UNCHANGED <<pid, parent, killed, mthread, cthread, schedVars, kernVars,
                 queue, index, share, lvl, done, mono, boostin, loop>>

(* One call of top and the loop test after it: run the process found, go   *)
(* on to the next level, or leave the loop and release ptable.lock.        *)
EligibleAnyState(l) ==                        \* mutant: the state is not tested
  {k \in Slots : queue[l][k] # NULL /\ percentage[queue[l][k]] = 0}
Eligible(l) ==
  {k \in Slots : /\ queue[l][k] # NULL
                 /\ state[queue[l][k]] = "RUNNABLE"
                 /\ percentage[queue[l][k]] = 0}

RunTop(c) ==
  /\ spc[c] = "mlfq" /\ Holding(c) /\ lvl[c] < 3
  /\ LET l == lvl[c]
         r == Place(index[l], Distance(index[l], Eligible(l)))
     IN  /\ index' = [index EXCEPT ![l] = r]
         /\ IF Eligible(l) # {} /\ (mono[c] \/ ~done[c])
            THEN Dispatch(c, queue[l][r]) /\ UNCHANGED lvl
            ELSE /\ lvl' = [lvl EXCEPT ![c] = l + 1]
                 /\ UNCHANGED <<lock, spc, cproc, state, chan, panic>>
  /\ UNCHANGED <<pid, parent, killed, threadVars, schedVars, kernVars, queue, share, minpass,
                 mproc, branch, done, mono, boostin, loop>>

LeaveMlfq(c) ==
  /\ spc[c] = "mlfq" /\ Holding(c) /\ lvl[c] = 3
  /\ spc' = [spc EXCEPT ![c] = "loop"] /\ lock' = NULL
  /\ lvl' = [lvl EXCEPT ![c] = 0]             \* these locals are dead from here on
  /\ done' = [done EXCEPT ![c] = FALSE]
  /\ mono' = [mono EXCEPT ![c] = TRUE]
  /\ UNCHANGED <<procVars, threadVars, schedVars, kernVars, mlfqVars, cproc, mproc, branch,
                 boostin, loop, panic>>

-----------------------------------------------------------------------------
(* One more tick for p: ticks only matters up to the allotment.            *)
MoreTicks(p) ==
  IF ticks[p] < TimeAllotment[priority[p]] THEN ticks[p] + 1 ELSE ticks[p]
MoreCur(p) == IF curticks[p] < MaxCur THEN curticks[p] + 1 ELSE curticks[p]

(* runningticks++, seen from each CPU's nextboost.                         *)
LessBoostNever == boostin                     \* mutant: runningticks is not counted
LessBoost == [d \in CPUs |-> IF boostin[d] > 0 THEN boostin[d] - 1 ELSE 0]

(* Back from an MLFQ process: the counters, and the MLFQ's pass for the    *)
(* ticks of the quantum after the first.                                   *)
CountBack(p) ==
  IF share # 100
  THEN /\ AdvanceMlfq(Stride(share) * (MoreCur(p) - 1))
       /\ minpass' = Floored(minpass - Stride(share) * (MoreCur(p) - 1))
  ELSE UNCHANGED <<pass, minpass>>

(* ... the boost is due: boostpriority is entered, and c->proc is kept.    *)
BackBoost(c) ==
  /\ spc[c] = "back" /\ Holding(c) /\ branch[c] = "mlfq" /\ boostin[c] <= 1 /\ share # 0
  /\ LET p == cproc[c]
     IN  /\ ticks' = [ticks EXCEPT ![p] = MoreTicks(p)]
         /\ curticks' = [curticks EXCEPT ![p] = MoreCur(p)]
         /\ CountBack(p)
  /\ boostin' = [LessBoost EXCEPT ![c] = PBOOST]
  /\ done' = [done EXCEPT ![c] = TRUE]
  /\ lvl' = [lvl EXCEPT ![c] = 0]
  /\ spc' = [spc EXCEPT ![c] = "boost"]
  /\ UNCHANGED <<procVars, threadVars, priority, percentage, inqueue, kernVars,
                 queue, index, share, lock, cproc, mproc, branch, mono, loop, panic>>

(* One process that boostpriority moves to the highest queue: the next one *)
(* of level 1 in cyclic order from its index, then of level 2.             *)
Occupied(l) == {k \in Slots : queue[l][k] # NULL}

BoostMove(c) ==
  /\ spc[c] = "boost" /\ Holding(c)
  /\ \E l \in {1, 2} :
       /\ Occupied(l) # {}
       /\ l = 2 => Occupied(1) = {}
       /\ LET r == Place(index[l], Distance(index[l], Occupied(l)))
              p == queue[l][r]
          IN  /\ priority' = [priority EXCEPT ![p] = 0]
              /\ ticks' = [ticks EXCEPT ![p] = 0]
              /\ curticks' = [curticks EXCEPT ![p] = 0]
              /\ index' = [index EXCEPT ![l] = r]
              /\ IF Full(queue[0])
                 THEN panic' = "push" /\ UNCHANGED <<queue, inqueue>>
                 ELSE /\ queue' = [queue EXCEPT ![0] = Pushed(@, p), ![l] = [@ EXCEPT ![r] = NULL]]
                      /\ inqueue' = [inqueue EXCEPT ![p] = TRUE]
                      /\ UNCHANGED panic
  /\ UNCHANGED <<procVars, threadVars, percentage, pass, kernVars, share, minpass, cpuVars, loop>>

BoostEnd(c) ==
  /\ spc[c] = "boost" /\ Holding(c) /\ Occupied(1) = {} /\ Occupied(2) = {}
  /\ index' = [index EXCEPT ![1] = 0, ![2] = 0]
  /\ spc' = [spc EXCEPT ![c] = "mlfq"]
  /\ UNCHANGED <<procVars, threadVars, schedVars, kernVars, queue, share, minpass,
                 lock, cproc, mproc, branch, lvl, done, mono, boostin, loop, panic>>

(* droppriority: pop p from wherever it is, push it one level below its    *)
(* priority.                                                               *)
MustDrop(p) == priority[p] # 2 /\ MoreTicks(p) >= TimeAllotment[priority[p]]

DropPriority(p) ==
  IF ~Queued(queue, p)
  THEN panic' = "pop" /\ UNCHANGED <<queue, index, inqueue, priority, ticks>>
  ELSE LET q == Popped(queue, p)
           n == priority[p] + 1
       IN  /\ index' = [index EXCEPT ![LevelOf(queue, p)] = PlaceOf(queue[LevelOf(queue, p)], p)]
           /\ IF Full(q[n])
              THEN panic' = "push" /\ queue' = q /\ inqueue' = [inqueue EXCEPT ![p] = FALSE]
              ELSE /\ queue' = [q EXCEPT ![n] = Pushed(@, p)]
                   /\ UNCHANGED <<inqueue, panic>>
           /\ priority' = [priority EXCEPT ![p] = n]
           /\ ticks' = [ticks EXCEPT ![p] = 0]

(* ... no boost: drop the priority if the allotment is used up, and stop   *)
(* monopolising if mproc, which only a stride choice ever set, has a share.*)
BackMlfq(c) ==
  /\ spc[c] = "back" /\ Holding(c) /\ branch[c] = "mlfq" /\ boostin[c] > 1 /\ share # 0
  /\ CountBack(cproc[c])
  /\ boostin' = LessBoost
  /\ done' = [done EXCEPT ![c] = TRUE]
  /\ curticks' = [curticks EXCEPT ![cproc[c]] = 0]
  /\ IF MustDrop(cproc[c])
     THEN DropPriority(cproc[c])
     ELSE /\ ticks' = [ticks EXCEPT ![cproc[c]] = MoreTicks(cproc[c])]
          /\ UNCHANGED <<priority, queue, index, inqueue, panic>>
  /\ \E b \in IF mproc[c] = NULL THEN NullRead ELSE {percentage[mproc[c]] # 0} :
       mono' = [mono EXCEPT ![c] = @ /\ ~b]
  /\ cproc' = [cproc EXCEPT ![c] = NULL]
  /\ spc' = [spc EXCEPT ![c] = "mlfq"]
  /\ UNCHANGED <<procVars, threadVars, percentage, kernVars, share, lock, mproc, branch,
                 lvl, loop>>

(* Negative shares can leave the MLFQ none: the division by its share, at  *)
(* the top of the loop or back from a process, is a trap in the kernel.    *)
MlfqDivide(c) ==
  /\ share = 0
  /\ \/ spc[c] = "loop" /\ LockFree /\ Behind = {}
     \/ spc[c] = "back" /\ Holding(c) /\ branch[c] = "mlfq"
  /\ panic' = "divide"
  /\ UNCHANGED <<procVars, threadVars, schedVars, kernVars, mlfqVars, cpuVars, loop>>

(* Back from a thread of a process with a share.                           *)
BackStride(c) ==
  /\ spc[c] = "back" /\ Holding(c) /\ branch[c] = "stride"
  /\ LET m == mproc[c]
     IN  IF percentage[m] = 0
         THEN panic' = "divide" /\ UNCHANGED <<pass, spc, lock, cproc>>
         ELSE /\ pass' = [pass EXCEPT ![m] = Floored(@ + Stride(percentage[m]))]
              /\ spc' = [spc EXCEPT ![c] = "loop"] /\ lock' = NULL
              /\ cproc' = [cproc EXCEPT ![c] = NULL]
              /\ UNCHANGED panic
  /\ UNCHANGED <<procVars, threadVars, priority, ticks, curticks, percentage, inqueue,
                 kernVars, mlfqVars, mproc, branch, lvl, done, mono, boostin, loop>>

-----------------------------------------------------------------------------
(* yield() of the thread on c.                                             *)
GiveUpNoSched(c) ==                           \* mutant: does not switch
  LockFree /\ state' = [state EXCEPT ![cproc[c]] = "RUNNABLE"] /\ UNCHANGED <<spc, lock>>
GiveUp(c) ==
  /\ LockFree
  /\ state' = [state EXCEPT ![cproc[c]] = "RUNNABLE"]
  /\ ToScheduler(c)

QuantumUp(p) == (curticks[p] + 1) % TimeQuantum[priority[p]] = 0

(* The tick is counted, without ptable.lock: on several CPUs the increment *)
(* of runningticks may be lost.                                            *)
CountTick(c) ==
  LET p == cproc[c]
  IN  /\ ticks' = [ticks EXCEPT ![p] = MoreTicks(p)]
      /\ curticks' = [curticks EXCEPT ![p] = MoreCur(p)]
      /\ boostin' \in {LessBoost} \cup (IF CPUs = {c} THEN {} ELSE {boostin})

(* The timer interrupts the thread on c.  In user mode a killed process    *)
(* exits instead (Process!Exit).                                           *)
Interrupted(c) ==
  /\ Running(c) /\ lock # c /\ ~intrap[cproc[c]] /\ state[cproc[c]] = "RUNNING"
  /\ kop[cproc[c]].pc = "user" => ~killed[Main(c)]

TickStride(c) ==        \* the first yield of a process with a share
  /\ Interrupted(c) /\ percentage[Main(c)] # 0
  /\ GiveUp(c)
  /\ intrap' = [intrap EXCEPT ![cproc[c]] = TRUE]
  /\ UNCHANGED <<pid, parent, chan, killed, threadVars, schedVars, kop, mlfqVars,
                 cproc, mproc, branch, lvl, done, mono, boostin, loop, panic>>

TickYield(c) ==         \* the quantum of an MLFQ process is used up
  /\ Interrupted(c) /\ percentage[Main(c)] = 0 /\ QuantumUp(cproc[c])
  /\ GiveUp(c)
  /\ UNCHANGED <<pid, parent, chan, killed, threadVars, schedVars, kernVars, mlfqVars,
                 cproc, mproc, branch, lvl, done, mono, boostin, loop, panic>>

TickCount(c) ==         \* it is not
  /\ Interrupted(c) /\ percentage[Main(c)] = 0 /\ ~QuantumUp(cproc[c])
  /\ CountTick(c)
  /\ UNCHANGED <<procVars, threadVars, priority, percentage, pass, inqueue, kernVars, mlfqVars,
                 lock, spc, cproc, mproc, branch, lvl, done, mono, loop, panic>>

(* The rest of the interrupt after the first yield has returned.           *)
TrapYield(c) ==
  /\ Running(c) /\ intrap[cproc[c]] /\ QuantumUp(cproc[c])
  /\ GiveUp(c)
  /\ intrap' = [intrap EXCEPT ![cproc[c]] = FALSE]
  /\ UNCHANGED <<pid, parent, chan, killed, threadVars, schedVars, kop, mlfqVars,
                 cproc, mproc, branch, lvl, done, mono, boostin, loop, panic>>

TrapCount(c) ==
  /\ Running(c) /\ intrap[cproc[c]] /\ ~QuantumUp(cproc[c])
  /\ CountTick(c)
  /\ intrap' = [intrap EXCEPT ![cproc[c]] = FALSE]
  /\ UNCHANGED <<procVars, threadVars, priority, percentage, pass, inqueue, kop, mlfqVars,
                 lock, spc, cproc, mproc, branch, lvl, done, mono, loop, panic>>

(* The timer interrupts an idle CPU whose c->proc still names a process    *)
(* that another CPU runs: yield() switches away from a stack c is not on.  *)
TickIdle(c) ==
  /\ spc[c] = "loop" /\ LockFree
  /\ cproc[c] # NULL /\ state[cproc[c]] = "RUNNING"
  /\ panic' = "stale"
  /\ UNCHANGED <<procVars, threadVars, schedVars, kernVars, mlfqVars, cpuVars, loop>>

Schedule(c) ==
  PickMlfq(c) \/ PickStride(c) \/ RunTop(c) \/ LeaveMlfq(c) \/ BackBoost(c) \/ BoostMove(c)
    \/ BoostEnd(c) \/ BackMlfq(c) \/ MlfqDivide(c) \/ BackStride(c)
Timer(c) ==
  TickStride(c) \/ TickYield(c) \/ TickCount(c) \/ TrapYield(c) \/ TrapCount(c) \/ TickIdle(c)
=============================================================================
