------------------------------- MODULE Thread -------------------------------
(***************************************************************************)
(* The light-weight processes of thread.c.  thread_create allocates a slot *)
(* (Process!AllocProc), takes a place and a stack in the main thread's     *)
(* cthread array, and starts the thread; ptable.lock is free in between.   *)
(***************************************************************************)
EXTENDS Process

(* Without a free place for its stack the thread is given up.  The copyout *)
(* of its first frame cannot fail: the page has just been cleared.         *)
ThreadCreate(c) == StartCreate(c, "thread_create", "create")

ThreadStack(c) ==
  /\ Running(c) /\ LockFree /\ ~intrap[cproc[c]] /\ kop[cproc[c]].pc = "create"
  /\ LET m == Main(c)
         np == kop[cproc[c]].np
         E == Slots \ Places(m)
     IN  IF E = {}
         THEN /\ state' = [state EXCEPT ![np] = "UNUSED"]
              /\ Return(c, cproc[c])
              /\ UNCHANGED cthread
         ELSE /\ cthread' = [cthread EXCEPT ![m][Least(E)] = np]
              /\ kop' = [kop EXCEPT ![cproc[c]].pc = "created"]
              /\ UNCHANGED state
  /\ UNCHANGED <<pid, parent, chan, killed, mthread, rrlast, schedVars, intrap, mlfqVars, cpuVars,
                 loop, panic>>

ThreadStart(c) ==
  /\ Running(c) /\ LockFree /\ ~intrap[cproc[c]] /\ kop[cproc[c]].pc = "created"
  /\ LET m == Main(c)
         np == kop[cproc[c]].np
     IN  /\ pid' = [pid EXCEPT ![np] = pid[m]]
         /\ mthread' = [mthread EXCEPT ![np] = m]
         /\ parent' = [parent EXCEPT ![np] = parent[m]]
         /\ cthread' = [cthread EXCEPT ![np][0] = NULL]
         /\ state' = [state EXCEPT ![np] = "RUNNABLE"]
         /\ IF percentage[m] = 0 /\ ~inqueue[np]
            THEN InitPush(np)
            ELSE UNCHANGED <<queue, index, inqueue, panic>>
  /\ Return(c, cproc[c])
  /\ UNCHANGED <<chan, killed, rrlast, priority, ticks, curticks, percentage, pass, intrap,
                 share, minpass, cpuVars, loop>>

(* thread_exit of a worker: whoever waits on the main thread is woken.     *)
ThreadExit(c) ==
  /\ Syscall(c, "thread_exit") /\ cproc[c] # Main(c)
  /\ state' = [Woken(state, Main(c)) EXCEPT ![cproc[c]] = "ZOMBIE"]
  /\ kop' = [kop EXCEPT ![cproc[c]] = Kop("dead", NULL)]
  /\ ToScheduler(c)
  /\ UNCHANGED <<pid, parent, chan, killed, threadVars, schedVars, intrap, mlfqVars, cproc, mproc,
                 branch, lvl, done, mono, boostin, loop, panic>>

(* thread_join of thread t of the caller's process, called or resumed.     *)
Joining(c, t) ==
  /\ loop.op = "none"
  /\ \/ Syscall(c, "thread_join")
     \/ InWait(c, "join") /\ kop[cproc[c]].np = t
JoinPlaces(c, t) == {i \in Places(Main(c)) \ {0} : cthread[Main(c)][i] = t}

JoinReap(c) ==
  /\ \E t \in Slots :
       /\ Joining(c, t) /\ JoinPlaces(c, t) # {} /\ state[t] = "ZOMBIE"
       /\ state' = [state EXCEPT ![t] = "UNUSED"]
       /\ pid' = [pid EXCEPT ![t] = NULL]
       /\ parent' = [parent EXCEPT ![t] = NULL]
       /\ killed' = [killed EXCEPT ![t] = FALSE]
       /\ mthread' = [mthread EXCEPT ![t] = NULL]
       /\ cthread' = [cthread EXCEPT ![Main(c)][Least(JoinPlaces(c, t))] = NULL]
       /\ PopIfQueued(t)
       /\ ticks' = [ticks EXCEPT ![t] = 0]
       /\ curticks' = [curticks EXCEPT ![t] = 0]
       /\ priority' = [priority EXCEPT ![t] = 0]
       /\ percentage' = [percentage EXCEPT ![t] = 0]
       /\ pass' = [pass EXCEPT ![t] = 0]
       /\ kop' = [s \in Slots |->
                    IF s = cproc[c] THEN Kop("user", NULL)
                    ELSE IF kop[s].pc = "join" /\ kop[s].np = t THEN Kop("join", NULL)
                    ELSE kop[s]]
  /\ lock' = NULL
  /\ UNCHANGED <<chan, rrlast, intrap, share, minpass, spc, cproc, mproc, branch, lvl, done,
                 mono, boostin, loop>>

JoinSleep(c) ==
  /\ \E t \in Slots :
       /\ Joining(c, t) /\ JoinPlaces(c, t) # {} /\ state[t] # "ZOMBIE" /\ ~killed[Main(c)]
       /\ SleepIn(c, "join", t)
  /\ UNCHANGED <<pid, parent, killed, threadVars, schedVars, intrap, mlfqVars, cproc, mproc,
                 branch, lvl, done, mono, boostin, loop, panic>>

JoinFail(c) ==
  /\ loop.op = "none" /\ InWait(c, "join")
  /\ LET t == kop[cproc[c]].np
     IN  JoinPlaces(c, t) # {} => state[t] # "ZOMBIE" /\ killed[Main(c)]
  /\ Return(c, cproc[c]) /\ lock' = NULL
  /\ UNCHANGED <<procVars, threadVars, schedVars, intrap, mlfqVars, spc, cproc, mproc, branch,
                 lvl, done, mono, boostin, loop, panic>>

ThreadStep(c) ==
  ThreadCreate(c) \/ ThreadStack(c) \/ ThreadStart(c) \/ ThreadExit(c)
    \/ JoinReap(c) \/ JoinSleep(c) \/ JoinFail(c)
=============================================================================
