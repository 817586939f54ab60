---------------------------- MODULE FamilyProofs ----------------------------
(***************************************************************************)
(* The process tree stays intact, no wakeup of wait or thread_join is      *)
(* lost, and a zombie stays one; then, no ticket is lost and no thread     *)
(* falls between the two schedulers; all as long as nobody calls kill, for *)
(* every number of slots, CPUs and ticks and every share that              *)
(* set_cpu_share may be asked for.  And no assertion of the kernel fails   *)
(* on one CPU, as long as nobody asks for a share either.                  *)
(*                                                                         *)
(* IndInv, which KernelProofs proves, says what a slot is; TreeInv, proved *)
(* here, who belongs to whom and who wakes whom.                           *)
(***************************************************************************)
EXTENDS KernelProofs

USE DEF Holding, LockFree, Running, Main

(* Steps that leave the process tree alone: threads that may run go on and *)
(* off the CPUs, sleep on a device, wake up and return from calls.         *)
Calm ==
  /\ UNCHANGED <<parent, mthread, cthread>>
  /\ \A s \in Slots : kop'[s] = kop[s] \/ (state[s] = "RUNNING" /\ kop'[s] = Kop("user", NULL))
  /\ \A s \in Slots :
       \/ state'[s] = state[s] /\ chan'[s] = chan[s]
       \/ Live(s) /\ state'[s] \in {"RUNNABLE", "RUNNING"}
       \/ state[s] = "RUNNING" /\ state'[s] = "SLEEPING" /\ kop'[s].pc = "user"
  /\ UNCHANGED loop \/ (loop.op # "exit" /\ loop'.op # "exit")

LEMMA DispatchCalm ==
  ASSUME TypeOK, NEW c \in CPUs, NEW p \in Slots, state[p] = "RUNNABLE", Dispatch(c, p),
         UNCHANGED <<parent, mthread, cthread, kop, loop>>
  PROVE  Calm
<1>1. /\ \A s \in Slots : s # p => state'[s] = state[s] /\ chan'[s] = chan[s]
      /\ state'[p] = "RUNNING"
  BY DEF Dispatch, TypeOK
<1> QED
  BY <1>1 DEF Calm, Live

LEMMA ScheduleCalm ==
  ASSUME IndInv, panic = "none", NEW c \in CPUs, Schedule(c)
  PROVE  Calm
<1>0. TypeOK
  BY DEF IndInv
<1>1. CASE PickStride(c)
  <2> DEFINE m == Furthest
             G == {i \in Slots : cthread[m][i] # NULL /\ state[cthread[m][i]] = "RUNNABLE"}
             r == Place(rrlast[m], Distance(rrlast[m], G))
             p == cthread[m][r]
  <2>1. m \in Slots
    BY <1>0, <1>1, FurthestIs DEF PickStride, Behind
  <2>2. rrlast[m] \in -1 .. (NPROC - 1) /\ G \in SUBSET Slots
    <3>1. rrlast[m] \in Slots
      BY <2>1, <1>0 DEF TypeOK
    <3> QED
      BY <3>1, NprocAssumption DEF Slots
  <2>3. r \in Slots /\ (G # {} => r \in G)
    BY <2>2, DistanceIs, PlaceIs
  <2>4. G # {} => p \in Slots /\ state[p] = "RUNNABLE"
    BY <1>0, <2>1, <2>3 DEF TypeOK, SlotOrNull
  <2>5. /\ IF G = {} THEN lock' = c /\ panic' = "acquire" /\ UNCHANGED <<spc, cproc, state, chan>>
           ELSE Dispatch(c, p)
        /\ UNCHANGED <<parent, mthread, cthread, kop, loop>>
    BY <1>1 DEF PickStride, kernVars
  <2> HIDE DEF m, G, r, p
  <2>6. CASE G = {}
    BY <2>5, <2>6 DEF Calm
  <2>7. CASE G # {}
    BY <1>0, <2>4, <2>5, <2>7, DispatchCalm
  <2> QED
    BY <2>6, <2>7
<1>2. CASE RunTop(c)
  <2> DEFINE l == lvl[c]
             r == Place(index[l], Distance(index[l], Eligible(l)))
             p == queue[l][r]
             run == Eligible(l) # {} /\ (mono[c] \/ ~done[c])
  <2>1. l \in Levels
    BY <1>0, <1>2 DEF TypeOK, RunTop, Levels
  <2>2. index[l] \in -1 .. (NPROC - 1) /\ Eligible(l) \in SUBSET Slots
    BY <1>0, <2>1 DEF TypeOK, Eligible
  <2>3. r \in Slots /\ (Eligible(l) # {} => r \in Eligible(l))
    BY <2>2, DistanceIs, PlaceIs
  <2>4. run => p \in Slots /\ state[p] = "RUNNABLE"
    <3> HIDE DEF r, l
    <3>1. run => r \in Slots /\ queue[l][r] # NULL /\ state[queue[l][r]] = "RUNNABLE"
      BY <2>3 DEF Eligible
    <3>2. queue[l][r] \in SlotOrNull
      BY <1>0, <2>1, <2>3 DEF TypeOK
    <3> QED
      BY <3>1, <3>2 DEF SlotOrNull
  <2>5. /\ IF run THEN Dispatch(c, p) /\ UNCHANGED lvl
           ELSE lvl' = [lvl EXCEPT ![c] = l + 1] /\ UNCHANGED <<lock, spc, cproc, state, chan, panic>>
        /\ UNCHANGED <<parent, mthread, cthread, kop, loop>>
    BY <1>2 DEF RunTop, threadVars, kernVars
  <2> HIDE DEF l, r, p, run
  <2>6. CASE ~run
    BY <2>5, <2>6 DEF Calm
  <2>7. CASE run
    BY <1>0, <2>4, <2>5, <2>7, DispatchCalm
  <2> QED
    BY <2>6, <2>7
<1>3. CASE ~PickStride(c) /\ ~RunTop(c)
  <2>1. UNCHANGED <<parent, mthread, cthread, state, chan, kop, loop>>
    BY <1>3 DEF Schedule, MlfqDivide, PickMlfq, LeaveMlfq, BackBoost, BoostMove, BoostEnd, BackMlfq,
                BackStride, procVars, threadVars, kernVars
  <2> QED
    BY <2>1 DEF Calm
<1> QED
  BY <1>1, <1>2, <1>3

LEMMA TimerCalm ==
  ASSUME IndInv, panic = "none", NEW c \in CPUs, Timer(c)
  PROVE  Calm
<1>0. TypeOK /\ Control /\ Structure
  BY DEF IndInv, Structure
<1>1. CASE TickStride(c) \/ TickYield(c) \/ TrapYield(c)
  <2>1. Running(c) /\ GiveUp(c) /\ UNCHANGED <<parent, mthread, cthread, chan, kop, loop>>
    BY <1>1 DEF TickStride, TickYield, TrapYield, Interrupted, threadVars, kernVars
  <2>2. loop.op = "none"
    BY <2>1, FreeCall DEF GiveUp
  <2>3. cproc[c] \in Slots /\ state[cproc[c]] = "RUNNING"
    BY <1>0, <2>1, <2>2, OnCpu
  <2>4. \A s \in Slots : state'[s] = IF s = cproc[c] THEN "RUNNABLE" ELSE state[s]
    BY <1>0, <2>1 DEF GiveUp, TypeOK
  <2> QED
    BY <2>1, <2>3, <2>4 DEF Calm, Live
<1>2. CASE TickCount(c) \/ TrapCount(c) \/ TickIdle(c)
  <2>1. UNCHANGED <<parent, mthread, cthread, state, chan, kop, loop>>
    BY <1>2 DEF TickCount, TrapCount, TickIdle, procVars, threadVars, kernVars
  <2> QED
    BY <2>1 DEF Calm
<1> QED
  BY <1>1, <1>2 DEF Timer

(* The calls on shares, and those that only give up the CPU or return.     *)
LEMMA CallCalm ==
  ASSUME IndInv, panic = "none", NEW c \in CPUs,
         \/ SetShare(c) \/ PopShare(c) \/ TakeShare(c) \/ ChangeShare(c) \/ PushShare(c)
         \/ LeaveShare(c) \/ Yield(c) \/ Sleep(c) \/ WaitFail(c) \/ JoinFail(c)
  PROVE  Calm
<1>0. TypeOK
  BY DEF IndInv
<1>1. CASE \/ SetShare(c) \/ PopShare(c) \/ TakeShare(c) \/ ChangeShare(c) \/ PushShare(c)
           \/ LeaveShare(c)
  <2>1. UNCHANGED <<parent, mthread, cthread, state, chan, kop>>
    BY <1>1 DEF SetShare, PopShare, TakeShare, ChangeShare, PushShare, LeaveShare, procVars,
                threadVars, kernVars
  <2>2. UNCHANGED loop \/ (loop.op # "exit" /\ loop'.op # "exit")
    <3>1. CASE SetShare(c) \/ ChangeShare(c)
      <4>1. loop.op = "none"
        BY <3>1, FreeCall DEF SetShare, ChangeShare, Syscall, InUser
      <4> QED
        BY <3>1, <4>1 DEF SetShare, ChangeShare
    <3>2. CASE PopShare(c) \/ TakeShare(c) \/ PushShare(c) \/ LeaveShare(c)
      BY <3>2 DEF PopShare, TakeShare, PushShare, LeaveShare, NoLoop
    <3> QED
      BY <1>1, <3>1, <3>2
  <2> QED
    BY <2>1, <2>2 DEF Calm
<1>2. CASE Yield(c) \/ Sleep(c)
  <2>1. /\ Running(c) /\ lock = NULL /\ kop[cproc[c]].pc = "user"
        /\ UNCHANGED <<parent, mthread, cthread, kop, loop>>
    BY <1>2 DEF Yield, Sleep, Syscall, InUser, threadVars, kernVars
  <2>2. cproc[c] \in Slots /\ state[cproc[c]] = "RUNNING"
    BY <2>1, FreeCall, CallIs
  <2>3. /\ state'[cproc[c]] \in {"RUNNABLE", "SLEEPING"}
        /\ \A s \in Slots : s # cproc[c] => state'[s] = state[s] /\ chan'[s] = chan[s]
    BY <1>0, <1>2, <2>2 DEF Yield, Sleep, TypeOK
  <2> QED
    BY <2>1, <2>2, <2>3 DEF Calm, Live
<1>3. CASE WaitFail(c) \/ JoinFail(c)
  <2>1. /\ Running(c) /\ lock = c /\ loop.op = "none"
        /\ kop' = [kop EXCEPT ![cproc[c]] = Kop("user", NULL)]
        /\ UNCHANGED <<parent, mthread, cthread, state, chan, loop>>
    BY <1>3 DEF WaitFail, JoinFail, InWait, Return, procVars, threadVars
  <2>2. cproc[c] \in Slots /\ state[cproc[c]] = "RUNNING"
    BY <2>1, CallIs
  <2>3. \A s \in Slots : kop'[s] = IF s = cproc[c] THEN Kop("user", NULL) ELSE kop[s]
    BY <1>0, <2>1 DEF TypeOK
  <2> QED
    BY <2>1, <2>2, <2>3 DEF Calm
<1> QED
  BY <1>1, <1>2, <1>3

LEMMA WakeupCalm ==
  ASSUME IndInv, NEW s \in Slots, Wakeup(s)
  PROVE  Calm
<1>1. \A u \in Slots : u # s => state'[u] = state[u]
  BY DEF Wakeup, IndInv, TypeOK
<1>2. state[s] = "SLEEPING" /\ state'[s] = "RUNNABLE"
  BY DEF Wakeup, IndInv, TypeOK
<1> QED
  BY <1>1, <1>2 DEF Wakeup, Calm, Live, threadVars, kernVars

LEMMA StutterCalm ==
  ASSUME UNCHANGED vars
  PROVE  Calm
BY DEF vars, procVars, threadVars, kernVars, Calm

-----------------------------------------------------------------------------
TreeCore == InitLives /\ ZombieThreads /\ ExitLoop /\ Parents /\ NoCycle /\ ForkParent

(* A process that has not been reaped, or a thread that an exit cut off.   *)
Unreaped(s) == (Live(s) \/ state[s] = "ZOMBIE") /\ mthread[s] = s

(* Steps that make, end or move no process: main threads stay alive, and   *)
(* keep parent and state of exit; the array of a live process may get an   *)
(* entry, other entries stay or go; an exit in progress frees entries.     *)
MainsKept ==
  /\ \A s \in Slots : Live(s) /\ mthread[s] = s => Live(s)' /\ mthread'[s] = s
  /\ \A s \in Slots : Unreaped(s)' =>
       Unreaped(s) /\ parent'[s] = parent[s] /\ (state'[s] = "ZOMBIE" => state[s] = "ZOMBIE")
ArraysKept ==
  \A m \in Slots : \A i \in Positive : cthread'[m][i] # NULL =>
    \/ /\ cthread'[m][i] = cthread[m][i]
       /\ state[cthread[m][i]] = "ZOMBIE" =>
            state'[cthread[m][i]] = "ZOMBIE" /\ mthread'[cthread[m][i]] = mthread[cthread[m][i]]
    \/ Live(m) /\ m # InitProc
ExitKept ==
  /\ loop.op # "exit" => loop'.op # "exit"
  /\ loop.op = "exit" =>
       /\ UNCHANGED loop
       /\ state[loop.m] = "ZOMBIE" =>
            state'[loop.m] = "ZOMBIE" /\ mthread'[loop.m] = mthread[loop.m]
       /\ \A i \in Positive : cthread[loop.m][i] # NULL /\ state'[cthread[loop.m][i]] # "UNUSED" =>
            cthread'[loop.m][i] = cthread[loop.m][i]
ForksKept ==
  /\ kop'[InitProc].pc \notin {"create", "created"}
  /\ \A t \in Slots : Creates(t)' /\ kop'[t].pc = "forked" =>
       \/ parent'[kop'[t].np] = mthread'[t]
       \/ /\ Creates(t) /\ kop'[t] = kop[t] /\ mthread'[t] = mthread[t]
          /\ parent'[kop[t].np] = parent[kop[t].np]
Tame == MainsKept /\ ArraysKept /\ ExitKept /\ ForksKept

(* The main threads that count are the old ones.                           *)
LEMMA MainsShrink ==
  ASSUME TypeOK, Control, MainsKept, ExitKept
  PROVE  Mains' \subseteq Mains
<1> SUFFICES ASSUME NEW s \in Slots, Unreaped(s)', ~CutOff(s)', CutOff(s)
             PROVE  FALSE
  BY DEF Mains, Unreaped, MainsKept
<1>1. loop.op = "exit" /\ loop.m \in Slots
  BY DEF CutOff, Control, CtlLock
<1>2. PICK i \in Positive : cthread[loop.m][i] = s
  BY DEF CutOff
<1>3. s # NULL /\ state'[s] # "UNUSED"
  BY NullIsNoSlot DEF Unreaped, Live
<1>4. cthread'[loop.m][i] = s /\ loop' = loop
  BY <1>1, <1>2, <1>3 DEF ExitKept
<1> QED
  BY <1>1, <1>4 DEF CutOff

LEMMA TameCore ==
  ASSUME TypeOK, Control, TreeCore, Tame
  PROVE  TreeCore'
<1> USE DEF Tame
<1>0. Mains' \subseteq Mains /\ Mains \subseteq Slots
  BY MainsShrink DEF Mains
<1>1. \A s \in Mains' : s \in Mains /\ parent'[s] = parent[s]
  BY <1>0 DEF Mains, MainsKept, Unreaped
<1>2. Parents'
  BY <1>0, <1>1 DEF TreeCore, Parents, MainsKept
<1>3. NoCycle'
  <2> SUFFICES ASSUME NEW C \in SUBSET (Mains \ {InitProc})', C # {}
               PROVE  \E s \in C : parent'[s] \notin C
    BY DEF NoCycle
  <2>1. C \in SUBSET (Mains \ {InitProc})
    BY <1>0
  <2>2. PICK s \in C : parent[s] \notin C
    BY <2>1 DEF TreeCore, NoCycle
  <2>3. parent'[s] = parent[s]
    BY <1>1, <2>2
  <2> QED
    BY <2>2, <2>3
<1>4. ForkParent'
  <2> SUFFICES ASSUME NEW t \in Slots, Creates(t)', kop'[t].pc = "forked"
               PROVE  parent'[kop'[t].np] = mthread'[t]
    BY DEF ForkParent
  <2>1. \/ parent'[kop'[t].np] = mthread'[t]
        \/ /\ Creates(t) /\ kop'[t] = kop[t] /\ mthread'[t] = mthread[t]
           /\ parent'[kop[t].np] = parent[kop[t].np]
    BY DEF ForksKept
  <2> QED
    BY <2>1 DEF TreeCore, ForkParent
<1>5. ExitLoop'
  BY DEF TreeCore, ExitLoop, ExitKept
<1>6. ZombieThreads'
  <2> SUFFICES ASSUME NEW m \in Slots, state'[m] = "ZOMBIE", mthread'[m] = m,
                      NEW i \in Positive, cthread'[m][i] # NULL
               PROVE  /\ state'[cthread'[m][i]] = "ZOMBIE"
                      /\ mthread'[cthread'[m][i]] = m \/ (loop'.op = "exit" /\ loop'.m = m)
    BY DEF ZombieThreads
  <2>1. state[m] = "ZOMBIE" /\ mthread[m] = m
    BY DEF MainsKept, Unreaped
  <2>2. /\ cthread'[m][i] = cthread[m][i]
        /\ state[cthread[m][i]] = "ZOMBIE" =>
             state'[cthread[m][i]] = "ZOMBIE" /\ mthread'[cthread[m][i]] = mthread[cthread[m][i]]
    BY <2>1 DEF ArraysKept, Live
  <2>3. /\ state[cthread[m][i]] = "ZOMBIE"
        /\ mthread[cthread[m][i]] = m \/ (loop.op = "exit" /\ loop.m = m)
    BY <2>1, <2>2 DEF TreeCore, ZombieThreads
  <2> QED
    BY <2>2, <2>3 DEF ExitKept
<1>7. InitLives'
  <2>1. InitProc \in Slots
    BY NullIsNoSlot DEF InitProc
  <2>2. Live(InitProc)' /\ mthread'[InitProc] = InitProc
    BY <2>1 DEF TreeCore, InitLives, MainsKept
  <2>3. \A i \in Positive : cthread'[InitProc][i] = NULL
    BY <2>1 DEF TreeCore, InitLives, ArraysKept
  <2> QED
    BY <2>2, <2>3 DEF InitLives, ForksKept
<1> QED
  BY <1>2, <1>3, <1>4, <1>5, <1>6, <1>7 DEF TreeCore

(* What Sleepers says of s.                                                *)
Sound(s) ==
  /\ chan[s] = mthread[s]
  /\ kop[s].pc = "wait" => Zombies(mthread[s]) = {}
  /\ kop[s].pc = "join" =>
       /\ kop[s].np \in Slots /\ state[kop[s].np] # "ZOMBIE"
       /\ \E i \in Positive : cthread[mthread[s]][i] = kop[s].np

(* Steps that put nobody to sleep wrongly in wait or thread_join, leave    *)
(* the places of threads that have not exited alone, and wake whoever      *)
(* sleeps on a process that a thread leaves.                               *)
Drowsy ==
  /\ \A s \in Slots : state'[s] = "SLEEPING" =>
       \/ kop'[s].pc \notin {"wait", "join"}
       \/ state[s] = "SLEEPING" /\ kop'[s] = kop[s] /\ chan'[s] = chan[s] /\ mthread'[s] = mthread[s]
       \/ Sound(s)'
  /\ \A m \in Slots : \A i \in Positive :
       cthread[m][i] # NULL /\ state[cthread[m][i]] # "ZOMBIE" =>
         /\ cthread'[m][i] = cthread[m][i]
         /\ \/ state'[cthread[m][i]] # "ZOMBIE"
            \/ \A s \in Slots : state'[s] = "SLEEPING" => chan'[s] # m

NoNewZombie ==
  \A s \in Slots : state'[s] = "ZOMBIE" /\ mthread'[s] = s =>
    state[s] = "ZOMBIE" /\ mthread[s] = s /\ parent'[s] = parent[s]

LEMMA DrowsySleepers ==
  ASSUME TypeOK, Family, Sleepers, NoNewZombie, Drowsy
  PROVE  Sleepers'
<1> SUFFICES ASSUME NEW s \in Slots, state'[s] = "SLEEPING", kop'[s].pc \in {"wait", "join"},
                    ~Sound(s)'
             PROVE  /\ chan'[s] = mthread'[s]
                    /\ kop'[s].pc = "wait" => Zombies(mthread[s])' = {}
                    /\ kop'[s].pc = "join" =>
                         /\ kop'[s].np \in Slots /\ state'[kop'[s].np] # "ZOMBIE"
                         /\ \E i \in Positive : cthread'[mthread'[s]][i] = kop'[s].np
  BY DEF Sleepers, Sound
<1>1. /\ state[s] = "SLEEPING" /\ kop'[s] = kop[s] /\ chan'[s] = chan[s] /\ mthread'[s] = mthread[s]
  BY DEF Drowsy
<1>2. mthread[s] \in Slots
  BY <1>1 DEF Family, FamOwn
<1>3. /\ chan[s] = mthread[s]
      /\ kop[s].pc = "wait" => Zombies(mthread[s]) = {}
      /\ kop[s].pc = "join" =>
           /\ kop[s].np \in Slots /\ state[kop[s].np] # "ZOMBIE"
           /\ \E i \in Positive : cthread[mthread[s]][i] = kop[s].np
  BY <1>1 DEF Sleepers
<1>4. ASSUME kop[s].pc = "wait" PROVE Zombies(mthread[s])' = {}
  <2> SUFFICES ASSUME NEW z \in Slots, parent'[z] = mthread'[s], mthread'[z] = z, state'[z] = "ZOMBIE"
               PROVE  FALSE
    BY DEF Zombies, Children
  <2>1. mthread[z] = z /\ parent'[z] = parent[z] /\ state[z] = "ZOMBIE"
    BY DEF NoNewZombie
  <2> QED
    BY <1>1, <1>3, <1>4, <2>1 DEF Zombies, Children
<1>5. ASSUME kop[s].pc = "join"
      PROVE  /\ kop[s].np \in Slots /\ state'[kop[s].np] # "ZOMBIE"
             /\ \E i \in Positive : cthread'[mthread[s]][i] = kop[s].np
  <2>1. PICK i \in Positive : cthread[mthread[s]][i] = kop[s].np
    BY <1>3, <1>5
  <2>2. kop[s].np # NULL /\ kop[s].np \in Slots /\ state[kop[s].np] # "ZOMBIE"
    BY <1>3, <1>5, NullIsNoSlot
  <2>3. chan'[s] = mthread[s]
    BY <1>1, <1>3
  <2> QED
    BY <1>2, <2>1, <2>2, <2>3 DEF Drowsy
<1> QED
  BY <1>1, <1>3, <1>4, <1>5

ZombieKept == \A s \in Slots : state[s] = "ZOMBIE" => state'[s] \in {"ZOMBIE", "UNUSED"}

LEMMA TreeParts ==
  /\ TreeInv => TreeCore /\ Sleepers
  /\ TreeCore' /\ Sleepers' => TreeInv'
BY DEF TreeInv, TreeCore

LEMMA TameTree ==
  ASSUME IndInv, panic = "none", TreeInv, Tame, Drowsy
  PROVE  TreeInv'
<1>1. TypeOK /\ Control /\ Family /\ TreeCore /\ Sleepers
  BY TreeParts DEF IndInv, Structure
<1>2. TreeCore'
  BY <1>1, TameCore
<1>3. NoNewZombie
  BY DEF Tame, MainsKept, Unreaped, NoNewZombie
<1>4. Sleepers'
  BY <1>1, <1>3, DrowsySleepers
<1> QED
  BY <1>2, <1>4, TreeParts

LEMMA CalmTree ==
  ASSUME IndInv, panic = "none", TreeInv, Calm
  PROVE  TreeInv' /\ ZombieKept
<1>0. TypeOK /\ Control /\ Family
  BY DEF IndInv, Structure
<1>1. \A s \in Slots : /\ Live(s) <=> Live(s)'
                       /\ state[s] = "ZOMBIE" <=> state'[s] = "ZOMBIE"
                       /\ state[s] = "UNUSED" <=> state'[s] = "UNUSED"
  BY DEF Calm, Live
<1>2. \A m \in Slots : \A i \in Positive : cthread[m][i] # NULL => cthread[m][i] \in Slots
  BY <1>0 DEF TypeOK, Positive, SlotOrNull
<1>3. UNCHANGED <<parent, mthread, cthread>>
  BY DEF Calm
<1>4. MainsKept
  BY <1>1, <1>3 DEF MainsKept, Unreaped
<1>5. ArraysKept
  BY <1>1, <1>2, <1>3 DEF ArraysKept
<1>6. ExitKept
  <2>1. loop.op = "exit" => loop.m \in Slots
    BY <1>0 DEF Control, CtlLock
  <2>2. loop.op # "exit" => loop'.op # "exit"
    BY DEF Calm
  <2>3. loop.op = "exit" => UNCHANGED loop
    BY DEF Calm
  <2> QED
    BY <1>1, <1>2, <1>3, <2>1, <2>2, <2>3 DEF ExitKept
<1>7. ForksKept
  <2>1. \A s \in Slots : kop'[s] = kop[s] \/ kop'[s].pc = "user"
    BY DEF Calm, Kop
  <2>2. InitProc \in Slots /\ kop[InitProc].pc \notin {"create", "created"}
    BY NullIsNoSlot DEF InitProc, TreeInv, InitLives
  <2>3. kop'[InitProc].pc \notin {"create", "created"}
    BY <2>1, <2>2
  <2>4. ASSUME NEW t \in Slots, Creates(t)' PROVE Creates(t) /\ kop'[t] = kop[t]
    BY <1>1, <2>1, <2>4 DEF Creates
  <2> QED
    BY <1>3, <2>3, <2>4 DEF ForksKept
<1>8. Drowsy
  <2>1. ASSUME NEW s \in Slots, state'[s] = "SLEEPING"
        PROVE  \/ kop'[s].pc \notin {"wait", "join"}
               \/ /\ state[s] = "SLEEPING" /\ kop'[s] = kop[s] /\ chan'[s] = chan[s]
                  /\ mthread'[s] = mthread[s]
    BY <1>3, <2>1 DEF Calm
  <2> QED
    BY <1>1, <1>2, <1>3, <2>1 DEF Drowsy
<1>9. ZombieKept
  BY <1>1 DEF ZombieKept
<1> QED
  BY <1>4, <1>5, <1>6, <1>7, <1>8, <1>9, TameTree DEF Tame

(* allocproc: the slot was in no array and nobody's parent.                *)
LEMMA StartCreateTree ==
  ASSUME IndInv, panic = "none", TreeInv, NEW c \in CPUs, NEW f, NEW pc,
         \/ f = "fork" /\ pc = "fork"
         \/ f = "thread_create" /\ pc = "create",
         StartCreate(c, f, pc)
  PROVE  TreeInv' /\ ZombieKept
<1> DEFINE t == cproc[c]
<1>0. Running(c) /\ lock = NULL /\ loop.op = "none"
  BY FreeCall DEF StartCreate, Syscall, InUser
<1>1. TypeOK /\ Family /\ t \in Slots /\ state[t] = "RUNNING"
  BY <1>0, CallIs
<1>2. PICK np \in Slots :
        /\ AllocProc(c, np)
        /\ kop' = [kop EXCEPT ![cproc[c]] = Kop(pc, np), ![np] = Kop("user", NULL)]
  BY DEF StartCreate
<1>3. UNCHANGED <<parent, loop>> /\ (t = InitProc => pc = "fork")
  BY DEF StartCreate, Syscall
<1> HIDE DEF t
<1>4. state[np] = "UNUSED" /\ np # t /\ ~Named(np)
  <2>1. np \in Unused
    BY <1>2, LeastIs DEF AllocProc, Unused
  <2> QED
    BY <1>1, <2>1, NullIsNoSlot DEF Unused, Family, FamArray, Named
<1>5. \A u \in Slots : Creates(u) => kop[u].np # np
  BY <1>1, <1>4 DEF Family, NewSlot
<1>6. /\ state'[np] = "EMBRYO" /\ \A s \in Slots : s # np => state'[s] = state[s]
      /\ \A s \in Slots : s # np => mthread'[s] = mthread[s] /\ chan'[s] = chan[s]
      /\ \A s \in Slots : s # np => cthread'[s] = cthread[s]
      /\ \A i \in Positive : cthread'[np][i] = NULL
  BY <1>1, <1>2 DEF AllocProc, TypeOK, Positive
<1>7. /\ kop'[np].pc = "user" /\ kop'[t].pc = pc
      /\ \A s \in Slots : s # np /\ s # t => kop'[s] = kop[s]
  BY <1>1, <1>2, <1>4 DEF TypeOK, Kop, t
<1>8. \A m \in Slots : \A i \in Positive : cthread[m][i] # NULL =>
        cthread[m][i] \in Slots /\ m # np /\ cthread[m][i] # np
  BY <1>1, <1>4 DEF TypeOK, Positive, SlotOrNull, Family, FamArray, Named
<1>9. MainsKept
  BY <1>3, <1>4, <1>6 DEF MainsKept, Unreaped, Live
<1>10. ArraysKept
  BY <1>6, <1>8 DEF ArraysKept
<1>11. ExitKept
  BY <1>0, <1>3 DEF ExitKept
<1>12. ForksKept
  <2>1. InitProc \in Slots /\ kop[InitProc].pc \notin {"create", "created"}
    BY NullIsNoSlot DEF InitProc, TreeInv, InitLives
  <2>2. kop'[InitProc].pc \notin {"create", "created"}
    BY <1>3, <1>7, <2>1
  <2>3. ASSUME NEW u \in Slots, Creates(u)', kop'[u].pc = "forked"
        PROVE  Creates(u) /\ kop'[u] = kop[u] /\ mthread'[u] = mthread[u]
    <3>1. u # np /\ u # t
      BY <1>7, <2>3
    <3> QED
      BY <1>6, <1>7, <2>3, <3>1 DEF Creates
  <2> QED
    BY <1>3, <2>2, <2>3 DEF ForksKept
<1>13. Drowsy
  <2>1. \A s \in Slots : state'[s] = "SLEEPING" => s # np /\ s # t
    BY <1>1, <1>4, <1>6
  <2> QED
    BY <1>6, <1>7, <1>8, <2>1 DEF Drowsy
<1>14. ZombieKept
  BY <1>4, <1>6 DEF ZombieKept
<1> QED
  BY <1>9, <1>10, <1>11, <1>12, <1>13, <1>14, TameTree DEF Tame

(* A slot that was not entered anywhere is given back.                     *)
LEMMA GiveBackTree ==
  ASSUME IndInv, panic = "none", TreeInv, NEW c \in CPUs, GiveBack(c)
  PROVE  TreeInv' /\ ZombieKept
<1> DEFINE t == cproc[c]
<1>a. PICK np \in Slots : np = kop[t].np
  BY CreatingIs DEF CreatePoints, GiveBack
<1>0. /\ TypeOK /\ Control /\ Family /\ t \in Slots /\ state[t] = "RUNNING" /\ state[np] = "EMBRYO"
      /\ np # t /\ ~Named(np)
  BY <1>a, CreatingIs DEF CreatePoints, GiveBack
<1>1. /\ state' = [state EXCEPT ![np] = "UNUSED"] /\ kop' = [kop EXCEPT ![t] = Kop("user", NULL)]
      /\ UNCHANGED <<parent, chan, mthread, cthread, loop>>
  BY <1>a DEF GiveBack, Return, threadVars
<1> HIDE DEF t
<1>2. /\ state'[np] = "UNUSED" /\ \A s \in Slots : s # np => state'[s] = state[s]
      /\ kop'[t].pc = "user" /\ \A s \in Slots : s # t => kop'[s] = kop[s]
  BY <1>0, <1>1 DEF TypeOK, Kop
<1>3. \A m \in Slots : \A i \in Positive : cthread[m][i] # NULL =>
        cthread[m][i] \in Slots /\ cthread[m][i] # np
  BY <1>0 DEF TypeOK, Positive, SlotOrNull, Named
<1>4. MainsKept
  BY <1>0, <1>1, <1>2 DEF MainsKept, Unreaped, Live
<1>5. ArraysKept
  BY <1>1, <1>2, <1>3 DEF ArraysKept
<1>6. ExitKept
  <2>1. loop.op = "exit" => loop.m \in Slots
    BY <1>0 DEF Control, CtlLock
  <2> QED
    BY <1>0, <1>1, <1>2, <2>1 DEF ExitKept
<1>7. ForksKept
  <2>1. InitProc \in Slots /\ kop[InitProc].pc \notin {"create", "created"}
    BY NullIsNoSlot DEF InitProc, TreeInv, InitLives
  <2>2. kop'[InitProc].pc \notin {"create", "created"}
    BY <1>2, <2>1
  <2>3. ASSUME NEW u \in Slots, Creates(u)', kop'[u].pc = "forked"
        PROVE  Creates(u) /\ kop'[u] = kop[u]
    BY <1>2, <2>3 DEF Creates
  <2> QED
    BY <1>1, <2>2, <2>3 DEF ForksKept
<1>8. Drowsy
  BY <1>0, <1>1, <1>2, <1>3 DEF Drowsy
<1>9. ZombieKept
  BY <1>0, <1>2 DEF ZombieKept
<1> QED
  BY <1>4, <1>5, <1>6, <1>7, <1>8, <1>9, TameTree DEF Tame

(* The main thread of a thread that may still run may run too, and init    *)
(* has no other thread.                                                    *)
LEMMA LiveMain ==
  ASSUME TypeOK, Family, TreeCore, NEW t \in Slots, Live(t)
  PROVE  /\ mthread[t] \in Slots /\ Live(mthread[t]) /\ mthread[mthread[t]] = mthread[t]
         /\ mthread[t] = InitProc => t = InitProc
<1>0. PICK m \in Slots : m = mthread[t]
  BY MainIs
<1>1. /\ mthread[m] = m /\ state[m] \notin {"UNUSED", "EMBRYO"}
      /\ t = m \/ \E i \in Positive : cthread[m][i] = t
  BY <1>0, MainIs
<1>2. Live(m)
  <2> SUFFICES ASSUME state[m] = "ZOMBIE" PROVE FALSE
    BY <1>1 DEF Live, TypeOK, States
  <2>1. t # m
    BY DEF Live
  <2>2. PICK i \in Positive : cthread[m][i] = t
    BY <1>1, <2>1
  <2>3. state[t] = "ZOMBIE"
    BY <1>1, <2>2, NullIsNoSlot DEF TreeCore, ZombieThreads
  <2> QED
    BY <2>3 DEF Live
<1>3. m = InitProc => t = InitProc
  BY <1>1, NullIsNoSlot DEF TreeCore, InitLives
<1> QED
  BY <1>0, <1>1, <1>2, <1>3

LEMMA CreateFailTree ==
  ASSUME IndInv, panic = "none", TreeInv, NEW c \in CPUs, CreateFail(c)
  PROVE  TreeInv' /\ ZombieKept
<1>1. GiveBack(c)
  BY DEF CreateFail, GiveBack
<1> QED
  BY <1>1, GiveBackTree

(* thread_create enters the new slot into the array of a process that      *)
(* lives: it has a running thread.                                         *)
LEMMA ThreadStackTree ==
  ASSUME IndInv, panic = "none", TreeInv, NEW c \in CPUs, ThreadStack(c)
  PROVE  TreeInv' /\ ZombieKept
<1> DEFINE t == cproc[c]
<1>a. Running(c) /\ lock = NULL /\ loop.op = "none" /\ kop[t].pc = "create" /\ lock # c
  BY FreeCall, CpuAssumption DEF ThreadStack
<1>b. PICK np \in Slots : np = kop[t].np
  BY <1>a, CreatingIs DEF CreatePoints
<1>c. PICK m \in Slots : m = mthread[t]
  BY <1>a, CreatingIs DEF CreatePoints
<1> DEFINE E == Slots \ Places(m)
<1>d. UNCHANGED <<parent, chan, mthread, loop>>
  BY DEF ThreadStack
<1>1. CASE E = {}
  <2>1. GiveBack(c)
    BY <1>a, <1>b, <1>c, <1>1 DEF ThreadStack, GiveBack, threadVars
  <2> QED
    BY <2>1, GiveBackTree
<1>2. CASE E # {}
  <2>0. TypeOK /\ Family /\ t \in Slots /\ state[t] = "RUNNING" /\ state[np] = "EMBRYO"
    BY <1>a, <1>b, CreatingIs DEF CreatePoints
  <2>1. Live(t) /\ TreeCore
    BY <2>0, TreeParts DEF Live
  <2>2. Live(m) /\ (m = InitProc => t = InitProc) /\ cthread[m][0] = m
    BY <1>c, <2>0, <2>1, LiveMain, MainIs
  <2>3. m # InitProc
    BY <1>a, <2>1, <2>2 DEF TreeCore, InitLives
  <2>4. PICK k \in E : k = Least(E)
    BY <1>2, LeastIs
  <2>5. k \in Positive /\ cthread[m][k] = NULL
    <3>1. k \in Slots /\ cthread[m][k] = NULL
      BY DEF Places
    <3> QED
      BY <2>2, <3>1, NullIsNoSlot DEF Positive
  <2>6. /\ cthread' = [cthread EXCEPT ![m][k] = np] /\ kop' = [kop EXCEPT ![t].pc = "created"]
        /\ UNCHANGED state
    BY <1>b, <1>c, <1>2, <2>4 DEF ThreadStack
  <2> HIDE DEF t, E
  <2>7. \A n \in Slots : \A j \in Positive : (n # m \/ j # k) => cthread'[n][j] = cthread[n][j]
    BY <2>0, <2>5, <2>6 DEF TypeOK, Positive
  <2>8. kop'[t].pc = "created" /\ \A u \in Slots : u # t => kop'[u] = kop[u]
    BY <2>0, <2>6 DEF TypeOK, Kops
  <2>9. MainsKept
    BY <1>d, <2>6 DEF MainsKept, Unreaped, Live
  <2>10. ArraysKept
    BY <1>d, <2>2, <2>3, <2>6, <2>7 DEF ArraysKept
  <2>11. ExitKept
    BY <1>a, <1>d DEF ExitKept
  <2>12. ForksKept
    <3>1. InitProc \in Slots /\ t # InitProc /\ kop[InitProc].pc \notin {"create", "created"}
      BY <1>a, <2>1, NullIsNoSlot DEF InitProc, TreeCore, InitLives
    <3> QED
      BY <1>d, <2>6, <2>8, <3>1 DEF ForksKept, Creates
  <2>13. Drowsy
    <3>1. \A s \in Slots : state'[s] = "SLEEPING" => s # t
      BY <2>0, <2>6
    <3> QED
      BY <1>d, <2>5, <2>6, <2>7, <2>8, <3>1 DEF Drowsy
  <2>14. ZombieKept
    BY <2>6 DEF ZombieKept
  <2> QED
    BY <2>9, <2>10, <2>11, <2>12, <2>13, <2>14, TameTree DEF Tame
<1> QED
  BY <1>1, <1>2

LEMMA ThreadStartTree ==
  ASSUME IndInv, panic = "none", TreeInv, NEW c \in CPUs, ThreadStart(c)
  PROVE  TreeInv' /\ ZombieKept
<1> DEFINE t == cproc[c]
<1>a. Running(c) /\ lock = NULL /\ loop.op = "none" /\ kop[t].pc = "created" /\ lock # c
  BY FreeCall, CpuAssumption DEF ThreadStart
<1>b. PICK np \in Slots : np = kop[t].np
  BY <1>a, CreatingIs DEF CreatePoints
<1>c. PICK m \in Slots : m = mthread[t]
  BY <1>a, CreatingIs DEF CreatePoints
<1>0. /\ TypeOK /\ Control /\ Family
      /\ t \in Slots /\ state[t] = "RUNNING" /\ np # t /\ state[np] = "EMBRYO"
      /\ \A u \in Slots : Creates(u) /\ kop[u].np = np => u = t
  BY <1>a, <1>b, <1>c, CreatingIs DEF CreatePoints
<1>1. /\ state' = [state EXCEPT ![np] = "RUNNABLE"]
      /\ kop' = [kop EXCEPT ![t] = Kop("user", NULL)]
      /\ mthread' = [mthread EXCEPT ![np] = m]
      /\ parent' = [parent EXCEPT ![np] = parent[m]]
      /\ cthread' = [cthread EXCEPT ![np][0] = NULL]
      /\ UNCHANGED <<chan, loop>>
  BY <1>b, <1>c DEF ThreadStart, Return
<1> HIDE DEF t
<1>2. m # np
  <2>1. Live(t)
    BY <1>0 DEF Live
  <2> QED
    BY <1>0, <1>c, <2>1, MainIs
<1>3. /\ state'[np] = "RUNNABLE" /\ mthread'[np] = m
      /\ \A s \in Slots : s # np =>
           state'[s] = state[s] /\ mthread'[s] = mthread[s] /\ parent'[s] = parent[s]
      /\ kop'[t].pc = "user" /\ \A s \in Slots : s # t => kop'[s] = kop[s]
      /\ \A n \in Slots : \A j \in Positive : cthread'[n][j] = cthread[n][j]
  BY <1>0, <1>1, NullIsNoSlot DEF TypeOK, Kop, Positive
<1>4. \A n \in Slots : \A j \in Positive : cthread[n][j] # NULL => cthread[n][j] \in Slots
  BY <1>0 DEF TypeOK, Positive, SlotOrNull
<1>5. MainsKept
  BY <1>0, <1>2, <1>3 DEF MainsKept, Unreaped, Live
<1>6. ArraysKept
  BY <1>0, <1>3, <1>4 DEF ArraysKept
<1>7. ExitKept
  BY <1>a, <1>1 DEF ExitKept
<1>8. ForksKept
  <2>1. InitProc \in Slots /\ kop[InitProc].pc \notin {"create", "created"}
    BY NullIsNoSlot DEF InitProc, TreeInv, InitLives
  <2>2. kop'[InitProc].pc \notin {"create", "created"}
    BY <1>3, <2>1
  <2>3. ASSUME NEW u \in Slots, Creates(u)', kop'[u].pc = "forked"
        PROVE  /\ Creates(u) /\ kop'[u] = kop[u] /\ mthread'[u] = mthread[u]
               /\ parent'[kop[u].np] = parent[kop[u].np]
    <3>1. u # t /\ kop'[u] = kop[u]
      BY <1>3, <2>3
    <3>2. u # np
      BY <1>0, <2>3, <3>1 DEF Family, EmbryoIdle
    <3>3. Creates(u)
      BY <1>3, <2>3, <3>1, <3>2 DEF Creates
    <3>4. kop[u].np \in Slots /\ kop[u].np # np
      BY <1>0, <3>1, <3>3 DEF Family, NewSlot
    <3> QED
      BY <1>3, <3>1, <3>2, <3>3, <3>4
  <2> QED
    BY <2>2, <2>3 DEF ForksKept
<1>9. Drowsy
  <2>1. \A s \in Slots : state'[s] = "SLEEPING" => s # t /\ s # np
    BY <1>0, <1>3
  <2> QED
    BY <1>1, <1>3, <1>4, <2>1 DEF Drowsy
<1>10. ZombieKept
  BY <1>0, <1>3 DEF ZombieKept
<1> QED
  BY <1>5, <1>6, <1>7, <1>8, <1>9, <1>10, TameTree DEF Tame

(* fork enters the parent of the slot it is creating.                      *)
LEMMA ForkCopyTree ==
  ASSUME IndInv, panic = "none", TreeInv, NEW c \in CPUs, ForkCopy(c)
  PROVE  TreeInv' /\ ZombieKept
<1> DEFINE t == cproc[c]
<1>a. Running(c) /\ lock # c /\ kop[t].pc = "fork"
  BY DEF ForkCopy
<1>b. PICK np \in Slots : np = kop[t].np
  BY <1>a, CreatingIs DEF CreatePoints
<1>c. PICK m \in Slots : m = mthread[t]
  BY <1>a, CreatingIs DEF CreatePoints
<1>0. /\ TypeOK /\ Control /\ Family
      /\ t \in Slots /\ state[t] = "RUNNING" /\ np # t /\ state[np] = "EMBRYO"
      /\ \A u \in Slots : Creates(u) /\ kop[u].np = np => u = t
  BY <1>a, <1>b, CreatingIs DEF CreatePoints
<1>1. /\ parent' = [parent EXCEPT ![np] = m] /\ kop' = [kop EXCEPT ![t].pc = "forked"]
      /\ UNCHANGED <<state, chan, mthread, cthread, loop>>
  BY <1>b, <1>c DEF ForkCopy, threadVars
<1> HIDE DEF t
<1>2. parent'[np] = m /\ \A s \in Slots : s # np => parent'[s] = parent[s]
  BY <1>0, <1>1 DEF TypeOK
<1>3. kop'[t].pc = "forked" /\ kop'[t].np = np /\ \A u \in Slots : u # t => kop'[u] = kop[u]
  BY <1>0, <1>b, <1>1 DEF TypeOK, Kops
<1>4. MainsKept
  BY <1>0, <1>1, <1>2 DEF MainsKept, Unreaped, Live
<1>5. ArraysKept
  BY <1>1 DEF ArraysKept
<1>6. ExitKept
  BY <1>1 DEF ExitKept
<1>7. ForksKept
  <2>1. InitProc \in Slots /\ kop[InitProc].pc \notin {"create", "created"}
    BY NullIsNoSlot DEF InitProc, TreeInv, InitLives
  <2>2. kop'[InitProc].pc \notin {"create", "created"}
    BY <1>3, <2>1
  <2>3. parent'[kop'[t].np] = mthread'[t]
    BY <1>c, <1>1, <1>2, <1>3
  <2>4. ASSUME NEW u \in Slots, u # t, Creates(u)', kop'[u].pc = "forked"
        PROVE  /\ Creates(u) /\ kop'[u] = kop[u] /\ mthread'[u] = mthread[u]
               /\ parent'[kop[u].np] = parent[kop[u].np]
    <3>1. Creates(u) /\ kop'[u] = kop[u]
      BY <1>1, <1>3, <2>4 DEF Creates
    <3>2. kop[u].np \in Slots /\ kop[u].np # np
      BY <1>0, <2>4, <3>1 DEF Family, NewSlot
    <3> QED
      BY <1>1, <1>2, <3>1, <3>2
  <2> QED
    BY <2>2, <2>3, <2>4 DEF ForksKept
<1>8. Drowsy
  <2>1. \A s \in Slots : state'[s] = "SLEEPING" => s # t
    BY <1>0, <1>1
  <2> QED
    BY <1>1, <1>3, <2>1 DEF Drowsy
<1>9. ZombieKept
  BY <1>1 DEF ZombieKept
<1> QED
  BY <1>4, <1>5, <1>6, <1>7, <1>8, <1>9, TameTree DEF Tame

(* An exited thread s leaves the array of m and is freed; whoever joins it *)
(* is awake.                                                               *)
ThreadFreed(s, m, i) ==
  /\ cthread[m][i] = s /\ state[s] = "ZOMBIE"
  /\ state' = [state EXCEPT ![s] = "UNUSED"]
  /\ \A u \in Slots : u # s =>
       mthread'[u] = mthread[u] /\ chan'[u] = chan[u] /\ parent'[u] = parent[u]
  /\ cthread' = [cthread EXCEPT ![m][i] = NULL]
  /\ \A u \in Slots : \/ kop'[u] = kop[u]
                      \/ kop[u].pc = "join" /\ kop[u].np = s /\ kop'[u].pc = "join"
                      \/ state[u] = "RUNNING" /\ kop'[u].pc = "user"
  /\ UNCHANGED loop

LEMMA FreedTree ==
  ASSUME IndInv, panic = "none", TreeInv, NEW s \in Slots, NEW m \in Slots, NEW i \in Positive,
         ThreadFreed(s, m, i)
  PROVE  TreeInv' /\ ZombieKept
<1> USE DEF ThreadFreed
<1>0. TypeOK /\ Control /\ Family /\ Sleepers
  BY DEF IndInv, Structure, TreeInv
<1>1. /\ state'[s] = "UNUSED" /\ \A u \in Slots : u # s => state'[u] = state[u]
  BY <1>0 DEF TypeOK
<1>2. /\ cthread'[m][i] = NULL
      /\ \A n \in Slots : \A j \in Positive : (n # m \/ j # i) => cthread'[n][j] = cthread[n][j]
  BY <1>0 DEF TypeOK, Positive
<1>3. m # s /\ (mthread[s] = s => parent[s] = NULL)
  BY <1>0, EntryIs
<1>4. \A n \in Slots : \A j \in Positive : cthread[n][j] # NULL =>
        cthread[n][j] \in Slots /\ (cthread[n][j] = s => n = m /\ j = i)
  BY <1>0, NullIsNoSlot DEF TypeOK, Positive, SlotOrNull, Family, FamOnce
<1>5. MainsKept
  BY <1>1 DEF MainsKept, Unreaped, Live
<1>6. ArraysKept
  BY <1>1, <1>2, <1>4 DEF ArraysKept
<1>7. ExitKept
  <2>1. loop.op = "exit" => loop.m \in Slots /\ state[loop.m] = "ZOMBIE" /\ mthread[loop.m] = loop.m
    BY <1>0 DEF Control, CtlLock, TreeInv, ExitLoop
  <2>2. loop.op = "exit" => loop.m # s
    <3> SUFFICES ASSUME loop.op = "exit", loop.m = s PROVE FALSE
      OBVIOUS
    <3>1. s \notin Mains
      BY <1>3, <2>1, NullIsNoSlot DEF TreeInv, Parents
    <3>2. CutOff(s)
      BY <2>1, <3>1 DEF Mains
    <3> QED
      BY <1>0, <2>1, <3>2, EntryIs DEF CutOff
  <2> QED
    BY <1>1, <1>2, <1>4, <2>1, <2>2 DEF ExitKept
<1>8. ForksKept
  <2>1. InitProc \in Slots /\ kop[InitProc].pc \notin {"create", "created"}
    BY NullIsNoSlot DEF InitProc, TreeInv, InitLives
  <2>2. kop'[InitProc].pc \notin {"create", "created"}
    BY <2>1
  <2>3. ASSUME NEW u \in Slots, Creates(u)', kop'[u].pc = "forked"
        PROVE  /\ Creates(u) /\ kop'[u] = kop[u] /\ mthread'[u] = mthread[u]
               /\ parent'[kop[u].np] = parent[kop[u].np]
    <3>1. u # s /\ kop'[u] = kop[u]
      BY <1>1, <2>3 DEF Creates
    <3>2. Creates(u)
      BY <1>1, <2>3, <3>1 DEF Creates
    <3>3. kop[u].np \in Slots /\ kop[u].np # s
      BY <1>0, <3>2 DEF Family, NewSlot
    <3> QED
      BY <3>1, <3>2, <3>3
  <2> QED
    BY <2>2, <2>3 DEF ForksKept
<1>9. Drowsy
  <2>1. ASSUME NEW u \in Slots, state'[u] = "SLEEPING"
        PROVE  u # s /\ state[u] = "SLEEPING" /\ kop'[u] = kop[u]
    <3>1. u # s /\ state[u] = "SLEEPING"
      BY <1>1, <2>1
    <3> QED
      BY <1>0, <3>1 DEF Sleepers
  <2> QED
    BY <1>1, <1>2, <1>4, <2>1 DEF Drowsy
<1>10. ZombieKept
  BY <1>1 DEF ZombieKept
<1> QED
  BY <1>5, <1>6, <1>7, <1>8, <1>9, <1>10, TameTree DEF Tame

LEMMA KillZombieTree ==
  ASSUME IndInv, panic = "none", TreeInv, NEW c \in CPUs, KillZombie(c)
  PROVE  TreeInv' /\ ZombieKept
<1>a. lock = c /\ loop.op \in {"exit", "reap"} /\ ToKill(loop.m, Keep(c)) # {}
  BY DEF KillZombie
<1>b. PICK m \in Slots : m = loop.m
  BY <1>a, LoopIs
<1>c. PICK i \in ToKill(m, Keep(c)) : i = Least(ToKill(m, Keep(c)))
  BY <1>a, <1>b, LeastIs DEF ToKill, Places
<1>0. TypeOK
  BY <1>a, LoopIs
<1>1. i \in Positive /\ cthread[m][i] \in Slots /\ state[cthread[m][i]] = "ZOMBIE"
  <2>1. i \in Slots /\ i # 0 /\ cthread[m][i] # NULL /\ state[cthread[m][i]] = "ZOMBIE"
    BY <1>c DEF ToKill, Places
  <2> QED
    BY <1>0, <2>1 DEF Positive, TypeOK, SlotOrNull
<1>d. PICK s \in Slots : s = cthread[m][i]
  BY <1>1
<1>2. /\ Free(s) /\ Forget(s) /\ cthread' = [cthread EXCEPT ![m][i] = NULL]
      /\ UNCHANGED <<mthread, loop>>
  BY <1>b, <1>c, <1>d DEF KillZombie
<1>3. \A u \in Slots : u # s => chan'[u] = chan[u] /\ parent'[u] = parent[u]
  BY <1>0, <1>2 DEF Free, TypeOK
<1>4. \A u \in Slots : \/ kop'[u] = kop[u]
                       \/ kop[u].pc = "join" /\ kop[u].np = s /\ kop'[u].pc = "join"
  BY <1>2 DEF Forget, Kop
<1>5. state' = [state EXCEPT ![s] = "UNUSED"]
  BY <1>2 DEF Free
<1>6. ThreadFreed(s, m, i)
  BY <1>1, <1>d, <1>2, <1>3, <1>4, <1>5 DEF ThreadFreed
<1> QED
  BY <1>1, <1>6, FreedTree

LEMMA JoinReapTree ==
  ASSUME IndInv, panic = "none", TreeInv, NEW c \in CPUs, JoinReap(c)
  PROVE  TreeInv' /\ ZombieKept
<1>a. PICK s \in Slots :
        /\ Joining(c, s) /\ JoinPlaces(c, s) # {} /\ state[s] = "ZOMBIE"
        /\ state' = [state EXCEPT ![s] = "UNUSED"]
        /\ parent' = [parent EXCEPT ![s] = NULL]
        /\ mthread' = [mthread EXCEPT ![s] = NULL]
        /\ cthread' = [cthread EXCEPT ![Main(c)][Least(JoinPlaces(c, s))] = NULL]
        /\ kop' = [u \in Slots |->
                     IF u = cproc[c] THEN Kop("user", NULL)
                     ELSE IF kop[u].pc = "join" /\ kop[u].np = s THEN Kop("join", NULL)
                     ELSE kop[u]]
  BY DEF JoinReap
<1>b. Running(c) /\ lock \in {c, NULL} /\ loop.op = "none"
  BY <1>a DEF Joining, Syscall, InUser, InWait
<1>c. TypeOK /\ cproc[c] \in Slots /\ state[cproc[c]] = "RUNNING"
  BY <1>b, CallIs
<1>d. PICK m \in Slots : m = Main(c)
  BY <1>b, CallIs
<1>e. PICK i \in JoinPlaces(c, s) : i = Least(JoinPlaces(c, s))
  BY <1>a, LeastIs DEF JoinPlaces, Places
<1>1. i \in Positive /\ cthread[m][i] = s
  BY <1>d DEF JoinPlaces, Places, Positive
<1>2. UNCHANGED <<chan, loop>>
  BY DEF JoinReap
<1>3. \A u \in Slots : u # s => mthread'[u] = mthread[u] /\ parent'[u] = parent[u]
  BY <1>a, <1>c DEF TypeOK
<1>4. \A u \in Slots : \/ kop'[u] = kop[u]
                       \/ kop[u].pc = "join" /\ kop[u].np = s /\ kop'[u].pc = "join"
                       \/ state[u] = "RUNNING" /\ kop'[u].pc = "user"
  BY <1>a, <1>c DEF Kop
<1>5. cthread' = [cthread EXCEPT ![m][i] = NULL]
  BY <1>a, <1>d, <1>e
<1>6. ThreadFreed(s, m, i)
  BY <1>a, <1>1, <1>2, <1>3, <1>4, <1>5 DEF ThreadFreed
<1> QED
  BY <1>1, <1>6, FreedTree

(* wait frees the main thread of a process whose threads are gone.         *)
LEMMA WaitDoneTree ==
  ASSUME IndInv, panic = "none", TreeInv, NEW c \in CPUs, WaitDone(c)
  PROVE  TreeInv' /\ ZombieKept
<1> DEFINE t == cproc[c]
<1>a. lock = c /\ loop.op = "reap"
  BY DEF WaitDone
<1>b. PICK z \in Slots : z = loop.m
  BY <1>a, LoopIs
<1>0. TypeOK /\ Control /\ Family /\ t \in Slots /\ state[t] = "RUNNING"
  BY <1>a, LoopIs
<1>1. state[z] = "ZOMBIE" /\ mthread[z] = z /\ parent[z] # NULL
  BY <1>a, <1>b, <1>0 DEF Control, CtlLoop
<1>2. Free(z) /\ kop' = [kop EXCEPT ![t] = Kop("user", NULL)] /\ loop' = NoLoop
      /\ UNCHANGED <<mthread, cthread>>
  BY <1>b DEF WaitDone, Return, threadVars
<1> HIDE DEF t
<1>3. /\ state'[z] = "UNUSED"
      /\ \A u \in Slots : u # z => state'[u] = state[u] /\ parent'[u] = parent[u] /\ chan'[u] = chan[u]
  BY <1>0, <1>2 DEF Free, TypeOK
<1>4. kop'[t].pc = "user" /\ \A u \in Slots : u # t => kop'[u] = kop[u]
  BY <1>0, <1>2 DEF TypeOK, Kop
<1>5. \A n \in Slots : \A j \in Positive : cthread[n][j] # NULL =>
        cthread[n][j] \in Slots /\ cthread[n][j] # z
  <2>1. \A n \in Slots : \A j \in Positive : cthread[n][j] # z
    BY <1>0, <1>1, EntryIs
  <2> QED
    BY <1>0, <2>1 DEF TypeOK, Positive, SlotOrNull
<1>6. MainsKept
  BY <1>1, <1>2, <1>3 DEF MainsKept, Unreaped, Live
<1>7. ArraysKept
  BY <1>2, <1>3, <1>5 DEF ArraysKept
<1>8. ExitKept
  BY <1>a, <1>2 DEF ExitKept, NoLoop
<1>9. ForksKept
  <2>1. InitProc \in Slots /\ kop[InitProc].pc \notin {"create", "created"}
    BY NullIsNoSlot DEF InitProc, TreeInv, InitLives
  <2>2. kop'[InitProc].pc \notin {"create", "created"}
    BY <1>4, <2>1
  <2>3. ASSUME NEW u \in Slots, Creates(u)', kop'[u].pc = "forked"
        PROVE  /\ Creates(u) /\ kop'[u] = kop[u]
               /\ parent'[kop[u].np] = parent[kop[u].np]
    <3>1. u # t /\ u # z /\ kop'[u] = kop[u]
      BY <1>3, <1>4, <2>3 DEF Creates
    <3>2. Creates(u)
      BY <1>3, <2>3, <3>1 DEF Creates
    <3>3. kop[u].np \in Slots /\ kop[u].np # z
      BY <1>0, <1>1, <3>2 DEF Family, NewSlot
    <3> QED
      BY <1>3, <3>1, <3>2, <3>3
  <2> QED
    BY <1>2, <2>2, <2>3 DEF ForksKept
<1>10. Drowsy
  <2>1. \A u \in Slots : state'[u] = "SLEEPING" => u # t /\ u # z
    BY <1>0, <1>1, <1>3
  <2> QED
    BY <1>2, <1>3, <1>4, <1>5, <2>1 DEF Drowsy
<1>11. ZombieKept
  BY <1>3 DEF ZombieKept
<1> QED
  BY <1>6, <1>7, <1>8, <1>9, <1>10, <1>11, TameTree DEF Tame

(* wait finds the threads of an exited child exited.                       *)
LEMMA WaitReapCalm ==
  ASSUME IndInv, panic = "none", TreeInv, NEW c \in CPUs, WaitReap(c)
  PROVE  Calm
<1>a. Running(c) /\ lock \in {c, NULL} /\ loop.op = "none"
  BY DEF WaitReap, Syscall, InUser, InWait
<1>0. TypeOK
  BY DEF IndInv
<1>b. PICK z \in Zombies(Main(c)) : z = Least(Zombies(Main(c)))
  BY LeastIs DEF WaitReap, Zombies, Children
<1>1. z \in Slots /\ state[z] = "ZOMBIE" /\ mthread[z] = z
  BY DEF Zombies, Children
<1> DEFINE W == {cthread[z][i] : i \in Places(z) \ {0}}
<1>2. /\ state' = [s \in Slots |-> IF s \in W THEN "ZOMBIE" ELSE state[s]]
      /\ loop' = [op |-> "reap", m |-> z, pct |-> 0]
      /\ UNCHANGED <<parent, mthread, cthread, chan, kop>>
  BY <1>b DEF WaitReap, threadVars, kernVars
<1>3. \A s \in W : state[s] = "ZOMBIE"
  BY <1>1 DEF TreeInv, ZombieThreads, Places, Positive
<1>4. \A s \in Slots : state'[s] = state[s]
  BY <1>2, <1>3
<1> QED
  BY <1>a, <1>2, <1>4 DEF Calm

(* wait and thread_join sleep on the main thread of the caller.            *)
LEMMA SleepInTree ==
  ASSUME IndInv, panic = "none", TreeInv, NEW c \in CPUs, Running(c), lock \in {c, NULL},
         loop.op = "none", NEW pc \in {"wait", "join"}, NEW np, SleepIn(c, pc, np),
         UNCHANGED <<parent, mthread, cthread, loop>>,
         pc = "wait" => Zombies(Main(c)) = {},
         pc = "join" => /\ np \in Slots /\ state[np] # "ZOMBIE"
                        /\ \E i \in Positive : cthread[Main(c)][i] = np
  PROVE  TreeInv' /\ ZombieKept
<1>p. PICK t \in Slots : t = cproc[c]
  BY CallIs
<1>0. TypeOK /\ Control /\ Family /\ t \in Slots /\ Main(c) \in Slots /\ state[t] = "RUNNING"
  BY <1>p, CallIs
<1>1. /\ state' = [state EXCEPT ![t] = "SLEEPING"] /\ chan' = [chan EXCEPT ![t] = Main(c)]
      /\ kop' = [kop EXCEPT ![t] = Kop(pc, np)]
  BY <1>p DEF SleepIn
<1>2. /\ state'[t] = "SLEEPING" /\ chan'[t] = Main(c) /\ kop'[t].pc = pc /\ kop'[t].np = np
      /\ \A s \in Slots : s # t => state'[s] = state[s] /\ chan'[s] = chan[s] /\ kop'[s] = kop[s]
  BY <1>0, <1>1 DEF TypeOK, Kop
<1>3. \A n \in Slots : \A j \in Positive : cthread[n][j] # NULL => cthread[n][j] \in Slots
  BY <1>0 DEF TypeOK, Positive, SlotOrNull
<1>c. PICK m \in Slots : m = Main(c)
  BY <1>0
<1>d. mthread[t] = m
  BY <1>c, <1>p
<1>4. MainsKept
  BY <1>0, <1>2 DEF MainsKept, Unreaped, Live
<1>5. ArraysKept
  BY <1>0, <1>2, <1>3 DEF ArraysKept
<1>6. ExitKept
  BY DEF ExitKept
<1>7. ForksKept
  <2>1. InitProc \in Slots /\ kop[InitProc].pc \notin {"create", "created"}
    BY NullIsNoSlot DEF InitProc, TreeInv, InitLives
  <2>2. kop'[InitProc].pc \notin {"create", "created"}
    BY <1>2, <2>1
  <2>3. ASSUME NEW u \in Slots, Creates(u)', kop'[u].pc = "forked"
        PROVE  Creates(u) /\ kop'[u] = kop[u]
    BY <1>2, <2>3 DEF Creates
  <2> QED
    BY <2>2, <2>3 DEF ForksKept
<1>8. Drowsy
  <2>1. Sound(t)'
    <3>1. ASSUME pc = "wait" PROVE Zombies(mthread[t])' = {}
      <4>1. Zombies(m) = {}
        BY <1>c, <3>1
      <4> QED
        BY <1>0, <1>2, <1>d, <4>1 DEF Zombies, Children
    <3>2. ASSUME pc = "join"
          PROVE  /\ np \in Slots /\ state'[np] # "ZOMBIE"
                 /\ \E i \in Positive : cthread'[mthread'[t]][i] = np
      BY <1>0, <1>2, <1>c, <1>d, <3>2
    <3> QED
      BY <1>2, <1>c, <1>d, <3>1, <3>2 DEF Sound
  <2>2. \A n \in Slots : \A i \in Positive :
          cthread[n][i] # NULL /\ state[cthread[n][i]] # "ZOMBIE" => state'[cthread[n][i]] # "ZOMBIE"
    BY <1>2, <1>3
  <2> QED
    BY <1>2, <2>1, <2>2 DEF Drowsy
<1>9. ZombieKept
  BY <1>0, <1>2 DEF ZombieKept
<1> QED
  BY <1>4, <1>5, <1>6, <1>7, <1>8, <1>9, TameTree DEF Tame

LEMMA WaitSleepTree ==
  ASSUME IndInv, panic = "none", TreeInv, NEW c \in CPUs, WaitSleep(c)
  PROVE  TreeInv' /\ ZombieKept
<1>1. /\ Running(c) /\ lock \in {c, NULL} /\ loop.op = "none" /\ SleepIn(c, "wait", NULL)
      /\ Zombies(Main(c)) = {} /\ UNCHANGED <<parent, mthread, cthread, loop>>
  BY DEF WaitSleep, Syscall, InUser, InWait, threadVars
<1> QED
  BY <1>1, SleepInTree

LEMMA JoinSleepTree ==
  ASSUME IndInv, panic = "none", TreeInv, NEW c \in CPUs, JoinSleep(c)
  PROVE  TreeInv' /\ ZombieKept
<1>1. PICK s \in Slots : /\ Joining(c, s) /\ JoinPlaces(c, s) # {} /\ state[s] # "ZOMBIE"
                         /\ SleepIn(c, "join", s)
  BY DEF JoinSleep
<1>2. Running(c) /\ lock \in {c, NULL} /\ loop.op = "none" /\ UNCHANGED <<parent, mthread, cthread, loop>>
  BY <1>1 DEF JoinSleep, Joining, Syscall, InUser, InWait, threadVars
<1>3. \E i \in Positive : cthread[Main(c)][i] = s
  BY <1>1 DEF JoinPlaces, Places, Positive
<1> QED
  BY <1>1, <1>2, <1>3, SleepInTree

(* thread_exit wakes whoever sleeps on the main thread.                    *)
LEMMA ThreadExitTree ==
  ASSUME IndInv, panic = "none", TreeInv, NEW c \in CPUs, ThreadExit(c)
  PROVE  TreeInv' /\ ZombieKept
<1> DEFINE t == cproc[c]
<1>a. Running(c) /\ lock = NULL /\ loop.op = "none"
  BY FreeCall DEF ThreadExit, Syscall, InUser
<1>0. TypeOK /\ Control /\ Family /\ t \in Slots /\ state[t] = "RUNNING"
  BY <1>a, CallIs
<1>b. PICK m \in Slots : m = Main(c)
  BY <1>a, CallIs
<1>1. /\ state' = [Woken(state, m) EXCEPT ![t] = "ZOMBIE"] /\ t # m
      /\ kop' = [kop EXCEPT ![t] = Kop("dead", NULL)]
      /\ UNCHANGED <<parent, chan, mthread, cthread, loop>>
  BY <1>b DEF ThreadExit, threadVars
<1>c. mthread[t] = m
  BY <1>b
<1> HIDE DEF t
<1>2. /\ state'[t] = "ZOMBIE"
      /\ \A s \in Slots : s # t =>
           state'[s] = IF state[s] = "SLEEPING" /\ chan[s] = m THEN "RUNNABLE" ELSE state[s]
      /\ kop'[t].pc = "dead" /\ \A s \in Slots : s # t => kop'[s] = kop[s]
  BY <1>0, <1>1 DEF Woken, TypeOK, Kop
<1>3. \A n \in Slots : \A j \in Positive : cthread[n][j] # NULL =>
        cthread[n][j] \in Slots /\ (cthread[n][j] = t => n = m)
  <2>1. \A n \in Slots : \A j \in Positive : cthread[n][j] = t => n = m
    BY <1>0, <1>1, <1>c, EntryIs
  <2> QED
    BY <1>0, <2>1 DEF TypeOK, Positive, SlotOrNull
<1>4. MainsKept
  BY <1>1, <1>2, <1>c DEF MainsKept, Unreaped, Live
<1>5. ArraysKept
  BY <1>1, <1>2, <1>3 DEF ArraysKept
<1>6. ExitKept
  BY <1>a, <1>1 DEF ExitKept
<1>7. ForksKept
  <2>1. InitProc \in Slots /\ kop[InitProc].pc \notin {"create", "created"}
    BY NullIsNoSlot DEF InitProc, TreeInv, InitLives
  <2>2. kop'[InitProc].pc \notin {"create", "created"}
    BY <1>2, <2>1
  <2>3. ASSUME NEW u \in Slots, Creates(u)', kop'[u].pc = "forked"
        PROVE  Creates(u) /\ kop'[u] = kop[u]
    BY <1>2, <2>3 DEF Creates
  <2> QED
    BY <1>1, <2>2, <2>3 DEF ForksKept
<1>8. Drowsy
  <2>1. \A s \in Slots : state'[s] = "SLEEPING" => s # t /\ state[s] = "SLEEPING" /\ chan'[s] # m
    BY <1>1, <1>2
  <2> QED
    BY <1>1, <1>2, <1>3, <2>1 DEF Drowsy
<1>9. ZombieKept
  BY <1>2 DEF ZombieKept
<1> QED
  BY <1>4, <1>5, <1>6, <1>7, <1>8, <1>9, TameTree DEF Tame

(* exit is done: the thread that called it is the only one of the process  *)
(* that is left beside the main thread, so nothing was cut off any more.   *)
LEMMA ExitDoneTree ==
  ASSUME IndInv, panic = "none", TreeInv, NEW c \in CPUs, ExitDone(c)
  PROVE  TreeInv' /\ ZombieKept
<1>a. lock = c /\ loop.op = "exit" /\ ToKill(loop.m, cproc[c]) = {}
  BY DEF ExitDone, Keep
<1>b. PICK z \in Slots : z = loop.m
  BY <1>a, LoopIs
<1>p. PICK t \in Slots : t = cproc[c]
  BY <1>a, LoopIs
<1>0. TypeOK /\ Control /\ Family /\ TreeCore /\ Sleepers
  BY TreeParts DEF IndInv, Structure
<1>1. mthread[t] = z /\ state[z] = "ZOMBIE" /\ mthread[z] = z
  BY <1>a, <1>b, <1>p, <1>0 DEF Control, CtlLoop, TreeCore, ExitLoop
<1>2. /\ kop' = [kop EXCEPT ![t] = Kop("dead", NULL)] /\ loop'.op = "none"
      /\ UNCHANGED <<state, parent, chan, mthread, cthread>>
  BY <1>p DEF ExitDone, NoLoop, procVars, threadVars
<1>3. kop'[t].pc = "dead" /\ \A s \in Slots : s # t => kop'[s] = kop[s]
  BY <1>0, <1>2 DEF TypeOK, Kop
<1>4. \A i \in Positive : cthread[z][i] # NULL => cthread[z][i] = t
  <2> SUFFICES ASSUME NEW i \in Positive, cthread[z][i] # NULL, cthread[z][i] # t PROVE FALSE
    OBVIOUS
  <2>1. state[cthread[z][i]] = "ZOMBIE"
    BY <1>0, <1>1 DEF TreeCore, ZombieThreads
  <2>2. i \in ToKill(z, t)
    BY <2>1 DEF ToKill, Places, Positive
  <2> QED
    BY <1>a, <1>b, <1>p, <2>2
<1>5. state[t] = "ZOMBIE"
  <2>1. t = z \/ \E i \in Positive : cthread[z][i] = t
    <3>1. state[t] # "UNUSED"
      BY <1>a, <1>p, <1>0, LoopIs DEF Control, CtlProc
    <3> QED
      BY <1>0, <1>1, <3>1 DEF Family, FamOwn
  <2> QED
    BY <1>0, <1>1, <2>1, NullIsNoSlot DEF TreeCore, ZombieThreads
<1>6. Mains' = Mains
  <2>1. \A s \in Slots : Unreaped(s) => ~CutOff(s)
    <3> SUFFICES ASSUME NEW s \in Slots, Unreaped(s), NEW i \in Positive, cthread[z][i] = s
                 PROVE  FALSE
      BY <1>b DEF CutOff
    <3>1. s = t /\ s # z
      BY <1>0, <1>4, NullIsNoSlot, EntryIs
    <3> QED
      BY <1>1, <3>1 DEF Unreaped
  <2>2. \A s \in Slots : ~CutOff(s)'
    BY <1>2 DEF CutOff
  <2>3. \A s \in Slots : Unreaped(s)' <=> Unreaped(s)
    BY <1>2 DEF Unreaped, Live
  <2> QED
    BY <2>1, <2>2, <2>3 DEF Mains, Unreaped
<1>7. Parents' /\ NoCycle'
  BY <1>0, <1>2, <1>6 DEF TreeCore, Parents, NoCycle, Live
<1>8. ZombieThreads'
  <2> SUFFICES ASSUME NEW m \in Slots, state[m] = "ZOMBIE", mthread[m] = m,
                      NEW i \in Positive, cthread[m][i] # NULL
               PROVE  state[cthread[m][i]] = "ZOMBIE" /\ mthread[cthread[m][i]] = m
    BY <1>2 DEF ZombieThreads
  <2>1. state[cthread[m][i]] = "ZOMBIE" /\ (m # z => mthread[cthread[m][i]] = m)
    BY <1>0, <1>b DEF TreeCore, ZombieThreads
  <2> QED
    BY <1>1, <1>4, <2>1
<1>9. ExitLoop'
  BY <1>2 DEF ExitLoop
<1>10. InitLives'
  <2>1. InitProc \in Slots
    BY NullIsNoSlot DEF InitProc
  <2> QED
    BY <1>0, <1>2, <1>3, <2>1 DEF TreeCore, InitLives, Live
<1>11. ForkParent'
  BY <1>0, <1>2, <1>3 DEF TreeCore, ForkParent, Creates
<1>12. Sleepers'
  <2>1. NoNewZombie
    BY <1>2 DEF NoNewZombie
  <2>2. Drowsy
    <3>1. \A s \in Slots : state'[s] = "SLEEPING" => s # t
      BY <1>2, <1>5
    <3> QED
      BY <1>2, <1>3, <3>1 DEF Drowsy
  <2> QED
    BY <1>0, <2>1, <2>2, DrowsySleepers
<1>13. ZombieKept
  BY <1>2 DEF ZombieKept
<1> QED
  BY <1>7, <1>8, <1>9, <1>10, <1>11, <1>12, <1>13, TreeParts DEF TreeCore

(* fork is done: the new process joins the tree as a leaf.                 *)
LEMMA ForkDoneTree ==
  ASSUME IndInv, panic = "none", TreeInv, NEW c \in CPUs, ForkDone(c)
  PROVE  TreeInv' /\ ZombieKept
<1>a. Running(c) /\ lock = NULL /\ loop.op = "none" /\ kop[cproc[c]].pc = "forked" /\ lock # c
  BY FreeCall, CpuAssumption DEF ForkDone
<1>p. PICK t \in Slots : t = cproc[c]
  BY <1>a, CreatingIs DEF CreatePoints
<1>b. PICK np \in Slots : np = kop[t].np
  BY <1>a, <1>p, CreatingIs DEF CreatePoints
<1>0. /\ TypeOK /\ Control /\ Family /\ TreeCore /\ Sleepers
      /\ state[t] = "RUNNING" /\ Creates(t) /\ np # t /\ state[np] = "EMBRYO" /\ mthread[np] = np
      /\ ~Named(np) /\ \A j \in Positive : cthread[np][j] = NULL
  BY <1>a, <1>b, <1>p, CreatingIs, TreeParts DEF CreatePoints
<1>c. PICK m \in Slots : m = mthread[t]
  BY <1>a, <1>p, CreatingIs DEF CreatePoints
<1>1. /\ state' = [state EXCEPT ![np] = "RUNNABLE"] /\ kop' = [kop EXCEPT ![t] = Kop("user", NULL)]
      /\ UNCHANGED <<parent, chan, mthread, cthread, loop>>
  BY <1>b, <1>p DEF ForkDone, Return, threadVars
<1>2. /\ state'[np] = "RUNNABLE" /\ \A s \in Slots : s # np => state'[s] = state[s]
      /\ kop'[t].pc = "user" /\ \A s \in Slots : s # t => kop'[s] = kop[s]
  BY <1>0, <1>1 DEF TypeOK, Kop
<1>3. parent[np] = m /\ Live(m) /\ mthread[m] = m /\ m # np
  <2>1. parent[np] = m
    BY <1>a, <1>b, <1>c, <1>p, <1>0 DEF TreeCore, ForkParent
  <2>2. Live(t)
    BY <1>0 DEF Live
  <2>3. Live(m) /\ mthread[m] = m
    BY <1>0, <1>c, <2>2, LiveMain
  <2> QED
    BY <1>0, <2>1, <2>3 DEF Live
<1>4. \A s \in Slots : Live(s) => Live(s)'
  BY <1>2 DEF Live
<1>5. \A s \in Mains' : s = np \/ s \in Mains
  BY <1>1, <1>2 DEF Mains, CutOff, Live
<1>6. Parents'
  <2> SUFFICES ASSUME NEW s \in Mains'
               PROVE  parent[s] \in Slots /\ Live(parent[s])' /\ mthread[parent[s]] = parent[s]
    BY <1>1 DEF Parents
  <2>1. parent[s] \in Slots /\ Live(parent[s]) /\ mthread[parent[s]] = parent[s]
    BY <1>0, <1>3, <1>5 DEF TreeCore, Parents
  <2>2. PICK p \in Slots : p = parent[s]
    BY <2>1
  <2>3. Live(p)' /\ parent'[s] = p
    BY <1>1, <1>4, <2>1, <2>2
  <2> QED
    BY <1>1, <2>1, <2>2, <2>3
<1>7. NoCycle'
  <2> SUFFICES ASSUME NEW C \in SUBSET (Mains \ {InitProc})', C # {}
               PROVE  \E s \in C : parent[s] \notin C
    BY <1>1 DEF NoCycle
  <2>1. CASE np \in C /\ m \notin C
    BY <1>3, <2>1
  <2>2. CASE np \notin C \/ m \in C
    <3>1. PICK D \in SUBSET (Mains \ {InitProc}) : D = C \ {np}
      BY <1>5
    <3>2. D # {}
      BY <1>3, <2>2, <3>1
    <3>3. PICK s \in D : parent[s] \notin D
      BY <1>0, <3>2 DEF TreeCore, NoCycle
    <3>4. parent[s] # np
      <4>1. Live(parent[s])
        BY <1>0, <3>1, <3>3 DEF TreeCore, Parents
      <4> QED
        BY <1>0, <4>1 DEF Live
    <3> QED
      BY <3>1, <3>3, <3>4
  <2> QED
    BY <2>1, <2>2
<1>8. ZombieThreads'
  <2>1. \A n \in Slots : \A i \in Positive : cthread[n][i] # NULL =>
          cthread[n][i] \in Slots /\ cthread[n][i] # np
    BY <1>0 DEF TypeOK, Positive, SlotOrNull, Named
  <2> QED
    BY <1>0, <1>1, <1>2, <2>1 DEF TreeCore, ZombieThreads
<1>9. ExitLoop'
  BY <1>a, <1>1 DEF ExitLoop
<1>10. InitLives'
  <2>1. InitProc \in Slots
    BY NullIsNoSlot DEF InitProc
  <2> QED
    BY <1>0, <1>1, <1>2, <1>4, <2>1 DEF TreeCore, InitLives
<1>11. ForkParent'
  <2> SUFFICES ASSUME NEW u \in Slots, Creates(u)', kop'[u].pc = "forked"
               PROVE  parent[kop'[u].np] = mthread[u]
    BY <1>1 DEF ForkParent
  <2>1. u # t /\ kop'[u] = kop[u]
    BY <1>2
  <2>2. u # np
    BY <1>0, <2>1 DEF Family, EmbryoIdle
  <2>3. Creates(u)
    BY <1>2, <2>1, <2>2 DEF Creates
  <2> QED
    BY <1>0, <2>1, <2>3 DEF TreeCore, ForkParent
<1>12. Sleepers'
  <2>1. NoNewZombie
    BY <1>1, <1>2 DEF NoNewZombie
  <2>2. Drowsy
    <3>1. \A s \in Slots : state'[s] = "SLEEPING" => s # t /\ s # np
      BY <1>0, <1>2
    <3>2. \A n \in Slots : \A i \in Positive : cthread[n][i] # NULL => cthread[n][i] \in Slots
      BY <1>0 DEF TypeOK, Positive, SlotOrNull
    <3> QED
      BY <1>1, <1>2, <3>1, <3>2 DEF Drowsy
  <2> QED
    BY <1>0, <2>1, <2>2, DrowsySleepers
<1>13. ZombieKept
  BY <1>0, <1>2 DEF ZombieKept
<1> QED
  BY <1>6, <1>7, <1>8, <1>9, <1>10, <1>11, <1>12, <1>13, TreeParts DEF TreeCore

(* exit: every thread of process m becomes a ZOMBIE, and its children go   *)
(* to its parent, whom it wakes.  That the parent is another process needs *)
(* NoCycle, and that NoCycle survives the reparenting needs it for sets.   *)
LEMMA ExitTree ==
  ASSUME IndInv, panic = "none", TreeInv, NEW c \in CPUs, Exit(c)
  PROVE  TreeInv' /\ ZombieKept
<1>a. Running(c) /\ lock = NULL /\ loop.op = "none"
  BY FreeCall DEF Exit, Syscall, InUser
<1>p. PICK t \in Slots : t = cproc[c]
  BY <1>a, CallIs
<1>b. PICK m \in Slots : m = mthread[t]
  BY <1>a, <1>p, CallIs
<1>0. TypeOK /\ Control /\ Family /\ TreeCore /\ Sleepers /\ Live(t)
  BY <1>a, <1>p, CallIs, TreeParts DEF Live
<1>1. /\ mthread[m] = m /\ cthread[m][0] = m /\ ~Named(m) /\ Live(m)
      /\ t = m \/ \E i \in Positive : cthread[m][i] = t
  BY <1>b, <1>0, MainIs, LiveMain
<1>2. m # InitProc
  <2>1. t # InitProc
    BY <1>p DEF Exit, Syscall
  <2> QED
    BY <1>b, <1>0, <2>1, LiveMain
<1>3. \A s \in Slots : s \in Threads(m) <=> s = m \/ \E i \in Positive : cthread[m][i] = s
  <2>1. Slots = Positive \cup {0}
    BY NullIsNoSlot DEF Positive
  <2>2. \A s \in Slots : s \in Threads(m) <=> \E i \in Slots : cthread[m][i] = s
    BY NullIsNoSlot DEF Threads, Places
  <2> QED
    BY <1>1, <2>1, <2>2
<1>4. \A s \in Slots : s \in Threads(m) /\ s # m =>
        /\ mthread[s] = s => ~Live(s) /\ parent[s] = NULL
        /\ \A j \in Positive : cthread[s][j] = NULL
  <2>1. \A s \in Slots : \A i \in Positive : cthread[m][i] = s =>
          /\ mthread[s] = s => state[s] \in {"EMBRYO", "ZOMBIE"} /\ parent[s] = NULL
          /\ \A j \in Positive : cthread[s][j] = NULL
    BY <1>0, EntryIs
  <2> QED
    BY <1>3, <2>1 DEF Live
<1>5. m \in Mains
  BY <1>a, <1>1 DEF Mains, CutOff
<1>c. PICK P \in Slots : P = parent[m]
  BY <1>0, <1>5 DEF TreeCore, Parents
<1>6. Live(P) /\ mthread[P] = P /\ P # m /\ P \notin Threads(m)
  <2>1. Live(P) /\ mthread[P] = P
    BY <1>0, <1>5, <1>c DEF TreeCore, Parents
  <2>2. P # m
    <3>1. {m} \in SUBSET (Mains \ {InitProc}) /\ {m} # {}
      BY <1>2, <1>5
    <3>2. PICK s \in {m} : parent[s] \notin {m}
      BY <1>0, <3>1 DEF TreeCore, NoCycle
    <3> QED
      BY <1>c, <3>2
  <2> QED
    BY <1>4, <2>1, <2>2
<1> DEFINE st == [s \in Slots |-> IF s \in Threads(m) THEN "ZOMBIE" ELSE state[s]]
<1>7. /\ state' = Woken(st, P) /\ parent' = Reparented(m)
      /\ loop' = [op |-> "exit", m |-> m, pct |-> 0]
      /\ UNCHANGED <<chan, mthread, cthread, kop>>
  BY <1>b, <1>c, <1>p DEF Exit, threadVars, kernVars
<1>8. \A s \in Slots :
        /\ s \in Threads(m) => state'[s] = "ZOMBIE"
        /\ s \notin Threads(m) => state'[s] = state[s]
                                  \/ (state[s] = "SLEEPING" /\ state'[s] = "RUNNABLE")
        /\ state'[s] = "SLEEPING" => s \notin Threads(m) /\ state[s] = "SLEEPING" /\ chan[s] # P
  BY <1>7 DEF Woken
<1>9. \A s \in Slots : parent'[s] = IF parent[s] = m THEN P ELSE parent[s]
  BY <1>7, <1>c DEF Reparented
<1> HIDE DEF st
<1>10. \A s \in Slots : Live(s) /\ mthread[s] = s /\ s # m => Live(s)'
  BY <1>4, <1>8 DEF Live
<1>11. \A s \in Mains' : s \in Mains
  <2> SUFFICES ASSUME NEW s \in Slots, s # m, Unreaped(s)', ~CutOff(s)' PROVE s \in Mains
    BY <1>5 DEF Mains, Unreaped
  <2>1. s \notin Threads(m)
    BY <1>3, <1>7 DEF CutOff
  <2>2. mthread[s] = s /\ (Live(s) \/ state[s] = "ZOMBIE")
    BY <1>7, <1>8, <2>1 DEF Unreaped, Live
  <2> QED
    BY <1>a, <2>2 DEF Mains, CutOff
<1>12. Parents'
  <2> SUFFICES ASSUME NEW s \in Mains'
               PROVE  /\ parent'[s] \in Slots /\ Live(parent[s])'
                      /\ mthread'[parent'[s]] = parent'[s]
    BY DEF Parents
  <2>1. s \in Slots /\ parent[s] \in Slots /\ Live(parent[s]) /\ mthread[parent[s]] = parent[s]
    BY <1>0, <1>11 DEF TreeCore, Parents, Mains
  <2>2. PICK q \in Slots : q = parent'[s]
    BY <1>9, <2>1
  <2>3. Live(q) /\ mthread[q] = q /\ q # m
    BY <1>6, <1>9, <2>1, <2>2
  <2>4. Live(q)'
    BY <1>10, <2>3
  <2> QED
    BY <1>7, <2>2, <2>3, <2>4
<1>13. NoCycle'
  <2> SUFFICES ASSUME NEW C \in SUBSET (Mains \ {InitProc})', C # {}
               PROVE  \E s \in C : parent'[s] \notin C
    BY DEF NoCycle
  <2>0. C \in SUBSET (Mains \ {InitProc}) /\ C \subseteq Slots
    BY <1>11 DEF Mains
  <2>1. CASE m \in C \/ P \notin C
    <3>1. PICK s \in C : parent[s] \notin C
      BY <1>0, <2>0 DEF TreeCore, NoCycle
    <3>2. parent'[s] \in {parent[s], P} /\ (m \in C => parent'[s] = parent[s])
      BY <1>9, <2>0, <3>1
    <3> QED
      BY <2>1, <3>1, <3>2
  <2>2. CASE m \notin C /\ P \in C
    <3>1. PICK D \in SUBSET (Mains \ {InitProc}) : D = C \cup {m}
      BY <1>2, <1>5, <2>0
    <3>2. D # {}
      BY <3>1
    <3>3. PICK s \in D : parent[s] \notin D
      BY <1>0, <3>2 DEF TreeCore, NoCycle
    <3>4. s # m
      BY <1>c, <2>2, <3>1, <3>3
    <3>5. s \in C /\ parent[s] # m /\ parent[s] \notin C
      BY <3>1, <3>3, <3>4
    <3>6. parent'[s] = parent[s]
      BY <1>9, <2>0, <3>5
    <3> QED
      BY <3>5, <3>6
  <2> QED
    BY <2>1, <2>2
<1>14. ForkParent'
  <2> SUFFICES ASSUME NEW u \in Slots, Creates(u)', kop[u].pc = "forked"
               PROVE  parent'[kop[u].np] = mthread[u]
    BY <1>7 DEF ForkParent
  <2>1. u \notin Threads(m) /\ Creates(u)
    BY <1>7, <1>8 DEF Creates
  <2>2. kop[u].np \in Slots /\ parent[kop[u].np] = mthread[u]
    BY <1>0, <2>1 DEF TreeCore, ForkParent, Family, NewSlot
  <2>3. mthread[u] # m
    <3>1. Live(u)
      BY <1>0, <2>1 DEF Creates, Family, EmbryoIdle, Live, TypeOK, States
    <3> QED
      BY <1>0, <1>3, <2>1, <3>1, MainIs
  <2> QED
    BY <1>9, <2>2, <2>3
<1>15. ZombieThreads'
  <2> SUFFICES ASSUME NEW n \in Slots, state'[n] = "ZOMBIE", mthread[n] = n,
                      NEW i \in Positive, cthread[n][i] # NULL
               PROVE  /\ state'[cthread[n][i]] = "ZOMBIE"
                      /\ mthread[cthread[n][i]] = n \/ (loop'.op = "exit" /\ loop'.m = n)
    BY <1>7 DEF ZombieThreads
  <2>0. PICK x \in Slots : x = cthread[n][i]
    BY <1>0 DEF TypeOK, Positive, SlotOrNull
  <2>1. CASE n = m
    BY <1>3, <1>7, <1>8, <2>0, <2>1
  <2>2. CASE n # m
    <3>1. n \notin Threads(m)
      BY <1>4, <2>2
    <3>2. state[n] = "ZOMBIE"
      BY <1>8, <3>1
    <3>3. state[x] = "ZOMBIE" /\ mthread[x] = n
      BY <1>a, <1>0, <2>0, <3>2 DEF TreeCore, ZombieThreads
    <3> QED
      BY <1>8, <2>0, <3>3
  <2> QED
    BY <2>1, <2>2
<1>16. ExitLoop'
  BY <1>1, <1>3, <1>7, <1>8 DEF ExitLoop
<1>17. InitLives'
  <2>1. InitProc \in Slots
    BY NullIsNoSlot DEF InitProc
  <2>2. Live(InitProc)'
    BY <1>0, <1>2, <1>10, <2>1 DEF TreeCore, InitLives
  <2> QED
    BY <1>0, <1>7, <2>2 DEF TreeCore, InitLives
<1>18. Sleepers'
  <2> SUFFICES ASSUME NEW s \in Slots, state'[s] = "SLEEPING", kop[s].pc \in {"wait", "join"}
               PROVE  Sound(s)'
    BY <1>7 DEF Sleepers, Sound
  <2>1. state[s] = "SLEEPING" /\ s \notin Threads(m) /\ Sound(s) /\ chan[s] # P
    BY <1>0, <1>8 DEF Sleepers, Sound
  <2>2. PICK n \in Slots : n = mthread[s]
    BY <1>0, <2>1 DEF Family, FamOwn
  <2>3. n # P /\ chan[s] = n
    BY <2>1, <2>2 DEF Sound
  <2>4. n # m
    <3>1. Live(s)
      BY <2>1 DEF Live
    <3> QED
      BY <1>0, <1>3, <2>1, <2>2, <3>1, MainIs
  <2>5. ASSUME kop[s].pc = "wait" PROVE Zombies(n)' = {}
    <3> SUFFICES ASSUME NEW z \in Slots, parent'[z] = n, mthread[z] = z, state'[z] = "ZOMBIE"
                 PROVE  FALSE
      BY <1>7 DEF Zombies, Children
    <3>1. parent[z] = n
      BY <1>9, <2>3
    <3>2. z \notin Threads(m)
      <4>1. z # m
        BY <1>c, <2>3, <3>1
      <4> QED
        BY <1>4, <3>1, <4>1, NullIsNoSlot
    <3>3. state[z] = "ZOMBIE"
      BY <1>8, <3>2
    <3>4. Zombies(n) = {}
      BY <2>1, <2>2, <2>5 DEF Sound
    <3> QED
      BY <3>1, <3>3, <3>4 DEF Zombies, Children
  <2>6. ASSUME kop[s].pc = "join"
        PROVE  /\ kop[s].np \in Slots /\ state'[kop[s].np] # "ZOMBIE"
               /\ \E i \in Positive : cthread[n][i] = kop[s].np
    <3>1. /\ kop[s].np \in Slots /\ state[kop[s].np] # "ZOMBIE"
          /\ \E i \in Positive : cthread[n][i] = kop[s].np
      BY <2>1, <2>2, <2>6 DEF Sound
    <3>2. kop[s].np # m
      BY <1>1, <3>1 DEF Named
    <3>3. \A j \in Positive : cthread[m][j] # kop[s].np
      BY <1>0, <2>4, <3>1, NullIsNoSlot DEF Family, FamOnce
    <3>4. kop[s].np \notin Threads(m)
      BY <1>3, <3>1, <3>2, <3>3
    <3> QED
      BY <1>8, <3>1, <3>4
  <2>7. mthread'[s] = n /\ chan'[s] = n /\ kop'[s] = kop[s]
    BY <1>7, <2>2, <2>3
  <2> QED
    BY <1>7, <2>2, <2>5, <2>6, <2>7 DEF Sound
<1>19. ZombieKept
  BY <1>8 DEF ZombieKept
<1> QED
  BY <1>12, <1>13, <1>14, <1>15, <1>16, <1>17, <1>18, <1>19, TreeParts DEF TreeCore

-----------------------------------------------------------------------------
LEMMA InitTree == Init => TreeInv
<1> SUFFICES ASSUME Init PROVE TreeInv
  OBVIOUS
<1>0. InitProc \in Slots /\ 0 \notin Positive /\ Positive \subseteq Slots /\ NULL \notin Slots
  BY NullIsNoSlot DEF InitProc, Positive
<1>1. /\ \A s \in Slots : state[s] = IF s = InitProc THEN "RUNNABLE" ELSE "UNUSED"
      /\ mthread[InitProc] = InitProc /\ parent[InitProc] = InitProc
      /\ \A s \in Slots : kop[s].pc = "user"
      /\ \A s \in Slots : \A i \in Positive : cthread[s][i] = NULL
      /\ loop.op = "none"
  BY <1>0 DEF Init, Kop, NoLoop
<1>2. Mains \subseteq {InitProc}
  BY <1>1 DEF Mains, Live
<1>3. Live(InitProc)
  BY <1>0, <1>1 DEF Live
<1>4. InitLives
  BY <1>0, <1>1, <1>3 DEF InitLives
<1>5. ZombieThreads /\ ExitLoop /\ ForkParent /\ Sleepers
  BY <1>1 DEF ZombieThreads, ExitLoop, ForkParent, Sleepers
<1>6. Parents
  BY <1>0, <1>1, <1>2, <1>3 DEF Parents
<1>7. NoCycle
  BY <1>2 DEF NoCycle
<1> QED
  BY <1>4, <1>5, <1>6, <1>7 DEF TreeInv

(* One step of the kernel, by action.                                      *)
LEMMA NextTree ==
  ASSUME IndInv, TreeInv, Next, "kill" \notin Calls
  PROVE  TreeInv' /\ ZombieKept
<1>0. panic = "none"
  BY DEF Next
<1>1. ASSUME NEW s \in Slots, Wakeup(s) PROVE TreeInv' /\ ZombieKept
  BY <1>0, <1>1, WakeupCalm, CalmTree
<1>2. ASSUME NEW c \in CPUs, Schedule(c) \/ Timer(c) PROVE TreeInv' /\ ZombieKept
  BY <1>0, <1>2, ScheduleCalm, TimerCalm, CalmTree
<1>3. ASSUME NEW c \in CPUs, ProcessStep(c) PROVE TreeInv' /\ ZombieKept
  <2>1. CASE \/ SetShare(c) \/ PopShare(c) \/ TakeShare(c) \/ ChangeShare(c) \/ PushShare(c)
             \/ LeaveShare(c) \/ Yield(c) \/ Sleep(c) \/ WaitFail(c)
    <3>1. Calm
      BY <1>0, <2>1, CallCalm
    <3> QED
      BY <1>0, <3>1, CalmTree
  <2>2. CASE WaitReap(c)
    BY <1>0, <2>2, WaitReapCalm, CalmTree
  <2>3. CASE Fork(c)
    BY <1>0, <2>3, StartCreateTree DEF Fork
  <2>4. CASE CreateFail(c) \/ ForkCopy(c) \/ ForkDone(c)
    BY <1>0, <2>4, CreateFailTree, ForkCopyTree, ForkDoneTree
  <2>5. CASE Exit(c) \/ KillZombie(c) \/ ExitDone(c)
    BY <1>0, <2>5, ExitTree, KillZombieTree, ExitDoneTree
  <2>6. CASE WaitDone(c) \/ WaitSleep(c)
    BY <1>0, <2>6, WaitDoneTree, WaitSleepTree
  <2>7. CASE Kill(c)
    BY <2>7 DEF Kill, Syscall
  <2> QED
    BY <1>3, <2>1, <2>2, <2>3, <2>4, <2>5, <2>6, <2>7 DEF ProcessStep
<1>4. ASSUME NEW c \in CPUs, ThreadStep(c) PROVE TreeInv' /\ ZombieKept
  <2>1. CASE ThreadCreate(c)
    BY <1>0, <2>1, StartCreateTree DEF ThreadCreate
  <2>2. CASE ThreadStack(c) \/ ThreadStart(c) \/ ThreadExit(c)
    BY <1>0, <2>2, ThreadStackTree, ThreadStartTree, ThreadExitTree
  <2>3. CASE JoinReap(c) \/ JoinSleep(c)
    BY <1>0, <2>3, JoinReapTree, JoinSleepTree
  <2>4. CASE JoinFail(c)
    <3>1. Calm
      BY <1>0, <2>4, CallCalm
    <3> QED
      BY <1>0, <3>1, CalmTree
  <2> QED
    BY <1>4, <2>1, <2>2, <2>3, <2>4 DEF ThreadStep
<1> QED
  BY <1>1, <1>2, <1>3, <1>4 DEF Next

LEMMA StutterTree ==
  ASSUME TreeInv, UNCHANGED vars
  PROVE  TreeInv'
BY DEF vars, procVars, threadVars, kernVars, TreeInv, InitLives, ZombieThreads, ExitLoop, Parents,
       NoCycle, ForkParent, Sleepers, Mains, CutOff, Live, Creates, Zombies, Children

(* What FamilyInv says follows from the two invariants.                    *)
LEMMA TreeIsFamily ==
  ASSUME IndInv, TreeInv, panic = "none"
  PROVE  FamilyInv
<1>0. TypeOK /\ Control /\ Family /\ TreeCore
  BY TreeParts DEF IndInv, Structure
<1>z. Slots = Positive \cup {0} /\ 0 \notin Positive
  BY NullIsNoSlot DEF Positive
<1>1. ASSUME NEW s \in Slots, Live(s)
      PROVE  /\ mthread[s] # NULL /\ state[mthread[s]] # "UNUSED"
             /\ \E i \in Slots : /\ cthread[mthread[s]][i] = s
                                /\ \A j \in Slots : cthread[mthread[s]][j] = s => i = j
  <2>0. PICK m \in Slots : m = mthread[s]
    BY <1>0, <1>1, MainIs
  <2>1. /\ mthread[m] = m /\ cthread[m][0] = m /\ state[m] # "UNUSED" /\ ~Named(m)
        /\ s = m \/ \E i \in Positive : cthread[m][i] = s
    BY <1>0, <1>1, <2>0, MainIs
  <2>2. CASE s = m
    BY <1>z, <2>0, <2>1, <2>2, NullIsNoSlot DEF Named
  <2>3. CASE s # m
    <3>1. PICK i \in Positive : cthread[m][i] = s
      BY <2>1, <2>3
    <3>2. \A j \in Positive : cthread[m][j] = s => i = j
      BY <1>0, <3>1, NullIsNoSlot DEF Family, FamOnce
    <3>3. \A j \in Slots : cthread[m][j] = s => i = j
      BY <1>z, <2>1, <2>3, <3>2
    <3> QED
      BY <1>z, <2>0, <2>1, <3>1, <3>3, NullIsNoSlot
  <2> QED
    BY <2>2, <2>3
<1>2. ASSUME loop.op # "exit", NEW s \in Slots,
             state[s] \in {"SLEEPING", "RUNNABLE", "RUNNING", "ZOMBIE"}, mthread[s] = s
      PROVE  parent[s] # NULL /\ Live(parent[s])
  <2>1. s \in Mains
    BY <1>2 DEF Mains, CutOff, Live
  <2> QED
    BY <1>0, <2>1, NullIsNoSlot DEF TreeCore, Parents
<1>3. ASSUME NEW m \in Slots, Live(m), mthread[m] = m, NEW t \in Threads(m)
      PROVE  state[t] # "UNUSED" /\ (mthread[t] = m \/ state[t] = "EMBRYO")
  <2>0. PICK i \in Slots : cthread[m][i] # NULL /\ cthread[m][i] = t
    BY DEF Threads, Places
  <2>1. t \in Slots
    BY <1>0, <2>0 DEF TypeOK, SlotOrNull
  <2>2. CASE i = 0
    BY <1>0, <1>3, <2>0, <2>2 DEF Family, FamArray, Live
  <2>3. CASE i \in Positive
    <3>1. /\ state[t] # "UNUSED" /\ mthread[t] \in {m, t}
          /\ mthread[t] = t => state[t] \in {"EMBRYO", "ZOMBIE"} /\ parent[t] = NULL
      BY <1>0, <2>0, <2>1, <2>3, EntryIs
    <3> SUFFICES ASSUME mthread[t] = t, state[t] = "ZOMBIE" PROVE FALSE
      BY <3>1
    <3>2. t \notin Mains
      BY <1>0, <3>1, NullIsNoSlot DEF TreeCore, Parents
    <3>3. CutOff(t)
      BY <2>1, <3>2 DEF Mains
    <3>4. PICK j \in Positive : cthread[loop.m][j] = t
      BY <3>3 DEF CutOff
    <3>5. loop.m \in Slots /\ state[loop.m] = "ZOMBIE"
      BY <1>0, <3>3 DEF CutOff, TreeCore, ExitLoop, Control, CtlLock
    <3>6. loop.m = m
      BY <1>0, <2>0, <2>3, <3>4, <3>5 DEF Family, FamOnce
    <3> QED
      BY <1>3, <3>5, <3>6 DEF Live
  <2> QED
    BY <1>z, <2>2, <2>3
<1> QED
  BY <1>1, <1>2, <1>3 DEF FamilyInv

-----------------------------------------------------------------------------
(* Every reachable state satisfies the invariant of the process tree: init *)
(* lives, an exited process has no thread left running, every process has  *)
(* a parent that has not exited, no process descends from itself, and who  *)
(* sleeps in wait or thread_join has something to wait for (fork, exit,    *)
(* wait, thread_create, thread_exit, thread_join).                         *)
THEOREM TreeKept ==
  ASSUME "kill" \notin Calls
  PROVE  Spec => []TreeInv
<1>1. IndInv /\ TreeInv /\ [Next]_vars => TreeInv'
  BY NextTree, StutterTree
<1> QED
  BY <1>1, InitTree, Inductive, PTL DEF Spec

(* The process tree is intact as long as the kernel runs: each thread is   *)
(* in one place of the array of its process, each process has a parent     *)
(* that can reap it, and an array names nobody else's threads.             *)
THEOREM FamilyIntact ==
  ASSUME "kill" \notin Calls
  PROVE  Spec => [](NoPanic => FamilyInv)
<1>1. IndInv /\ TreeInv => (NoPanic => FamilyInv)
  BY TreeIsFamily DEF NoPanic
<1> QED
  BY <1>1, Inductive, TreeKept, PTL

(* No wakeup is lost: nobody sleeps in wait with an exited child, or in    *)
(* thread_join of a thread that has exited or is gone.                     *)
THEOREM WakeupsKept ==
  ASSUME "kill" \notin Calls
  PROVE  Spec => []NoLostWakeup
<1>1. TreeInv => NoLostWakeup
  BY NullIsNoSlot DEF TreeInv, Sleepers, NoLostWakeup
<1> QED
  BY <1>1, TreeKept, PTL

(* An exited thread is never run, woken or created anew before the slot is *)
(* freed.                                                                  *)
THEOREM ZombiesStay ==
  ASSUME "kill" \notin Calls
  PROVE  Spec => ZombieStays
<1> DEFINE Kept == \A s \in Slots : state[s] = "ZOMBIE" => state'[s] \in {"ZOMBIE", "UNUSED"}
<1>1. IndInv /\ TreeInv /\ [Next]_vars => [Kept]_vars
  BY NextTree DEF ZombieKept
<1>2. Spec => [][Next]_vars
  BY PTL DEF Spec
<1>3. Spec => [][Kept]_vars
  BY <1>1, <1>2, Inductive, TreeKept, PTL
<1> QED
  BY <1>3 DEF ZombieStays

-----------------------------------------------------------------------------
(* The tickets, added up slot by slot.                                     *)
Tally(f, sh, pct) ==
  /\ f \in [0 .. NPROC -> Int] /\ f[0] = sh /\ f[NPROC] = 100
  /\ \A s \in Slots : f[s + 1] = f[s] + pct[s]
SumOK == \E f : Tally(f, share, percentage)

(* What ShareInv computes is the tally.                                    *)
LEMMA TallyIs ==
  ASSUME TypeOK, SumOK
  PROVE  ShareInv
<1>1. PICK f : Tally(f, share, percentage)
  BY DEF SumOK
<1> DEFINE g == CHOOSE g : g = [n \in 0 .. NPROC |-> IF n = 0 THEN share
                                                     ELSE g[n - 1] + percentage[n - 1]]
<1>2. f = [n \in 0 .. NPROC |-> IF n = 0 THEN share ELSE f[n - 1] + percentage[n - 1]]
  <2> SUFFICES ASSUME NEW n \in 0 .. NPROC
               PROVE  f[n] = IF n = 0 THEN share ELSE f[n - 1] + percentage[n - 1]
    BY <1>1 DEF Tally
  <2>1. CASE n = 0
    BY <1>1, <2>1 DEF Tally
  <2>2. CASE n # 0
    <3>1. n - 1 \in Slots /\ (n - 1) + 1 = n
      BY <2>2, NprocAssumption DEF Slots
    <3>2. f[(n - 1) + 1] = f[n - 1] + percentage[n - 1]
      BY <1>1, <3>1 DEF Tally
    <3> QED
      BY <2>2, <3>1, <3>2
  <2> QED
    BY <2>1, <2>2
<1>3. g = [n \in 0 .. NPROC |-> IF n = 0 THEN share ELSE g[n - 1] + percentage[n - 1]]
  BY <1>2
<1> HIDE DEF g
<1>4. g[NPROC] = f[NPROC]
  <2> DEFINE D == {n \in 0 .. NPROC : g[n] # f[n]}
  <2>1. CASE D = {}
    BY <2>1, NprocAssumption
  <2>2. CASE D # {}
    <3>1. D \subseteq Nat
      OBVIOUS
    <3>2. PICK n \in D : \A k \in D : n <= k
      <4> HIDE DEF D
      <4> QED
        BY <2>2, <3>1, LeastExists
    <3>3. n \in 0 .. NPROC /\ g[n] # f[n]
      BY <3>2
    <3>4. n # 0
      <4>1. 0 \in 0 .. NPROC
        BY NprocAssumption
      <4>2. g[0] = share /\ f[0] = share
        BY <1>2, <1>3, <4>1
      <4> QED
        BY <3>3, <4>2
    <3>5. n - 1 \in 0 .. NPROC /\ ~(n <= n - 1)
      <4>1. n \in Int /\ 0 <= n /\ n <= NPROC
        BY <3>3
      <4> HIDE DEF D
      <4> QED
        BY <3>4, <4>1, NprocAssumption
    <3>6. g[n - 1] = f[n - 1]
      BY <3>2, <3>5
    <3>7. g[n] = g[n - 1] + percentage[n - 1]
      BY <1>3, <3>3, <3>4, Zenon
    <3>8. f[n] = f[n - 1] + percentage[n - 1]
      BY <1>2, <3>3, <3>4, Zenon
    <3> QED
      BY <3>3, <3>6, <3>7, <3>8
  <2> QED
    BY <2>1, <2>2
<1> QED
  BY <1>1, <1>4 DEF ShareInv, g, Tally

(* The share of one slot changes, and the MLFQ's by the same tickets.      *)
LEMMA TallyMoves ==
  ASSUME TypeOK, SumOK, NEW s \in Slots, NEW d \in Int,
         percentage' = [percentage EXCEPT ![s] = d], share' = share + percentage[s] - d
  PROVE  SumOK'
<1>1. PICK f : Tally(f, share, percentage)
  BY DEF SumOK
<1> DEFINE h == [n \in 0 .. NPROC |-> IF n <= s THEN f[n] + (percentage[s] - d) ELSE f[n]]
<1>2. percentage \in [Slots -> Int] /\ share \in Int /\ f \in [0 .. NPROC -> Int]
  BY <1>1 DEF TypeOK, Tally
<1>3. h \in [0 .. NPROC -> Int]
  BY <1>2
<1>4. h[0] = share'
  BY <1>1, <1>2, NprocAssumption DEF Tally, Slots
<1>5. ASSUME NEW u \in Slots PROVE h[u + 1] = h[u] + percentage'[u]
  <2>1. u \in 0 .. NPROC /\ u + 1 \in 0 .. NPROC /\ f[u + 1] = f[u] + percentage[u]
    BY <1>1, NprocAssumption DEF Slots, Tally
  <2>2. percentage'[u] = IF u = s THEN d ELSE percentage[u]
    BY <1>2
  <2>3. f[u] \in Int /\ percentage[u] \in Int /\ percentage[s] \in Int /\ u \in Int /\ s \in Int
    BY <1>2, <2>1 DEF Slots
  <2>4. h[u] = IF u <= s THEN f[u] + (percentage[s] - d) ELSE f[u]
    BY <2>1
  <2>5. h[u + 1] = IF u + 1 <= s THEN f[u + 1] + (percentage[s] - d) ELSE f[u + 1]
    BY <2>1
  <2> HIDE DEF h
  <2> QED
    BY <2>1, <2>2, <2>3, <2>4, <2>5
<1>6. h[NPROC] = 100
  BY <1>1, NprocAssumption DEF Slots, Tally
<1> HIDE DEF h
<1>7. Tally(h, share', percentage')
  BY <1>3, <1>4, <1>5, <1>6 DEF Tally
<1> QED
  BY <1>7 DEF SumOK

LEMMA TallyStays ==
  ASSUME SumOK, share' = share, \A s \in Slots : percentage'[s] = percentage[s]
  PROVE  SumOK'
<1>1. PICK f : Tally(f, share, percentage)
  BY DEF SumOK
<1>2. Tally(f, share', percentage')
  BY <1>1 DEF Tally
<1> QED
  BY <1>2 DEF SumOK

-----------------------------------------------------------------------------
ShareInd == SumOK /\ ShareOwners /\ QueuedWithoutShare

(* Steps that move no share, queue and take off nobody, start no thread    *)
(* and make none.                                                          *)
Untouched ==
  /\ share' = share
  /\ \A s \in Slots : percentage'[s] = percentage[s] /\ (inqueue'[s] <=> inqueue[s])
Steady ==
  /\ Untouched /\ UNCHANGED <<mthread, cthread>>
  /\ \A s \in Slots : /\ Live(s)' => Live(s)
                      /\ state'[s] = "EMBRYO" => state[s] = "EMBRYO"
                      /\ state'[s] = "UNUSED" => state[s] \in {"UNUSED", "EMBRYO"}
  /\ UNCHANGED loop \/ (loop.op \notin {"pop", "push"} /\ loop'.op \notin {"pop", "push"})

(* The types and loop.m, which both parts of ShareInd need.                *)
LEMMA EntriesAre ==
  ASSUME TypeOK
  PROVE  /\ \A m \in Slots : \A i \in Positive :
              cthread[m][i] # NULL => cthread[m][i] \in Slots
         /\ Positive \subseteq Slots /\ 0 \in Slots /\ NULL \notin Slots
BY NullIsNoSlot DEF TypeOK, Positive, SlotOrNull

LEMMA SteadyShares ==
  ASSUME IndInv, ShareInd, panic = "none", Steady
  PROVE  ShareInd'
<1>0. TypeOK /\ Family /\ Control
  BY DEF IndInv, Structure
<1>1. SumOK'
  BY TallyStays DEF ShareInd, Steady, Untouched
<1>2. loop.op \in {"pop", "push"} => loop.m \in Slots
  BY <1>0 DEF Control, CtlLock
<1>3. \A m \in Slots : Moving(m)' = Moving(m)
  BY DEF Steady, Moving
<1>4. ShareOwners'
  BY <1>2 DEF ShareInd, ShareOwners, Steady, Untouched
<1>5. ASSUME NEW s \in Slots, Live(s)', ~Moving(mthread[s])'
      PROVE  inqueue'[s] <=> percentage'[mthread'[s]] = 0
  <2>1. Live(s) /\ mthread'[s] = mthread[s]
    BY <1>5 DEF Steady
  <2>2. mthread[s] \in Slots
    BY <1>0, <2>1, MainIs
  <2> QED
    BY <1>3, <1>5, <2>1, <2>2 DEF ShareInd, QueuedWithoutShare, Steady, Untouched
<1>6. ASSUME NEW m \in Slots, NEW i \in Positive, cthread'[m][i] # NULL, ~Moving(m)',
             state'[cthread'[m][i]] = "EMBRYO", inqueue'[cthread'[m][i]]
      PROVE  percentage'[m] = 0
  <2>1. cthread'[m][i] = cthread[m][i] /\ cthread[m][i] \in Slots
    BY <1>0, <1>6, EntriesAre DEF Steady
  <2> QED
    BY <1>3, <1>6, <2>1 DEF ShareInd, QueuedWithoutShare, Steady, Untouched
<1>7. QueuedWithoutShare'
  BY <1>5, <1>6 DEF QueuedWithoutShare, Steady
<1> QED
  BY <1>1, <1>4, <1>7 DEF ShareInd

-----------------------------------------------------------------------------
(* droppriority and boostpriority move a process from queue to queue, so   *)
(* the scheduler and the timer take nobody off the queues.                 *)
LEMMA ScheduleUntouched ==
  ASSUME IndInv, panic = "none", NEW c \in CPUs, Schedule(c)
  PROVE  Untouched
<1>0. TypeOK /\ QueueInv /\ Control
  BY DEF IndInv, Structure
<1>1. UNCHANGED <<share, percentage>>
  BY DEF Schedule, MlfqDivide, PickMlfq, PickStride, RunTop, LeaveMlfq, BackBoost,
         BoostMove, BoostEnd, BackMlfq, BackStride, schedVars, mlfqVars
<1>2. CASE BoostMove(c)
  <2>1. PICK l \in {1, 2} :
          /\ Occupied(l) # {}
          /\ LET r == Place(index[l], Distance(index[l], Occupied(l)))
                 p == queue[l][r]
             IN  /\ index' = [index EXCEPT ![l] = r]
                 /\ IF Full(queue[0])
                    THEN panic' = "push" /\ UNCHANGED <<queue, inqueue>>
                    ELSE /\ queue' = [queue EXCEPT ![0] = Pushed(@, p), ![l] = [@ EXCEPT ![r] = NULL]]
                         /\ inqueue' = [inqueue EXCEPT ![p] = TRUE]
                         /\ UNCHANGED panic
    BY <1>2 DEF BoostMove
  <2> DEFINE r == Place(index[l], Distance(index[l], Occupied(l)))
             p == queue[l][r]
  <2>2. l \in Levels
    BY DEF Levels
  <2>3. r \in Slots /\ r \in Occupied(l)
    <3>1. index[l] \in -1 .. (NPROC - 1) /\ Occupied(l) \in SUBSET Slots
      BY <1>0, <2>2 DEF TypeOK, Occupied
    <3> QED
      BY <2>1, <3>1, DistanceIs, PlaceIs
  <2>4. p \in Slots
    <3> HIDE DEF r
    <3>1. queue[l][r] # NULL /\ queue[l][r] \in SlotOrNull
      BY <1>0, <2>2, <2>3 DEF Occupied, TypeOK
    <3> QED
      BY <3>1 DEF SlotOrNull
  <2>5. queue[l][r] = p
    OBVIOUS
  <2>6. /\ index' = [index EXCEPT ![l] = r]
        /\ IF Full(queue[0])
           THEN panic' = "push" /\ UNCHANGED <<queue, inqueue>>
           ELSE /\ queue' = [queue EXCEPT ![0] = Pushed(@, p), ![l] = [@ EXCEPT ![r] = NULL]]
                /\ inqueue' = [inqueue EXCEPT ![p] = TRUE]
                /\ UNCHANGED panic
    BY <2>1
  <2> HIDE DEF r, p
  <2>7. QueueTypes /\ QueueCore
    BY <1>0, QueueTypesIs, QueueInvIs
  <2>8. inqueue' = inqueue
    BY <2>3, <2>4, <2>5, <2>6, <2>7, BoostStep
  <2> QED
    BY <1>1, <2>8 DEF Untouched
<1>3. CASE BackMlfq(c)
  <2>1. cproc[c] \in Slots /\ ~Boosting
    <3>1. cproc[c] \in Slots
      BY <1>0, <1>3 DEF BackMlfq, Control, CtlProc
    <3>2. \A d \in CPUs : d # c => spc[d] \in {"loop", "run"}
      <4>1. lock = c
        BY <1>3 DEF BackMlfq
      <4> QED
        BY <1>0, <4>1, LockIs
    <3> QED
      BY <1>3, <3>1, <3>2 DEF Boosting, BackMlfq
  <2>2. QueueTypes /\ QueueCore /\ LowerCompact
    BY <1>0, <2>1, QueueTypesIs, QueueInvIs
  <2>3. CASE MustDrop(cproc[c])
    <3>1. DropPriority(cproc[c])
      BY <1>3, <2>3 DEF BackMlfq
    <3>2. priority[cproc[c]] \in {0, 1}
      BY <1>0, <2>1, <2>3 DEF MustDrop, TypeOK, Levels
    <3>3. \A s \in Slots : inqueue'[s] <=> inqueue[s]
      BY <2>1, <2>2, <3>1, <3>2, DropStep
    <3> QED
      BY <1>1, <3>3 DEF Untouched
  <2>4. CASE ~MustDrop(cproc[c])
    BY <1>1, <1>3, <2>4 DEF BackMlfq, Untouched
  <2> QED
    BY <2>3, <2>4
<1>4. CASE ~BoostMove(c) /\ ~BackMlfq(c)
  <2>1. inqueue' = inqueue
    BY <1>4 DEF Schedule, MlfqDivide, PickMlfq, PickStride, RunTop, LeaveMlfq, BackBoost,
                BoostEnd, BackStride, schedVars
  <2> QED
    BY <1>1, <2>1 DEF Untouched
<1> QED
  BY <1>2, <1>3, <1>4

LEMMA CalmSteady ==
  ASSUME Calm, Untouched,
         UNCHANGED loop \/ (loop.op \notin {"pop", "push"} /\ loop'.op \notin {"pop", "push"})
  PROVE  Steady
BY DEF Calm, Steady, Live

LEMMA ScheduleSteady ==
  ASSUME IndInv, panic = "none", NEW c \in CPUs, Schedule(c) \/ Timer(c)
  PROVE  Steady
<1>1. Calm
  BY ScheduleCalm, TimerCalm
<1>2. UNCHANGED loop
  <2>1. CASE Schedule(c)
    BY <2>1 DEF Schedule, MlfqDivide, PickMlfq, PickStride, RunTop, LeaveMlfq, BackBoost,
                BoostMove, BoostEnd, BackMlfq, BackStride
  <2>2. CASE Timer(c)
    BY <2>2 DEF Timer, TickStride, TickYield, TickCount, TrapYield, TrapCount, TickIdle
  <2> QED
    BY <2>1, <2>2
<1>3. Untouched
  <2>1. CASE Timer(c)
    BY <2>1 DEF Timer, TickStride, TickYield, TickCount, TrapYield, TrapCount, TickIdle,
                schedVars, mlfqVars, Untouched
  <2> QED
    BY <2>1, ScheduleUntouched
<1> QED
  BY <1>1, <1>2, <1>3, CalmSteady

(* The calls that only sleep, return, give up the CPU or end a thread, and *)
(* those that fill a slot that is being created.                           *)
LEMMA CallSteady ==
  ASSUME IndInv, panic = "none", NEW c \in CPUs,
         \/ Yield(c) \/ Sleep(c) \/ WaitFail(c) \/ JoinFail(c) \/ WaitSleep(c) \/ JoinSleep(c)
         \/ ThreadExit(c) \/ Exit(c) \/ ExitDone(c) \/ WaitReap(c) \/ ForkCopy(c) \/ CreateFail(c)
  PROVE  Steady
<1>0. TypeOK
  BY DEF IndInv
<1>1. Untouched
  BY DEF Yield, Sleep, WaitFail, JoinFail, WaitSleep, JoinSleep, ThreadExit, Exit, ExitDone,
         WaitReap, ForkCopy, CreateFail, schedVars, mlfqVars, Untouched
<1>2. UNCHANGED <<mthread, cthread>>
  BY DEF Yield, Sleep, WaitFail, JoinFail, WaitSleep, JoinSleep, ThreadExit, Exit, ExitDone,
         WaitReap, ForkCopy, CreateFail, threadVars
<1>3. CASE Yield(c) \/ Sleep(c) \/ WaitFail(c) \/ JoinFail(c)
  <2>1. Calm
    BY <1>3, CallCalm
  <2>2. UNCHANGED loop
    BY <1>3 DEF Yield, Sleep, WaitFail, JoinFail
  <2> QED
    BY <1>1, <2>1, <2>2, CalmSteady
<1>4. CASE WaitSleep(c) \/ JoinSleep(c) \/ ThreadExit(c)
  <2>1. Running(c) /\ lock \in {c, NULL} /\ loop.op = "none" /\ UNCHANGED loop
    <3>1. CASE ThreadExit(c)
      BY <3>1, FreeCall DEF ThreadExit, Syscall, InUser
    <3>2. CASE WaitSleep(c) \/ JoinSleep(c)
      <4>1. CASE WaitSleep(c)
        BY <4>1 DEF WaitSleep, Syscall, InUser, InWait
      <4>2. CASE JoinSleep(c)
        BY <4>2 DEF JoinSleep, Joining, Syscall, InUser, InWait
      <4> QED
        BY <3>2, <4>1, <4>2
    <3> QED
      BY <1>4, <3>1, <3>2
  <2>2. cproc[c] \in Slots /\ state[cproc[c]] = "RUNNING"
    BY <2>1, CallIs
  <2>3. \/ state' = [state EXCEPT ![cproc[c]] = "SLEEPING"]
        \/ state' = [Woken(state, Main(c)) EXCEPT ![cproc[c]] = "ZOMBIE"]
    BY <1>4 DEF WaitSleep, JoinSleep, SleepIn, ThreadExit
  <2>4. /\ DOMAIN Woken(state, Main(c)) = Slots
        /\ \A s \in Slots : \/ Woken(state, Main(c))[s] = state[s]
                            \/ state[s] = "SLEEPING" /\ Woken(state, Main(c))[s] = "RUNNABLE"
    BY DEF Woken
  <2>5. \A s \in Slots : \/ state'[s] = state[s]
                         \/ state[s] = "SLEEPING" /\ state'[s] = "RUNNABLE"
                         \/ state[s] = "RUNNING" /\ state'[s] \in {"SLEEPING", "ZOMBIE"}
    BY <1>0, <2>2, <2>3, <2>4 DEF TypeOK
  <2> QED
    BY <1>1, <1>2, <2>1, <2>5 DEF Steady, Live
<1>5. CASE Exit(c)
  <2>1. loop.op = "none" /\ loop'.op = "exit"
    BY <1>5, FreeCall DEF Exit, Syscall, InUser
  <2> DEFINE st == [s \in Slots |-> IF s \in Threads(Main(c)) THEN "ZOMBIE" ELSE state[s]]
  <2>2. state' = Woken(st, parent[Main(c)])
    BY <1>5 DEF Exit
  <2>3. \A s \in Slots : \/ state'[s] \in {state[s], "ZOMBIE"}
                         \/ state[s] = "SLEEPING" /\ state'[s] = "RUNNABLE"
    BY <2>2 DEF Woken
  <2> QED
    BY <1>1, <1>2, <2>1, <2>3 DEF Steady, Live
<1>6. CASE WaitReap(c)
  <2>1. loop.op = "none" /\ loop'.op = "reap"
    BY <1>6 DEF WaitReap
  <2>2. \A s \in Slots : state'[s] \in {state[s], "ZOMBIE"}
    BY <1>6 DEF WaitReap
  <2> QED
    BY <1>1, <1>2, <2>1, <2>2 DEF Steady, Live
<1>7. CASE ExitDone(c)
  BY <1>1, <1>2, <1>7 DEF ExitDone, NoLoop, procVars, Steady, Live
<1>8. CASE ForkCopy(c)
  BY <1>1, <1>2, <1>8 DEF ForkCopy, Steady, Live
<1>9. CASE CreateFail(c)
  <2>1. kop[cproc[c]].np \in Slots /\ state[kop[cproc[c]].np] = "EMBRYO"
    BY <1>9, CreatingIs DEF CreateFail, CreatePoints
  <2>2. state' = [state EXCEPT ![kop[cproc[c]].np] = "UNUSED"] /\ UNCHANGED loop
    BY <1>9 DEF CreateFail
  <2>3. \A s \in Slots : state'[s] = state[s] \/ (state[s] = "EMBRYO" /\ state'[s] = "UNUSED")
    BY <1>0, <2>1, <2>2 DEF TypeOK
  <2> QED
    BY <1>1, <1>2, <2>2, <2>3 DEF Steady, Live
<1> QED
  BY <1>3, <1>4, <1>5, <1>6, <1>7, <1>8, <1>9

LEMMA WakeupSteady ==
  ASSUME IndInv, NEW s \in Slots, Wakeup(s)
  PROVE  Steady
<1>1. Calm
  BY WakeupCalm
<1>2. Untouched /\ UNCHANGED loop
  BY DEF Wakeup, Untouched, schedVars, mlfqVars
<1> QED
  BY <1>1, <1>2, CalmSteady

-----------------------------------------------------------------------------
(* What set_cpu_share moves: the threads of the process m that calls it,   *)
(* each of which has a place in its array.                                 *)
LEMMA MovedIs ==
  ASSUME IndInv, panic = "none", NEW c \in CPUs, lock = c, loop.op \in {"pop", "push"}
  PROVE  LET m == loop.m
         IN  /\ m \in Slots /\ mthread[m] = m /\ state[m] \notin {"UNUSED", "EMBRYO"} /\ ~Named(m)
             /\ \A s \in Slots : Live(s) /\ mthread[s] = m => \E i \in Places(m) : cthread[m][i] = s
             /\ \A i \in Places(m) : /\ cthread[m][i] \in Slots
                                     /\ cthread[m][i] = m \/ i \in Positive
                                     /\ Live(cthread[m][i]) => mthread[cthread[m][i]] = m
<1> DEFINE m == loop.m
<1>0. /\ TypeOK /\ Family /\ cproc[c] \in Slots /\ state[cproc[c]] = "RUNNING" /\ m \in Slots
      /\ m = mthread[cproc[c]]
  BY LoopIs DEF Control, CtlLoop
<1>1. /\ mthread[m] = m /\ cthread[m][0] = m /\ state[m] \notin {"UNUSED", "EMBRYO"} /\ ~Named(m)
  <2>1. Live(cproc[c])
    BY <1>0 DEF Live
  <2> QED
    BY <1>0, <2>1, MainIs
<1> HIDE DEF m
<1>2. ASSUME NEW s \in Slots, Live(s), mthread[s] = m PROVE \E i \in Places(m) : cthread[m][i] = s
  <2>1. s = m \/ \E i \in Positive : cthread[m][i] = s
    BY <1>0, <1>2, MainIs
  <2>2. s # NULL /\ 0 \in Slots /\ Positive \subseteq Slots
    BY NullIsNoSlot DEF Positive
  <2> QED
    BY <1>1, <2>1, <2>2 DEF Places
<1>3. ASSUME NEW i \in Places(m)
      PROVE  /\ cthread[m][i] \in Slots /\ (cthread[m][i] = m \/ i \in Positive)
             /\ Live(cthread[m][i]) => mthread[cthread[m][i]] = m
  <2>1. i \in Slots /\ cthread[m][i] \in Slots
    BY <1>0 DEF Places, TypeOK, SlotOrNull
  <2>2. i # 0 => i \in Positive
    BY <2>1 DEF Positive
  <2>3. ASSUME i \in Positive PROVE Live(cthread[m][i]) => mthread[cthread[m][i]] = m
    BY <1>0, <2>1, <2>3, EntryIs DEF Live
  <2> QED
    BY <1>1, <2>1, <2>2, <2>3
<1> QED
  BY <1>0, <1>1, <1>2, <1>3 DEF m

LEMMA SetShareShares ==
  ASSUME IndInv, ShareInd, panic = "none", NEW c \in CPUs, SetShare(c)
  PROVE  ShareInd'
<1>0. loop.op = "none" /\ Main(c) \in Slots /\ TypeOK /\ Family
  <2>1. Running(c) /\ lock = NULL
    BY DEF SetShare, Syscall, InUser
  <2> QED
    BY <2>1, FreeCall, CallIs
<1>1. PICK pct \in Shares : pct # 0 /\ loop' = [op |-> "pop", m |-> Main(c), pct |-> pct]
  BY DEF SetShare
<1>2. UNCHANGED <<state, share, percentage, mthread, cthread, inqueue>> /\ percentage[Main(c)] = 0
  BY DEF SetShare, procVars, threadVars, schedVars, mlfqVars
<1>3. SumOK'
  BY <1>2, TallyStays DEF ShareInd
<1>4. ShareOwners'
  BY <1>1, <1>2 DEF ShareInd, ShareOwners
<1>5. \A m \in Slots : ~Moving(m)
  BY <1>0 DEF Moving
<1>6. QueuedWithoutShare'
  <2>1. \A s \in Slots : Live(s) => mthread[s] \in Slots
    BY <1>0, MainIs
  <2> QED
    BY <1>2, <1>5, <2>1 DEF ShareInd, QueuedWithoutShare, Live
<1> QED
  BY <1>3, <1>4, <1>6 DEF ShareInd

LEMMA PopShareShares ==
  ASSUME IndInv, ShareInd, panic = "none", NEW c \in CPUs, PopShare(c)
  PROVE  ShareInd'
<1>0. lock = c /\ loop.op = "pop" /\ ToPop(loop.m) # {}
  BY DEF PopShare
<1>1. PICK m \in Slots : m = loop.m
  BY <1>0, LoopIs
<1>2. PICK i \in ToPop(m) : i = Least(ToPop(m))
  BY <1>0, <1>1, LeastIs DEF ToPop, Places
<1>3. PICK p \in Slots : p = cthread[m][i]
  BY <1>0, <1>1, <1>2, MovedIs DEF ToPop
<1>4. Pop(p) /\ UNCHANGED <<state, mthread, cthread, percentage, share, loop>>
  BY <1>1, <1>2, <1>3 DEF PopShare, procVars, threadVars
<1>5. \A s \in Slots : inqueue'[s] <=> inqueue[s] /\ s # p
  BY <1>0, <1>4, LoopIs, PopStep
<1>6. Live(p) => mthread[p] = m
  BY <1>0, <1>1, <1>2, <1>3, MovedIs DEF ToPop
<1>7. Moving(m)
  BY <1>0, <1>1 DEF Moving
<1>8. SumOK' /\ ShareOwners'
  BY <1>4, TallyStays DEF ShareInd, ShareOwners
<1>9. QueuedWithoutShare'
  <2>1. ASSUME NEW s \in Slots, Live(s), ~Moving(mthread[s])
        PROVE  inqueue'[s] <=> percentage[mthread[s]] = 0
    <3>1. s # p
      BY <1>6, <1>7, <2>1
    <3> QED
      BY <1>5, <2>1, <3>1 DEF ShareInd, QueuedWithoutShare
  <2>2. \A n \in Slots : \A j \in Positive : cthread[n][j] # NULL => cthread[n][j] \in Slots
    BY <1>0, LoopIs, EntriesAre
  <2>3. ASSUME NEW n \in Slots, NEW j \in Positive, cthread[n][j] # NULL, ~Moving(n),
               state[cthread[n][j]] = "EMBRYO", inqueue'[cthread[n][j]]
        PROVE  percentage[n] = 0
    BY <1>5, <2>2, <2>3 DEF ShareInd, QueuedWithoutShare
  <2> QED
    BY <1>4, <2>1, <2>3 DEF QueuedWithoutShare, Live, Moving
<1> QED
  BY <1>8, <1>9 DEF ShareInd

LEMMA TakeShareShares ==
  ASSUME IndInv, ShareInd, panic = "none", NEW c \in CPUs, TakeShare(c)
  PROVE  ShareInd'
<1>0. lock = c /\ loop.op = "pop" /\ ToPop(loop.m) = {}
  BY DEF TakeShare
<1>1. PICK m \in Slots : m = loop.m
  BY <1>0, LoopIs
<1>2. /\ TypeOK /\ Family /\ state[m] \notin {"UNUSED", "EMBRYO"} /\ ~Named(m)
  BY <1>0, <1>1, LoopIs, MovedIs
<1>3. PICK pct \in Int : pct = loop.pct
  BY <1>2 DEF TypeOK, Loops
<1>4. /\ percentage' = [percentage EXCEPT ![m] = pct] /\ share' = share - pct /\ loop' = NoLoop
      /\ UNCHANGED <<state, mthread, cthread, inqueue>>
  BY <1>1, <1>3 DEF TakeShare, procVars, threadVars
<1>5. percentage[m] = 0 /\ pct # 0
  BY <1>0, <1>1, <1>3 DEF ShareInd, ShareOwners
<1>6. \A s \in Slots : percentage'[s] = IF s = m THEN pct ELSE percentage[s]
  BY <1>2, <1>4 DEF TypeOK
<1>7. SumOK'
  <2>1. share' = share + percentage[m] - pct
    BY <1>2, <1>4, <1>5 DEF TypeOK
  <2> QED
    BY <1>2, <1>4, <2>1, TallyMoves DEF ShareInd
<1>8. ShareOwners'
  <2>1. \A s \in Slots : percentage'[s] # 0 => s = m \/ percentage[s] # 0
    BY <1>6
  <2> QED
    BY <1>2, <1>4, <2>1 DEF ShareInd, ShareOwners, NoLoop, Named
<1>9. \A n \in Slots : n # m => ~Moving(n)
  BY <1>1 DEF Moving
<1>10. QueuedWithoutShare'
  <2>1. ASSUME NEW s \in Slots, Live(s) PROVE inqueue[s] <=> percentage'[mthread[s]] = 0
    <3>0. mthread[s] \in Slots
      BY <1>2, <2>1, MainIs
    <3>1. CASE mthread[s] = m
      <4>1. PICK i \in Places(m) : cthread[m][i] = s
        BY <1>0, <1>1, <2>1, <3>1, MovedIs
      <4>2. ~inqueue[s]
        BY <1>0, <1>1, <2>1, <4>1 DEF ToPop, Live
      <4> QED
        BY <1>5, <1>6, <3>1, <4>2
    <3>2. CASE mthread[s] # m
      BY <1>6, <1>9, <2>1, <3>0, <3>2 DEF ShareInd, QueuedWithoutShare
    <3> QED
      BY <3>1, <3>2
  <2>2. ASSUME NEW n \in Slots, NEW j \in Positive, cthread[n][j] # NULL,
               state[cthread[n][j]] = "EMBRYO", inqueue[cthread[n][j]]
        PROVE  percentage'[n] = 0
    <3>1. CASE n = m
      <4>1. j \in Places(m)
        BY <2>2, <3>1 DEF Places, Positive
      <4> QED
        BY <1>0, <1>1, <2>2, <3>1, <4>1 DEF ToPop
    <3>2. CASE n # m
      BY <1>6, <1>9, <2>2, <3>2 DEF ShareInd, QueuedWithoutShare
    <3> QED
      BY <3>1, <3>2
  <2> QED
    BY <1>4, <2>1, <2>2 DEF QueuedWithoutShare, Live
<1> QED
  BY <1>7, <1>8, <1>10 DEF ShareInd

LEMMA ChangeShareShares ==
  ASSUME IndInv, ShareInd, panic = "none", NEW c \in CPUs, ChangeShare(c)
  PROVE  ShareInd'
<1>0. Running(c) /\ lock = NULL /\ loop.op = "none"
  BY FreeCall DEF ChangeShare, Syscall, InUser
<1>1. PICK m \in Slots : m = Main(c)
  BY <1>0, CallIs
<1>2. TypeOK /\ Family
  BY <1>0, CallIs
<1>3. PICK pct \in Int :
        /\ percentage' = [percentage EXCEPT ![m] = pct]
        /\ share' = share - (pct - percentage[m])
        /\ IF pct = 0 THEN loop' = [op |-> "push", m |-> m, pct |-> 0] ELSE UNCHANGED loop
  BY <1>1, ShareAssumption DEF ChangeShare
<1>4. percentage[m] # 0 /\ UNCHANGED <<state, mthread, cthread, inqueue>>
  BY <1>1 DEF ChangeShare, procVars, threadVars
<1>5. \A s \in Slots : percentage'[s] = IF s = m THEN pct ELSE percentage[s]
  BY <1>2, <1>3 DEF TypeOK
<1>6. SumOK'
  <2>1. share' = share + percentage[m] - pct
    BY <1>2, <1>3 DEF TypeOK
  <2> QED
    BY <1>2, <1>3, <2>1, TallyMoves DEF ShareInd
<1>7. ShareOwners'
  <2>1. \A s \in Slots : percentage'[s] # 0 => percentage[s] # 0
    BY <1>4, <1>5
  <2>2. loop'.op # "pop" /\ (loop'.op = "push" => loop'.m = m /\ pct = 0)
    BY <1>0, <1>3
  <2> QED
    BY <1>4, <1>5, <2>1, <2>2 DEF ShareInd, ShareOwners
<1>8. /\ \A n \in Slots : ~Moving(n)
      /\ \A n \in Slots : ~Moving(n)' => (percentage'[n] = 0 <=> percentage[n] = 0)
  <2>1. pct = 0 => Moving(m)'
    BY <1>3 DEF Moving
  <2> QED
    BY <1>0, <1>4, <1>5, <2>1 DEF Moving
<1>9. QueuedWithoutShare'
  <2>1. \A s \in Slots : Live(s) => mthread[s] \in Slots
    BY <1>2, MainIs
  <2> QED
    BY <1>4, <1>8, <2>1 DEF ShareInd, QueuedWithoutShare, Live
<1> QED
  BY <1>6, <1>7, <1>9 DEF ShareInd

LEMMA PushShareShares ==
  ASSUME IndInv, ShareInd, panic = "none", NEW c \in CPUs, PushShare(c)
  PROVE  ShareInd'
<1>0. lock = c /\ loop.op = "push" /\ ToPush(loop.m) # {}
  BY DEF PushShare
<1>1. PICK m \in Slots : m = loop.m
  BY <1>0, LoopIs
<1>2. PICK i \in ToPush(m) : i = Least(ToPush(m))
  BY <1>0, <1>1, LeastIs DEF ToPush, Places
<1>3. PICK p \in Slots : p = cthread[m][i]
  BY <1>0, <1>1, <1>2, MovedIs DEF ToPush
<1>4. InitPush(p) /\ UNCHANGED <<state, mthread, cthread, percentage, share, loop>>
  BY <1>1, <1>2, <1>3 DEF PushShare, procVars, threadVars
<1>5. \A s \in Slots : inqueue'[s] <=> inqueue[s] \/ s = p
  <2>1. ~inqueue[p]
    BY <1>2, <1>3 DEF ToPush
  <2> QED
    BY <1>0, <1>4, <2>1, LoopIs, InitPushStep
<1>6. /\ Family /\ (p = m \/ i \in Positive) /\ (Live(p) => mthread[p] = m)
      /\ state[m] # "EMBRYO"
  BY <1>0, <1>1, <1>2, <1>3, LoopIs, MovedIs DEF ToPush
<1>7. Moving(m)
  BY <1>0, <1>1 DEF Moving
<1>8. SumOK' /\ ShareOwners'
  BY <1>4, TallyStays DEF ShareInd, ShareOwners
<1>9. QueuedWithoutShare'
  <2>1. ASSUME NEW s \in Slots, Live(s), ~Moving(mthread[s])
        PROVE  inqueue'[s] <=> percentage[mthread[s]] = 0
    <3>1. s # p
      BY <1>6, <1>7, <2>1
    <3> QED
      BY <1>5, <2>1, <3>1 DEF ShareInd, QueuedWithoutShare
  <2>2. \A n \in Slots : \A j \in Positive : cthread[n][j] # NULL => cthread[n][j] \in Slots
    BY <1>0, LoopIs, EntriesAre
  <2>3. ASSUME NEW n \in Slots, NEW j \in Positive, cthread[n][j] # NULL, ~Moving(n),
               state[cthread[n][j]] = "EMBRYO", inqueue'[cthread[n][j]]
        PROVE  percentage[n] = 0
    <3>1. cthread[n][j] # p
      <4>1. CASE p = m
        BY <1>6, <2>3, <4>1
      <4>2. CASE p # m
        BY <1>3, <1>6, <1>7, <2>3, <4>2 DEF Family, FamOnce
      <4> QED
        BY <4>1, <4>2
    <3> QED
      BY <1>5, <2>2, <2>3, <3>1 DEF ShareInd, QueuedWithoutShare
  <2> QED
    BY <1>4, <2>1, <2>3 DEF QueuedWithoutShare, Live, Moving
<1> QED
  BY <1>8, <1>9 DEF ShareInd

LEMMA LeaveShareShares ==
  ASSUME IndInv, ShareInd, panic = "none", NEW c \in CPUs, LeaveShare(c)
  PROVE  ShareInd'
<1>0. lock = c /\ loop.op = "push" /\ ToPush(loop.m) = {}
  BY DEF LeaveShare
<1>1. PICK m \in Slots : m = loop.m
  BY <1>0, LoopIs
<1>2. loop' = NoLoop /\ UNCHANGED <<state, mthread, cthread, inqueue, percentage, share>>
  BY DEF LeaveShare, procVars, threadVars, schedVars, mlfqVars
<1>3. percentage[m] = 0 /\ \A n \in Slots : n # m => ~Moving(n)
  BY <1>0, <1>1 DEF ShareInd, ShareOwners, Moving
<1>4. SumOK' /\ ShareOwners'
  BY <1>2, TallyStays DEF ShareInd, ShareOwners, NoLoop
<1>5. QueuedWithoutShare'
  <2>1. ASSUME NEW s \in Slots, Live(s) PROVE inqueue[s] <=> percentage[mthread[s]] = 0
    <3>0. mthread[s] \in Slots
      BY <1>0, <2>1, LoopIs, MainIs
    <3>1. CASE mthread[s] = m
      <4>1. PICK i \in Places(m) : cthread[m][i] = s
        BY <1>0, <1>1, <2>1, <3>1, MovedIs
      <4>2. inqueue[s]
        BY <1>0, <1>1, <2>1, <4>1 DEF ToPush, Live
      <4> QED
        BY <1>3, <3>1, <4>2
    <3>2. CASE mthread[s] # m
      BY <1>3, <2>1, <3>0, <3>2 DEF ShareInd, QueuedWithoutShare
    <3> QED
      BY <3>1, <3>2
  <2>2. ASSUME NEW n \in Slots, NEW j \in Positive, cthread[n][j] # NULL,
               state[cthread[n][j]] = "EMBRYO", inqueue[cthread[n][j]]
        PROVE  percentage[n] = 0
    BY <1>3, <2>2 DEF ShareInd, QueuedWithoutShare
  <2> QED
    BY <1>2, <2>1, <2>2 DEF QueuedWithoutShare, Live
<1> QED
  BY <1>4, <1>5 DEF ShareInd

-----------------------------------------------------------------------------
(* A new slot has no share and is in no queue.                             *)
LEMMA StartCreateShares ==
  ASSUME IndInv, ShareInd, panic = "none", NEW c \in CPUs, NEW f, NEW pc, StartCreate(c, f, pc)
  PROVE  ShareInd'
<1>0. Running(c) /\ lock = NULL /\ loop.op = "none"
  BY FreeCall DEF StartCreate, Syscall, InUser
<1>1. TypeOK /\ QueueInv /\ Family
  BY <1>0, CallIs
<1>2. PICK np \in Slots : AllocProc(c, np)
  BY DEF StartCreate
<1>3. UNCHANGED <<share, loop>>
  BY DEF StartCreate, mlfqVars
<1>4. state[np] = "UNUSED"
  BY <1>2, LeastIs DEF AllocProc, Unused
<1>5. percentage[np] = 0 /\ ~inqueue[np]
  BY <1>1, <1>4 DEF ShareInd, ShareOwners, QueueInv
<1>6. \A s \in Slots : percentage'[s] = percentage[s] /\ (inqueue'[s] <=> inqueue[s])
  BY <1>1, <1>2, <1>5 DEF AllocProc, TypeOK
<1>7. /\ state'[np] = "EMBRYO" /\ mthread'[np] = np /\ \A i \in Positive : cthread'[np][i] = NULL
      /\ \A s \in Slots : s # np =>
           state'[s] = state[s] /\ mthread'[s] = mthread[s] /\ cthread'[s] = cthread[s]
  BY <1>1, <1>2 DEF AllocProc, TypeOK, Positive
<1>8. \A m \in Slots : \A i \in Positive : cthread'[m][i] # NULL =>
        m # np /\ cthread'[m][i] = cthread[m][i] /\ cthread[m][i] \in Slots /\ cthread[m][i] # np
  <2>1. \A m \in Slots : \A i \in Positive : cthread'[m][i] # NULL =>
          m # np /\ cthread'[m][i] = cthread[m][i] /\ cthread[m][i] \in Slots
    BY <1>1, <1>7, EntriesAre
  <2> QED
    BY <1>1, <1>4, <2>1, EntryIs
<1>9. SumOK'
  BY <1>3, <1>6, TallyStays DEF ShareInd
<1>10. ShareOwners'
  <2>1. ASSUME NEW s \in Slots, percentage'[s] # 0
        PROVE  /\ state'[s] \notin {"UNUSED", "EMBRYO"}
               /\ \A m \in Slots : \A i \in Positive : cthread'[m][i] # s
    <3>1. percentage[s] # 0 /\ s # np /\ s # NULL
      BY <1>5, <1>6, <2>1, NullIsNoSlot
    <3> QED
      BY <1>7, <1>8, <3>1 DEF ShareInd, ShareOwners
  <2> QED
    BY <1>0, <1>3, <2>1 DEF ShareOwners
<1>11. \A m \in Slots : ~Moving(m)
  BY <1>0 DEF Moving
<1>12. QueuedWithoutShare'
  <2>1. ASSUME NEW s \in Slots, Live(s)' PROVE inqueue'[s] <=> percentage'[mthread'[s]] = 0
    <3>1. s # np /\ Live(s) /\ mthread'[s] = mthread[s]
      BY <1>7, <2>1 DEF Live
    <3>2. mthread[s] \in Slots
      BY <1>1, <3>1, MainIs
    <3> QED
      BY <1>6, <1>11, <3>1, <3>2 DEF ShareInd, QueuedWithoutShare
  <2>2. ASSUME NEW m \in Slots, NEW i \in Positive, cthread'[m][i] # NULL,
               state'[cthread'[m][i]] = "EMBRYO", inqueue'[cthread'[m][i]]
        PROVE  percentage'[m] = 0
    BY <1>6, <1>7, <1>8, <1>11, <2>2 DEF ShareInd, QueuedWithoutShare
  <2> QED
    BY <2>1, <2>2 DEF QueuedWithoutShare
<1> QED
  BY <1>9, <1>10, <1>12 DEF ShareInd

(* A thread that fork or thread_create has finished is queued unless its   *)
(* process has a share.                                                    *)
LEMMA BornShares ==
  ASSUME TypeOK, Family, ShareInd, loop.op = "none", NEW np \in Slots, NEW mt \in Slots,
         state[np] = "EMBRYO", state' = [state EXCEPT ![np] = "RUNNABLE"],
         mthread' = [mthread EXCEPT ![np] = mt],
         \A n \in Slots : \A i \in Positive : cthread'[n][i] = cthread[n][i],
         \A s \in Slots : s # np => (inqueue'[s] <=> inqueue[s]),
         inqueue'[np] <=> percentage[mt] = 0,
         UNCHANGED <<percentage, share, loop>>
  PROVE  ShareInd'
<1>1. /\ state'[np] = "RUNNABLE" /\ mthread'[np] = mt
      /\ \A s \in Slots : s # np => state'[s] = state[s] /\ mthread'[s] = mthread[s]
  BY DEF TypeOK
<1>2. SumOK'
  BY TallyStays DEF ShareInd
<1>3. ShareOwners'
  BY <1>1 DEF ShareInd, ShareOwners
<1>4. \A n \in Slots : ~Moving(n)
  BY DEF Moving
<1>5. ASSUME NEW s \in Slots, Live(s)' PROVE inqueue'[s] <=> percentage[mthread'[s]] = 0
  <2>1. CASE s = np
    BY <1>1, <2>1
  <2>2. CASE s # np
    <3>1. Live(s) /\ mthread'[s] = mthread[s]
      BY <1>1, <1>5, <2>2 DEF Live
    <3>2. mthread[s] \in Slots
      BY <3>1, MainIs
    <3> QED
      BY <1>4, <2>2, <3>1, <3>2 DEF ShareInd, QueuedWithoutShare
  <2> QED
    BY <2>1, <2>2
<1>6. ASSUME NEW n \in Slots, NEW i \in Positive, cthread'[n][i] # NULL,
             state'[cthread'[n][i]] = "EMBRYO", inqueue'[cthread'[n][i]]
      PROVE  percentage[n] = 0
  <2>1. cthread'[n][i] = cthread[n][i] /\ cthread[n][i] \in Slots
    BY <1>6, EntriesAre
  <2>2. cthread[n][i] # np
    BY <1>1, <1>6, <2>1
  <2> QED
    BY <1>1, <1>4, <1>6, <2>1, <2>2 DEF ShareInd, QueuedWithoutShare
<1>7. QueuedWithoutShare'
  BY <1>5, <1>6 DEF QueuedWithoutShare
<1> QED
  BY <1>2, <1>3, <1>7 DEF ShareInd

LEMMA ForkDoneShares ==
  ASSUME IndInv, ShareInd, panic = "none", NEW c \in CPUs, ForkDone(c)
  PROVE  ShareInd'
<1>0. Running(c) /\ lock = NULL /\ loop.op = "none" /\ lock # c /\ kop[cproc[c]].pc = "forked"
  BY FreeCall, CpuAssumption DEF ForkDone
<1>1. PICK np \in Slots : np = kop[cproc[c]].np
  BY <1>0, CreatingIs DEF CreatePoints
<1>2. /\ TypeOK /\ QueueInv /\ Family /\ state[np] = "EMBRYO" /\ mthread[np] = np /\ ~inqueue[np]
  BY <1>0, <1>1, CreatingIs DEF CreatePoints
<1>3. /\ state' = [state EXCEPT ![np] = "RUNNABLE"] /\ InitPush(np)
      /\ UNCHANGED <<mthread, cthread, percentage, share, loop>>
  BY <1>1 DEF ForkDone, threadVars
<1>4. \A s \in Slots : inqueue'[s] <=> inqueue[s] \/ s = np
  BY <1>2, <1>3, QueueTypesIs, QueueInvIs, InitPushStep
<1>5. percentage[np] = 0
  BY <1>2 DEF ShareInd, ShareOwners
<1>6. mthread' = [mthread EXCEPT ![np] = np]
  BY <1>2, <1>3 DEF TypeOK
<1> QED
  BY <1>0, <1>2, <1>3, <1>4, <1>5, <1>6, BornShares

LEMMA ThreadStartShares ==
  ASSUME IndInv, ShareInd, panic = "none", NEW c \in CPUs, ThreadStart(c)
  PROVE  ShareInd'
<1>0. Running(c) /\ lock = NULL /\ loop.op = "none" /\ lock # c /\ kop[cproc[c]].pc = "created"
  BY FreeCall, CpuAssumption DEF ThreadStart
<1>1. PICK np \in Slots : np = kop[cproc[c]].np
  BY <1>0, CreatingIs DEF CreatePoints
<1>2. PICK m \in Slots : m = Main(c)
  BY <1>0, CallIs
<1>3. /\ TypeOK /\ QueueInv /\ Family /\ state[np] = "EMBRYO"
      /\ \E i \in Positive : cthread[m][i] = np
  BY <1>0, <1>1, <1>2, CreatingIs DEF CreatePoints
<1>4. /\ state' = [state EXCEPT ![np] = "RUNNABLE"]
      /\ mthread' = [mthread EXCEPT ![np] = m] /\ cthread' = [cthread EXCEPT ![np][0] = NULL]
      /\ IF percentage[m] = 0 /\ ~inqueue[np]
         THEN InitPush(np) ELSE UNCHANGED <<queue, index, inqueue, panic>>
      /\ UNCHANGED <<percentage, share, loop>>
  BY <1>1, <1>2 DEF ThreadStart
<1>5. inqueue[np] => percentage[m] = 0
  <2>1. PICK i \in Positive : cthread[m][i] = np
    BY <1>3
  <2>2. cthread[m][i] # NULL
    BY <2>1, NullIsNoSlot
  <2>3. ~Moving(m)
    BY <1>0 DEF Moving
  <2> QED
    BY <1>3, <2>1, <2>2, <2>3 DEF ShareInd, QueuedWithoutShare
<1>6. /\ \A s \in Slots : s # np => (inqueue'[s] <=> inqueue[s])
      /\ inqueue'[np] <=> percentage[m] = 0
  <2>1. CASE percentage[m] = 0 /\ ~inqueue[np]
    <3>1. \A s \in Slots : inqueue'[s] <=> inqueue[s] \/ s = np
      BY <1>3, <1>4, <2>1, QueueTypesIs, QueueInvIs, InitPushStep
    <3> QED
      BY <2>1, <3>1
  <2>2. CASE ~(percentage[m] = 0 /\ ~inqueue[np])
    BY <1>4, <1>5, <2>2
  <2> QED
    BY <2>1, <2>2
<1>7. \A n \in Slots : \A i \in Positive : cthread'[n][i] = cthread[n][i]
  BY <1>3, <1>4 DEF TypeOK, Positive
<1> QED
  BY <1>0, <1>3, <1>4, <1>6, <1>7, BornShares

LEMMA ThreadStackShares ==
  ASSUME IndInv, ShareInd, panic = "none", NEW c \in CPUs, ThreadStack(c)
  PROVE  ShareInd'
<1>0. Running(c) /\ lock = NULL /\ loop.op = "none" /\ lock # c /\ kop[cproc[c]].pc = "create"
  BY FreeCall, CpuAssumption DEF ThreadStack
<1>1. PICK np \in Slots : np = kop[cproc[c]].np
  BY <1>0, CreatingIs DEF CreatePoints
<1>2. PICK m \in Slots : m = Main(c)
  BY <1>0, CallIs
<1>3. /\ TypeOK /\ Family /\ state[np] = "EMBRYO" /\ ~inqueue[np]
  BY <1>0, <1>1, CreatingIs DEF CreatePoints
<1>4. UNCHANGED <<mthread, inqueue, percentage, share, loop>>
  BY DEF ThreadStack, schedVars, mlfqVars
<1> DEFINE E == Slots \ Places(m)
<1>5. CASE E = {}
  <2>1. state' = [state EXCEPT ![np] = "UNUSED"] /\ UNCHANGED cthread
    BY <1>1, <1>2, <1>5 DEF ThreadStack
  <2>2. \A s \in Slots : state'[s] = state[s] \/ (state[s] = "EMBRYO" /\ state'[s] = "UNUSED")
    BY <1>3, <2>1 DEF TypeOK
  <2>3. Steady
    BY <1>4, <2>1, <2>2 DEF Steady, Untouched, Live
  <2> QED
    BY <2>3, SteadyShares
<1>6. CASE E # {}
  <2>1. PICK k \in E : k = Least(E)
    BY <1>6, LeastIs
  <2>2. /\ cthread' = [cthread EXCEPT ![m][k] = np] /\ UNCHANGED state
    BY <1>1, <1>2, <1>6, <2>1 DEF ThreadStack
  <2>3. k \in Slots
    OBVIOUS
  <2> HIDE DEF E
  <2>4. \A n \in Slots : \A i \in Positive :
          cthread'[n][i] = np \/ cthread'[n][i] = cthread[n][i]
    BY <1>3, <2>2, <2>3 DEF TypeOK, Positive
  <2>5. percentage[np] = 0
    BY <1>3 DEF ShareInd, ShareOwners
  <2>6. SumOK'
    BY <1>4, TallyStays DEF ShareInd
  <2>7. ShareOwners'
    <3>1. ASSUME NEW s \in Slots, percentage[s] # 0
          PROVE  \A n \in Slots : \A i \in Positive : cthread'[n][i] # s
      BY <2>4, <2>5, <3>1 DEF ShareInd, ShareOwners
    <3> QED
      BY <1>0, <1>4, <2>2, <3>1 DEF ShareInd, ShareOwners
  <2>8. \A n \in Slots : ~Moving(n)
    BY <1>0 DEF Moving
  <2>9. QueuedWithoutShare'
    <3>1. ASSUME NEW n \in Slots, NEW i \in Positive, cthread'[n][i] # NULL,
                 state[cthread'[n][i]] = "EMBRYO", inqueue[cthread'[n][i]]
          PROVE  percentage[n] = 0
      <4>1. cthread'[n][i] = cthread[n][i]
        BY <1>3, <2>4, <3>1
      <4> QED
        BY <2>8, <3>1, <4>1 DEF ShareInd, QueuedWithoutShare
    <3>2. ASSUME NEW s \in Slots, Live(s) PROVE inqueue[s] <=> percentage[mthread[s]] = 0
      <4>1. mthread[s] \in Slots
        BY <1>3, <3>2, MainIs
      <4> QED
        BY <2>8, <3>2, <4>1 DEF ShareInd, QueuedWithoutShare
    <3> QED
      BY <1>4, <2>2, <3>1, <3>2 DEF QueuedWithoutShare, Live
  <2> QED
    BY <2>6, <2>7, <2>9 DEF ShareInd
<1> QED
  BY <1>5, <1>6

-----------------------------------------------------------------------------
(* No array names s any more, and no thread that may still run has it for  *)
(* its main thread.                                                        *)
Gone(s) ==
  /\ \A n \in Slots : \A i \in Positive : cthread'[n][i] # NULL =>
       cthread'[n][i] = cthread[n][i] /\ cthread[n][i] # s
  /\ \A u \in Slots : Live(u) => mthread[u] # s

(* An exited slot that is freed gives its share back and leaves its queue. *)
LEMMA FreedShares ==
  ASSUME TypeOK, Family, ShareInd, NEW s \in Slots, state[s] = "ZOMBIE",
         state' = [state EXCEPT ![s] = "UNUSED"],
         percentage' = [percentage EXCEPT ![s] = 0], share' = share + percentage[s],
         \A u \in Slots : u # s => mthread'[u] = mthread[u],
         \A u \in Slots : inqueue'[u] <=> inqueue[u] /\ u # s, Gone(s),
         loop.op \notin {"pop", "push"}, loop'.op \notin {"pop", "push"}
  PROVE  ShareInd'
<1> USE DEF Gone
<1>1. /\ state'[s] = "UNUSED" /\ \A u \in Slots : u # s => state'[u] = state[u]
      /\ percentage'[s] = 0 /\ \A u \in Slots : u # s => percentage'[u] = percentage[u]
  BY DEF TypeOK
<1>2. SumOK'
  <2>1. PICK d \in Int : d = 0
    OBVIOUS
  <2>2. share' = share + percentage[s] - d /\ percentage' = [percentage EXCEPT ![s] = d]
    BY <2>1 DEF TypeOK
  <2> QED
    BY <2>2, TallyMoves DEF ShareInd
<1>3. ShareOwners'
  <2>1. ASSUME NEW u \in Slots, percentage'[u] # 0
        PROVE  /\ state'[u] \notin {"UNUSED", "EMBRYO"}
               /\ \A n \in Slots : \A i \in Positive : cthread'[n][i] # u
    <3>1. u # s /\ u # NULL /\ percentage[u] # 0
      BY <1>1, <2>1, NullIsNoSlot
    <3> QED
      BY <1>1, <3>1 DEF ShareInd, ShareOwners
  <2> QED
    BY <2>1 DEF ShareOwners
<1>4. \A n \in Slots : ~Moving(n)
  BY DEF Moving
<1>5. ASSUME NEW u \in Slots, Live(u)' PROVE inqueue'[u] <=> percentage'[mthread'[u]] = 0
  <2>1. u # s /\ Live(u) /\ mthread'[u] = mthread[u]
    BY <1>1, <1>5 DEF Live
  <2>2. mthread[u] \in Slots /\ mthread[u] # s
    BY <2>1, MainIs
  <2> QED
    BY <1>1, <1>4, <2>1, <2>2 DEF ShareInd, QueuedWithoutShare
<1>6. ASSUME NEW n \in Slots, NEW i \in Positive, cthread'[n][i] # NULL,
             state'[cthread'[n][i]] = "EMBRYO", inqueue'[cthread'[n][i]]
      PROVE  percentage'[n] = 0
  <2>1. cthread'[n][i] = cthread[n][i] /\ cthread[n][i] # s /\ cthread[n][i] \in Slots
    BY <1>6, EntriesAre
  <2>2. percentage[n] = 0
    BY <1>1, <1>4, <1>6, <2>1 DEF ShareInd, QueuedWithoutShare
  <2> QED
    BY <1>1, <2>2
<1>7. QueuedWithoutShare'
  BY <1>5, <1>6 DEF QueuedWithoutShare
<1> QED
  BY <1>2, <1>3, <1>7 DEF ShareInd

(* A thread that a place of an array names is nobody's main thread, and    *)
(* loses that place.                                                       *)
LEMMA EmptiedIs ==
  ASSUME TypeOK, Family, NEW m \in Slots, NEW i \in Positive, NEW s \in Slots, cthread[m][i] = s,
         cthread' = [cthread EXCEPT ![m][i] = NULL]
  PROVE  Gone(s)
<1>1. ASSUME NEW u \in Slots, Live(u) PROVE mthread[u] # s
  BY <1>1, MainIs DEF Named
<1>2. ASSUME NEW n \in Slots, NEW j \in Positive, cthread'[n][j] # NULL
      PROVE  cthread'[n][j] = cthread[n][j] /\ cthread[n][j] # s
  <2>1. i \in Slots /\ j \in Slots
    BY DEF Positive
  <2>2. ~(n = m /\ j = i) /\ cthread'[n][j] = cthread[n][j]
    BY <1>2, <2>1 DEF TypeOK
  <2> QED
    BY <2>2, NullIsNoSlot DEF Family, FamOnce
<1> QED
  BY <1>1, <1>2 DEF Gone

LEMMA KillZombieShares ==
  ASSUME IndInv, ShareInd, panic = "none", NEW c \in CPUs, KillZombie(c)
  PROVE  ShareInd'
<1>0. lock = c /\ loop.op \in {"exit", "reap"} /\ ToKill(loop.m, Keep(c)) # {}
  BY DEF KillZombie
<1>1. PICK m \in Slots : m = loop.m
  BY <1>0, LoopIs
<1>2. PICK i \in ToKill(m, Keep(c)) : i = Least(ToKill(m, Keep(c)))
  BY <1>0, <1>1, LeastIs DEF ToKill, Places
<1>3. TypeOK /\ Family /\ QueueTypes /\ QueueCore /\ LowerCompact
  BY <1>0, LoopIs
<1>4. i \in Positive /\ state[cthread[m][i]] = "ZOMBIE" /\ cthread[m][i] # NULL
  BY DEF ToKill, Places, Positive
<1>5. PICK s \in Slots : s = cthread[m][i]
  BY <1>3, <1>4, EntriesAre
<1>6. Free(s) /\ cthread' = [cthread EXCEPT ![m][i] = NULL] /\ UNCHANGED <<mthread, loop>>
  BY <1>1, <1>2, <1>5 DEF KillZombie
<1>7. /\ state' = [state EXCEPT ![s] = "UNUSED"] /\ percentage' = [percentage EXCEPT ![s] = 0]
      /\ share' = share + percentage[s] /\ PopIfQueued(s)
  BY <1>6 DEF Free, Refund
<1>8. \A u \in Slots : inqueue'[u] <=> inqueue[u] /\ u # s
  BY <1>3, <1>7, PopIfQueuedStep
<1>9. Gone(s)
  BY <1>3, <1>4, <1>5, <1>6, EmptiedIs
<1> QED
  BY <1>0, <1>3, <1>4, <1>5, <1>6, <1>7, <1>8, <1>9, FreedShares

LEMMA JoinReapShares ==
  ASSUME IndInv, ShareInd, panic = "none", NEW c \in CPUs, JoinReap(c)
  PROVE  ShareInd'
<1>0. PICK s \in Slots :
        /\ Joining(c, s) /\ JoinPlaces(c, s) # {} /\ state[s] = "ZOMBIE"
        /\ state' = [state EXCEPT ![s] = "UNUSED"]
        /\ mthread' = [mthread EXCEPT ![s] = NULL]
        /\ cthread' = [cthread EXCEPT ![Main(c)][Least(JoinPlaces(c, s))] = NULL]
        /\ PopIfQueued(s) /\ percentage' = [percentage EXCEPT ![s] = 0]
  BY DEF JoinReap
<1>1. UNCHANGED <<share, loop>>
  BY DEF JoinReap
<1>2. Running(c) /\ lock \in {c, NULL} /\ loop.op = "none"
  BY <1>0 DEF Joining, Syscall, InUser, InWait
<1>3. PICK m \in Slots : m = Main(c)
  BY <1>2, CallIs
<1>4. PICK i \in JoinPlaces(c, s) : i = Least(JoinPlaces(c, s))
  BY <1>0, LeastIs DEF JoinPlaces, Places
<1>5. TypeOK /\ Family /\ QueueTypes /\ QueueCore /\ LowerCompact
  <2>1. TypeOK /\ Family /\ QueueInv /\ ~Boosting
    BY <1>2, CallIs
  <2> QED
    BY <2>1, QueueTypesIs, QueueInvIs
<1>6. i \in Positive /\ cthread[m][i] = s
  BY <1>3 DEF JoinPlaces, Places, Positive
<1>7. cthread' = [cthread EXCEPT ![m][i] = NULL]
  BY <1>0, <1>3, <1>4
<1>8. \A u \in Slots : inqueue'[u] <=> inqueue[u] /\ u # s
  BY <1>0, <1>5, PopIfQueuedStep
<1>9. Gone(s)
  BY <1>5, <1>6, <1>7, EmptiedIs
<1>10. share' = share + percentage[s]
  <2>1. percentage[s] = 0
    BY <1>6 DEF ShareInd, ShareOwners
  <2> QED
    BY <1>1, <1>5, <2>1 DEF TypeOK
<1>11. \A u \in Slots : u # s => mthread'[u] = mthread[u]
  BY <1>0, <1>5 DEF TypeOK
<1> QED
  BY <1>0, <1>1, <1>2, <1>5, <1>8, <1>9, <1>10, <1>11, FreedShares

LEMMA WaitDoneShares ==
  ASSUME IndInv, ShareInd, panic = "none", NEW c \in CPUs, WaitDone(c)
  PROVE  ShareInd'
<1>0. lock = c /\ loop.op = "reap" /\ ToKill(loop.m, loop.m) = {}
  BY DEF WaitDone
<1>1. PICK s \in Slots : s = loop.m
  BY <1>0, LoopIs
<1>2. TypeOK /\ Family /\ Control /\ QueueTypes /\ QueueCore /\ LowerCompact
  BY <1>0, LoopIs
<1>3. /\ state[s] = "ZOMBIE" /\ mthread[s] = s /\ parent[s] # NULL
      /\ \A i \in Positive : cthread[s][i] # NULL => state[cthread[s][i]] = "ZOMBIE"
  BY <1>0, <1>1, <1>2 DEF Control, CtlLoop
<1>4. Free(s) /\ loop' = NoLoop /\ UNCHANGED <<mthread, cthread>>
  BY <1>1 DEF WaitDone, threadVars
<1>5. /\ state' = [state EXCEPT ![s] = "UNUSED"] /\ percentage' = [percentage EXCEPT ![s] = 0]
      /\ share' = share + percentage[s] /\ PopIfQueued(s)
  BY <1>4 DEF Free, Refund
<1>6. \A u \in Slots : inqueue'[u] <=> inqueue[u] /\ u # s
  BY <1>2, <1>5, PopIfQueuedStep
<1>7. \A n \in Slots : \A i \in Positive : cthread[n][i] # s
  BY <1>2, <1>3, EntryIs
<1>8. ASSUME NEW u \in Slots, Live(u) PROVE mthread[u] # s
  <2>1. ASSUME mthread[u] = s PROVE FALSE
    <3>1. u = s \/ \E i \in Positive : cthread[s][i] = u
      BY <1>2, <1>8, <2>1, MainIs
    <3> QED
      BY <1>3, <1>8, <3>1, NullIsNoSlot DEF Live
  <2> QED
    BY <2>1
<1> QED
  BY <1>0, <1>2, <1>3, <1>4, <1>5, <1>6, <1>7, <1>8, FreedShares DEF NoLoop, Gone

-----------------------------------------------------------------------------
(* At first the MLFQ has all tickets, and the first process is queued.     *)
LEMMA InitShares == Init => ShareInd
<1> SUFFICES ASSUME Init PROVE ShareInd
  OBVIOUS
<1>0. TypeOK /\ Family
  BY InitInd DEF IndInv, Structure, Init
<1>1. SumOK
  <2>1. Tally([n \in 0 .. NPROC |-> 100], share, percentage)
    <3>1. \A s \in Slots : s \in 0 .. NPROC /\ s + 1 \in 0 .. NPROC
      BY NprocAssumption DEF Slots
    <3>2. 0 \in 0 .. NPROC /\ NPROC \in 0 .. NPROC
      BY NprocAssumption
    <3> QED
      BY <3>1, <3>2 DEF Init, Tally
  <2> QED
    BY <2>1 DEF SumOK
<1>2. ShareOwners
  BY DEF Init, ShareOwners, NoLoop
<1>3. QueuedWithoutShare
  BY <1>0 DEF Init, QueuedWithoutShare, Live, InitProc
<1> QED
  BY <1>1, <1>2, <1>3 DEF ShareInd

(* A kernel that has panicked has stopped, so ShareInd may be claimed of   *)
(* the step that panics as well.                                           *)
LEMMA NextShares ==
  ASSUME IndInv, ShareInd, Next, "kill" \notin Calls
  PROVE  ShareInd'
<1>0. panic = "none"
  BY DEF Next
<1>1. ASSUME NEW c \in CPUs, ProcessStep(c) PROVE ShareInd'
  <2>1. CASE Fork(c)
    BY <1>0, <2>1, StartCreateShares DEF Fork
  <2>2. CASE Kill(c)
    BY <2>2 DEF Kill, Syscall
  <2>3. CASE \/ SetShare(c) \/ PopShare(c) \/ TakeShare(c) \/ ChangeShare(c) \/ PushShare(c)
             \/ LeaveShare(c)
    BY <1>0, <2>3, SetShareShares, PopShareShares, TakeShareShares, ChangeShareShares,
       PushShareShares, LeaveShareShares
  <2>4. CASE \/ CreateFail(c) \/ ForkCopy(c) \/ Exit(c) \/ ExitDone(c) \/ WaitReap(c) \/ WaitSleep(c)
             \/ WaitFail(c) \/ Yield(c) \/ Sleep(c)
    BY <1>0, <2>4, CallSteady, SteadyShares
  <2>5. CASE ForkDone(c) \/ KillZombie(c) \/ WaitDone(c)
    BY <1>0, <2>5, ForkDoneShares, KillZombieShares, WaitDoneShares
  <2> QED
    BY <1>1, <2>1, <2>2, <2>3, <2>4, <2>5 DEF ProcessStep
<1>2. ASSUME NEW c \in CPUs, ThreadStep(c) PROVE ShareInd'
  <2>1. CASE ThreadCreate(c)
    BY <1>0, <2>1, StartCreateShares DEF ThreadCreate
  <2>2. CASE ThreadStack(c) \/ ThreadStart(c) \/ JoinReap(c)
    BY <1>0, <2>2, ThreadStackShares, ThreadStartShares, JoinReapShares
  <2>3. CASE ThreadExit(c) \/ JoinSleep(c) \/ JoinFail(c)
    BY <1>0, <2>3, CallSteady, SteadyShares
  <2> QED
    BY <1>2, <2>1, <2>2, <2>3 DEF ThreadStep
<1>3. ASSUME NEW c \in CPUs, Schedule(c) \/ Timer(c) PROVE ShareInd'
  BY <1>0, <1>3, ScheduleSteady, SteadyShares
<1>4. ASSUME NEW s \in Slots, Wakeup(s) PROVE ShareInd'
  BY <1>0, <1>4, WakeupSteady, SteadyShares
<1> QED
  BY <1>1, <1>2, <1>3, <1>4 DEF Next

LEMMA StutterShares ==
  ASSUME ShareInd, UNCHANGED vars
  PROVE  ShareInd'
<1>0. UNCHANGED <<state, mthread, cthread, inqueue, percentage, share, loop>>
  BY DEF vars, procVars, threadVars, schedVars, mlfqVars
<1>1. SumOK'
  BY <1>0, TallyStays DEF ShareInd
<1>2. ShareOwners' /\ QueuedWithoutShare'
  BY <1>0 DEF ShareInd, ShareOwners, QueuedWithoutShare, Live, Moving
<1> QED
  BY <1>1, <1>2 DEF ShareInd

-----------------------------------------------------------------------------
(* The tickets are conserved and the two schedulers share out the threads, *)
(* on any number of CPUs and for any shares, negative ones too.            *)
THEOREM SharesInductive ==
  ASSUME "kill" \notin Calls
  PROVE  Spec => []ShareInd
<1>1. IndInv /\ ShareInd /\ [Next]_vars => ShareInd'
  BY NextShares, StutterShares
<1> QED
  BY <1>1, InitShares, Inductive, PTL DEF Spec

(* No ticket is lost or made by set_cpu_share, fork, thread_create, or by  *)
(* killzombie, wait and thread_join, which free a thread that may have a   *)
(* share.                                                                  *)
THEOREM TicketsKept ==
  ASSUME "kill" \notin Calls
  PROVE  Spec => []ShareInv
<1>1. IndInv /\ ShareInd => ShareInv
  BY TallyIs DEF IndInv, ShareInd
<1> QED
  BY <1>1, Inductive, SharesInductive, PTL

(* No thread falls between the two schedulers: whoever may still run is in *)
(* a queue of the MLFQ exactly when its process has no share, as soon as   *)
(* set_cpu_share has moved its threads.                                    *)
THEOREM ThreadsKept ==
  ASSUME "kill" \notin Calls
  PROVE  Spec => []NoLostThread
<1>1. ShareInd => NoLostThread
  BY DEF ShareInd, QueuedWithoutShare, NoLostThread, Moving
<1> QED
  BY <1>1, SharesInductive, PTL

-----------------------------------------------------------------------------
(* On one CPU, without set_cpu_share.  Steps that put no thread on the CPU *)
(* and leave the thread that is on it queued.                              *)
LEMMA PlainFrame ==
  ASSUME PlainInv, UNCHANGED <<panic, share, branch, cproc>>, loop'.op \notin {"pop", "push"},
         \A s \in Slots : percentage'[s] = 0,
         \A s \in Slots : kop'[s].pc = "dead" => state'[s] \in {"ZOMBIE", "UNUSED"},
         \A s \in Slots : state'[s] = "RUNNING" => state[s] = "RUNNING",
         \A d \in CPUs : \/ spc'[d] = spc[d]
                         \/ spc[d] = "run" /\ spc'[d] = "back" /\ state'[cproc[d]] # "RUNNING",
         \A d \in CPUs : spc[d] \in {"run", "back"} => inqueue'[cproc[d]],
         loop'.op = "exit" => \A d \in CPUs : spc'[d] = "run" => state'[cproc[d]] = "ZOMBIE"
  PROVE  PlainInv'
<1>1. NoShares' /\ DeadExited' /\ panic' = "none"
  BY DEF PlainInv, NoShares, DeadExited
<1>2. RunningOnCpu'
  BY DEF PlainInv, RunningOnCpu
<1>3. RunnerQueued'
  BY DEF PlainInv, RunnerQueued
<1> QED
  BY <1>1, <1>2, <1>3 DEF PlainInv

(* The scheduler: a RUNNABLE thread is put on the CPU, which no thread is  *)
(* on, and the queues have room for a thread that moves.                   *)
LEMMA DispatchPlain ==
  ASSUME IndInv, PlainInv, NEW c \in CPUs, \A d \in CPUs : d = c, spc[c] = "mlfq",
         NEW p \in Slots, state[p] = "RUNNABLE", inqueue[p], Dispatch(c, p),
         UNCHANGED <<share, percentage, branch, kop, inqueue, loop>>
  PROVE  PlainInv'
<1>0. TypeOK
  BY DEF IndInv
<1>1. /\ cproc'[c] = p /\ spc'[c] = "run"
      /\ state'[p] = "RUNNING" /\ \A s \in Slots : s # p => state'[s] = state[s]
  BY <1>0 DEF Dispatch, TypeOK
<1>2. panic' = "none"
  BY DEF Dispatch, PlainInv, DeadExited
<1>3. loop.op # "exit"
  BY <1>0, LockIs DEF IndInv, Structure, PlainInv, Control, CtlLock
<1>4. DeadExited'
  BY <1>1 DEF PlainInv, DeadExited
<1>5. RunningOnCpu'
  <2>1. \A s \in Slots : state[s] # "RUNNING"
    BY DEF PlainInv, RunningOnCpu
  <2> QED
    BY <1>1, <1>3, <2>1 DEF RunningOnCpu
<1>6. NoShares' /\ RunnerQueued'
  BY <1>1 DEF PlainInv, NoShares, RunnerQueued
<1> QED
  BY <1>2, <1>4, <1>5, <1>6 DEF PlainInv

LEMMA RunTopPlain ==
  ASSUME IndInv, PlainInv, NEW c \in CPUs, \A d \in CPUs : d = c, RunTop(c)
  PROVE  PlainInv'
<1>0. TypeOK /\ QueueInv /\ spc[c] = "mlfq"
  BY DEF IndInv, RunTop
<1>1. PICK l \in 0 .. 3 : l = lvl[c]
  BY <1>0 DEF TypeOK
<1>2. l \in Levels
  BY <1>1 DEF RunTop, Levels
<1> DEFINE r == Place(index[l], Distance(index[l], Eligible(l)))
<1>3. UNCHANGED <<share, percentage, branch, kop, inqueue, loop>>
  BY DEF RunTop, schedVars, kernVars
<1>4. CASE Eligible(l) # {} /\ (mono[c] \/ ~done[c])
  <2>1. Dispatch(c, queue[l][r])
    BY <1>1, <1>4 DEF RunTop
  <2>2. r \in Slots /\ r \in Eligible(l)
    <3>1. index[l] \in -1 .. (NPROC - 1) /\ Eligible(l) \in SUBSET Slots
      BY <1>0, <1>2 DEF TypeOK, Eligible
    <3> QED
      BY <1>4, <3>1, DistanceIs, PlaceIs
  <2> HIDE DEF r
  <2>3. PICK p \in Slots : p = queue[l][r]
    BY <1>0, <1>2, <2>2 DEF Eligible, TypeOK, SlotOrNull
  <2>4. state[p] = "RUNNABLE"
    BY <2>2, <2>3 DEF Eligible
  <2>5. inqueue[p]
    BY <1>0, <1>2, <2>2, <2>3 DEF QueueInv, InqueueExact, Queued, Holds
  <2>6. Dispatch(c, p)
    BY <2>1, <2>3
  <2> QED
    BY <1>0, <1>3, <2>4, <2>5, <2>6, DispatchPlain
<1>5. CASE ~(Eligible(l) # {} /\ (mono[c] \/ ~done[c]))
  <2>1. UNCHANGED <<spc, cproc, state, panic>>
    BY <1>1, <1>5 DEF RunTop
  <2> QED
    BY <1>3, <2>1, PlainFrame DEF PlainInv, NoShares, DeadExited, RunnerQueued, RunningOnCpu
<1> QED
  BY <1>4, <1>5

(* The scheduler's own steps: no thread is on the CPU before and after.    *)
LEMMA InScheduler ==
  ASSUME PlainInv, NEW c \in CPUs, \A d \in CPUs : d = c, spc[c] # "run",
         spc'[c] \notin {"run", "back"}, loop.op = "none",
         UNCHANGED <<panic, share, percentage, branch, state, kop, loop>>
  PROVE  PlainInv'
<1>1. NoShares' /\ DeadExited' /\ panic' = "none"
  BY DEF PlainInv, NoShares, DeadExited
<1>2. RunningOnCpu' /\ RunnerQueued'
  BY DEF PlainInv, RunningOnCpu, RunnerQueued
<1> QED
  BY <1>1, <1>2 DEF PlainInv

LEMMA SchedulePlain ==
  ASSUME IndInv, PlainInv, NEW c \in CPUs, \A d \in CPUs : d = c, Schedule(c)
  PROVE  PlainInv'
<1>0. TypeOK /\ QueueInv /\ Control /\ share = 100 /\ branch[c] = "mlfq"
  BY DEF IndInv, Structure, PlainInv, NoShares
<1>1. CASE RunTop(c)
  BY <1>1, RunTopPlain
<1>2. CASE ~RunTop(c)
  <2>0. ~PickStride(c) /\ ~MlfqDivide(c) /\ ~BackStride(c)
    BY <1>0 DEF PickStride, Behind, MlfqDivide, BackStride
  <2>1. /\ spc[c] # "run" /\ spc'[c] \notin {"run", "back"}
        /\ UNCHANGED <<share, percentage, branch, state, kop, loop>>
    BY <1>0, <1>2, <2>0 DEF Schedule, PickMlfq, LeaveMlfq, BackBoost, BoostMove, BoostEnd, BackMlfq,
       procVars, schedVars, kernVars, mlfqVars, cpuVars, TypeOK
  <2>2. loop.op = "none"
    <3>1. loop.op # "none" => lock \in CPUs /\ spc[lock] = "run"
      BY <1>0 DEF Control, CtlLock
    <3> QED
      BY <2>1, <3>1
  <2>3. panic' = panic
    <3>1. CASE BoostMove(c)
      <4>1. PICK l \in {1, 2} :
              /\ Occupied(l) # {}
              /\ LET r == Place(index[l], Distance(index[l], Occupied(l)))
                     p == queue[l][r]
                 IN  /\ index' = [index EXCEPT ![l] = r]
                     /\ IF Full(queue[0])
                        THEN panic' = "push" /\ UNCHANGED <<queue, inqueue>>
                        ELSE /\ queue' = [queue EXCEPT ![0] = Pushed(@, p), ![l] = [@ EXCEPT ![r] = NULL]]
                             /\ inqueue' = [inqueue EXCEPT ![p] = TRUE]
                             /\ UNCHANGED panic
        BY <3>1 DEF BoostMove
      <4> DEFINE r == Place(index[l], Distance(index[l], Occupied(l)))
                 p == queue[l][r]
      <4>2. l \in Levels
        BY DEF Levels
      <4>3. r \in Slots /\ r \in Occupied(l)
        <5>1. index[l] \in -1 .. (NPROC - 1) /\ Occupied(l) \in SUBSET Slots
          BY <1>0, <4>2 DEF TypeOK, Occupied
        <5> QED
          BY <4>1, <5>1, DistanceIs, PlaceIs
      <4>4. p \in Slots
        <5> HIDE DEF r
        <5>1. queue[l][r] # NULL /\ queue[l][r] \in SlotOrNull
          BY <1>0, <4>2, <4>3 DEF Occupied, TypeOK
        <5> QED
          BY <5>1 DEF SlotOrNull
      <4>5. queue[l][r] = p
        OBVIOUS
      <4>6. /\ index' = [index EXCEPT ![l] = r]
            /\ IF Full(queue[0])
               THEN panic' = "push" /\ UNCHANGED <<queue, inqueue>>
               ELSE /\ queue' = [queue EXCEPT ![0] = Pushed(@, p), ![l] = [@ EXCEPT ![r] = NULL]]
                    /\ inqueue' = [inqueue EXCEPT ![p] = TRUE]
                    /\ UNCHANGED panic
        BY <4>1
      <4> HIDE DEF r, p
      <4>7. QueueTypes /\ QueueCore
        BY <1>0, QueueTypesIs, QueueInvIs
      <4> QED
        BY <4>3, <4>4, <4>5, <4>6, <4>7, BoostStep
    <3>2. CASE BackMlfq(c)
      <4>1. cproc[c] \in Slots /\ ~Boosting /\ inqueue[cproc[c]]
        <5>1. cproc[c] \in Slots
          BY <1>0, <3>2 DEF BackMlfq, Control, CtlProc
        <5>2. spc[c] = "back"
          BY <3>2 DEF BackMlfq
        <5> QED
          BY <5>1, <5>2 DEF Boosting, PlainInv, RunnerQueued
      <4>2. QueueTypes /\ QueueCore /\ LowerCompact
        BY <1>0, <4>1, QueueTypesIs, QueueInvIs
      <4>3. CASE MustDrop(cproc[c])
        <5>1. DropPriority(cproc[c])
          BY <3>2, <4>3 DEF BackMlfq
        <5>2. priority[cproc[c]] \in {0, 1}
          BY <1>0, <4>1, <4>3 DEF MustDrop, TypeOK, Levels
        <5> QED
          BY <4>1, <4>2, <5>1, <5>2, DropStep
      <4>4. CASE ~MustDrop(cproc[c])
        BY <3>2, <4>4 DEF BackMlfq
      <4> QED
        BY <4>3, <4>4
    <3>3. CASE ~BoostMove(c) /\ ~BackMlfq(c)
      BY <1>2, <2>0, <3>3 DEF Schedule, PickMlfq, LeaveMlfq, BackBoost, BoostEnd
    <3> QED
      BY <3>1, <3>2, <3>3
  <2> QED
    BY <2>1, <2>2, <2>3, InScheduler
<1> QED
  BY <1>1, <1>2

LEMMA TimerPlain ==
  ASSUME IndInv, PlainInv, NEW c \in CPUs, \A d \in CPUs : d = c, Timer(c)
  PROVE  PlainInv'
<1>0. TypeOK
  BY DEF IndInv
<1>1. CASE TickStride(c) \/ TickYield(c) \/ TrapYield(c)
  <2>1. /\ Running(c) /\ GiveUp(c)
        /\ UNCHANGED <<panic, share, percentage, branch, cproc, inqueue, loop>>
        /\ \A s \in Slots : kop'[s] = kop[s]
    BY <1>1 DEF TickStride, TickYield, TrapYield, Interrupted, schedVars, kernVars, mlfqVars
  <2>2. lock = NULL /\ loop.op = "none" /\ panic = "none"
    BY <2>1, FreeCall DEF GiveUp, PlainInv
  <2>3. cproc[c] \in Slots /\ state[cproc[c]] = "RUNNING"
    BY <2>1, <2>2, CallIs
  <2>4. \A s \in Slots : state'[s] = IF s = cproc[c] THEN "RUNNABLE" ELSE state[s]
    BY <1>0, <2>1 DEF GiveUp, TypeOK
  <2>5. spc'[c] = "back"
    BY <1>0, <2>1 DEF GiveUp, ToScheduler, TypeOK
  <2> QED
    BY <2>1, <2>2, <2>3, <2>4, <2>5, PlainFrame DEF PlainInv, NoShares, DeadExited, RunnerQueued
<1>2. CASE TickCount(c) \/ TrapCount(c)
  <2>1. UNCHANGED <<panic, share, percentage, branch, cproc, inqueue, loop, state, kop, spc>>
    BY <1>2 DEF TickCount, TrapCount, procVars, kernVars, mlfqVars
  <2> QED
    BY <2>1, PlainFrame DEF PlainInv, NoShares, DeadExited, RunnerQueued, RunningOnCpu
<1>3. CASE TickIdle(c)
  <2>1. spc[c] = "loop" /\ cproc[c] # NULL /\ state[cproc[c]] = "RUNNING"
    BY <1>3 DEF TickIdle
  <2>2. cproc[c] \in Slots
    BY <1>0, <2>1 DEF TypeOK, SlotOrNull
  <2> QED
    BY <2>1, <2>2 DEF PlainInv, RunningOnCpu
<1> QED
  BY <1>1, <1>2, <1>3 DEF Timer

-----------------------------------------------------------------------------
(* Calls after which the thread leaves the CPU.                            *)
LEMMA SleepPlain ==
  ASSUME IndInv, PlainInv, NEW c \in CPUs, \A d \in CPUs : d = c,
         Yield(c) \/ Sleep(c) \/ WaitSleep(c) \/ JoinSleep(c) \/ ThreadExit(c)
  PROVE  PlainInv'
<1>1. Running(c) /\ lock \in {c, NULL} /\ loop.op = "none" /\ UNCHANGED loop
  <2>0. panic = "none"
    BY DEF PlainInv
  <2>1. CASE Yield(c) \/ Sleep(c) \/ ThreadExit(c)
    <3>1. Running(c) /\ lock = NULL /\ UNCHANGED loop
      BY <2>1 DEF Yield, Sleep, ThreadExit, Syscall, InUser
    <3> QED
      BY <2>0, <3>1, FreeCall
  <2>2. CASE WaitSleep(c)
    BY <2>2 DEF WaitSleep, Syscall, InUser, InWait
  <2>3. CASE JoinSleep(c)
    BY <2>3 DEF JoinSleep, Joining, Syscall, InUser, InWait
  <2> QED
    BY <2>1, <2>2, <2>3
<1>2. PICK t \in Slots : t = cproc[c]
  BY <1>1, CallIs DEF PlainInv
<1>3. TypeOK /\ state[t] = "RUNNING"
  BY <1>1, <1>2, CallIs DEF PlainInv
<1>4. UNCHANGED <<panic, share, percentage, branch, cproc, inqueue>> /\ spc'[c] = "back"
  BY <1>3 DEF Yield, Sleep, WaitSleep, JoinSleep, ThreadExit, SleepIn, ToScheduler, schedVars,
              mlfqVars, TypeOK
<1>5. \/ state' = [state EXCEPT ![t] = "RUNNABLE"] /\ UNCHANGED kop
      \/ state' = [state EXCEPT ![t] = "SLEEPING"] /\ UNCHANGED kop
      \/ /\ state' = [state EXCEPT ![t] = "SLEEPING"]
         /\ \E pc \in {"wait", "join"}, np \in SlotOrNull : kop' = [kop EXCEPT ![t] = Kop(pc, np)]
      \/ /\ state' = [Woken(state, Main(c)) EXCEPT ![t] = "ZOMBIE"]
         /\ kop' = [kop EXCEPT ![t] = Kop("dead", NULL)]
  <2>1. CASE Yield(c) \/ Sleep(c)
    BY <1>2, <2>1 DEF Yield, Sleep, kernVars
  <2>2. CASE WaitSleep(c)
    BY <1>2, <2>2 DEF WaitSleep, SleepIn, SlotOrNull
  <2>3. CASE JoinSleep(c)
    <3>1. \E u \in Slots : SleepIn(c, "join", u)
      BY <2>3 DEF JoinSleep
    <3> QED
      BY <1>2, <3>1 DEF SleepIn, SlotOrNull
  <2>4. CASE ThreadExit(c)
    BY <1>2, <2>4 DEF ThreadExit
  <2> QED
    BY <2>1, <2>2, <2>3, <2>4
<1>6. /\ DOMAIN Woken(state, Main(c)) = Slots
      /\ \A s \in Slots : \/ Woken(state, Main(c))[s] = state[s]
                          \/ state[s] = "SLEEPING" /\ Woken(state, Main(c))[s] = "RUNNABLE"
  BY DEF Woken
<1>7. /\ \A s \in Slots : s # t => kop'[s] = kop[s]
      /\ \A s \in Slots : s # t => \/ state'[s] = state[s]
                                   \/ state[s] = "SLEEPING" /\ state'[s] = "RUNNABLE"
      /\ state'[t] # "RUNNING"
      /\ kop'[t].pc = "dead" => kop[t].pc = "dead" \/ state'[t] = "ZOMBIE"
  BY <1>3, <1>5, <1>6 DEF TypeOK, Kop
<1>8. kop[t].pc # "dead"
  BY <1>3 DEF PlainInv, DeadExited
<1>9. \A s \in Slots : kop'[s].pc = "dead" => state'[s] \in {"ZOMBIE", "UNUSED"}
  BY <1>7, <1>8 DEF PlainInv, DeadExited
<1>10. \A s \in Slots : state'[s] = "RUNNING" => state[s] = "RUNNING"
  BY <1>7
<1> QED
  BY <1>1, <1>2, <1>4, <1>7, <1>9, <1>10, PlainFrame DEF PlainInv, NoShares, RunnerQueued

(* Calls after which it goes on, or exit, which keeps the lock.            *)
LEMMA ReturnPlain ==
  ASSUME IndInv, PlainInv, NEW c \in CPUs, \A d \in CPUs : d = c,
         WaitFail(c) \/ JoinFail(c) \/ ForkCopy(c) \/ CreateFail(c) \/ ThreadStack(c)
  PROVE  PlainInv'
<1>0. TypeOK /\ panic = "none" /\ Control
  BY DEF IndInv, Structure, PlainInv
<1>1. /\ UNCHANGED <<panic, share, percentage, branch, cproc, inqueue, spc, loop>>
      /\ Running(c)
  BY DEF WaitFail, JoinFail, ForkCopy, CreateFail, ThreadStack, InWait, schedVars, mlfqVars, cpuVars
<1>2. PICK t \in Slots : t = cproc[c]
  BY <1>0, <1>1 DEF Control, CtlProc
<1>3. /\ \A s \in Slots : s # t => kop'[s] = kop[s]
      /\ kop'[t].pc # "dead"
  <2>1. kop[t] \in [pc : KernPoints, np : SlotOrNull]
    BY <1>0 DEF TypeOK, Kops
  <2>2. \/ kop' = [kop EXCEPT ![t] = Kop("user", NULL)]
        \/ kop' = [kop EXCEPT ![t].pc = "forked"] \/ kop' = [kop EXCEPT ![t].pc = "created"]
    BY <1>2 DEF WaitFail, JoinFail, ForkCopy, CreateFail, ThreadStack, Return
  <2> QED
    BY <1>0, <2>1, <2>2 DEF TypeOK, Kop
<1>4. \A s \in Slots : state'[s] = state[s] \/ state'[s] = "UNUSED"
  <2>1. state' = state \/ state' = [state EXCEPT ![kop[t].np] = "UNUSED"]
    BY <1>2 DEF WaitFail, JoinFail, ForkCopy, CreateFail, ThreadStack, procVars
  <2> QED
    BY <1>0, <2>1 DEF TypeOK
<1>5. loop.op # "exit"
  <2>1. CASE WaitFail(c) \/ JoinFail(c)
    BY <2>1 DEF WaitFail, JoinFail
  <2>2. CASE ForkCopy(c) \/ CreateFail(c) \/ ThreadStack(c)
    <3>1. lock # c
      BY <2>2, CpuAssumption DEF ForkCopy, CreateFail, ThreadStack
    <3> QED
      BY <1>0, <3>1 DEF Control, CtlLock
  <2> QED
    BY <2>1, <2>2
<1>6. \A s \in Slots : kop'[s].pc = "dead" => state'[s] \in {"ZOMBIE", "UNUSED"}
  BY <1>3, <1>4 DEF PlainInv, DeadExited
<1> QED
  BY <1>1, <1>2, <1>4, <1>5, <1>6, PlainFrame DEF PlainInv, NoShares, RunnerQueued

LEMMA ExitPlain ==
  ASSUME IndInv, PlainInv, NEW c \in CPUs, \A d \in CPUs : d = c, Exit(c)
  PROVE  PlainInv'
<1>0. Running(c) /\ lock = NULL /\ loop.op = "none" /\ panic = "none"
  BY FreeCall DEF Exit, Syscall, InUser, PlainInv
<1>1. PICK t \in Slots : t = cproc[c]
  BY <1>0, CallIs
<1>2. PICK m \in Slots : m = mthread[t]
  BY <1>0, <1>1, CallIs
<1>3. TypeOK /\ Family /\ Live(t)
  BY <1>0, <1>1, CallIs DEF Live
<1> DEFINE st == [s \in Slots |-> IF s \in Threads(m) THEN "ZOMBIE" ELSE state[s]]
<1>4. /\ state' = Woken(st, parent[m]) /\ panic' = panic /\ loop'.op = "exit"
      /\ UNCHANGED <<share, percentage, branch, cproc, inqueue, spc, kop>>
  BY <1>1, <1>2 DEF Exit, schedVars, mlfqVars, kernVars
<1>5. t \in Threads(m)
  <2>1. cthread[m][0] = m /\ (t = m \/ \E i \in Positive : cthread[m][i] = t)
    BY <1>2, <1>3, MainIs
  <2>2. \E i \in Slots : cthread[m][i] = t
    BY <2>1, NullIsNoSlot DEF Positive
  <2> QED
    BY <2>2, NullIsNoSlot DEF Threads, Places
<1>6. \A s \in Slots : \/ state'[s] \in {state[s], "ZOMBIE"}
                       \/ state[s] = "SLEEPING" /\ state'[s] = "RUNNABLE"
  BY <1>4 DEF Woken
<1>7. state'[t] = "ZOMBIE"
  BY <1>4, <1>5 DEF Woken
<1> QED
  BY <1>0, <1>1, <1>4, <1>6, <1>7, PlainFrame DEF PlainInv, NoShares, DeadExited, RunnerQueued

LEMMA ExitDonePlain ==
  ASSUME IndInv, PlainInv, NEW c \in CPUs, \A d \in CPUs : d = c, ExitDone(c)
  PROVE  PlainInv'
<1>0. TypeOK /\ lock = c /\ loop.op = "exit"
  BY DEF IndInv, ExitDone
<1>1. Running(c)
  BY <1>0, LoopIs DEF PlainInv
<1>2. PICK t \in Slots : t = cproc[c]
  BY <1>0, LoopIs DEF PlainInv
<1>3. state[t] = "ZOMBIE"
  BY <1>0, <1>1, <1>2 DEF PlainInv, RunningOnCpu
<1>4. /\ UNCHANGED <<state, panic, share, percentage, branch, cproc, inqueue>>
      /\ spc'[c] = "back" /\ loop' = NoLoop
      /\ \A s \in Slots : s # t => kop'[s] = kop[s]
  BY <1>0, <1>2 DEF ExitDone, procVars, schedVars, mlfqVars, ToScheduler, TypeOK
<1> QED
  BY <1>1, <1>2, <1>3, <1>4, PlainFrame DEF PlainInv, NoShares, DeadExited, RunnerQueued, NoLoop

(* wait does not take a stack away: the threads of an exited child have    *)
(* exited.                                                                 *)
LEMMA WaitReapPlain ==
  ASSUME IndInv, TreeInv, PlainInv, NEW c \in CPUs, \A d \in CPUs : d = c, WaitReap(c)
  PROVE  PlainInv'
<1>0. Running(c) /\ lock \in {c, NULL} /\ loop.op = "none" /\ panic = "none"
  BY DEF WaitReap, Syscall, InUser, InWait, PlainInv
<1>1. PICK z \in Zombies(Main(c)) : z = Least(Zombies(Main(c)))
  BY LeastIs DEF WaitReap, Zombies, Children
<1>2. z \in Slots /\ state[z] = "ZOMBIE" /\ mthread[z] = z
  BY DEF Zombies, Children
<1> DEFINE W == {cthread[z][i] : i \in Places(z) \ {0}}
<1>3. /\ state' = [s \in Slots |-> IF s \in W THEN "ZOMBIE" ELSE state[s]]
      /\ loop'.op = "reap"
      /\ panic' = IF \E d \in CPUs : Running(d) /\ cproc[d] \in W THEN "freed" ELSE panic
      /\ UNCHANGED <<share, percentage, branch, cproc, inqueue, spc, kop>>
  BY <1>1 DEF WaitReap, schedVars, mlfqVars, kernVars
<1>4. \A s \in W : state[s] = "ZOMBIE"
  BY <1>2 DEF TreeInv, ZombieThreads, Places, Positive
<1>5. \A s \in Slots : state'[s] = state[s]
  BY <1>3, <1>4
<1>6. panic' = panic
  <2>1. state[cproc[c]] = "RUNNING"
    BY <1>0, CallIs
  <2> QED
    BY <1>3, <1>4, <2>1
<1> QED
  BY <1>3, <1>5, <1>6, PlainFrame DEF PlainInv, NoShares, DeadExited, RunnerQueued

-----------------------------------------------------------------------------
(* A slot that is freed is not the one on the CPU, and popped only if it   *)
(* is queued.                                                              *)
LEMMA FreedPlain ==
  ASSUME IndInv, PlainInv, NEW c \in CPUs, \A d \in CPUs : d = c, Running(c), QueueTypes, QueueCore,
         LowerCompact, NEW s \in Slots, s # cproc[c], state' = [state EXCEPT ![s] = "UNUSED"],
         PopIfQueued(s), percentage' = [percentage EXCEPT ![s] = 0],
         \A u \in Slots : kop'[u].pc = "dead" => kop[u].pc = "dead",
         UNCHANGED <<share, branch, cproc, spc>>, loop' \in {loop, NoLoop}
  PROVE  PlainInv'
<1>0. TypeOK
  BY DEF IndInv
<1>1. panic' = panic
  <2>1. inqueue[s] => Queued(queue, s)
    BY DEF QueueCore, InqueueExact
  <2> QED
    BY <2>1 DEF PopIfQueued, Pop
<1>2. \A u \in Slots : inqueue'[u] <=> inqueue[u] /\ u # s
  BY PopIfQueuedStep
<1>3. cproc[c] \in Slots
  BY <1>0 DEF IndInv, Structure, PlainInv, Control, CtlProc
<1>4. \A u \in Slots : percentage'[u] = 0
  BY <1>0 DEF PlainInv, NoShares, TypeOK
<1>5. state'[s] = "UNUSED" /\ \A u \in Slots : u # s => state'[u] = state[u]
  BY <1>0 DEF TypeOK
<1>6. \A u \in Slots : kop'[u].pc = "dead" => state'[u] \in {"ZOMBIE", "UNUSED"}
  BY <1>5 DEF PlainInv, DeadExited
<1>7. \A u \in Slots : state'[u] = "RUNNING" => state[u] = "RUNNING"
  BY <1>5
<1>8. \A d \in CPUs : spc[d] \in {"run", "back"} => inqueue'[cproc[d]]
  BY <1>2, <1>3 DEF PlainInv, RunnerQueued
<1>9. loop'.op \notin {"pop", "push"} /\ (loop'.op = "exit" => loop.op = "exit")
  BY DEF PlainInv, NoShares, NoLoop
<1>10. loop'.op = "exit" => state'[cproc[c]] = "ZOMBIE"
  BY <1>3, <1>5, <1>9 DEF PlainInv, RunningOnCpu
<1> QED
  BY <1>1, <1>4, <1>6, <1>7, <1>8, <1>9, <1>10, PlainFrame

LEMMA KillZombiePlain ==
  ASSUME IndInv, PlainInv, NEW c \in CPUs, \A d \in CPUs : d = c, KillZombie(c)
  PROVE  PlainInv'
<1>0. /\ lock = c /\ loop.op \in {"exit", "reap"} /\ ToKill(loop.m, Keep(c)) # {}
      /\ panic = "none"
  BY DEF KillZombie, PlainInv
<1>1. PICK m \in Slots : m = loop.m
  BY <1>0, LoopIs
<1>2. PICK i \in ToKill(m, Keep(c)) : i = Least(ToKill(m, Keep(c)))
  BY <1>0, <1>1, LeastIs DEF ToKill, Places
<1>3. TypeOK /\ QueueTypes /\ QueueCore /\ LowerCompact /\ Running(c)
  BY <1>0, LoopIs
<1>4. PICK s \in Slots : s = cthread[m][i]
  BY <1>3 DEF ToKill, Places, TypeOK, SlotOrNull
<1>5. s # cproc[c]
  <2>1. state[s] = "ZOMBIE" /\ s # Keep(c)
    BY <1>2, <1>4 DEF ToKill
  <2>2. loop.op = "reap" => state[cproc[c]] = "RUNNING"
    BY <1>0, LoopIs
  <2> QED
    BY <1>0, <2>1, <2>2 DEF Keep
<1>6. Free(s) /\ Forget(s) /\ UNCHANGED <<branch, cproc, spc, loop>>
  BY <1>1, <1>2, <1>4 DEF KillZombie, cpuVars
<1>7. /\ state' = [state EXCEPT ![s] = "UNUSED"] /\ percentage' = [percentage EXCEPT ![s] = 0]
      /\ PopIfQueued(s) /\ share' = share + percentage[s]
  BY <1>6 DEF Free, Refund
<1>8. share' = share
  BY <1>7 DEF PlainInv, NoShares
<1>9. \A u \in Slots : kop'[u].pc = "dead" => kop[u].pc = "dead"
  BY <1>6 DEF Forget, Kop
<1> QED
  BY <1>3, <1>5, <1>6, <1>7, <1>8, <1>9, FreedPlain

LEMMA WaitDonePlain ==
  ASSUME IndInv, PlainInv, NEW c \in CPUs, \A d \in CPUs : d = c, WaitDone(c)
  PROVE  PlainInv'
<1>0. lock = c /\ loop.op = "reap" /\ panic = "none"
  BY DEF WaitDone, PlainInv
<1>1. PICK s \in Slots : s = loop.m
  BY <1>0, LoopIs
<1>2. /\ TypeOK /\ Control /\ QueueTypes /\ QueueCore /\ LowerCompact /\ Running(c)
      /\ cproc[c] \in Slots /\ state[cproc[c]] = "RUNNING"
  BY <1>0, LoopIs
<1>3. s # cproc[c]
  BY <1>0, <1>1, <1>2 DEF Control, CtlLoop
<1>4. /\ Free(s) /\ kop' = [kop EXCEPT ![cproc[c]] = Kop("user", NULL)] /\ loop' = NoLoop
      /\ UNCHANGED <<branch, cproc, spc>>
  BY <1>1 DEF WaitDone, Return
<1>5. /\ state' = [state EXCEPT ![s] = "UNUSED"] /\ percentage' = [percentage EXCEPT ![s] = 0]
      /\ PopIfQueued(s) /\ share' = share + percentage[s]
  BY <1>4 DEF Free, Refund
<1>6. share' = share
  BY <1>5 DEF PlainInv, NoShares
<1>7. \A u \in Slots : kop'[u].pc = "dead" => kop[u].pc = "dead"
  BY <1>2, <1>4 DEF Kop, TypeOK
<1> QED
  BY <1>2, <1>3, <1>4, <1>5, <1>6, <1>7, FreedPlain

LEMMA JoinReapPlain ==
  ASSUME IndInv, PlainInv, NEW c \in CPUs, \A d \in CPUs : d = c, JoinReap(c)
  PROVE  PlainInv'
<1>0. PICK s \in Slots :
        /\ Joining(c, s) /\ state[s] = "ZOMBIE" /\ state' = [state EXCEPT ![s] = "UNUSED"]
        /\ PopIfQueued(s) /\ percentage' = [percentage EXCEPT ![s] = 0]
        /\ kop' = [u \in Slots |->
                     IF u = cproc[c] THEN Kop("user", NULL)
                     ELSE IF kop[u].pc = "join" /\ kop[u].np = s THEN Kop("join", NULL)
                     ELSE kop[u]]
  BY DEF JoinReap
<1>1. UNCHANGED <<share, branch, cproc, spc, loop>>
  BY DEF JoinReap
<1>2. Running(c) /\ lock \in {c, NULL} /\ loop.op = "none" /\ panic = "none"
  BY <1>0 DEF Joining, Syscall, InUser, InWait, PlainInv
<1>3. QueueTypes /\ QueueCore /\ LowerCompact /\ state[cproc[c]] = "RUNNING"
  <2>1. TypeOK /\ QueueInv /\ ~Boosting /\ state[cproc[c]] = "RUNNING"
    BY <1>2, CallIs
  <2> QED
    BY <2>1, QueueTypesIs, QueueInvIs
<1>4. \A u \in Slots : kop'[u].pc = "dead" => kop[u].pc = "dead"
  BY <1>0 DEF Kop
<1> QED
  BY <1>0, <1>1, <1>2, <1>3, <1>4, FreedPlain

-----------------------------------------------------------------------------
(* A slot that is made is not the one on the CPU either, and has room in   *)
(* the queue when it becomes RUNNABLE.                                     *)
LEMMA StartCreatePlain ==
  ASSUME IndInv, PlainInv, NEW c \in CPUs, \A d \in CPUs : d = c, NEW f, NEW pc,
         pc \in {"fork", "create"}, StartCreate(c, f, pc)
  PROVE  PlainInv'
<1>0. Running(c) /\ lock = NULL /\ loop.op = "none" /\ panic = "none"
  BY FreeCall DEF StartCreate, Syscall, InUser, PlainInv
<1>1. TypeOK /\ cproc[c] \in Slots /\ state[cproc[c]] = "RUNNING"
  BY <1>0, CallIs
<1>2. PICK np \in Slots :
        /\ AllocProc(c, np)
        /\ kop' = [kop EXCEPT ![cproc[c]] = Kop(pc, np), ![np] = Kop("user", NULL)]
  BY DEF StartCreate
<1>3. state[np] = "UNUSED"
  BY <1>2, LeastIs DEF AllocProc, Unused
<1>4. /\ state' = [state EXCEPT ![np] = "EMBRYO"] /\ percentage' = [percentage EXCEPT ![np] = 0]
      /\ inqueue' = [inqueue EXCEPT ![np] = FALSE]
  BY <1>2 DEF AllocProc
<1>5. UNCHANGED <<panic, share, branch, cproc, spc, loop>>
  BY DEF StartCreate, mlfqVars, cpuVars
<1>6. \A s \in Slots : percentage'[s] = 0
  BY <1>1, <1>4 DEF TypeOK, PlainInv, NoShares
<1>7. \A s \in Slots : state'[s] = IF s = np THEN "EMBRYO" ELSE state[s]
  BY <1>1, <1>4 DEF TypeOK
<1>8. \A s \in Slots : kop'[s].pc = "dead" => s # np /\ kop[s].pc = "dead"
  BY <1>1, <1>2 DEF TypeOK, Kop
<1>9. \A s \in Slots : s # np => inqueue'[s] = inqueue[s]
  BY <1>1, <1>4 DEF TypeOK
<1> QED
  BY <1>0, <1>1, <1>3, <1>5, <1>6, <1>7, <1>8, <1>9, PlainFrame
  DEF PlainInv, NoShares, DeadExited, RunnerQueued

LEMMA BornPlain ==
  ASSUME IndInv, PlainInv, NEW c \in CPUs, \A d \in CPUs : d = c, Running(c), lock = NULL,
         loop.op = "none", NEW np \in Slots, state[np] = "EMBRYO",
         state' = [state EXCEPT ![np] = "RUNNABLE"], kop' = [kop EXCEPT ![cproc[c]] = Kop("user", NULL)],
         (InitPush(np) /\ ~inqueue[np]) \/ UNCHANGED <<queue, index, inqueue, panic>>,
         UNCHANGED <<share, percentage, branch, cproc, spc, loop>>
  PROVE  PlainInv'
<1>0. TypeOK /\ QueueInv /\ Family /\ cproc[c] \in Slots
  BY CallIs DEF PlainInv
<1>1. panic' = panic /\ \A s \in Slots : inqueue[s] => inqueue'[s]
  <2>1. CASE InitPush(np) /\ ~inqueue[np]
    BY <1>0, <2>1, QueueTypesIs, QueueInvIs, InitPushStep
  <2> QED
    BY <2>1
<1>2. \A s \in Slots : state'[s] = IF s = np THEN "RUNNABLE" ELSE state[s]
  BY <1>0 DEF TypeOK
<1>3. \A s \in Slots : kop'[s].pc = "dead" => s # np /\ kop[s].pc = "dead"
  BY <1>0 DEF TypeOK, Kop, Family, EmbryoIdle
<1> QED
  BY <1>0, <1>1, <1>2, <1>3, PlainFrame DEF PlainInv, NoShares, DeadExited, RunnerQueued

LEMMA ForkDonePlain ==
  ASSUME IndInv, PlainInv, NEW c \in CPUs, \A d \in CPUs : d = c, ForkDone(c)
  PROVE  PlainInv'
<1>0. /\ Running(c) /\ lock = NULL /\ loop.op = "none" /\ lock # c /\ kop[cproc[c]].pc = "forked"
      /\ panic = "none"
  BY FreeCall, CpuAssumption DEF ForkDone, PlainInv
<1>1. PICK np \in Slots : np = kop[cproc[c]].np
  BY <1>0, CreatingIs DEF CreatePoints
<1>2. state[np] = "EMBRYO" /\ ~inqueue[np]
  BY <1>0, <1>1, CreatingIs DEF CreatePoints
<1>3. /\ state' = [state EXCEPT ![np] = "RUNNABLE"] /\ InitPush(np)
      /\ kop' = [kop EXCEPT ![cproc[c]] = Kop("user", NULL)]
      /\ UNCHANGED <<share, percentage, branch, cproc, spc, loop>>
  BY <1>1 DEF ForkDone, Return, cpuVars
<1> QED
  BY <1>0, <1>2, <1>3, BornPlain

LEMMA ThreadStartPlain ==
  ASSUME IndInv, PlainInv, NEW c \in CPUs, \A d \in CPUs : d = c, ThreadStart(c)
  PROVE  PlainInv'
<1>0. /\ Running(c) /\ lock = NULL /\ loop.op = "none" /\ lock # c /\ kop[cproc[c]].pc = "created"
      /\ panic = "none"
  BY FreeCall, CpuAssumption DEF ThreadStart, PlainInv
<1>1. PICK np \in Slots : np = kop[cproc[c]].np
  BY <1>0, CreatingIs DEF CreatePoints
<1>2. state[np] = "EMBRYO"
  BY <1>0, <1>1, CreatingIs DEF CreatePoints
<1>3. /\ state' = [state EXCEPT ![np] = "RUNNABLE"]
      /\ (InitPush(np) /\ ~inqueue[np]) \/ UNCHANGED <<queue, index, inqueue, panic>>
      /\ kop' = [kop EXCEPT ![cproc[c]] = Kop("user", NULL)]
      /\ UNCHANGED <<share, percentage, branch, cproc, spc, loop>>
  BY <1>1 DEF ThreadStart, Return, cpuVars
<1> QED
  BY <1>0, <1>2, <1>3, BornPlain

LEMMA WakeupPlain ==
  ASSUME IndInv, PlainInv, NEW s \in Slots, Wakeup(s)
  PROVE  PlainInv'
<1>1. \A u \in Slots : state'[u] = IF u = s THEN "RUNNABLE" ELSE state[u]
  BY DEF Wakeup, IndInv, TypeOK
<1>2. /\ state[s] = "SLEEPING" /\ lock = NULL
      /\ UNCHANGED <<panic, share, percentage, branch, cproc, spc, inqueue, kop, loop>>
  BY DEF Wakeup, schedVars, mlfqVars, kernVars, cpuVars
<1>3. loop.op = "none"
  BY <1>2, CpuAssumption DEF IndInv, Structure, PlainInv, Control, CtlLock
<1> QED
  BY <1>1, <1>2, <1>3, PlainFrame DEF PlainInv, NoShares, DeadExited, RunnerQueued

LEMMA NextPlain ==
  ASSUME IndInv, TreeInv, PlainInv, Next, NEW c \in CPUs, \A d \in CPUs : d = c,
         Calls \cap {"kill", "set_cpu_share"} = {}
  PROVE  PlainInv'
<1>1. CASE Schedule(c) \/ Timer(c)
  BY <1>1, SchedulePlain, TimerPlain
<1>2. CASE ProcessStep(c)
  <2>1. ~Kill(c) /\ ~SetShare(c) /\ ~ChangeShare(c)
    BY DEF Kill, SetShare, ChangeShare, Syscall
  <2>2. ~PopShare(c) /\ ~TakeShare(c) /\ ~PushShare(c) /\ ~LeaveShare(c)
    BY DEF PopShare, TakeShare, PushShare, LeaveShare, PlainInv, NoShares
  <2>3. CASE Fork(c)
    BY <2>3, StartCreatePlain DEF Fork
  <2>4. CASE CreateFail(c) \/ ForkCopy(c) \/ ForkDone(c) \/ WaitFail(c)
    BY <2>4, ReturnPlain, ForkDonePlain
  <2>5. CASE Exit(c) \/ KillZombie(c) \/ ExitDone(c)
    BY <2>5, ExitPlain, KillZombiePlain, ExitDonePlain
  <2>6. CASE WaitReap(c) \/ WaitDone(c)
    BY <2>6, WaitReapPlain, WaitDonePlain
  <2>7. CASE WaitSleep(c) \/ Yield(c) \/ Sleep(c)
    BY <2>7, SleepPlain
  <2> QED
    BY <1>2, <2>1, <2>2, <2>3, <2>4, <2>5, <2>6, <2>7 DEF ProcessStep
<1>3. CASE ThreadStep(c)
  <2>1. CASE ThreadCreate(c)
    BY <2>1, StartCreatePlain DEF ThreadCreate
  <2>2. CASE ThreadStack(c) \/ ThreadStart(c) \/ JoinFail(c)
    BY <2>2, ReturnPlain, ThreadStartPlain
  <2>3. CASE ThreadExit(c) \/ JoinSleep(c)
    BY <2>3, SleepPlain
  <2>4. CASE JoinReap(c)
    BY <2>4, JoinReapPlain
  <2> QED
    BY <1>3, <2>1, <2>2, <2>3, <2>4 DEF ThreadStep
<1>4. ASSUME NEW s \in Slots, Wakeup(s) PROVE PlainInv'
  BY <1>4, WakeupPlain
<1> QED
  BY <1>1, <1>2, <1>3, <1>4 DEF Next

LEMMA InitPlain == Init => PlainInv
BY DEF Init, PlainInv, NoShares, DeadExited, RunningOnCpu, RunnerQueued, Kop, NoLoop

LEMMA StutterPlain ==
  ASSUME PlainInv, UNCHANGED vars
  PROVE  PlainInv'
BY DEF vars, procVars, schedVars, kernVars, mlfqVars, cpuVars, PlainInv, NoShares, DeadExited,
       RunningOnCpu, RunnerQueued

(* On one CPU the kernel does not panic, nor lose a stack that is in use,  *)
(* whatever its processes do short of set_cpu_share and kill.              *)
THEOREM NeverPanics ==
  ASSUME NEW c \in CPUs, \A d \in CPUs : d = c, Calls \cap {"kill", "set_cpu_share"} = {}
  PROVE  Spec => []NoPanic
<1>0. "kill" \notin Calls
  OBVIOUS
<1>1. IndInv /\ TreeInv /\ PlainInv /\ [Next]_vars => PlainInv'
  BY NextPlain, StutterPlain
<1>2. PlainInv => NoPanic
  BY DEF PlainInv, NoPanic
<1> QED
  BY <1>0, <1>1, <1>2, InitPlain, Inductive, TreeKept, PTL DEF Spec
=============================================================================
