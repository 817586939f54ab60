# A TLA+ model of the xv6 kernel of proj_FileSystem

The repository holds four stages of one kernel (xv6, then a scheduler
assignment, then light-weight processes, then a larger file system) and a small
shell.  Each stage contains the code of the one before, so this project models
the last, `src/proj_FileSystem/xv6-public`.  File names below are relative to
that directory.  What is said of `console.c`, `ide.c`, `kalloc.c`, `kbd.c`, `log.c`,
`pipe.c`, `sleeplock.c`, `uart.c` and `main.c` holds for all four stages, whose copies are
identical; `trap.c`, `proc.h`, `spinlock.c`, `vm.c` and `sysproc.c` are identical in
proj_LWP.  `proc.c`, `thread.c`, `fs.c`, `file.c` and `sysfile.c` are modelled in their
final form only.

## 1. The system

| component | state | operations | correct when |
|---|---|---|---|
| run queues (`proc.c` 36-173) | `ptable.mlfq`: three arrays of `NPROC` pointers, an index per level, `inqueue` in `struct proc` | `initpush`, `push`, `top`, `pop`, `droppriority`, `boostpriority` | no gap, no slot twice, `inqueue` exact |
| scheduler, timer (`proc.c` 695-826, `trap.c` 102-119) | pass and share of the MLFQ and of each process, `minpass`, ticks, the locals of `scheduler()` on each CPU | choose the least pass; run the highest level, or a thread of a stride process; count ticks, drop, boost | nobody starves, a slot runs on one CPU, the lock is free when it is acquired |
| processes (`proc.c`) | `ptable.proc`: state, pid, parent, chan, killed | `fork`, `exit`, `wait`, `sleep`, `wakeup`, `kill`, `yield`, `set_cpu_share` | the tree is intact, no wakeup is lost, a zombie stays one, shares add up to 100 |
| light-weight processes (`thread.c`) | `mthread`, `cthread[]` of the main thread | `thread_create`, `thread_exit`, `thread_join` | every thread is in its process's array exactly once, and in the right scheduler |
| log (`log.c`) | the header and the log blocks on disk; `log.lh`, `outstanding`, `committing` | `begin_op`, `log_write`, `end_op`, `commit`, recovery in `initlog` | after a crash all or nothing of the calls since the last commit is there; nobody sleeps for ever |
| buffer cache (`bio.c`) | `NBUF` buffers: block, `B_VALID`, `B_DIRTY`, reference count, sleep lock | `bget`, `bread`, `bwrite`, `brelse` | one buffer per block; a logged block stays until it is installed |
| file contents (`fs.c`, `file.c`) | free map, blocks, size and addresses of each inode on disk and in the cache, offsets of open files | `balloc`, `bmap` with single, double and triple indirect blocks, `itrunc`, `readi`, `writei`, `pwritei`, `catchupoffset`, `filewrite`, `filepwrite` | no block has two owners, none is lost, a file reads as what was written |
| names and inodes (`fs.c`, `sysfile.c`, `sleeplock.c`) | inode cache with references and sleep locks, directories, current directories | `iget`, `ilock`, `iput`, `namex`, `open`, `create`, `mkdir`, `mknod`, `link`, `unlink`, `chdir`, `close` | references are exact, no name dangles after a crash, nobody waits in a circle |
| descriptors, pipes, console input (`file.c`, `pipe.c`, `console.c`) | file table, descriptors, ring buffers with wrapping indices | `pipe`, `dup`, `fork`, `close`, `exit`, `kill`, `piperead`, `pipewrite`, `consoleread`, `consoleintr` | every byte arrives once and in order, end of file when the last writer is gone, nobody sleeps for ever |
| exec (`exec.c`) | the image of a process | `exec`, which ends the other threads | at most one thread is left |
| console output, memory, disk driver, boot | device registers, free pages, page tables | interrupts, `kalloc`, `kfree` | not modelled |
| user programs, `src/proj_shell` | - | - | not modelled |

How they interact.  Everything in the process table, the run queues included, is
shared by all CPUs and protected by `ptable.lock`, which is handed over at each
context switch: `sched()` switches to `scheduler()` with the lock held, and
`scheduler()` to the thread.  The timer interrupt calls `yield` on whatever runs;
devices call `wakeup`.  A system call gives the lock up between its parts (`fork`
between `allocproc` and its last lines, `thread_create` twice), and there any
other thread may run, exit its process or be reaped.  File system calls run
inside `begin_op`/`end_op`, sleep on buffers, inodes, pipes and the log, and
reach the disk only through the buffer cache and the log.

What is hard here, and what the properties are aimed at:

* the lock is free between the halves of `fork` and `thread_create`, while a
  sibling thread may `exit` and free everything but itself;
* `set_cpu_share` moves all threads of a process between two schedulers whose
  data structures know nothing of each other, and three places give a share back;
* the locals of `scheduler()` (`mproc`, `monopolize`, `p`) outlive the context
  switch in which everything they refer to can change;
* `boostpriority`, `droppriority` and `pop` rearrange arrays that `top` walks
  with a stored index;
* `kill` writes states it has not looked at;
* a crash can come between any two disk writes of a commit, or of recovery, and
  between any two transactions of a long write;
* path lookup, `create` and `unlink` hold references without locks and take locks in
  different orders, and `iput` takes one;
* `filepwrite` and `catchupoffset` look at the size of a file without its lock and
  allocate blocks that only the inode cache knows of;
* readers, writers, `close`, `exit` and `kill` meet at a pipe whose page is freed by
  whoever closes last.

`PROJECT.json` lists the hazards at their lines with the properties that cover them;
section 5 has those that lead to a disagreement.

## 2. The modules

| module | models | contents |
|---|---|---|
| `Mlfq` | `proc.c` 36-173 | the arrays, as operators on functions: `InitPushed`, `Pushed`, `Popped`, the cyclic search `Place`/`Distance` |
| `Ptable` | `proc.h`, `proc.c` 15-20, 300-345 | all variables, `Init` (the state after `userinit`), the type invariant, `Woken`, `InitPush`, `Pop` |
| `Sched` | `proc.c` 695-860, `trap.c` 102-119 | `scheduler()` and the timer |
| `Process` | `proc.c` 200-300, 440-690, 900-985 | system calls on processes |
| `Thread` | `thread.c` | system calls on threads |
| `Kernel` | - | `Next`, `Spec`, fairness, the properties |
| `KernelInv` | - | the inductive invariants: `IndInv` (lock, CPUs, arrays, slots being created), `TreeInv` (parents, exited processes, sleepers), `ShareOwners` and `QueuedWithoutShare` (shares), `PlainInv` (one CPU without shares) |
| `MCKernel` | - | the constants of the runs |
| `KernelProofs` | - | the theorems about the run queues and the CPUs |
| `FamilyProofs` | - | the theorems about the process tree and the sleepers in `wait` and `thread_join`, about tickets, about threads that neither scheduler sees, and about panics |
| `AtomicDisk` | - | the abstract specification of the log: calls begin, write and end; all writes since the last time become durable at once, when no call is active; a crash returns to what is durable |
| `Log` | `log.c`, and of `bio.c` what the log relies on | `begin_op`, `log_write`, `end_op`, each disk write of `commit`, crash, recovery; the properties and the refinement mapping `Disk` |
| `LogInv` | - | the inductive invariant of the log; the module of the runs |
| `LogProofs` | - | the theorems about the log |
| `FlatFile` | - | the abstract specification of file contents: a file is a sequence of bytes, written chunk by chunk; a crash goes back to an earlier moment |
| `Blocks` | `fs.c` 56-96, 373-667, `file.c` 96-216 | the free map, the block trees, and reads and writes chunk by chunk, with crashes |
| `BlocksInv` | - | the properties of `Blocks`, its type invariant and the refinement mapping `Flat` |
| `BlocksProofs` | - | the theorems about the block trees |
| `FlatProofs` | - | the theorem that `Blocks` implements `FlatFile` |
| `Inode` | `fs.c` 195-361, 680-734, `sleeplock.c`, `mkfs.c` | the inode functions, as operators on disk, cache and locks |
| `Sysfile` | `sysfile.c` 144-420, `fs.c` 780-813 | path lookup and the calls on names, lock section by lock section, with crashes |
| `SysfileInv` | - | the properties of `Sysfile` and its inductive invariant |
| `SysfileProofs` | - | the theorems about names and inodes |
| `Pipe` | `pipe.c`, `console.c` 181-271 | the two ring buffers, as operators |
| `IO` | `file.c` 26-80, `sysfile.c` 40-129, 448-470, `proc.c` 496-555, 957-976 | file table, descriptors, `pipe`, `dup`, `fork`, `exit`, `kill`, reads and writes that sleep, keys |
| `Stream` | - | the abstract specification of pipes (queues) and console input (edited lines) |
| `IOInv` | - | the properties of `IO`, the refinement mapping `Ideal` and the inductive invariant |
| `IOProofs` | - | the theorems about descriptors, pipes and sleepers |
| `StreamProofs` | - | the theorem that `IO` implements `Stream` |

`Mlfq` is extended by `Ptable`, that by `Sched`, `Process` and `Thread`, which `Kernel`
composes.  `Log` stands alone: it shares with the process modules only `sleep` and
`wakeup`, whose atomicity `NoLostWakeup` is about.  `Blocks` and `Sysfile` take the log at
its promise: what `Log` is shown to implement, `AtomicDisk`, is their model of
transactions and crashes (`stable`).  `Sysfile` extends `Inode`, `IO` extends `Pipe`.

State.  A slot of `ptable.proc` is a number, as in the code, where it is a
pointer into the array; `NULL` is a model value.  The fields of `struct proc` are
functions of slots.  `kop[s]` says where the kernel stack of `s` is suspended
(user mode, one of the points of `fork`/`thread_create` at which the lock is free,
`wait`, `thread_join`, or beyond the last `sched()` of `exit`), and `intrap[s]`
that it is between the two `yield`s of a timer interrupt.  Per CPU there are the
place in `scheduler()` (`spc`) and its locals: `cproc` (`c->proc` and `p`),
`mproc`, `branch`, `lvl`, `done` (`mlfq_done`), `mono`, and `boostin`, which is
`nextboost - runningticks`.  `loop` is the register of a loop that runs with
`ptable.lock` held, `panic` why the kernel stopped.

Steps.  One action stands for the code between two points where another actor can
run.  Loops over the threads of a process (`set_cpu_share`, `killzombie`,
`boostpriority`) take a step per element although the lock is held all the time,
so that an invariant also speaks of their middle.

In `Blocks` a step is a transaction of a write or of `catchupoffset`, or a read: each
runs with the inode's lock held, and what it shares with other inodes, the free map,
it changes one locked buffer at a time.  The state is the disk as the calls see it
(free map, blocks, inodes), the disk that a crash goes back to, the cached inodes and
the open files' offsets.  In `Sysfile` a step goes from an `ilock` to the `iunlock`, or
to the next `ilock` made with the first lock held, and `iput` is two steps, since it
gives the sleep lock up before it decrements `ref`; `loc` has the locals of a call and
where it is.  In `IO` a step goes from an `acquire` (of `ftable.lock`, a pipe's lock,
`cons.lock`) to the `release` or the `sleep`.

What is abstracted.  Passes are relative to `mlfq.pass` (the code only compares
and copies them), so they stay small.  A pid is the slot it was given to; `wait`
and `thread_join` forget a slot that is freed, as the code would not find the old
pid or tid any more.  In the process modules memory, files, trap frames and return values are left out;
that memory runs out is `CreateFail`.  Reading `mproc->percentage` through a NULL
`mproc` (the page table is still that of the process that just ran, so that the
read is of a word of the program's text) yields zero or not: `NullRead` has both.
Two values of `panic` are no panics of the kernel, which goes on with undefined
behaviour: `freed` when `exit` or `wait` takes for a zombie, and is about to free, a thread
that another CPU is running, and `stale` when an idle CPU yields a process it does not run.
Behaviours beyond that point are not explored: `OneCpu` says that no slot is on two CPUs up
to it and at it, `FreedOffCpu` that `freed` does not come, which is false (section 5).
`Guesses` says whether programs call `kill` with pids that no `fork` has returned, so that it
may hit a slot that is `UNUSED` or `EMBRYO`; init is not killed in any run.  `thread_create`
can fail for lack of a place for the stack; the failure of `copyout` (`thread.c` 111) is left
out, as it writes to the page that line 97 has just cleared.

## 3. The runs

Bounds of the process runs.  `NPROC` is 3 or 4: init, a process, and one or two
more that are its children or its threads; four slots let a process with a worker
have a child.  Quanta are 1, 2, 2 (1, 1, 1 in `threads`, `shares` and `smp`) and allotments 1 (1, 2, 4
and 5, 10, 100 ticks in the code), which keeps each counter's cases: below, at and
beyond the limit.  `PBOOST` is 1 to 4 ticks instead of 100, so that boosts meet
every state; with 1 every slice ends in a boost, with 2 or more priorities drop
between boosts too.  `MAXTICKET` is divisible by the shares in use.  `PassFloor` stops a relative
pass from falling without end (a process that sleeps for ever), `MaxCur` stops
`curticks`, which grows without bound in the code but is only used modulo the
quantum and as a factor.  Each run fixes the system calls its processes make with
`Calls`; together the runs use all of them.

| run | question | result |
|---|---|---|
| `threads` | processes and threads created, exiting, sleeping, yielding, joined, reaped in every order, 4 slots | `FamilyInv`, `NoLostWakeup`, `NoPanic`, `ZombieStays` and the inductive `TreeInv` hold; no deadlock |
| `shares` | threads moving between the schedulers; shares -20, 0, 100 | `TypeOK`, `QueueInv`, `ShareInv`, `NoLostThread` hold, also in states on the way to a panic |
| `smp` | two CPUs, no kill | `IndInv` holds, and `OneCpu`, up to the moment at which a running thread is freed |
| `live` | one CPU, fair, with kill of pids that `fork` has returned | `NoStarvation`, `KillEnds` hold |
| `relock` | `acquire` is never called by the holder | violated: `proc.c` 806 continues the loop with the lock |
| `revive` | an exited process stays a zombie | violated by `kill` |
| `log` | two calls that write fewer blocks than are reserved for them, buffer recycling, commit, up to two crashes, recovery included | `LogIndInv`, `Pinned`, `SleeperHasWaker`, `Reserved`, `CrashSafe` (the refinement of `AtomicDisk`), `SleeperWakes` hold; no deadlock |
| `blocks` | two files, two processes: write (of 0 bytes too), pwrite past the end, read, close, delete, one crash | `OneOwner`, `NoHole`, `OnlySpacePanics` hold, and `NoLeak`, as no pwrite is of 0 bytes; `FlatFiles`: the block trees implement `FlatFile` |
| `files` | two processes, three calls, one crash, paths without `.` and `..` | `RefCounts`, `NamesSafe`, `InUseKept`, `OnlyInodePanic` hold, and `SysInv`, what each call relies on between its lock sections |
| `io` | three processes: a shell that makes pipes, or a pipeline with a used pipe; keys and kill at any moment | `FileRefs`, `PipeKept`, `IOIndInv` hold, `SleepsForReason` with the exception that it names; `Streams`: pipes and console implement `Stream`; `KilledEnds` (for who is killed asleep or runs) and `HangUpSeen` hold |
| `pwrite` | what pwrite has written is in the file, from its offset on | violated: `file.c` 203 |
| `deadlock` | no circle of processes waits for inode locks | violated: `sysfile.c` 306 against 234 |

Bounds of the log runs.  Two blocks with two contents each are enough for
absorption, for a transaction of several entries, and for an old and a new value
at every place (log, cache, home); two processes for a commit that meets a waiting
call.  `MAXOPBLOCKS` is 2 and `LOGSIZE` 4, so that the second call must wait when
the first has logged a block and may start when it has not; in the code they
are 10 and 30.  `NLOG`, the blocks of the log on the disk with its header, equals `LOGSIZE`
as in `mkfs.c` 25, so that the disk has an entry less than the header.  A call writes
`OpBlocks` blocks at most, here 1: one less than is reserved for it, which is what keeps the
log from running over (`Fits`; section 5 says what happens otherwise).  `After` is the block
behind the log, where it would run over to.  Two crashes let recovery itself crash and be
repeated.

Bounds of the file runs.  `blocks` has `NDIRECT` 1, `NINDIRECT` 2 and blocks of two bytes
(10, 128, 512), so a file has 1 + 2 + 4 + 8 blocks, and a pwrite of two bytes at offset
13 fills the hole through the direct, single and double trees, writes the last block
of the double tree and the first of the triple one.  Offset 1 lies
inside a block, and three bytes are two chunks of a write (`MAXOPBLOCKS` 6).  18 blocks
are enough for one such file and not for two, so that the disk fills up as well.  A write
may have no bytes; `PwriteLens` leaves 0 out because of `NoLeak` (section 5).
`pwrite` differs by one process and a pwrite of two chunks.  `files` has a root
directory, one file from `mkfs` and two free inodes, and an inode cache of three entries
(`NINODE`, 50 in the code), so that `iget` can find it full; the paths are `/a`, `b` and `/b/a`,
so that `b` can be a file, a second name of `a`, or a directory that is removed while
somebody looks up a name in it.  Three calls by two processes are enough for one call
to find what another made and a third (or a crash) to come between; `mknod`, which differs
from `create` in the type it stores only, is left out.  `io` has one page
for pipes, five files and four descriptors, so that each part of `pipe` can fail;
pipe and console hold two bytes and their indices, of four values instead of 2^32,
start at the last value, so that they wrap at once; programs write three bytes, which
do not fit.  The variable `cut` is a history: the pipes with bytes from a write that a kill
has cut short, since no wakeup of their readers; no action looks at it.  Three calls or keys (`MaxEvents`), beside what they set off.

Deadlock is checked in `threads` and `log`.  In the file runs the number of calls is
bounded, after which nothing is left to do; that nobody waits for ever is what
`NoDeadlock`, `SleepsForReason`, `KilledEnds` and `HangUpSeen` are for.  In the other process
runs a kernel that panicked stops, which TLC would report as a deadlock; for the same reason
the liveness properties end in `panic # "none"`.

Fairness (`Kernel!FairSpec`).  A CPU executes: weak fairness of `Schedule` and of
the actions that hold `ptable.lock`, which nobody can disable.  The timer
interrupts for ever; the interrupt stays pending while interrupts are disabled,
so it is taken although a thread goes in and out of the kernel all the time:
strong fairness of `Timer`, and of the exit of a killed process, which is on the
same way through `trap`.  A thread that is half-way through `fork` or
`thread_create` gets ahead between two interrupts: strong fairness of `Creating`
per slot.  In `Log`, commit and recovery go on while the machine runs (weak fairness of
`Commit`, `LogTest`, `LogAppend`, `CommitDone`), and a call writes finitely many blocks and then ends
(strong fairness of `EndOp`, as the model's call may always modify another block
first); nothing is assumed of crashes.  In `IO` a call that has begun goes on while its process
is not asleep (weak fairness of `Step` per process): the scheduler gives it a CPU
(`NoStarvation`) and the locks are held for short times only.  `Blocks` and `Sysfile` assume
no fairness.  Nothing is assumed of the system calls that threads make, nor of
devices.

Mutants.  For each property of a passing run `PROJECT.json` names a definition
and a mutated form of it (kept beside the definition and marked `mutant`) with
which the property is violated.

## 4. The proofs

The theorems about processes are at the end of `KernelProofs`, for any number of slots, CPUs and
ticks, any quanta and allotments, and any shares.  They assume only what the
modules state of the constants, and that nobody calls `kill`.

* `Inductive`: `Spec => []IndInv`.
* `TypeCorrect`, `RunQueuesIntact`, `OneCpuEach`: `TypeOK`, `QueueInv` and `OneCpu`
  are invariants.  `OneCpu` ends where a running thread is freed:
* `FreedOffCpuAlone`: if nobody calls `thread_create` either, `FreedOffCpu` is an invariant,
  so that `OneCpu` has no exception but the panics of the kernel and `stale`.
* `MlfqShareKept`: if no share is negative, the MLFQ always has at least 20
  percent; without the assumption it does not (section 5).

The argument.  `QueueInv` is not inductive.  `fork` pushes a slot without looking
at `inqueue`, so the slot it pushes must be known not to be queued, which means
that nobody else is creating it, has freed it, or has it in a `cthread` array
(`NewSlot`, `NewOnce`).  That in turn needs to know which threads `exit` and
`wait` free: those of the array of a process, each of which is in one place of
one array (`FamOwn`, `FamArray`, `FamOnce`), and that the code which frees them
holds the lock (`CtlLock`, `CtlProc`, `CtlLoop`).  `IndInv` is the conjunction of
`TypeOK`, `QueueInv` and, while the kernel has not panicked, these parts.  The
proof has one lemma per action and part that the action can disturb; what the
array operators do to compactness, to uniqueness and to membership is proved once
in the first part of `KernelProofs`.  `MlfqShareKept` needs a second invariant, `Tickets`: no share is
negative and a share being taken is one the MLFQ affords.

The process tree (`FamilyProofs`), from the same assumptions:

* `TreeKept`: `Spec => []TreeInv`.
* `FamilyIntact`: `Spec => [](NoPanic => FamilyInv)`.  A kernel that has panicked has
  stopped, and may have stopped in the middle of a change.
* `WakeupsKept`: `NoLostWakeup` is an invariant, of a panicked kernel too.
* `ZombiesStay`: `Spec => ZombieStays`.

The argument.  `IndInv` says what an array names, not whose child a process is.  `exit`
gives the children of a process to its parent (not to init, as the original xv6 does), so
the parent must be another process that has not exited: `Parents`.  That no process is its
own parent is not inductive: two processes that are each other's parent would become one
that is its own when one of them exits.  `NoCycle` says it for every set of processes: some
parent is outside the set.  When process m exits, the set C is used with m added where the
parent of m is in C, and as it is otherwise.  `fork` adds a leaf, whose parent is the
process of the thread that forks (`ForkParent`), alive because the threads of a process
that exits all become zombies (`ZombieThreads`); half-made threads that an `exit` turns
into zombies look like processes without a parent until the same `exit` frees them
(`CutOff`).  A sleeper in `wait` or `thread_join` sleeps on its main thread, and only
zombies that appear or are handed over could make it sleep wrongly (`Sleepers`); `exit`
wakes the parent, `thread_exit` the main thread's channel.  Most actions disturb none of
this: the scheduler, the timer, and calls that return are shown to be `Calm`, those that
make or free threads to be `Tame` (for the tree) and `Drowsy` (for the sleepers), and the
three lemmas about these notions do the rest.  Only `fork`, `exit` and the end of `exit`
have proofs of their own.

Tickets, threads and panics (also in `FamilyProofs`).  The first three assume that nobody calls
`kill`, and hold for any shares, negative ones too:

* `SharesInductive`: `Spec => []ShareInd`.
* `TicketsKept`: `ShareInv` is an invariant: the MLFQ's share and those of all slots add up
  to 100, the share that is being moved included.
* `ThreadsKept`: `NoLostThread` is an invariant.
* `NeverPanics`: on one CPU, without `kill` and `set_cpu_share`, `NoPanic` is an invariant.

The argument.  `ShareInv` is a sum over all slots.  Instead of computing it, the inductive
invariant says that there is a function of partial sums (`Tally`), each one share more than
the one before, from the MLFQ's to 100.  When one slot's share changes by what the MLFQ's
changes the other way, the partial sums up to that slot change by that and the later ones
stay: a new such function, without induction.  That it is the function `ShareInv` defines is
shown by the least number at which they would differ.  Every action that changes a share
changes one slot's, and gives to or takes from the MLFQ the same.  When a thread is freed its share is refunded; that this is nobody
else's needs `ShareOwners` (only main threads have a share, and none while
`set_cpu_share` moves its threads).  `NoLostThread` follows from `QueuedWithoutShare`: a
thread that may still run is in a queue exactly when its process has no share.  Between the
moment at which `set_cpu_share` changes the share and the last thread of its loop this is
false, and the invariant says which process is then excepted (`Moving`); no other CPU sees
it, as the lock is held.  It also needs `IndInv`: the loop goes through the `cthread` array,
and the array has every live thread of the process.

`NeverPanics` needs that the CPU is in `scheduler()` whenever no thread is `RUNNING`
(`RunningOnCpu`), that the thread it runs or comes back from is queued (`RunnerQueued`,
otherwise `droppriority` panics) and that only an exited thread is beyond the last `sched()`
of `exit` (`DeadExited`, otherwise "zombie exit").  Its hypotheses cannot be dropped: with
`set_cpu_share` the kernel does panic (section 5, `proc.c` 778, and run `relock`), with two
CPUs a thread may be freed by `exit` of another while it runs, and `kill` revives zombies.

Why `kill` is left out.  `kill` sets a main thread `RUNNABLE` in whatever state it
is, a zombie included (run `revive`).  A zombie that was creating a thread when
it exited then resumes in the middle of `thread_create`, with a slot that may have
been given to somebody else, and `IndInv` fails.  `live` and `revive` cover `kill`
within their bounds.

The log (`LogProofs`), for any number of processes (finitely many), blocks,
contents, crashes, and any `LOGSIZE`, `NLOG`, `MAXOPBLOCKS` and `OpBlocks` with
`OpBlocks <= MAXOPBLOCKS <= LOGSIZE <= NLOG`, and under the hypothesis `Fits`: what `begin_op`
admits when no call writes more than `OpBlocks` blocks is less than `NLOG`.  With the sizes of
the code (10, 30, 30) this means 9 blocks instead of 10; `begin_op` does not hold a call to any
number (section 5, `log.c` 218 and `param.h` 10):

* `LogInductive`: `Spec => []LogIndInv`.
* `LogCrashSafe`: `Spec => CrashSafe`, the log implements `AtomicDisk`.
* `LogPinned`, `LogSleeperHasWaker`: `Pinned` and `SleeperHasWaker` are invariants.
* `LogReserved`: `Reserved` is an invariant, so a call in progress always finds an entry for
  each block that it may still write.
* `LogNewEntryFits`: a call that logs a new block finds the log shorter than `LOGSIZE` and
  than what the disk holds, although the test of `log_write` is made before `log.lock` is
  acquired and others may append in between (`LogTest`, `LogAppend`).

The argument.  The refinement mapping shows as durable what recovery would leave
now (`Recovered`: the log block where the header on disk names a home location,
else what is there), as current what a call would read (`Seen`: the buffer, or the
home location), and as active the calls inside `begin_op`/`end_op`.  Then
`begin_op` is `Begin`, a modification `Write`, `end_op` `End`, the first
`write_head` of a commit is `Sync`, and all other steps must show nothing.  This
needs to know that the log blocks written so far equal the buffers (`Copied`),
that a header names a block once (`Header`; else the order of installation would
matter), that no call is active during a commit (`Alone`), and that a buffer
differs from its home location only if it is pinned and logged or locked
(`Caching`): these are the parts of `LogIndInv`.  `SleeperHasWaker` needs that the
log is empty when no call is in progress (`Restful`), so that the first call always
has room.  `Reserved` counts the pairs of a call and a block it has logged; it is inductive with the
facts that no call logs more than `OpBlocks` blocks and that what it logged stays in the log
(`Reservation`).  The test of `begin_op` compares with `MAXOPBLOCKS` for each call in progress
and is thus stricter than needed; the call that ends takes its pairs with it.  That the log is
never longer than its blocks on the disk (`Header`) follows from `Reserved` and `Fits`, not from
the test in `log_write`.

Descriptors, pipes and console (`IOProofs`, `StreamProofs`), for any number of processes
(finitely many, two at least), files, pages and descriptors, any `PIPESIZE` and `INPUT_BUF`
that divide `UINT`, as 512 and 128 divide 2^32, and any bytes, lengths and keys; `kill` and
every error path are included:

* `IOInductive`: `Spec => []IOIndInv`.
* `FileRefsExact`, `PipeNeverLost`, `SleepersHaveReason`: `FileRefs`, `PipeKept` and
  `SleepsForReason` are invariants.
* `StreamsImplemented`: `Spec => Streams`, pipes and console implement `Stream`.

The argument.  `FileRefs` counts references in three places: descriptors, the files that
a call has taken out of the table of descriptors and not closed yet, and the first file of
a pipe being made.  Each action moves a reference, adds one or drops one; the lemmas on
`Holders` say so with cardinalities of finite sets, one place at a time (for `fork` with a
bijection between the inherited references and the parent's descriptors), so no induction
is needed.  It is inductive only together with what a process knows at each point of a call
(`Local`): that a reader has a descriptor of the file that it uses, so `close` and `exit`
of others cannot make it free, and that nobody else refers to the first file of a pipe
being made, so it can be given a type.  `PipeKept` needs that an end of a pipe is open as
long as exactly one struct file, or one process on its way to `pipeclose`, has it
(`EndsOK`): between the two sections of `fileclose` the struct file may already serve
somebody else.  `SleepsForReason` needs to know on which channel a process at each point
sleeps, and that the two ends wake each other.  It excepts the readers of a pipe in `cut`: a
writer that was killed returns without waking them (`pipe.c` 86-88), and the code loses that
wakeup.  A process that is killed between its test of `killed` and the sleep (`Sleep`) does
sleep for the reason that the invariant states; that it should not sleep is another matter
(section 5).

The refinement shows a ring from index i to index j as the sequence `Bytes`.  That taking k
bytes drops the first k, that writing appends, that backspace and `^U` shorten the line and
that a newline joins the edited line to the lines before it is arithmetic modulo `UINT` and
modulo the ring's size, proved once in `StreamProofs` (`BytesDrop`, `CopyInAppends`,
`BytesJoin`); it needs that a ring never holds more than its size (`RingsOK`), and that its
size divides `UINT`, without which the indices would jump when they wrap.  An open end is mapped
to `HasEnd`, a struct file in use rather than the flag in the pipe: the step of `fileclose`
that drops the last reference is `HangUp`, and the `pipeclose` that follows shows nothing.

Names and inodes (`SysfileProofs`), for finitely many processes, inodes and names, any image
of `mkfs`, any paths, any size of the inode cache and any number of calls and crashes.  `InodeAssumption` says that the root
is inode 1, that 0 is not an inode, that the image fits on the disk and that `.`, `..` and
`NULL` are not ordinary names; `SysfileAssumption` that a path is a sequence of names:

* `SysInductive`: `Spec => []SysIndInv`.
* `RefCountsExact`, `InUseNeverFreed`, `NamesSurviveCrashes`, `CallsAgree`: `RefCounts`,
  `InUseKept`, `NamesSafe` and `SysInv` are invariants.
* `NoPanicWithoutDots`: `OnlyInodePanic` is an invariant: if no path uses `.` or `..`, only
  `ialloc` and `iget` panic, when the disk or the cache has no free inode.  With `..` a lookup
  does panic: see `fs.c` 311 in section 5.

The argument.  None of the four is inductive.  `iput` frees an inode without links when it
sees `ref` 1, so `InUseKept` rests on `RefCounts`: a count of 1 under the lock of the inode
means that nobody else has a pointer (`Referred`).  `RefCounts` adds up pointers in seven
places of each process (the lookup's directory, `ip`, `dp`, two inodes still to be put, the
current directory, the open file); a step changes those of one process, and the difference
of two cardinalities of finite sets is that process's difference (`RefStep`), so there is no
induction.  Which pointers a call has where is `LocOK`.  `NamesSafe` is about the disk after a
crash, which becomes the current one when the last call of a transaction ends, so it needs
the same of the current disk when no call is in progress, and of every moment something that
says how far each call is: `link` counts a link before it makes the name, `unlink` removes
the name before it takes the link back.  `Linked` states that the names and subdirectories of
an inode plus the links that are under way (`Pending`) are at most `nlink`.  It stays at most,
not equal: an inode that `create` makes in a directory that was just removed loses its name
with the directory and keeps its link (`NoOrphan`, section 5).
The links are counted on the disk while the code tests the cached copy, so `Cached` says
that a valid copy is the disk's.  Last, a call looks at an inode under its lock and acts
under a later lock: `HeldOK` says what must still be so.  The type of a directory cannot
change while it is referred to, since only `iput` with `ref` 1 frees; an entry that `unlink`
has found stays because the directory stays locked; the inode that `create` has made stays
locked until it has its name.

A step is shown to keep all this through `Frame`, which names what one process's step has to
establish; the lemmas on `iget`, `ilock`, `iunlock`, `iupdate` and `dirlink` say what each does
to disk, cache and locks pointwise, and what they do to `NamesOf` and `SubdirsOf` is proved
for an entry set (`EntrySet`) and an entry cleared once.  After a crash the caches are empty
and no call is in progress, so that `StableOK` is enough.

The blocks of files (`BlocksProofs`), for any processes, files, calls and crashes, any size of
the disk and any shape of the trees.  `BlocksAssumption` says that there is a direct and an
indirect entry at least and that an indirect block holds no more entries than a block has
cells; that `MAXOPBLOCKS` leaves room for a chunk (6 or more, it is 10); that the offset just after the
largest file is below `UINT`, and so is the length of any call (a length is an `int`, `UINT`
stands for 2^32); that the disk cannot hold the largest file and its indirect blocks, even
without the blocks that the last of them lists (40000 blocks against more than two million);
and that a chunk is no longer than what an indirect block lists (3 blocks
against 128).

* `BlocksInductive`: `Spec => []BlocksIndInv`.
* `BlocksOwned`, `FilesHaveNoHole`, `OnlySpaceRunsOut`, `NothingLost`: `OneOwner`, `NoHole`,
  `OnlySpacePanics` and `NoLeak` are invariants, the last one if no `pwrite` is of 0 bytes
  (section 5, `file.c` 196).

The argument.  Counting the cells of the trees, as `OneOwner` does, is no way to prove it, as
an induction would be needed at each level.  `Labels` instead gives each used block a depth
and the only cell that may name it: an entry of an inode, or a place in an indirect block one deeper.
Where a label says that a block is named, nobody else names it, so `OneOwner` is a
bijection between cells and blocks, level by level.  `balloc` labels the block it takes; every
level of `bmap` either follows a label or makes one and keeps the others (`Keeps`), so that
blocks that were `Present` stay so; `itrunc` removes the labels of one inode with its blocks.
The way of a block number through the tree, two quotients and two remainders, is `PathIs`.

Nothing of this is inductive for the current disk alone.  `catchupoffset` fills the gap in one
transaction per block and does not call `iupdate`, so that for a while the blocks hang in the
cached inode only, the inode on the disk is behind, and a crash finds their bits set and no
cell that names them.  `Behind` says that the disk's inode names at most what the cached one
does; `DiskOK` says of the disk and of the one that a crash goes back to that they have labels,
and every block below the size that is on the disk.  For `NoHole` the invariant says what the
calls in progress know: a `catchupoffset` that has come to `cur` has filled all blocks
below (`Present`), which the others only add to, and a `pwrite` whose offset is beyond the
size has filled the gap; the size that it read without a lock does not matter, since a file does
not become smaller while it is open.

`NothingLost` needs `LeakInv` beside it.  An open inode has the addresses of the one on the disk
(`SyncedFile`), or some call owes it a write (`Owes`): a `catchupoffset`, or the `pwrite` after
it that has not written yet, whose offset is at or behind the size.  The first chunk of that
`pwrite` ends behind the size, so that `pwritei` calls `iupdate`, which pays the debt of all
others too; a write that leaves the size alone meets only blocks that are there and adds
none.  The debt would be lost if `pwritei` returned -1 because the chunk ends behind the
largest file: then `catchupoffset` would have filled nearly all of that file, for which the
disk has no room (`PwriteFits`, and the reason for the last two assumptions).  While a call owes a
file, the file is open, so that at `Close` the inode on the disk is complete.  For the free
map, `AllOwned` says that a labelling exists in which a cell names every used block:
`balloc`'s block is named at once, `itrunc` frees all four kinds of its tree, and from the
labels the levels of `Trees` follow one after the other.

The bytes of files (`FlatProofs`), from `BlocksAssumption`, from `RestAssumption` (`NULL` is no
number and no record, which the refinement mapping must tell apart), and from the hypothesis
that no `pwrite` is longer than a chunk.  The hypothesis is the one that the code needs:
`filepwrite` puts every chunk at the offset of the call (section 5, run `pwrite`).

* `TreesAreFiles`: `PwriteLens \subseteq 0..MaxChunk` implies `Spec => FlatFiles`.

The argument.  `BlocksIndInv` says where blocks hang, not what is in them.  `Byte` is the byte
at an offset of a file as the tree has it, 0 where there is no block, and the lemmas say what
the operators of the model do to it.  A block that `balloc` takes is zeroed and belongs to
no file before (`Adds`): a new block of data reads as zeroes, as the missing block did, and a new
indirect block names nothing, so that `bmap` changes no byte (`BmapBytes`).
Two offsets of the same or of two files with the same block of data have the same path
(`OnePath`, from the labels), so that a store changes one byte of one file (`StoreBytes`); the
loop of `writei` puts its bytes one after the other (`CopyInPuts`).  What `FlatFile` asks for in
addition is that a gap reads as zeroes when the file grows over it.  The code does not clear
anything then, so that the invariant must say that all behind the end of a file is clear
already: of the inodes in use (`SysClear`), and of the disk that a crash leaves (`StableClear`),
where a `catchupoffset` may have been cut off.  `FlatInv` has these, and that the size of an open
inode is the one on the disk and no offset is beyond it (`SizesOK`: else `writei` would return -1
where a flat file goes on), and that a `pwrite` has written nothing or all (`CallsFlat`).  TLC
checks `FlatInv` on the instance of the run `blocks`, too.  Each action is then a step of `FlatFile`
or none: a chunk is `Chunk`; `Open` is `Reopen`, `Close` without links `Delete`; a round of `catchupoffset`
changes no byte and may be a `Commit`; a panic is no step.  What a crash goes back to is
either what it was or what programs now see (`Settles`), although the inode on the disk may
name less than the cached one (`DiskSame`).

What is only model-checked: `NoPanic` with more CPUs or with shares that the run admits, and
the liveness properties, which are out of the prover's reach.

## 5. Disagreements

Four have a run and are listed under `findings`: `relock`, `revive`, `pwrite` and
`deadlock`.  Others that the models show and that have no run of their own; where a
definition is named, checking it as an invariant of the run named shows the
disagreement:

* `proc.c` 815: after `set_cpu_share(0)`, with which a process returns its share
  (`src/proj_scheduler/readme.md` 195), the stride branch divides by the new share 0.
  `ShareCanBeReturned`, with the constants of `relock`.
* `proc.c` 233: `set_cpu_share` accepts a negative share: after -20 and then 100 have
  been taken, the exit of the first process leaves the MLFQ nothing, where the
  readme (183) guarantees it 20 percent.  `MlfqKeeps20`, with the constants of `shares`.
* `proc.c` 778: when a process calls `set_cpu_share` in the slice that uses up its
  allotment, `droppriority` pops a process that is in no queue any more: `panic`.
* `proc.c` 229: a process that returns to the MLFQ is put into the highest queue
  with the priority, ticks and allotment of its old level.
* `proc.c` 775: a boost leaves `c->proc` set; if the CPU is then idle and another
  one runs that process, the next timer interrupt of the idle CPU yields it.
* `proc.c` 779: `mproc` is NULL or left over from an earlier choice when it decides
  whether the MLFQ may go on.
* `proc.c` 721: shares of 50 and -50 leave the MLFQ at 100, and then no process
  with a share is ever chosen.
* `proc.c` 114: `pop` stores the place of the popped process as index, to which
  its successor has moved, so that the successor loses its turn.
* `trap.c` 110: a thread of a process with a share yields twice for one tick.
* `proc.c` 553: `exit` by one thread while another is inside `fork` leaves the
  half-made child an `EMBRYO` for ever.
* `proc.c` 553, 649: `exit` makes the other threads of its process zombies and frees them, and
  `wait` frees the threads of a zombie process, while another CPU may be running them; such a
  thread goes on with a stack and a slot that are given out again, and two CPUs may then run it.
  `FreedOffCpu`, with the constants of `smp`.
* `proc.c` 969: `kill` of a pid whose slot is `EMBRYO`, or that `fork` has given up
  without clearing the pid, makes the slot `RUNNABLE`, and the scheduler runs what was never set
  up.  `KillEnds` and `NoStarvation`, with the constants of `live` but `Guesses` TRUE.
* `log.c` 218: `mkfs` makes the log `LOGSIZE` blocks with its header, so it holds one
  block less than `param.h` 11 says ("max data blocks in on-disk log") and `begin_op` reserves:
  three calls that each log `MAXOPBLOCKS` blocks panic.  `RoomInLog`, in a run of `LogInv` with
  three processes, three blocks, `MAXOPBLOCKS` and `OpBlocks` 1, `LOGSIZE` 3 and `NLOG` 3.  The
  test for room also precedes the search for an entry to absorb the write.
* `log.c` 218 again: the test is made before `log.lock` is acquired.  Two calls can both
  find the last place free and then append one block each; `write_log` (182) writes the second one
  to the block behind the log, the first of the inodes, and recovery reads it from there.
  `CrashSafe`, with the constants of `log` but `LOGSIZE` and `NLOG` 2, `MAXOPBLOCKS` 1, no
  crash and no check for deadlock: when that block is the one to be logged, `write_log` waits for
  the buffer that it has locked itself.
* `file.c` 196: a `pwrite` of 0 bytes beyond the end of a file runs `catchupoffset` and then
  writes nothing, so that no `iupdate` follows; the blocks are lost when the file is closed, without
  a crash.  `NoLeak`, with the constants of `blocks` but `PwriteLens` {0}.
* `proc.c` 966: `kill` says "Wake process from sleep if necessary", but takes only
  `ptable.lock`, and `pipewrite`, `piperead` and `consoleread` test `killed` before `sleep`
  acquires that lock: a process killed from another CPU in between sleeps on, until somebody else
  wakes it.  `KilledAwake` of `IOInv`, with the constants of `io`.
* `fs.c` 338: two processes that drop the last two references of an unlinked file may
  both see `ref` 2 and then decrement it, and nobody frees the inode, where the comment
  at 328 says that the last reference does.  `NoOrphan`, with the constants of `files`.
* `sysfile.c` 275: a directory may be removed between the lookup of a parent and its
  lock; `create` then makes an inode that no path leads to (`NoOrphan` again).
* `fs.c` 661: blocks that `catchupoffset` allocated are lost when the machine crashes
  before the write that follows (`NoLeak` without its condition).  An offset beyond the
  disk's size ends in `panic("balloc: out of blocks")` instead of an error.
* `fs.c` 311: the `..` of a directory that was removed while it is somebody's current
  directory still names its parent, whose link is taken back; when the parent is removed
  too and freed, `chdir("..")` ends in `panic("ilock: no type")`, where the lookup should
  fail.  `OnlyInodePanic` without its condition `NoDots`, in a run of `SysfileInv` with one
  process, an image without files, the paths `/a`, `/a/b` and `..`, and six calls (make both,
  `chdir`, remove both, `chdir`).
* `pipe.c` 86: a writer that is killed returns without waking the readers of the bytes
  it has put into the pipe (the exception in `SleepsForReason`, and what `cut` is for).

Seen while reading the code, and not reached by the models:

* `proc.c` 746: `pass` is an int that only grows; after about 2^31 it overflows and the
  comparisons turn over (the model's passes are relative to that of the MLFQ).
* `proc.c` 702: every CPU that enters `scheduler()` resets `runningticks` and
  `mlfq.percentage`, shares already taken included (`Init` is after that moment).
* `thread.c` 143: with `kill` and five slots, a creator that is revived after its half-made
  thread was freed pushes a slot that `fork` has meanwhile taken.
* `proc.c` 635: `wait` closes files, which may sleep, with `ptable.lock` held; `exit`
  closes them before the child is a zombie, so that as a rule nothing is left to close.
* `bio.c` 92: `NBUF` equals `LOGSIZE`, so a log full of pinned buffers leaves none for
  readers: `panic("bget: no buffers")`.
* `link(x, "d/.")` makes `dirlink` (`fs.c` 716) put the directory that `link` has locked:
  the process waits for itself.
* `param.h` 10: a chunk of three blocks that is not aligned and crosses from the double
  to the triple tree logs four data blocks, the inode, the last leaf of the double tree,
  three new indirect blocks and one or two blocks of the free map, up to 11 and more than
  `MAXOPBLOCKS`; freeing a large file touches all ten blocks of the free map and the inode.
* `proc.c` 535: `exit` closes the files of the other threads of the process while one of
  them may sleep in `piperead` on a pipe whose page is then freed.
* `exec.c` 42: the other threads are made zombies before `exec` sleeps in `namei`.  When
  the caller is not the main thread, the main thread is one of them, and a parent in
  `wait` reaps the process meanwhile.  When `exec` fails, line 184 restores states in
  which a wakeup may have been missed.  When the path is not found, `bad` (175) tests
  `pgdir` before it is set.  `initpush` at 130 runs without `ptable.lock`.

## 6. What is not modelled, and the plan

* `exec`: its substance is page tables, program headers and stacks.  What it does to
  threads would be actions of `Kernel`, whose inductive invariant it breaks (see above).
* Memory (`kalloc.c`, `vm.c`): address arithmetic, sequential under one lock.  Running out
  of memory is covered where callers handle it (`CreateFail`, `pipealloc2`).
* The buffer cache beyond what `Log` relies on, the disk driver, interrupt controllers and
  boot: device registers and code that runs once.
* Console output and key codes; `fstat`, `growproc`, `procdump`.
* Threads and files together: a process of `IO` and `Sysfile` has one thread, as the
  composition with `Kernel` has more states than TLC finishes.
* User programs, the tests of the assignments, and the shell of `src/proj_shell`, which
  is sequential.  The repository has four copies of the kernel and its user programs;
  what is mapped is a part of the last copy, and so a small part of all lines.

Done: the process modules, the log with its proofs, file contents, names and inodes,
descriptors, pipes and console.  Each invariant, action property and refinement that a passing
run checks is a theorem, under the hypotheses of section 4; liveness is not.
