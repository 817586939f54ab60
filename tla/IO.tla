--------------------------------- MODULE IO ---------------------------------
(***************************************************************************)
(* Processes that read the console and talk through pipes: the file table  *)
(* (file.c), descriptors (sysfile.c), fork, exit and kill (proc.c) as far  *)
(* as they concern them, pipes and the console.                            *)
(*                                                                         *)
(* A step is what a process does from one acquire to the release, or to    *)
(* the sleep: of ftable.lock in filealloc, filedup and fileclose, of the   *)
(* pipe's lock and of cons.lock.                                           *)
(***************************************************************************)
EXTENDS Pipe

CONSTANTS
  Procs, Files, Pages, \* struct procs, struct files, pages for pipes
  NOFILE,              \* descriptors of a process
  Keys,                \* the keys that are pressed
  UserData,            \* what a program has in its buffer at first
  ReadLens,            \* the n of read
  MaxEvents            \* bound: calls made and keys pressed

(* A pipeline has two processes at least; a read asks for something. *)
ASSUME IOAssumption ==
  /\ IsFiniteSet(Procs) /\ \E p, r \in Procs : p # r
  /\ Files \subseteq Nat /\ {1, 2, 3} \subseteq Files /\ NULL \notin Files \cup Pages
  /\ NOFILE \in Nat \ {0, 1} /\ ReadLens \subseteq Nat \ {0}
  /\ Keys \subseteq Byte \cup {BS, KILL} /\ UserData \in Seq(Byte)

VARIABLES
  ftable,      \* struct files: ref, type, pipe, writable
  ofile,       \* descriptors, NULL where there is none
  pipe,        \* the pages that hold pipes
  input,       \* the console's buffer
  proc,        \* state, chan, killed
  loc,         \* where a process is in its call, with the files it is going to close
  buf,         \* user memory: what the last read returned, nothing at end of file
  cut,         \* history: pipes with bytes that no wakeup of the readers has followed
  events       \* calls made and keys pressed so far

ioVars == <<ftable, ofile, pipe, input, proc, loc, buf, cut, events>>

Fds == 0 .. NOFILE - 1
NoFile == [ref |-> 0, type |-> "none", pipe |-> NULL, writable |-> FALSE]
NoFds == [d \in Fds |-> NULL]

Idle == [pc |-> "idle", op |-> "none", file |-> NULL, close |-> <<>>,
         ff |-> NoFile, n |-> 0, i |-> 0, got |-> <<>>]

(* p can run and is at pc. *)
At(p, pc) == proc[p].state = "run" /\ loc[p].pc = pc

FreeFds(p) == {d \in Fds : ofile[p][d] = NULL}

(* wakeup: every process asleep on the channel can run again. *)
Wake(pr, chan) ==
  [p \in Procs |-> IF pr[p].state = "sleep" /\ pr[p].chan = chan
                   THEN [pr[p] EXCEPT !.state = "run", !.chan = NULL] ELSE pr[p]]

nread(q)  == <<"nread", q>>
nwrite(q) == <<"nwrite", q>>
inputr    == <<"input.r", NULL>>

(* The call of p returns. *)
Returned(p) == loc' = [loc EXCEPT ![p] = Idle]

Event == events < MaxEvents /\ events' = events + 1

(* p makes a system call, which trap allows unless it has been killed. *)
Enter(p) ==
  /\ At(p, "idle") /\ ~proc[p].killed
  /\ Event

Quiet == UNCHANGED events

(* Mutant: nobody looks whether he was killed. *)
Unaware(p) == FALSE

(* The test of killed before a call goes to sleep. *)
MustReturn(p) == proc[p].killed

(* sleep.  p holds the lock of the pipe or of the console from that test   *)
(* until it has ptable.lock (proc.c 911-917), and kill takes only the      *)
(* latter: from another CPU it may come in between, so that p, no sleeper  *)
(* yet, is marked and then sleeps.                                         *)
Asleep(pr, p, chan) == [pr EXCEPT ![p].state = "sleep", ![p].chan = chan]
Sleep(pr, p, chan) ==
  \/ proc' = Asleep(pr, p, chan) /\ Quiet
  \/ /\ \E k \in Procs \ {p} : Enter(k)
     /\ proc' = Asleep([pr EXCEPT ![p].killed = TRUE], p, chan)

-----------------------------------------------------------------------------
(* pipe: filealloc twice, kalloc, fdalloc twice.                           *)
Unused == {f \in Files : ftable[f].ref = 0}

filealloc == [ftable EXCEPT ![Min(Unused)].ref = 1]

sys_pipe(p) ==
  /\ Enter(p)
  /\ IF Unused = {} THEN Returned(p) /\ UNCHANGED ftable
     ELSE /\ ftable' = filealloc
          /\ loc' = [loc EXCEPT ![p] = [Idle EXCEPT !.pc = "pipealloc", !.op = "pipe",
                                                    !.file = Min(Unused)]]
  /\ UNCHANGED <<ofile, pipe, input, proc, buf, cut>>

(* p is going to close the files of the sequence fs. *)
Closing(p, fs) ==
  loc' = [loc EXCEPT ![p] = [@ EXCEPT !.pc = "fileclose", !.file = NULL, !.close = fs]]

PipeFile(q, w) == [ref |-> 1, type |-> "pipe", pipe |-> q, writable |-> w]

(* The second file, the page and the descriptors: whichever is missing,    *)
(* what was got before is given back.                                      *)
pipealloc2(p) ==
  LET f0 == loc[p].file
      f1 == Min(Unused)
      free == {q \in Pages : ~pipe[q].used}
      q == CHOOSE x \in free : TRUE
      fds == FreeFds(p)
      d0 == Min(fds)
      d1 == Min(fds \ {d0})
  IN /\ At(p, "pipealloc")
     /\ IF Unused = {} THEN Closing(p, <<f0>>) /\ UNCHANGED <<ftable, ofile, pipe>>
        ELSE IF free = {}
        THEN ftable' = filealloc /\ Closing(p, <<f0, f1>>) /\ UNCHANGED <<ofile, pipe>>
        ELSE /\ ftable' = [ftable EXCEPT ![f0] = PipeFile(q, FALSE), ![f1] = PipeFile(q, TRUE)]
             /\ pipe' = [pipe EXCEPT ![q] = pipealloc(@)]
             /\ IF Cardinality(fds) < 2
                THEN Closing(p, <<f0, f1>>) /\ UNCHANGED ofile
                ELSE /\ ofile' = [ofile EXCEPT ![p][d0] = f0, ![p][d1] = f1]
                     /\ Returned(p)
     /\ Quiet /\ UNCHANGED <<input, proc, buf, cut>>

sys_dup(p, d) ==
  LET f == ofile[p][d]
  IN /\ Enter(p) /\ f # NULL
     /\ IF FreeFds(p) = {} THEN Returned(p) /\ UNCHANGED <<ftable, ofile>>
        ELSE /\ ofile' = [ofile EXCEPT ![p][Min(FreeFds(p))] = f]
             /\ ftable' = [ftable EXCEPT ![f].ref = @ + 1]
             /\ Returned(p)
     /\ UNCHANGED <<pipe, input, proc, buf, cut>>

(* Mutant: a file is counted once, however many descriptors refer to it. *)
InheritedOnce(p, f) == IF \E d \in Fds : ofile[p][d] = f THEN 1 ELSE 0

(* The references that fork adds to f, one filedup for each descriptor. *)
Inherited(p, f) == Cardinality({d \in Fds : ofile[p][d] = f})

(* fork: the child has the parent's files.  The parent refers to them all  *)
(* the while, so that nobody can tell the filedups from one step.          *)
fork(p, np) ==
  /\ Enter(p) /\ proc[np].state = "unused"
  /\ proc' = [proc EXCEPT ![np].state = "run"]
  /\ ofile' = [ofile EXCEPT ![np] = ofile[p]]
  /\ ftable' = [f \in Files |-> [ftable[f] EXCEPT !.ref = @ + Inherited(p, f)]]
  /\ buf' = [buf EXCEPT ![np] = buf[p]]
  /\ Returned(p)
  /\ UNCHANGED <<pipe, input, cut>>

sys_close(p, d) ==
  /\ Enter(p) /\ ofile[p][d] # NULL
  /\ ofile' = [ofile EXCEPT ![p][d] = NULL]
  /\ loc' = [loc EXCEPT ![p] = [Idle EXCEPT !.pc = "fileclose", !.op = "close",
                                            !.close = <<ofile[p][d]>>]]
  /\ UNCHANGED <<ftable, pipe, input, proc, buf, cut>>

(* exit: by its own call, or because it was killed and is about to return  *)
(* to user space; the descriptors are closed in order.                     *)
exit(p) ==
  /\ At(p, "idle")
  /\ ofile' = [ofile EXCEPT ![p] = NoFds]
  /\ loc' = [loc EXCEPT ![p] =
               [Idle EXCEPT !.pc = "fileclose", !.op = "exit",
                            !.close = [k \in 1 .. NOFILE |-> ofile[p][k - 1]]]]
  /\ UNCHANGED <<ftable, pipe, input, proc, buf, cut>>

(* The places in l.close of the files that are not closed yet. *)
Left(l) == {k \in DOMAIN l.close : l.close[k] # NULL}

(* fileclose, under ftable.lock: the last reference is copied to ff and    *)
(* the struct file is free for others.                                     *)
fileclose(p) ==
  LET l == loc[p]
      k == Min(Left(l))
      f == l.close[k]
      rest == [l EXCEPT !.close[k] = NULL]
  IN /\ At(p, "fileclose") /\ Left(l) # {}
     /\ IF ftable[f].ref > 1
        THEN /\ ftable' = [ftable EXCEPT ![f].ref = @ - 1]
             /\ loc' = [loc EXCEPT ![p] = rest]
        ELSE /\ ftable' = [ftable EXCEPT ![f].ref = 0, ![f].type = "none"]
             /\ loc' = [loc EXCEPT ![p] =
                          IF ftable[f].type = "pipe"
                          THEN [rest EXCEPT !.pc = "pipeclose", !.ff = ftable[f]] ELSE rest]
     /\ Quiet /\ UNCHANGED <<ofile, pipe, input, proc, buf, cut>>

(* Mutant: the own end is woken, not the other one. *)
OtherEndOwn(ff) == IF ff.writable THEN nwrite(ff.pipe) ELSE nread(ff.pipe)

(* The channel on which those at the other end of the pipe sleep. *)
OtherEnd(ff) == IF ff.writable THEN nread(ff.pipe) ELSE nwrite(ff.pipe)

fileclose_pipe(p) ==
  LET ff == loc[p].ff
  IN /\ At(p, "pipeclose")
     /\ pipe' = [pipe EXCEPT ![ff.pipe] = pipeclose(@, ff.writable)]
     /\ proc' = Wake(proc, OtherEnd(ff))
     /\ loc' = [loc EXCEPT ![p].pc = "fileclose", ![p].ff = NoFile]
     /\ cut' = IF ff.writable THEN cut \ {ff.pipe} ELSE cut
     /\ Quiet /\ UNCHANGED <<ftable, ofile, input, buf>>

(* Everything is closed: the process is a zombie, or the call returns. *)
closed(p) ==
  /\ At(p, "fileclose") /\ Left(loc[p]) = {}
  /\ proc' = IF loc[p].op = "exit" THEN [proc EXCEPT ![p].state = "zombie"] ELSE proc
  /\ Returned(p)
  /\ Quiet /\ UNCHANGED <<ftable, ofile, pipe, input, buf, cut>>

-----------------------------------------------------------------------------
(* read and write of a descriptor that allows it. *)
sys_read(p, d, n) ==
  LET f == ofile[p][d]
  IN /\ Enter(p) /\ f # NULL /\ ~(ftable[f].type = "pipe" /\ ftable[f].writable)
     /\ loc' = [loc EXCEPT ![p] =
                  [Idle EXCEPT !.pc = IF ftable[f].type = "pipe" THEN "piperead" ELSE "consoleread",
                               !.op = "read", !.file = f, !.n = n]]
     /\ UNCHANGED <<ftable, ofile, pipe, input, proc, buf, cut>>

sys_write(p, d) ==
  LET f == ofile[p][d]
  IN /\ Enter(p) /\ f # NULL /\ ftable[f].type = "pipe" /\ ftable[f].writable
     /\ loc' = [loc EXCEPT ![p] = [Idle EXCEPT !.pc = "pipewrite", !.op = "write",
                                               !.file = f, !.n = Len(buf[p])]]
     /\ UNCHANGED <<ftable, ofile, pipe, input, proc, buf, cut>>

(* Bytes go in until all are written or the pipe is full.  The return from *)
(* the middle wakes nobody, whatever has gone in (pipe.c 86-88).           *)
pipewrite(p) ==
  LET l == loc[p]
      q == ftable[l.file].pipe
      k == Min({l.n - l.i, Room(pipe[q])})
      t == CopyIn(pipe[q], SubSeq(buf[p], l.i + 1, l.i + k))
  IN /\ At(p, "pipewrite")
     /\ pipe' = [pipe EXCEPT ![q] = t]
     /\ IF l.i + k = l.n
        THEN /\ proc' = Wake(proc, nread(q)) /\ cut' = cut \ {q}
             /\ Returned(p) /\ Quiet
        ELSE IF ~t.readopen \/ MustReturn(p)
        THEN /\ cut' = IF k > 0 THEN cut \cup {q} ELSE cut
             /\ Returned(p) /\ Quiet /\ UNCHANGED proc
        ELSE /\ Sleep(Wake(proc, nread(q)), p, nwrite(q)) /\ cut' = cut \ {q}
             /\ loc' = [loc EXCEPT ![p].i = @ + k]
     /\ UNCHANGED <<ftable, ofile, input, buf>>

piperead(p) ==
  LET l == loc[p]
      q == ftable[l.file].pipe
      c == CopyOut(pipe[q], l.n)
  IN /\ At(p, "piperead")
     /\ IF Empty(pipe[q]) /\ pipe[q].writeopen
        THEN /\ IF MustReturn(p) THEN Returned(p) /\ Quiet /\ UNCHANGED proc
                ELSE Sleep(proc, p, nread(q)) /\ UNCHANGED loc
             /\ UNCHANGED <<pipe, buf>>
        ELSE /\ pipe' = [pipe EXCEPT ![q] = c.pipe]
             /\ buf' = [buf EXCEPT ![p] = c.bytes]
             /\ proc' = Wake(proc, nwrite(q))
             /\ Returned(p) /\ Quiet
     /\ UNCHANGED <<ftable, ofile, input, cut>>

readconsole(p) ==
  LET l == loc[p]
      c == consoleread(input, l.got, l.n)
  IN /\ At(p, "consoleread")
     /\ input' = c.in
     /\ IF c.done THEN /\ buf' = [buf EXCEPT ![p] = c.got]
                       /\ Returned(p) /\ Quiet /\ UNCHANGED proc
        ELSE IF MustReturn(p) THEN Returned(p) /\ Quiet /\ UNCHANGED <<proc, buf>>
        ELSE /\ Sleep(proc, p, inputr)
             /\ loc' = [loc EXCEPT ![p].got = c.got] /\ UNCHANGED buf
     /\ UNCHANGED <<ftable, ofile, pipe, cut>>

-----------------------------------------------------------------------------
(* A key is pressed. *)
kbdintr(c) ==
  LET i == consoleintr(input, c)
  IN /\ Event
     /\ input' = i.in
     /\ proc' = IF i.wake THEN Wake(proc, inputr) ELSE proc
     /\ UNCHANGED <<ftable, ofile, pipe, loc, buf, cut>>

Killed(v) == [v EXCEPT !.killed = TRUE, !.state = "run", !.chan = NULL]

(* kill of a process that has not exited (one that has: see revive). *)
kill(p, victim) ==
  /\ Enter(p) /\ proc[victim].state \in {"run", "sleep"}
  /\ proc' = [proc EXCEPT ![victim] = Killed(@)]
  /\ Returned(p)
  /\ UNCHANGED <<ftable, ofile, pipe, input, buf, cut>>

(* The steps that follow from a call already made. *)
Step(p) ==
  \/ pipealloc2(p) \/ fileclose(p) \/ fileclose_pipe(p) \/ closed(p)
  \/ pipewrite(p) \/ piperead(p) \/ readconsole(p)
  \/ proc[p].killed /\ exit(p) /\ Quiet

Call(p) ==
  \/ sys_pipe(p) \/ (Enter(p) /\ exit(p))
  \/ \E np \in Procs : fork(p, np) \/ kill(p, np)
  \/ \E d \in Fds : \/ sys_dup(p, d) \/ sys_close(p, d) \/ sys_write(p, d)
                    \/ \E n \in ReadLens : sys_read(p, d, n)

(* One process with the console open; or the processes of a pipeline, one  *)
(* with the write end of a pipe and the others with its read end.  Console *)
(* and pipe have been used before.                                         *)
First == CHOOSE p \in Procs : TRUE

UsedPipe == [pipealloc(FreePage) EXCEPT !.nread = UINT - 1, !.nwrite = UINT - 1]

Started(ps, fds, types, page) ==
  /\ ofile = fds
  /\ proc = [p \in Procs |-> [state |-> IF p \in ps THEN "run" ELSE "unused",
                              chan |-> NULL, killed |-> FALSE]]
  /\ ftable = [f \in Files |->
       [types[f] EXCEPT !.ref = Cardinality({h \in Procs \X Fds : fds[h[1]][h[2]] = f})]]
  /\ pipe = [q \in Pages |-> page[q]]

Console == [f \in Files |-> IF f = 1 THEN [NoFile EXCEPT !.type = "cons"] ELSE NoFile]

Init ==
  /\ \/ Started({First}, [p \in Procs |-> IF p = First THEN [NoFds EXCEPT ![0] = 1] ELSE NoFds],
                Console, [q \in Pages |-> FreePage])
     \/ \E q \in Pages :
          Started(Procs, [p \in Procs |-> [NoFds EXCEPT ![0] = 1,
                                                       ![1] = IF p = First THEN 3 ELSE 2]],
                  [Console EXCEPT ![2] = PipeFile(q, FALSE), ![3] = PipeFile(q, TRUE)],
                  [x \in Pages |-> IF x = q THEN UsedPipe ELSE FreePage])
  /\ input = [NoInput EXCEPT !.r = UINT - 1, !.w = UINT - 1, !.e = UINT - 1]
  /\ loc = [p \in Procs |-> Idle]
  /\ buf = [p \in Procs |-> UserData]
  /\ cut = {}
  /\ events = 0

Next ==
  \/ \E p \in Procs : Call(p) \/ Step(p)
  \/ \E c \in Keys : kbdintr(c)

(* A process that can run gets a CPU (Kernel), with the lock that it waits *)
(* for: critical sections are short.                                       *)
Fairness == \A p \in Procs : WF_ioVars(Step(p))

Spec == Init /\ [][Next]_ioVars /\ Fairness
=============================================================================
