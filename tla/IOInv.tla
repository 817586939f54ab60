------------------------------- MODULE IOInv --------------------------------
(***************************************************************************)
(* What makes descriptors, pipes and the console correct (file.c, pipe.c,  *)
(* console.c).                                                             *)
(***************************************************************************)
EXTENDS IO

(* The references to struct file f: descriptors, files about to be closed, *)
(* the first file of a pipe being made.                                    *)
Holders(f) ==
  {h \in Procs \X Fds : ofile[h[1]][h[2]] = f}
    \cup {h \in Procs \X (NOFILE .. 2 * NOFILE) :
            LET c == loc[h[1]].close
                k == h[2] - NOFILE + 1
            IN k \in DOMAIN c /\ c[k] = f}
    \cup {h \in Procs \X {-1} : loc[h[1]].pc = "pipealloc" /\ loc[h[1]].file = f}

(* f->ref is the number of references, whichever of pipe, dup, fork, exit  *)
(* and close, or their error paths, run together (file.c 27-80).           *)
FileRefs == \A f \in Files : ftable[f].ref = Cardinality(Holders(f))

(* Nobody uses a pipe whose page was freed: a process inside piperead or   *)
(* pipewrite, or with a file of the pipe, keeps it (pipe.c 70-72).         *)
PipeKept ==
  /\ \A f \in Files : ftable[f].type = "pipe" => pipe[ftable[f].pipe].used
  /\ \A p \in Procs :
       /\ loc[p].pc \in {"piperead", "pipewrite"} =>
            ftable[loc[p].file].type = "pipe"
       /\ loc[p].ff.pipe # NULL => pipe[loc[p].ff.pipe].used

(* A process sleeps in piperead, pipewrite or consoleread only while there *)
(* is nothing to read or no room, and somebody at the other end who can    *)
(* change that.  One exception, where the code loses a wakeup: the reader  *)
(* of a pipe whose last bytes come from a writer that was killed, since    *)
(* that returns without waking the readers (pipe.c 86-88).                 *)
SleepsForReason ==
  \A p \in Procs, q \in Pages :
    proc[p].state = "sleep" =>
      /\ proc[p].chan = nread(q) =>
           /\ pipe[q].writeopen
           /\ Empty(pipe[q]) \/ q \in cut
      /\ proc[p].chan = nwrite(q) => Full(pipe[q]) /\ pipe[q].readopen
      /\ proc[p].chan = inputr => input.r = input.w

-----------------------------------------------------------------------------
(* An end of pipe q is open as long as a struct file in use refers to it. *)
HasEnd(q, w) ==
  \E f \in Files :
    ftable[f].type = "pipe" /\ ftable[f].writable = w /\ ftable[f].pipe = q

(* Pipes are queues and the console delivers lines, for programs that see  *)
(* neither rings nor reference counts: bytes come out in order, once, and  *)
(* end of file means that no write descriptor is left anywhere.            *)
Ideal == INSTANCE Stream WITH
  Pipes <- Pages,
  rd <- [q \in Pages |-> HasEnd(q, FALSE)],
  wr <- [q \in Pages |-> HasEnd(q, TRUE)],
  queue <- [q \in Pages |->
              IF HasEnd(q, FALSE) \/ HasEnd(q, TRUE)
              THEN Bytes(pipe[q].data, PIPESIZE, pipe[q].nread, pipe[q].nwrite) ELSE <<>>],
  ready <- Bytes(input.buf, INPUT_BUF, input.r, input.w),
  line <- Bytes(input.buf, INPUT_BUF, input.w, input.e),
  got <- [p \in Procs |-> loc[p].got],
  out <- [p \in Procs |-> IF loc[p].pc = "pipewrite"
                          THEN SubSeq(buf[p], loc[p].i + 1, loc[p].n) ELSE <<>>],
  killed <- [p \in Procs |-> proc[p].killed]

Streams == Ideal!Spec

(* A process that is killed while it sleeps runs, and one that has been    *)
(* killed and runs ends, wherever in a call it is, and so closes its files *)
(* (proc.c 957-976).  Nothing is said of one that was killed on its way to *)
(* sleep: it stays asleep for as long as nobody else wakes it.             *)
KilledEnds ==
  /\ [][\A p \in Procs : proc[p].state = "sleep" /\ ~proc[p].killed /\ proc'[p].killed
                           => proc'[p].state = "run"]_ioVars
  /\ \A p \in Procs : (proc[p].killed /\ proc[p].state = "run") ~> proc[p].state = "zombie"

(* "Wake process from sleep if necessary" (proc.c 966): no killed process  *)
(* is asleep.                                                              *)
KilledAwake == \A p \in Procs : proc[p].killed => proc[p].state # "sleep"

(* When the last writer is gone every reader gets its end of file, and     *)
(* when the last reader is gone every writer its error (pipe.c 59-75).     *)
HangUpSeen ==
  \A p \in Procs, q \in Pages :
    /\ (loc[p].pc = "piperead" /\ ftable[loc[p].file].pipe = q /\ ~HasEnd(q, TRUE))
         ~> loc[p].pc # "piperead"
    /\ (loc[p].pc = "pipewrite" /\ ftable[loc[p].file].pipe = q /\ ~HasEnd(q, FALSE))
         ~> loc[p].pc # "pipewrite"

-----------------------------------------------------------------------------
(* The inductive invariant behind FileRefs, PipeKept, SleepsForReason and  *)
(* Streams: what a process may rely on at each point of a call.            *)

Cell == Byte \cup {NULL}
Index == 0 .. UINT - 1
StructFile == [ref : Nat, type : {"none", "cons", "pipe"}, pipe : Pages \cup {NULL},
               writable : BOOLEAN]
StructPipe == [used : BOOLEAN, data : [0 .. PIPESIZE - 1 -> Cell], nread : Index,
               nwrite : Index, readopen : BOOLEAN, writeopen : BOOLEAN]
StructInput == [buf : [0 .. INPUT_BUF - 1 -> Cell], r : Index, w : Index, e : Index]
StructProc == [state : {"unused", "run", "sleep", "zombie"},
               chan : {nread(q) : q \in Pages} \cup {nwrite(q) : q \in Pages} \cup {inputr, NULL},
               killed : BOOLEAN]
Points == {"idle", "pipealloc", "fileclose", "pipeclose", "piperead", "pipewrite", "consoleread"}
Locals == [pc : Points, op : {"none", "pipe", "close", "exit", "read", "write"},
           file : Files \cup {NULL}, close : Seq(Files \cup {NULL}), ff : StructFile,
           n : Nat, i : Nat, got : Seq(Cell)]

(* The type of every variable. *)
TypeOK ==
  /\ ftable \in [Files -> StructFile]
  /\ ofile \in [Procs -> [Fds -> Files \cup {NULL}]]
  /\ pipe \in [Pages -> StructPipe]
  /\ input \in StructInput
  /\ proc \in [Procs -> StructProc]
  /\ loc \in [Procs -> Locals]
  /\ buf \in [Procs -> Seq(Cell)]
  /\ cut \subseteq Pages
  /\ events \in Nat

(* A process inside read or write has a descriptor of the file that it     *)
(* uses, and nobody else knows the first file of a pipe being made.        *)
Using(p) == loc[p].pc \in {"piperead", "pipewrite", "consoleread"}
Local(p) ==
  LET l == loc[p]
  IN /\ l.pc = "idle" => l = Idle
     /\ l.pc \notin {"fileclose", "pipeclose"} => l.close = <<>>
     /\ Len(l.close) <= NOFILE
     /\ IF l.pc = "pipeclose" THEN l.ff.type = "pipe" /\ l.ff.pipe \in Pages ELSE l.ff = NoFile
     /\ l.pc = "pipealloc" =>
          l.file \in Files /\ ftable[l.file].ref = 1 /\ ftable[l.file].type = "none"
     /\ Using(p) => l.file \in Files /\ \E d \in Fds : ofile[p][d] = l.file
     /\ l.pc \in {"piperead", "pipewrite"} =>
          /\ ftable[l.file].type = "pipe"
          /\ ftable[l.file].writable <=> l.pc = "pipewrite"
     /\ l.pc = "pipewrite" => l.n = Len(buf[p]) /\ l.i <= l.n
     /\ l.pc \in {"piperead", "consoleread"} => l.n > 0
     /\ l.pc # "consoleread" => l.got = <<>>
     /\ proc[p].state = "unused" => l.pc = "idle" /\ ofile[p] = NoFds
     /\ proc[p].state = "sleep" =>
          \/ l.pc = "piperead" /\ proc[p].chan = nread(ftable[l.file].pipe)
          \/ l.pc = "pipewrite" /\ proc[p].chan = nwrite(ftable[l.file].pipe)
          \/ l.pc = "consoleread" /\ proc[p].chan = inputr

FilesOK ==
  \A f \in Files :
    /\ ftable[f].ref = 0 => ftable[f].type = "none"
    /\ ftable[f].type = "pipe" => ftable[f].pipe \in Pages

(* An end of a pipe is open as long as one struct file, or one process     *)
(* that is closing it, has it; and never has a second one.                 *)
FileHas(f, q, w) == ftable[f].type = "pipe" /\ ftable[f].pipe = q /\ ftable[f].writable = w
Hangs(p, q, w) == loc[p].pc = "pipeclose" /\ loc[p].ff.pipe = q /\ loc[p].ff.writable = w
Open(q, w) == IF w THEN pipe[q].writeopen ELSE pipe[q].readopen
EndsOK(q) ==
  /\ pipe[q].used <=> pipe[q].readopen \/ pipe[q].writeopen
  /\ \A w \in BOOLEAN :
       /\ Open(q, w) <=> (\E f \in Files : FileHas(f, q, w)) \/ (\E p \in Procs : Hangs(p, q, w))
       /\ \A f, g \in Files : FileHas(f, q, w) /\ FileHas(g, q, w) => f = g
       /\ \A p, r \in Procs : Hangs(p, q, w) /\ Hangs(r, q, w) => p = r
       /\ \A f \in Files, p \in Procs : ~(FileHas(f, q, w) /\ Hangs(p, q, w))

(* The rings hold no more than they have room for, and the line that is    *)
(* being edited has not ended.                                             *)
RingsOK ==
  /\ \A q \in Pages : Sub(pipe[q].nwrite, pipe[q].nread) <= PIPESIZE
  /\ Sub(input.w, input.r) + Sub(input.e, input.w) <= INPUT_BUF
  /\ \A k \in DOMAIN Bytes(input.buf, INPUT_BUF, input.w, input.e) :
       Bytes(input.buf, INPUT_BUF, input.w, input.e)[k] # NL

(* All of this together is kept by every step of every call in pipe.c,     *)
(* file.c and console.c, and it implies the properties above.              *)
IOIndInv ==
  /\ TypeOK /\ FilesOK /\ RingsOK /\ FileRefs /\ SleepsForReason
  /\ \A p \in Procs : Local(p)
  /\ \A q \in Pages : EndsOK(q)

AB == <<"a", "b", "a">>
=============================================================================
