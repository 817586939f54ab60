------------------------------- MODULE Stream -------------------------------
(***************************************************************************)
(* What programs may rely on when they read and write: a pipe is a bounded *)
(* first-in first-out queue with two ends, and the console delivers edited *)
(* lines.  There are no rings, indices, struct files, reference counts,    *)
(* locks or sleeping processes.                                            *)
(***************************************************************************)
EXTENDS Integers, Sequences

CONSTANTS Procs, Pipes, PIPESIZE, INPUT_BUF, Chars, NL, EOF, BS, KILL

VARIABLES
  queue,       \* the bytes in a pipe
  rd, wr,      \* whether anybody has the read end, the write end, of a pipe
  ready, line, \* console: bytes that may be read, and the line being edited
  buf,         \* what the last read of a process got
  got,         \* what a console read has got so far
  out,         \* what a write has still to write
  killed

streamVars == <<queue, rd, wr, ready, line, buf, got, out, killed>>

Drop(s, k) == SubSeq(s, k + 1, Len(s))
Take(s, k) == SubSeq(s, 1, k)

(* A kill may come while a writer or a reader is on its way to sleep.      *)
KilledMeanwhile(p) == UNCHANGED killed \/ killed' = [killed EXCEPT ![p] = TRUE]

Console == <<ready, line, got>>
PipesSame == <<queue, rd, wr, out>>

Make(q) ==
  /\ ~rd[q] /\ ~wr[q]
  /\ rd' = [rd EXCEPT ![q] = TRUE] /\ wr' = [wr EXCEPT ![q] = TRUE]
  /\ queue' = [queue EXCEPT ![q] = <<>>]
  /\ UNCHANGED <<Console, buf, out, killed>>

(* The last descriptor of an end is closed; with it the bytes, if the      *)
(* other end is closed too.                                                *)
HangUp(q) ==
  /\ \/ rd[q] /\ rd' = [rd EXCEPT ![q] = FALSE] /\ UNCHANGED wr
     \/ wr[q] /\ wr' = [wr EXCEPT ![q] = FALSE] /\ UNCHANGED rd
  /\ queue' = IF rd'[q] \/ wr'[q] THEN queue ELSE [queue EXCEPT ![q] = <<>>]
  /\ UNCHANGED <<Console, buf, out, killed>>

StartWrite(p) ==
  /\ out[p] = <<>> /\ out' = [out EXCEPT ![p] = buf[p]]
  /\ UNCHANGED <<queue, rd, wr, Console, buf, killed>>

(* Bytes are appended in order; a write is cut short only when nobody can  *)
(* read or the writer was killed, and only at a full pipe.                 *)
Send(p, q, k) ==
  LET t == queue[q] \o Take(out[p], k)
  IN /\ wr[q] /\ k <= Len(out[p]) /\ Len(t) <= PIPESIZE
     /\ queue' = [queue EXCEPT ![q] = t]
     /\ \/ out' = [out EXCEPT ![p] = Drop(@, k)] /\ KilledMeanwhile(p)
        \/ /\ (~rd[q] \/ killed[p]) /\ Len(t) = PIPESIZE
           /\ out' = [out EXCEPT ![p] = <<>>] /\ UNCHANGED killed
     /\ UNCHANGED <<rd, wr, Console, buf>>

(* A read takes the oldest bytes; it gets none only when nobody can write. *)
Recv(p, q, k) ==
  /\ rd[q] /\ k <= Len(queue[q])
  /\ k = 0 => queue[q] = <<>> /\ ~wr[q]
  /\ buf' = [buf EXCEPT ![p] = Take(queue[q], k)]
  /\ queue' = [queue EXCEPT ![q] = Drop(@, k)]
  /\ UNCHANGED <<rd, wr, Console, out, killed>>

-----------------------------------------------------------------------------
(* A key is lost when the buffer is full; a line is ready when it ends,    *)
(* and when the buffer is full.                                            *)
Key(c) ==
  LET l == Append(line, c)
      n == Len(ready) + Len(line)
  IN /\ IF c = KILL THEN line' = <<>> /\ UNCHANGED ready
        ELSE IF c = BS
        THEN line' = (IF line = <<>> THEN line ELSE Take(line, Len(line) - 1))
             /\ UNCHANGED ready
        ELSE /\ n < INPUT_BUF
             /\ IF c \in {NL, EOF} \/ n + 1 = INPUT_BUF
                THEN ready' = ready \o l /\ line' = <<>>
                ELSE line' = l /\ UNCHANGED ready
     /\ UNCHANGED <<PipesSame, buf, got, killed>>

(* A read takes k bytes, to the end of a line at most.  It ends with them, *)
(* or at ^D, which only a read that has nothing yet consumes.              *)
ReadConsole(p, k) ==
  LET g == got[p] \o Take(ready, k)
      eof == k < Len(ready) /\ ready[k + 1] = EOF
  IN /\ \A j \in 1 .. k : ready[j] # EOF /\ (ready[j] = NL => j = k)
     /\ ready' = Drop(ready, IF eof /\ g = <<>> THEN k + 1 ELSE k)
     /\ \/ /\ g # <<>> \/ eof
           /\ buf' = [buf EXCEPT ![p] = g] /\ got' = [got EXCEPT ![p] = <<>>] /\ UNCHANGED killed
        \/ /\ ready' = <<>> /\ got' = [got EXCEPT ![p] = g]
           /\ KilledMeanwhile(p) /\ UNCHANGED buf
        \/ killed[p] /\ got' = [got EXCEPT ![p] = <<>>] /\ UNCHANGED <<buf, killed>>
     /\ UNCHANGED <<PipesSame, line>>

Fork(p, np) ==
  /\ buf' = [buf EXCEPT ![np] = buf[p]]
  /\ UNCHANGED <<PipesSame, Console, killed>>

Kill(p) ==
  /\ killed' = [killed EXCEPT ![p] = TRUE]
  /\ UNCHANGED <<PipesSame, Console, buf>>

Init ==
  /\ queue = [q \in Pipes |-> <<>>]
  /\ rd \in [Pipes -> BOOLEAN] /\ wr = rd
  /\ ready = <<>> /\ line = <<>>
  /\ got = [p \in Procs |-> <<>>] /\ out = got
  /\ killed = [p \in Procs |-> FALSE]

Next ==
  \/ \E q \in Pipes : Make(q) \/ HangUp(q)
  \/ \E p \in Procs :
       \/ StartWrite(p) \/ Kill(p) \/ \E np \in Procs : Fork(p, np)
       \/ \E q \in Pipes, k \in 0 .. PIPESIZE : Send(p, q, k) \/ Recv(p, q, k)
       \/ \E k \in 0 .. Len(ready) : ReadConsole(p, k)
  \/ \E c \in Chars \cup {NL, EOF, BS, KILL} : Key(c)

Spec == Init /\ [][Next]_streamVars
=============================================================================
