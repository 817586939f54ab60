-------------------------------- MODULE Pipe --------------------------------
(***************************************************************************)
(* The two ring buffers of the kernel: struct pipe (pipe.c) and the input  *)
(* buffer of the console (console.c), with their indices of width UINT.    *)
(* The functions return a changed buffer; who calls them when is in IO.    *)
(***************************************************************************)
EXTENDS Integers, Sequences, FiniteSetsExt

CONSTANTS
  PIPESIZE, INPUT_BUF, \* bytes in a pipe and in the console's buffer
  UINT,                \* number of values of a uint (2^32)
  Chars,               \* the characters that are neither of the next two
  NL, EOF, BS, KILL,   \* newline, ^D, backspace and ^U
  NULL

ASSUME PipeAssumption ==
  /\ PIPESIZE \in Nat \ {0} /\ INPUT_BUF \in Nat \ {0} /\ UINT \in Nat
  /\ UINT % PIPESIZE = 0 /\ UINT % INPUT_BUF = 0
  /\ UINT > PIPESIZE /\ UINT > INPUT_BUF

Byte == Chars \cup {NL, EOF}

Add(i, n) == (i + n) % UINT
Sub(i, j) == (i - j) % UINT

(* The bytes from index i on up to index j of a ring of the given size. *)
Bytes(ring, size, i, j) ==
  [k \in 1 .. Sub(j, i) |-> ring[Add(i, k - 1) % size]]

-----------------------------------------------------------------------------
(* kfree fills the page with junk. *)
FreePage == [used |-> FALSE, data |-> [k \in 0 .. PIPESIZE - 1 |-> NULL],
             nread |-> 0, nwrite |-> 0, readopen |-> FALSE, writeopen |-> FALSE]

pipealloc(q) == [q EXCEPT !.used = TRUE, !.nread = 0, !.nwrite = 0,
                          !.readopen = TRUE, !.writeopen = TRUE]

Empty(q) == q.nread = q.nwrite
Full(q)  == q.nwrite = Add(q.nread, PIPESIZE)

(* Mutant: one byte more than the pipe holds. *)
RoomOff(q) == PIPESIZE + 1 - Sub(q.nwrite, q.nread)

Room(q)  == PIPESIZE - Sub(q.nwrite, q.nread)

(* The loop of pipewrite as long as there is room: the bytes go in, byte k *)
(* at nwrite + k - 1.                                                      *)
CopyIn(q, bytes) ==
  LET number(j) == ((j - q.nwrite) % PIPESIZE) + 1
  IN [q EXCEPT !.data = [j \in 0 .. PIPESIZE - 1 |->
                           IF number(j) <= Len(bytes) THEN bytes[number(j)] ELSE q.data[j]],
               !.nwrite = Add(@, Len(bytes))]

(* The loop of piperead: at most n bytes come out. *)
CopyOut(q, n) ==
  LET k == Min({n, Sub(q.nwrite, q.nread)})
  IN [bytes |-> Bytes(q.data, PIPESIZE, q.nread, Add(q.nread, k)),
      pipe |-> [q EXCEPT !.nread = Add(@, k)]]

(* Mutant: the page is freed when one end is closed. *)
pipecloseEarly(q, writable) == FreePage

(* pipeclose: the page is freed when both ends are closed. *)
pipeclose(q, writable) ==
  LET c == IF writable THEN [q EXCEPT !.writeopen = FALSE]
           ELSE [q EXCEPT !.readopen = FALSE]
  IN IF c.readopen \/ c.writeopen THEN c ELSE FreePage

-----------------------------------------------------------------------------
NoInput == [buf |-> [k \in 0 .. INPUT_BUF - 1 |-> NULL], r |-> 0, w |-> 0, e |-> 0]

(* ^U: back to the start of the line. *)
KillLine(in) ==
  LET n == Sub(in.e, in.w)
      stop == {k \in 0 .. n : k = n \/ in.buf[Sub(in.e, k + 1) % INPUT_BUF] = NL}
  IN [in EXCEPT !.e = Sub(@, Min(stop))]

(* A line is ready for readers: at its end, at ^D and when the buffer is full. *)
Ready(in, c) == c \in {NL, EOF} \/ in.e = Add(in.r, INPUT_BUF)

(* consoleintr, one character: the buffer after it, and whether readers    *)
(* are woken.                                                              *)
consoleintr(in, c) ==
  LET put == [in EXCEPT !.buf[in.e % INPUT_BUF] = c, !.e = Add(@, 1)]
  IN IF c = KILL THEN [in |-> KillLine(in), wake |-> FALSE]
     ELSE IF c = BS THEN [in |-> IF in.e # in.w THEN [in EXCEPT !.e = Sub(@, 1)] ELSE in,
                          wake |-> FALSE]
     ELSE IF Sub(in.e, in.r) >= INPUT_BUF THEN [in |-> in, wake |-> FALSE]
     ELSE IF Ready(put, c) THEN [in |-> [put EXCEPT !.w = put.e], wake |-> TRUE]
     ELSE [in |-> put, wake |-> FALSE]

(* Mutant: ^D is consumed together with the bytes before it. *)
EofLeft(in, got, next) == next

(* After ^D: it is left for the next read if this one has bytes already. *)
EofTaken(in, got, next) == IF got = <<>> THEN next ELSE in

(* The loop of consoleread until it is done or finds the buffer empty:     *)
(* `got' bytes read so far, of n wanted.  It stops at a newline, at ^D and *)
(* when it has them all.                                                   *)
consoleread(in, got, n) ==
  LET ready   == Bytes(in.buf, INPUT_BUF, in.r, in.w)
      stops   == {k \in 1 .. Len(ready) : ready[k] \in {NL, EOF} \/ Len(got) + k = n}
      last    == Min(stops)
      past(k) == [in EXCEPT !.r = Add(@, k)]
      upto(k) == got \o SubSeq(ready, 1, k)
  IN IF Len(got) = n THEN [in |-> in, got |-> got, done |-> TRUE]
     ELSE IF stops = {}
     THEN [in |-> past(Len(ready)), got |-> upto(Len(ready)), done |-> FALSE]
     ELSE IF ready[last] = EOF
     THEN [in |-> EofTaken(past(last - 1), upto(last - 1), past(last)),
           got |-> upto(last - 1), done |-> TRUE]
     ELSE [in |-> past(last), got |-> upto(last), done |-> TRUE]
=============================================================================
