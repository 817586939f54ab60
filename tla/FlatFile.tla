------------------------------ MODULE FlatFile ------------------------------
(***************************************************************************)
(* What a user program may rely on when it writes files: a file is a       *)
(* sequence of bytes.  write() goes on at the offset of the open file,     *)
(* pwrite() at its own; a call is carried out in chunks, each of them at   *)
(* once, and a gap left before a chunk is filled with zeroes.  A crash     *)
(* loses a suffix of what has been done, never a part of a chunk.          *)
(***************************************************************************)
EXTENDS Integers, FiniteSetsExt

CONSTANTS Procs, Files, Offsets, MaxLen, MaxSize, NULL

VARIABLES content, \* the bytes of every file, a function on 0..size-1
          saved,   \* the contents that a crash goes back to
          off,     \* the offset of every open file
          todo     \* what the call of a process still has to write

Bytes == 0..MaxLen

(* The k-th byte that a call of any process writes. *)
Data(n) == [k \in 0..(n - 1) |-> k + 1]

Size(c) == Cardinality(DOMAIN c)

(* c with the bytes d put at position pos. *)
Overlay(c, pos, d) ==
  [k \in 0..(Max({Size(c), pos + Size(d)}) - 1) |->
     IF k >= pos /\ k < pos + Size(d) THEN d[k - pos]
     ELSE IF k < Size(c) THEN c[k] ELSE 0]

Empty == Data(0)

FlatInit ==
  /\ content = [f \in Files |-> Empty]
  /\ saved = content
  /\ off = [f \in Files |-> 0]
  /\ todo = [p \in Procs |-> NULL]

(* A process calls write (pos = NULL) or pwrite on f. *)
Call(p, f, pos, d) ==
  /\ todo[p] = NULL
  /\ todo' = [todo EXCEPT ![p] = [f |-> f, pos |-> pos, d |-> d]]
  /\ UNCHANGED <<content, saved, off>>

(* Where the next bytes of a call go. *)
Position(p) == IF todo[p].pos = NULL THEN off[todo[p].f] ELSE todo[p].pos

(* The next m bytes are written; they may become durable in the same step. *)
Chunk(p, m) ==
  LET t    == todo[p]
      rest == [k \in 0..(Size(t.d) - m - 1) |-> t.d[k + m]]
  IN /\ todo' = [todo EXCEPT
                   ![p] = [t EXCEPT !.pos = IF @ = NULL THEN NULL ELSE @ + m,
                                    !.d = rest]]
     /\ off' = IF t.pos = NULL THEN [off EXCEPT ![t.f] = @ + m] ELSE off
     /\ content' = [content EXCEPT
          ![t.f] = Overlay(@, Position(p), [k \in 0..(m - 1) |-> t.d[k]])]
     /\ saved' \in {saved, content'}

(* The call ends: all is written, or the file would become too large. *)
Return(p) ==
  /\ todo[p] # NULL
  /\ Size(todo[p].d) = 0 \/ Position(p) + Size(todo[p].d) > MaxSize
  /\ todo' = [todo EXCEPT ![p] = NULL]
  /\ UNCHANGED <<content, saved, off>>

(* A read moves the offset forward, within the file. *)
Read(f, m) ==
  /\ off' = [off EXCEPT ![f] = @ + m]
  /\ off[f] + m <= Size(content[f])
  /\ UNCHANGED <<content, saved, todo>>

(* The file is opened anew. *)
Reopen(f) ==
  /\ off' = [off EXCEPT ![f] = 0]
  /\ UNCHANGED <<content, saved, todo>>

(* The last name and the last reference are gone. *)
Delete(f) ==
  /\ content' = [content EXCEPT ![f] = Empty]
  /\ saved' \in {saved, content'}
  /\ UNCHANGED <<off, todo>>

Commit ==
  /\ saved' = content
  /\ UNCHANGED <<content, off, todo>>

Crash ==
  /\ off' = [f \in Files |-> 0]
  /\ todo' = [p \in Procs |-> NULL]
  /\ content' = saved
  /\ UNCHANGED saved

FlatNext ==
  \/ \E p \in Procs, f \in Files, n \in 0..MaxLen : Call(p, f, NULL, Data(n))
  \/ \E p \in Procs, f \in Files, n \in 0..MaxLen, pos \in Offsets :
       Call(p, f, pos, Data(n))
  \/ \E p \in Procs : /\ todo[p] # NULL
                      /\ \E m \in 1..Size(todo[p].d) : Chunk(p, m)
  \/ \E p \in Procs : Return(p)
  \/ \E f \in Files, m \in 1..MaxLen : Read(f, m)
  \/ \E f \in Files : Reopen(f) \/ Delete(f)
  \/ Commit
  \/ Crash

FlatSpec == FlatInit /\ [][FlatNext]_<<content, saved, off, todo>>
=============================================================================
