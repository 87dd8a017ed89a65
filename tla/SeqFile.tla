------------------------------ MODULE SeqFile ------------------------------
(***************************************************************************)
(* Files whose records an iterator of the driver produces and seq_read of  *)
(* the kernel collects, over several read() calls:                         *)
(*   "busy"   debug/lab8_seqfile.c: `items' records;                       *)
(*   "count"  debug/lab11_seq.c: the natural numbers, with an iterator in  *)
(*            memory of its own for each call;                             *)
(*   "tasks"  debug/debug_lab3_seqfile.c: the ring of tasks, from the      *)
(*            reading one.                                                 *)
(* A record is Width units long, and a call asks for some units.  seq_read *)
(* holds the lock of the file, so one call runs at a time.                 *)
(***************************************************************************)
EXTENDS Integers, Sequences

CONSTANTS
  Kinds,    \* the drivers considered
  Items,    \* items of "busy", and the number of tasks
  Width,    \* units in a record
  BufSize,  \* of the buffer of seq_read
  MaxOut    \* bound: units read when a call begins

VARIABLES
  kind,
  pc,        \* "user", "start", "show", "next", "stop"
  want,      \* units the call still has to return
  index,     \* m->index, the record the next call begins with
  pos, next, \* the position of seq_read, and the one that next() has stored
  v,         \* the iterator: a record, or Null
  held,      \* iterators allocated and not freed
  buf,       \* units collected and not yet returned
  out,       \* units returned so far
  got,       \* this call has returned something already
  eof        \* a call has returned 0

vars == <<kind, pc, want, index, pos, next, v, held, buf, out, got, eof>>

Null == -1

Init ==
  /\ kind \in Kinds
  /\ pc = "user" /\ want = 0 /\ index = 0 /\ pos = 0 /\ next = 0
  /\ v = Null /\ held = 0 /\ buf = <<>> /\ out = <<>> /\ got = FALSE /\ eof = FALSE

-----------------------------------------------------------------------------
(* The iterators                                                           *)

\* x_busy_seq_start, and the end of x_busy_seq_next
BusyAt(p) == IF p < Items THEN p ELSE Null

\* ct_seq_start has no memory, or copies the position; my_start ignores it.
StartResults(p) ==
  CASE kind = "busy" -> {BusyAt(p)}
    [] kind = "count" -> {p, Null}
    [] kind = "tasks" -> {0}

\* What next() returns: ct_seq_next and x_busy_seq_next step, my_next goes round.
NextRecord ==
  CASE kind = "busy" -> BusyAt(pos + 1)
    [] kind = "count" -> v + 1
    [] kind = "tasks" -> (v + 1) % Items

NextPos_NotStored == pos

\* What next() stores in *pos: my_next stores nothing.
NextPos == IF kind = "tasks" THEN pos ELSE pos + 1

\* x_busy_seq_show, ct_seq_show; my_show shows the task after the iterator's.
Shown == [i \in 1..Width |-> IF kind = "tasks" THEN (v + 1) % Items ELSE v]

-----------------------------------------------------------------------------
(* seq_read                                                                *)

\* What the last call has left in the buffer comes first.
ReadStart(n) ==
  LET k == IF n < Len(buf) THEN n ELSE Len(buf)
  IN  /\ pc = "user" /\ ~eof /\ Len(out) < MaxOut
      /\ out' = out \o SubSeq(buf, 1, k) /\ buf' = SubSeq(buf, k + 1, Len(buf))
      /\ index' = IF buf # <<>> /\ k = Len(buf) THEN index + 1 ELSE index
      /\ want' = n - k /\ got' = (k > 0)
      /\ pc' = IF n = k THEN "user" ELSE "start"
      /\ UNCHANGED <<kind, pos, next, v, held, eof>>

Start ==
  /\ pc = "start" /\ pos' = index
  /\ v' \in StartResults(index)
  /\ held' = held + IF kind = "count" /\ v' # Null THEN 1 ELSE 0
  /\ pc' = IF v' = Null THEN "stop" ELSE "show"
  /\ next' = index
  /\ UNCHANGED <<kind, want, index, buf, out, got, eof>>

\* A record that does not fit any more is shown again by the next call.
Show ==
  /\ pc = "show"
  /\ IF Len(buf) + Width > BufSize
       THEN pc' = "stop" /\ UNCHANGED <<buf, pos>>
       ELSE /\ buf' = buf \o Shown /\ pos' = next
            /\ pc' = IF Len(buf') < want THEN "next" ELSE "stop"
  /\ UNCHANGED <<kind, want, index, next, v, held, out, got, eof>>

Step ==
  /\ pc = "next"
  /\ v' = NextRecord /\ next' = NextPos
  /\ pc' = IF v' = Null THEN "stop" ELSE "show"
  /\ UNCHANGED <<kind, want, index, pos, held, buf, out, got, eof>>

\* ct_seq_stop frees the iterator; then the call returns what it has collected.
Stop ==
  LET k == IF want < Len(buf) THEN want ELSE Len(buf)
  IN  /\ pc = "stop" /\ pc' = "user"
      /\ out' = out \o SubSeq(buf, 1, k) /\ buf' = SubSeq(buf, k + 1, Len(buf))
      /\ index' = IF buf # <<>> /\ k = Len(buf) THEN pos + 1 ELSE pos
      /\ eof' = (buf = <<>> /\ ~got)
      /\ held' = held - IF kind = "count" /\ v # Null THEN 1 ELSE 0
      /\ want' = 0 /\ v' = Null
      /\ UNCHANGED <<kind, pos, next, got>>

Next == Start \/ Show \/ Step \/ Stop \/ \E n \in 1..BufSize : ReadStart(n)

Spec == Init /\ [][Next]_vars

-----------------------------------------------------------------------------
(* Properties                                                              *)

\* However the calls cut the file, a reader gets each record once and in order,
\* as if the file had been read at once, and the end of x_busy comes after its
\* last item.  Between calls no iterator is left allocated.  (The file of the
\* tasks begins again with every call.)
RecordsInOrder ==
  /\ kind # "tasks" => \A i \in 1..Len(out \o buf) : (out \o buf)[i] = (i - 1) \div Width
  /\ eof /\ kind = "busy" => Len(out) = Items * Width
  /\ pc = "user" => held = 0
=============================================================================
