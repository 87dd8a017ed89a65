------------------------------- MODULE Scullc -------------------------------
(***************************************************************************)
(* The scullc device of src/io/lab6_aio.c: a list of items, each with an   *)
(* array of qset quanta, filled by read_iter and write_iter.  Every        *)
(* transfer is done at once; an asynchronous one is completed later, from  *)
(* a delayed work item.                                                    *)
(*                                                                         *)
(* What is done under dev->mutex is one step.  quantum and qset are read   *)
(* before the mutex is taken, and ioctl changes the globals, which only    *)
(* scullc_trim copies into the device, without it.                         *)
(*                                                                         *)
(* scullc_do_read and scullc_do_write are called with aio = 1 only, and    *)
(* then test the pointer that memcpy returns: a transfer that reaches the  *)
(* copy answers -EFAULT, and neither the size nor a position ever changes. *)
(* Data are left out; what counts is where the copies go and which objects *)
(* of the cache are allocated.                                             *)
(***************************************************************************)
EXTENDS Integers, Sequences, FiniteSetsExt

CONSTANTS
  Procs,
  Quanta, Qsets,    \* values that ioctl sets
  Quantum0, Qset0,  \* scullc_quantum, scullc_qset when the module is loaded
  Positions,        \* positions at which transfers begin
  MaxCount,         \* bound: largest length of a transfer
  MaxObjects        \* bound: objects the cache has memory for

VARIABLES
  loaded,
  scullc_quantum, scullc_qset,  \* the globals
  dev,      \* [quantum, qset, items]; an item is its data array, <<>> for NULL
  objects,  \* objects of scullc_cache that are allocated
  opened,   \* processes that have the device open
  call,     \* per process: the transfer it is in
  work,     \* its delayed work: "idle", "pending", "free"
  answers,  \* how often its last transfer was answered
  stale,    \* a transfer used a quantum or qset that was not the device's
  beyond    \* what was accessed beyond its end: an "array", an object by the
            \* "clear" of a new quantum or by the "copy" of a transfer

vars == <<loaded, scullc_quantum, scullc_qset, dev, objects, opened, call, work, answers,
          stale, beyond>>

\* The geometry in which a call works: what it read before it took the mutex.
Idle == [pc |-> "user", op |-> "read", quantum |-> 0, qset |-> 0, pos |-> 0, count |-> 0]

Init ==
  /\ loaded = TRUE
  /\ scullc_quantum = Quantum0 /\ scullc_qset = Qset0
  /\ dev = [quantum |-> Quantum0, qset |-> Qset0, items |-> << <<>> >>]
  /\ objects = 0 /\ opened = {}
  /\ call = [p \in Procs |-> Idle]
  /\ work = [p \in Procs |-> "idle"]
  /\ answers = [p \in Procs |-> 0]
  /\ stale = FALSE /\ beyond = {}

-----------------------------------------------------------------------------
(* The list                                                                *)

\* The place of a position: list item, entry of its array, offset in the quantum
Item(c) == c.pos \div (c.quantum * c.qset)
Spos(c) == (c.pos % (c.quantum * c.qset)) \div c.quantum
Qpos(c) == (c.pos % (c.quantum * c.qset)) % c.quantum

\* scullc_follow appends empty items until there is an n-th one.
Follow(items, n) ==
  [i \in 1..Max({Len(items), n + 1}) |-> IF i <= Len(items) THEN items[i] ELSE <<>>]

\* The objects that entries 1..n of the arrays point to
Pointed(items, n) ==
  Cardinality({e \in (DOMAIN items) \X (1..n) : e[2] <= Len(items[e[1]]) /\ items[e[1]][e[2]]})

Trim_Swapped(d) ==
  /\ dev' = [quantum |-> scullc_quantum, qset |-> scullc_qset, items |-> << <<>> >>]
  /\ objects' = objects - Pointed(d.items, scullc_qset)
  /\ beyond' = beyond

\* scullc_trim goes through dev->qset entries of each array, whatever its length,
\* and takes the globals over.  The mappings it tests for do not exist here.
Trim(d) ==
  /\ dev' = [quantum |-> scullc_quantum, qset |-> scullc_qset, items |-> << <<>> >>]
  /\ objects' = objects - Pointed(d.items, d.qset)
  /\ beyond' = beyond \cup
       IF \E i \in DOMAIN d.items : d.items[i] # <<>> /\ Len(d.items[i]) < d.qset
       THEN {"array"} ELSE {}

-----------------------------------------------------------------------------
(* System calls                                                            *)

\* After an access beyond the end nothing is known.
Up == loaded /\ beyond = {}

Open(p) ==
  /\ Up /\ p \notin opened /\ opened' = opened \cup {p}
  /\ UNCHANGED <<loaded, scullc_quantum, scullc_qset, dev, objects, call, work, answers, stale, beyond>>

\* A write-only open; interrupted, it fails and changes nothing.
OpenTrim(p) ==
  /\ Up /\ p \notin opened /\ opened' = opened \cup {p}
  /\ Trim(dev)
  /\ UNCHANGED <<loaded, scullc_quantum, scullc_qset, call, work, answers, stale>>

Release(p) ==
  /\ Up /\ p \in opened /\ call[p].pc = "user" /\ opened' = opened \ {p}
  /\ UNCHANGED <<loaded, scullc_quantum, scullc_qset, dev, objects, call, work, answers, stale, beyond>>

\* RESET, and the S, T, X and H forms for each of the two numbers
Ioctl(p, quantum, qset) ==
  /\ Up /\ p \in opened /\ call[p].pc = "user"
  /\ \/ quantum = scullc_quantum \/ qset = scullc_qset
     \/ quantum = Quantum0 /\ qset = Qset0
  /\ scullc_quantum' = quantum /\ scullc_qset' = qset
  /\ UNCHANGED <<loaded, dev, objects, opened, call, work, answers, stale, beyond>>

\* read_iter, write_iter with the position of the iocb: the transfer reads the
\* geometry of the device.
Start(p, op, pos, count) ==
  /\ Up /\ p \in opened /\ call[p].pc = "user" /\ work[p] = "idle"
  /\ call' = [call EXCEPT ![p] = [pc |-> "lock", op |-> op, quantum |-> dev.quantum,
                                  qset |-> dev.qset, pos |-> pos, count |-> count]]
  /\ answers' = [answers EXCEPT ![p] = 0]
  /\ UNCHANGED <<loaded, scullc_quantum, scullc_qset, dev, objects, opened, work, stale, beyond>>

\* Somebody trimmed the device since this call read its geometry.
IsStale(c) == c.quantum # dev.quantum \/ c.qset # dev.qset

\* A signal ends the wait for the mutex.
Interrupted(p) ==
  /\ Up /\ call[p].pc = "lock"
  /\ call' = [call EXCEPT ![p] = [Idle EXCEPT !.pc = "answer"]]
  /\ UNCHANGED <<loaded, scullc_quantum, scullc_qset, dev, objects, opened, work, answers, stale, beyond>>

\* The size is always 0: beyond it nothing is read, and at it the list is followed
\* and no byte copied.
DoRead(p) ==
  LET c == call[p] IN
  /\ Up /\ c.pc = "lock" /\ c.op = "read"
  /\ call' = [call EXCEPT ![p] = [Idle EXCEPT !.pc = "answer"]]
  /\ UNCHANGED <<loaded, scullc_quantum, scullc_qset, dev, objects, opened, work, answers, stale, beyond>>

\* kmalloc of the array and the allocation of the quantum may fail.  A new quantum
\* is cleared in the length that scullc_quantum has now, and the copy ends where
\* the quantum of the caller ends; the object has the length of Quantum0.
DoWrite(p) ==
  \E gotArray, gotObject \in BOOLEAN :
    LET c == call[p]
        list == Follow(dev.items, Item(c))
        n == Item(c) + 1
        data == IF list[n] # <<>> \/ ~gotArray THEN list[n] ELSE [s \in 1..c.qset |-> FALSE]
        s == Spos(c) + 1
        inside == s \in DOMAIN data
        fresh == inside /\ ~data[s] /\ gotObject /\ objects < MaxObjects
        there == inside /\ (data[s] \/ fresh)
        count == Min({c.count, c.quantum - Qpos(c)})
    IN
    /\ Up /\ c.pc = "lock" /\ c.op = "write"
    /\ call' = [call EXCEPT ![p] = [Idle EXCEPT !.pc = "answer"]]
    /\ stale' = (stale \/ IsStale(c))
    /\ dev' = [dev EXCEPT !.items =
                 [list EXCEPT ![n] = IF fresh THEN [data EXCEPT ![s] = TRUE] ELSE data]]
    /\ objects' = objects + IF fresh THEN 1 ELSE 0
    /\ beyond' = beyond
         \cup (IF data # <<>> /\ ~inside THEN {"array"} ELSE {})
         \cup (IF fresh /\ scullc_quantum > Quantum0 THEN {"clear"} ELSE {})
         \cup (IF there /\ Qpos(c) + count > Quantum0 THEN {"copy"} ELSE {})
    /\ UNCHANGED <<loaded, scullc_quantum, scullc_qset, opened, work, answers>>

\* A synchronous transfer, or one for which no work item could be allocated, is
\* answered by the return value.
Answer(p) ==
  /\ Up /\ call[p].pc = "answer"
  /\ call' = [call EXCEPT ![p] = Idle]
  /\ answers' = [answers EXCEPT ![p] = @ + 1]
  /\ UNCHANGED <<loaded, scullc_quantum, scullc_qset, dev, objects, opened, work, stale, beyond>>

\* -EIOCBQUEUED: the work item will answer.
Defer_Both(p) ==
  /\ Up /\ call[p].pc = "answer"
  /\ call' = [call EXCEPT ![p] = Idle]
  /\ work' = [work EXCEPT ![p] = "pending"]
  /\ answers' = [answers EXCEPT ![p] = @ + 1]
  /\ UNCHANGED <<loaded, scullc_quantum, scullc_qset, dev, objects, opened, stale, beyond>>

Defer(p) ==
  /\ Up /\ call[p].pc = "answer"
  /\ call' = [call EXCEPT ![p] = Idle]
  /\ work' = [work EXCEPT ![p] = "pending"]
  /\ UNCHANGED <<loaded, scullc_quantum, scullc_qset, dev, objects, opened, answers, stale, beyond>>

-----------------------------------------------------------------------------
(* The delayed work, and the module                                        *)

\* scullc_do_deferred_op: ki_complete
Complete(p) ==
  /\ beyond = {} /\ work[p] = "pending"
  /\ work' = [work EXCEPT ![p] = "free"]
  /\ answers' = [answers EXCEPT ![p] = @ + 1]
  /\ UNCHANGED <<loaded, scullc_quantum, scullc_qset, dev, objects, opened, call, stale, beyond>>

\* scullc_do_deferred_op: kfree(stuff) and return
DeferredEnd(p) ==
  /\ beyond = {} /\ work[p] = "free"
  /\ work' = [work EXCEPT ![p] = "idle"]
  /\ UNCHANGED <<loaded, scullc_quantum, scullc_qset, dev, objects, opened, call, answers, stale, beyond>>

\* An open file pins the module, and so does an iocb that was not answered: it
\* holds its file.
Unload ==
  /\ Up /\ opened = {}
  /\ \A p \in Procs : work[p] = "pending" => answers[p] > 0
  /\ loaded' = FALSE
  /\ Trim(dev)
  /\ UNCHANGED <<scullc_quantum, scullc_qset, opened, call, work, answers, stale>>

Next ==
  \/ \E p \in Procs :
       \/ Open(p) \/ OpenTrim(p) \/ Release(p)
       \/ \E quantum \in Quanta, qset \in Qsets : Ioctl(p, quantum, qset)
       \/ \E op \in {"read", "write"}, pos \in Positions, count \in 1..MaxCount :
            Start(p, op, pos, count)
       \/ Interrupted(p) \/ DoRead(p) \/ DoWrite(p) \/ Answer(p) \/ Defer(p)
       \/ Complete(p) \/ DeferredEnd(p)
  \/ Unload

Spec == Init /\ [][Next]_vars

-----------------------------------------------------------------------------
(* Properties                                                              *)

\* scullc_trim finds every quantum that was allocated, and after the module is gone
\* the cache is empty, as kmem_cache_destroy needs it: unless a transfer used a
\* geometry that a trim had replaced while it waited for the mutex.
NoQuantumLost ==
  ~stale =>
    /\ objects = Pointed(dev.items, dev.qset)
    /\ ~loaded => objects = 0
    /\ "array" \notin beyond

\* A transfer is answered once, by the call or by its work item, and the module is
\* not unloaded while a work item waits, although nothing flushes it.
AnsweredOnce ==
  \A p \in Procs :
    /\ answers[p] <= 1
    /\ work[p] = "pending" => answers[p] = 0 /\ loaded

\* "write only up to the end of this quantum": the copy of a
\* transfer ends inside the object that holds the quantum.
InsideQuantum == "copy" \notin beyond
=============================================================================
