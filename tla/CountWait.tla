----------------------------- MODULE CountWait -----------------------------
(***************************************************************************)
(* The character drivers whose read() waits on a counting primitive that   *)
(* write() signals: src/ioctl/lab4_complete.c (a completion),              *)
(* lab4_semaphore.c (a semaphore) and lab4_semaphore_rw.c (a read/write    *)
(* semaphore, taken shared by read() and released shared by write()).      *)
(***************************************************************************)
EXTENDS Integers, FiniteSets

CONSTANTS
  Procs,      \* processes with the device open
  Kinds,      \* the drivers considered: "completion", "semaphore", "rwsem"
  MaxWrites   \* bound: number of write() calls

VARIABLES
  kind,    \* the driver that is loaded
  pc,      \* "user", or "wait" or "write" inside read() or write()
  count,   \* done of the completion, count of the semaphore; readers of the rwsem
  reads,   \* read() calls that got past the wait
  writes   \* write() calls that signalled

vars == <<kind, pc, count, reads, writes>>

\* DECLARE_COMPLETION, DEFINE_SEMAPHORE (a count of 1), DECLARE_RWSEM
Initial == IF kind = "semaphore" THEN 1 ELSE 0

Init ==
  /\ kind \in Kinds
  /\ pc = [p \in Procs |-> "user"]
  /\ count = Initial
  /\ reads = 0 /\ writes = 0

Goto(p, from, to) == pc[p] = from /\ pc' = [pc EXCEPT ![p] = to]

ReadStart(p) ==
  /\ Goto(p, "user", "wait")
  /\ UNCHANGED <<kind, count, reads, writes>>

ReadWait_NoTake(p) ==
  /\ kind # "rwsem"
  /\ count > 0
  /\ Goto(p, "wait", "user")
  /\ reads' = reads + 1
  /\ reads < MaxWrites + 1
  /\ UNCHANGED <<kind, count, writes>>

\* wait_for_completion, down_interruptible: take one, and sleep while there is
\* none; then the data is read.
ReadWait(p) ==
  /\ kind # "rwsem"
  /\ count > 0 /\ count' = count - 1
  /\ Goto(p, "wait", "user")
  /\ reads' = reads + 1
  /\ UNCHANGED <<kind, writes>>

\* down_read: shared, so nothing makes it wait.  (After more up_read than
\* down_read calls the semaphore is misused and it depends on the kernel whether
\* the reader passes; nothing here says that it must.)
ReadShared(p) ==
  /\ kind = "rwsem"
  /\ count < MaxWrites /\ count' = count + 1
  /\ Goto(p, "wait", "user")
  /\ reads' = reads + 1
  /\ UNCHANGED <<kind, writes>>

\* Only the semaphore's wait can be interrupted; read() then returns
\* -ERESTARTSYS and reads nothing.
ReadSignal(p) ==
  /\ kind = "semaphore" /\ count = 0
  /\ Goto(p, "wait", "user")
  /\ UNCHANGED <<kind, count, reads, writes>>

WriteStart(p) ==
  /\ writes + Cardinality({q \in Procs : pc[q] = "write"}) < MaxWrites
  /\ Goto(p, "user", "write")
  /\ UNCHANGED <<kind, count, reads, writes>>

WriteSignal_Once(p) ==
  /\ Goto(p, "write", "user")
  /\ count' = 1
  /\ writes' = writes + 1
  /\ UNCHANGED <<kind, reads>>

\* complete, up; up_read gives back a share, whoever took it.
WriteSignal(p) ==
  /\ Goto(p, "write", "user")
  /\ count' = IF kind = "rwsem" THEN count - 1 ELSE count + 1
  /\ writes' = writes + 1
  /\ UNCHANGED <<kind, reads>>

Inside(p) == ReadWait(p) \/ ReadShared(p) \/ WriteSignal(p)

Next == \E p \in Procs : ReadStart(p) \/ ReadSignal(p) \/ WriteStart(p) \/ Inside(p)

Spec == Init /\ [][Next]_vars

\* The scheduler runs a process that can go on, and the queues of semaphores and
\* completions are first come, first served: a reader is not passed over for
\* ever.
Fairness == \A p \in Procs : SF_vars(ReadWait(p)) /\ WF_vars(WriteSignal(p))

FairSpec == Spec /\ Fairness

-----------------------------------------------------------------------------
(* Properties                                                              *)

TypeOK ==
  /\ pc \in [Procs -> {"user", "wait", "write"}]
  /\ count \in IF kind = "rwsem" THEN Int ELSE Nat
  /\ reads \in Nat /\ writes \in 0..MaxWrites

\* Each signal lets exactly one read() pass and none is lost, also when write()
\* comes before read() or several come together.
\* For the rwsem: the shares taken and not given back.
TokensConserved ==
  IF kind = "rwsem" THEN count = reads - writes
  ELSE count >= 0 /\ reads + count = writes + Initial

\* Completion and semaphore: a write() that signals while readers wait lets them
\* pass, one for each signal.
SignalTaken ==
  (kind # "rwsem" /\ count > 0 /\ \E p \in Procs : pc[p] = "wait")
    ~> (count = 0 \/ \A p \in Procs : pc[p] # "wait")
=============================================================================
