----------------------------- MODULE WaitThread -----------------------------
(***************************************************************************)
(* The drivers with a kernel thread that waits for events that read() and  *)
(* the module's exit function post:                                        *)
(*   "waitqueue"       src/misc/wat_queu_stat.c: a flag and a wait queue;  *)
(*   "waitqueue_dyn"   src/misc/wait_queue_dyn.c: the same, the queue has  *)
(*                     no contents before it is initialised;               *)
(*   "completion"      src/misc/completion_static.c: a flag that says who  *)
(*                     posted, and a completion;                           *)
(*   "completion_dyn"  src/misc/completion_dyn.c: the same, the completion *)
(*                     has no contents before it is initialised;           *)
(*   "noexit"          src/sync/sync_lab4_completion.c: a completion only, *)
(*                     and nothing that ends the thread.                   *)
(*                                                                         *)
(* A step is one access to the flag, the completion or the queue.  All but *)
(* the last name their .owner and so are not removed while a process is in *)
(* read().  Nothing is said after an oops ("broken"), nor of what a thread *)
(* does whose module's memory was freed ("gone").                          *)
(***************************************************************************)
EXTENDS Integers, FiniteSets

CONSTANTS
  Procs,     \* processes that read the device
  Kinds,     \* the drivers considered
  MaxReads   \* bound: number of read() calls

VARIABLES
  kind,        \* the driver that is loaded
  mod,         \* "none", the phases of init up to "loaded", those of exit up to
               \* "gone"; "broken"
  tpc,         \* where wait_function is
  pc,          \* where each process is in read()
  flag,        \* wait_queue_flag, completion_flag
  done,        \* the count of the completion
  reads,       \* read() calls begun
  read_count

vars == <<kind, mod, tpc, pc, flag, done, reads, read_count>>

Init ==
  /\ kind \in Kinds
  /\ mod = "none" /\ tpc = "none"
  /\ pc = [p \in Procs |-> "user"]
  /\ flag = 0 /\ done = 0
  /\ reads = 0 /\ read_count = 0

\* The device is there as soon as init has created it.
Live == mod \in {"device", "create", "started", "loaded"}

\* There is code to run.
Runs == mod \notin {"gone", "broken"}

OnQueue == kind \in {"waitqueue", "waitqueue_dyn"}

\* The queue, or the completion, is still all zeroes.
Unset == \/ kind = "waitqueue_dyn" /\ mod = "device"
         \/ kind = "completion_dyn" /\ mod \in {"device", "started"}

Goto(p, from, to) == pc[p] = from /\ pc' = [pc EXCEPT ![p] = to]

\* A sleeper that is woken evaluates its condition again.
Woken == IF tpc = "sleep" THEN "check" ELSE tpc

-----------------------------------------------------------------------------
(* wait_function                                                           *)

\* wait_event_interruptible(flag != 0), or wait_for_completion, which takes one
\* from the count.
ThreadWait ==
  /\ tpc = "check" /\ Runs /\ ~Unset
  /\ LET posted == IF OnQueue THEN flag # 0 ELSE done > 0
     IN  /\ tpc' = IF posted THEN "test" ELSE "sleep"
         /\ done' = IF posted /\ ~OnQueue THEN done - 1 ELSE done
  /\ UNCHANGED <<kind, mod, pc, flag, reads, read_count>>

\* Who queues on zeroes follows a null pointer.
ThreadOops ==
  /\ tpc = "check" /\ Unset /\ mod' = "broken"
  /\ UNCHANGED <<kind, tpc, pc, flag, done, reads, read_count>>

\* An event from exit ends the thread, any other is counted as a read.
ThreadTest ==
  /\ tpc = "test" /\ Runs
  /\ \/ flag = 2 /\ tpc' = "dead" /\ UNCHANGED read_count
     \/ flag # 2 /\ tpc' = "clear" /\ read_count' = read_count + 1
  /\ UNCHANGED <<kind, mod, pc, flag, done, reads>>

\* The flag is cleared, whatever was written to it since it was tested.
ThreadClear ==
  /\ tpc = "clear" /\ Runs /\ tpc' = "check"
  /\ flag' = 0
  /\ UNCHANGED <<kind, mod, pc, done, reads, read_count>>

-----------------------------------------------------------------------------
(* etx_read, chardrv_read                                                  *)

\* (chardrv_read posts nothing for a read beyond the end; it changes nothing.)
ReadStart(p) ==
  /\ Live
  /\ reads < MaxReads /\ reads' = reads + 1
  /\ Goto(p, "user", IF kind = "noexit" THEN "check" ELSE "flag")
  /\ UNCHANGED <<kind, mod, tpc, flag, done, read_count>>

ReadFlag(p) ==
  /\ Runs /\ Goto(p, "flag", IF OnQueue THEN "post" ELSE "check")
  /\ flag' = 1
  /\ UNCHANGED <<kind, mod, tpc, done, reads, read_count>>

\* if (!completion_done(...)): checked before, not together with, complete.
ReadCheck(p) ==
  /\ Runs /\ Goto(p, "check", IF done = 0 THEN "post" ELSE "user")
  /\ UNCHANGED <<kind, mod, tpc, flag, done, reads, read_count>>

\* wake_up_interruptible, complete
ReadPost(p) ==
  /\ Runs /\ ~Unset /\ Goto(p, "post", "user")
  /\ done' = IF OnQueue THEN done ELSE done + 1
  /\ tpc' = Woken
  /\ UNCHANGED <<kind, mod, flag, reads, read_count>>

ReadOops(p) ==
  /\ pc[p] = "post" /\ Unset /\ mod' = "broken"
  /\ UNCHANGED <<kind, tpc, pc, flag, done, reads, read_count>>

-----------------------------------------------------------------------------
(* etx_driver_init, etx_driver_exit                                        *)

\* The device comes first, in every driver.
Load ==
  /\ mod = "none" /\ mod' = "device"
  /\ UNCHANGED <<kind, tpc, pc, flag, done, reads, read_count>>

\* init_waitqueue_head, in wat_queu_stat.c for the second time
InitQueue ==
  /\ mod = "device" /\ OnQueue /\ mod' = "create"
  /\ UNCHANGED <<kind, tpc, pc, flag, done, reads, read_count>>

\* kthread_create and wake_up_process.  A thread that cannot be created is an error
\* pointer, which passes the test and is woken.
StartThread ==
  /\ mod = IF OnQueue THEN "create" ELSE "device"
  /\ \/ tpc' = "check" /\ mod' = IF kind = "completion_dyn" THEN "started" ELSE "loaded"
     \/ tpc' = tpc /\ mod' = "broken"
  /\ UNCHANGED <<kind, pc, flag, done, reads, read_count>>

\* init_completion, after the thread that waits on it was started
InitCompletion ==
  /\ mod = "started" /\ mod' = "loaded"
  /\ done' = 0
  /\ UNCHANGED <<kind, tpc, pc, flag, reads, read_count>>

Exit ==
  /\ mod = "loaded" /\ mod' = IF kind = "noexit" THEN "posted" ELSE "flag"
  /\ kind # "noexit" => \A p \in Procs : pc[p] = "user"
  /\ UNCHANGED <<kind, tpc, pc, flag, done, reads, read_count>>

ExitFlag ==
  /\ mod = "flag" /\ mod' = IF OnQueue THEN "post" ELSE "check"
  /\ flag' = 2
  /\ UNCHANGED <<kind, tpc, pc, done, reads, read_count>>

ExitCheck ==
  /\ mod = "check" /\ mod' = IF done = 0 THEN "post" ELSE "posted"
  /\ UNCHANGED <<kind, tpc, pc, flag, done, reads, read_count>>

ExitPost_NoWake ==
  /\ mod = "post" /\ mod' = "posted"
  /\ UNCHANGED <<kind, tpc, pc, flag, done, reads, read_count>>

ExitPost ==
  /\ mod = "post" /\ mod' = "posted"
  /\ done' = IF OnQueue THEN done ELSE done + 1
  /\ tpc' = Woken
  /\ UNCHANGED <<kind, pc, flag, reads, read_count>>

\* The device goes and the module is freed: nothing waits for the thread to end.
ExitEnd ==
  /\ mod = "posted" /\ mod' = "gone"
  /\ UNCHANGED <<kind, tpc, pc, flag, done, reads, read_count>>

-----------------------------------------------------------------------------
Thread == ThreadWait \/ ThreadOops \/ ThreadTest \/ ThreadClear
Reading(p) == ReadFlag(p) \/ ReadCheck(p) \/ ReadPost(p) \/ ReadOops(p)
Loading == InitQueue \/ StartThread \/ InitCompletion
Exiting == ExitFlag \/ ExitCheck \/ ExitPost \/ ExitEnd

Next ==
  \/ Load \/ Loading \/ Exit \/ Exiting \/ Thread
  \/ \E p \in Procs : ReadStart(p) \/ Reading(p)

Spec == Init /\ [][Next]_vars

\* The scheduler runs the thread, a read(), an init and an exit function that began.
Fairness ==
  WF_vars(Thread) /\ WF_vars(Loading) /\ WF_vars(Exiting) /\ \A p \in Procs : WF_vars(Reading(p))

FairSpec == Spec /\ Fairness

-----------------------------------------------------------------------------
(* Properties                                                              *)

TypeOK ==
  /\ mod \in {"none", "device", "create", "started", "loaded",
             "flag", "check", "post", "posted", "gone", "broken"}
  /\ tpc \in {"none", "check", "sleep", "test", "clear", "dead"}
  /\ pc \in [Procs -> {"user", "flag", "check", "post"}]
  /\ flag \in 0..2 /\ done \in Nat /\ read_count \in Nat
  /\ reads \in 0..MaxReads

\* completion_done and complete are not one step, so readers that come together
\* can each post; but no more than one each, whatever the thread does.
DoneBounded == Live => done <= Cardinality(Procs)

\* Who sleeps has nothing to wake up for, or its waker is on the way.
WakerComes ==
  tpc = "sleep" =>
    IF OnQueue THEN flag # 0 => mod = "post" \/ \E p \in Procs : pc[p] = "post"
               ELSE done = 0

\* A read is noticed: with a completion one that was posted at any time, with a flag
\* one that set it while the thread waits or is about to.  (A flag set between
\* counting and clearing is overwritten, and that read is never noticed.)
ReadNoticed ==
  (Live /\ IF OnQueue THEN flag = 1 /\ tpc \in {"check", "sleep"} ELSE done > 0)
    ~> (tpc = "test" \/ ~Live)

\* Removing the module wakes a thread that sleeps, and the thread ends if the scheduler
\* runs it before the module's memory is gone.  (One that is between testing and
\* clearing the flag overwrites the 2 and sleeps again.)
IdleThreadEnds ==
  (mod = "flag" /\ tpc = "sleep") ~> (tpc = "dead" \/ (mod = "gone" /\ tpc # "sleep"))
=============================================================================
