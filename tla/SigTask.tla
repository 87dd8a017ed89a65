------------------------------ MODULE SigTask ------------------------------
(***************************************************************************)
(* Drivers through which a process names a task, by its pid, and has a     *)
(* signal sent to it:                                                      *)
(* ioctl/lab3_ioctl_signal.c with the commands SETPID, SETSIG and SENDSIG, *)
(* debug/lab7_proc_sig_solA.c and solB.c with the files `pid' and `signal'.*)
(* sig_pid and sig_tsk are globals without a lock, and sig_tsk is kept     *)
(* without a reference to the task.  A task is its pid and the number of   *)
(* tasks that had the pid before it.  Which signal is sent is left out.    *)
(***************************************************************************)
EXTENDS Integers

CONSTANTS
  Callers,   \* processes that use the driver, which are pids too
  Others,    \* pids of tasks that do not, and that end
  MaxEnds    \* bound: tasks of a pid that end

VARIABLES
  pc,          \* per caller: "user", "task", "send", "default", "deliver"
  ended,       \* per pid: tasks that have ended
  sig_pid, sig_tsk,
  cleared,     \* callers whose task was set to none after they tested it
  oops,        \* callers who have sent to no task
  mixed        \* a pid was set while a call set sig_tsk to its own task

vars == <<pc, ended, sig_pid, sig_tsk, cleared, oops, mixed>>

Pids == Callers \cup Others
NoTask == <<"none", 0>>
NoPid == "none"

Init ==
  /\ pc = [p \in Callers |-> "user"] /\ ended = [p \in Pids |-> 0]
  /\ sig_pid = NoPid /\ sig_tsk = NoTask
  /\ cleared = {} /\ oops = {} /\ mixed = FALSE

-----------------------------------------------------------------------------
\* A task ends, and another gets its pid.
End(p) ==
  /\ ended[p] < MaxEnds /\ ended' = [ended EXCEPT ![p] = @ + 1]
  /\ UNCHANGED <<pc, sig_pid, sig_tsk, cleared, oops, mixed>>

Defaulting == \E q \in Callers : pc[q] = "default"

\* MYIOC_SETPID, a write to `pid'
SetPid(p, pid) ==
  /\ pc[p] = "user" /\ pc' = [pc EXCEPT ![p] = "task"]
  /\ sig_pid' = pid
  /\ mixed' = (mixed \/ Defaulting)
  /\ UNCHANGED <<ended, sig_tsk, cleared, oops>>

\* pid_task(find_vpid(sig_pid)), with sig_pid as it is now; it may name no task.
SetTask(p) ==
  /\ pc[p] = "task" /\ pc' = [pc EXCEPT ![p] = "user"]
  /\ sig_tsk' = IF sig_pid = NoPid THEN NoTask ELSE <<sig_pid, ended[sig_pid]>>
  /\ cleared' = IF sig_tsk' # NoTask THEN cleared
                ELSE cleared \cup {q \in Callers : pc[q] \in {"default", "deliver"}}
  /\ mixed' = (mixed \/ Defaulting)
  /\ UNCHANGED <<ended, sig_pid, oops>>

\* MYIOC_SENDSIG, a write to `signal' (MYIOC_SETSIG sets the number only)
Start(p) ==
  /\ pc[p] = "user" /\ pc' = [pc EXCEPT ![p] = "send"]
  /\ UNCHANGED <<ended, sig_pid, sig_tsk, cleared, oops, mixed>>

\* Without a task the signal goes to the caller, who is remembered.
SendTest(p) ==
  /\ pc[p] = "send"
  /\ IF sig_tsk # NoTask
       THEN pc' = [pc EXCEPT ![p] = "deliver"] /\ UNCHANGED sig_tsk
       ELSE pc' = [pc EXCEPT ![p] = "default"] /\ sig_tsk' = <<p, ended[p]>>
  /\ UNCHANGED <<ended, sig_pid, cleared, oops, mixed>>

SendDefault_NoPid(p) ==
  /\ pc[p] = "default" /\ pc' = [pc EXCEPT ![p] = "deliver"]
  /\ UNCHANGED <<ended, sig_pid, sig_tsk, cleared, oops, mixed>>

SendDefault(p) ==
  /\ pc[p] = "default" /\ pc' = [pc EXCEPT ![p] = "deliver"]
  /\ sig_pid' = p
  /\ UNCHANGED <<ended, sig_tsk, cleared, oops, mixed>>

\* send_sig to what sig_tsk points to now
Send(p) ==
  /\ pc[p] = "deliver" /\ pc' = [pc EXCEPT ![p] = "user"]
  /\ oops' = IF sig_tsk = NoTask THEN oops \cup {p} ELSE oops
  /\ UNCHANGED <<ended, sig_pid, sig_tsk, cleared, mixed>>

Next ==
  \/ \E p \in Others : End(p)
  \/ \E p \in Callers :
       \/ SetTask(p) \/ Start(p) \/ SendTest(p) \/ SendDefault(p) \/ Send(p)
       \/ \E pid \in Others \cup {NoPid} : SetPid(p, pid)

Spec == Init /\ [][Next]_vars

-----------------------------------------------------------------------------
(* Properties                                                              *)

\* The task that signals go to is one of the pid that the driver names, whatever
\* calls interleave between the store of the pid and the search for its task,
\* except after a call that made itself the target while another named one; and a
\* signal is sent to no task only when another call named a pid without one between
\* the test of sig_tsk and its use.
PidNamesTask ==
  /\ ~mixed /\ (\A p \in Callers : pc[p] \notin {"task", "default"}) => sig_tsk[1] = sig_pid
  /\ oops \subseteq cleared
=============================================================================
