-------------------------------- MODULE Jiq --------------------------------
(***************************************************************************)
(* src/timers/lab8_jiq.c: four /proc files whose read has a work item, a   *)
(* delayed work item, a tasklet or a timer print into its buffer until it  *)
(* is full, and sleeps meanwhile on jiq_wait.  All readers and all items   *)
(* share jiq_data.  Lengths are counted in lines; the header is one.       *)
(*                                                                         *)
(* External: an item is queued at most once and its function does not run  *)
(* twice at a time; a process that is woken between prepare_to_wait and    *)
(* schedule does not sleep, and one woken before it entered the queue does;*)
(* setting up or adding a timer that is pending corrupts the timer list,   *)
(* after which nothing is said.                                            *)
(***************************************************************************)
EXTENDS Integers

CONSTANTS
  Readers,    \* processes that read the files
  LIMIT,      \* lines after which nothing more is printed
  MaxReads    \* bound: number of reads

Files == {"jiqwq", "jiqwqdelay", "jiqtasklet", "jitimer"}

VARIABLES
  pc, file,   \* where each reader is, and in which file
  awake,      \* the readers that a wakeup reached since they entered jiq_wait
  len,        \* jiq_data.len
  queued,     \* the items that are queued
  ipc,        \* where each item's function is
  adds,       \* lines that each running jiq_print is about to add
  list,       \* the timer list: "sound" or "corrupt"
  reads

vars == <<pc, file, awake, len, queued, ipc, adds, list, reads>>

Init ==
  /\ pc = [r \in Readers |-> "idle"] /\ file \in [Readers -> {"jiqwq"}]
  /\ awake = {} /\ queued = {}
  /\ len = 0 /\ reads = 0 /\ list = "sound"
  /\ ipc = [f \in Files |-> "idle"] /\ adds = [f \in Files |-> 0]

Goto(r, from, to) == pc[r] = from /\ pc' = [pc EXCEPT ![r] = to]

\* init_timer or add_timer, when f is the file of jiq_timer
TouchTimer(f) == list' = IF f = "jitimer" /\ f \in queued THEN "corrupt" ELSE list

\* wake_up_interruptible(&jiq_wait)
Wake == awake' = awake \cup {r \in Readers : pc[r] \in {"submit", "sleep"}}

-----------------------------------------------------------------------------
(* jiq_read_wq, jiq_read_wq_delayed, jiq_read_tasklet, jiq_read_run_timer  *)

\* What jiq_print adds: a line, and the header before the first one.
Lines == IF len = 0 THEN 2 ELSE 1

Prepares_Never(f) == FALSE

\* The readers that enter jiq_wait before they submit their item.
Prepares(f) == f \in {"jiqwq", "jiqwqdelay"}

\* jiq_data is set up for this read, and so is jiq_timer.
ReadStart(r, f) ==
  /\ reads < MaxReads /\ reads' = reads + 1
  /\ Goto(r, "idle", CASE Prepares(f) -> "prepare"
                       [] f = "jitimer" -> "print"
                       [] OTHER -> "schedule")
  /\ file' = [file EXCEPT ![r] = f]
  /\ len' = 0 /\ TouchTimer(f)
  /\ UNCHANGED <<awake, queued, ipc, adds>>

\* prepare_to_wait
ReadPrepare(r) ==
  /\ Goto(r, "prepare", "submit")
  /\ awake' = awake \ {r}
  /\ UNCHANGED <<file, len, queued, ipc, adds, list, reads>>

\* schedule_work, schedule_delayed_work
ReadSubmit(r) ==
  /\ Goto(r, "submit", "sleep")
  /\ queued' = queued \cup {file[r]}
  /\ UNCHANGED <<file, awake, len, ipc, adds, list, reads>>

\* The reader of jitimer prints the first line itself.
ReadPrint(r) ==
  /\ Goto(r, "print", "schedule")
  /\ IF len > LIMIT THEN Wake /\ UNCHANGED len
                    ELSE len' = len + Lines /\ UNCHANGED awake
  /\ UNCHANGED <<file, queued, ipc, adds, list, reads>>

\* tasklet_schedule, add_timer: the reader is not yet on jiq_wait
ReadSchedule(r) ==
  /\ Goto(r, "schedule", "sleep_on")
  /\ queued' = queued \cup {file[r]} /\ TouchTimer(file[r])
  /\ UNCHANGED <<file, awake, len, ipc, adds, reads>>

\* interruptible_sleep_on
ReadSleepOn(r) ==
  /\ Goto(r, "sleep_on", "sleep")
  /\ awake' = awake \ {r}
  /\ UNCHANGED <<file, len, queued, ipc, adds, list, reads>>

\* schedule returns after a wakeup or a signal.
ReadWoken(r) ==
  /\ r \in awake /\ Goto(r, "sleep", "finish")
  /\ UNCHANGED <<file, awake, len, queued, ipc, adds, list, reads>>

ReadSignal(r) ==
  /\ Goto(r, "sleep", "finish")
  /\ UNCHANGED <<file, awake, len, queued, ipc, adds, list, reads>>

\* finish_wait, or del_timer_sync "in case a signal woke us up"
ReadFinish(r) ==
  /\ Goto(r, "finish", "idle")
  /\ IF file[r] = "jitimer"
       THEN ipc["jitimer"] = "idle" /\ queued' = queued \ {"jitimer"}
       ELSE UNCHANGED queued
  /\ UNCHANGED <<file, awake, len, ipc, adds, list, reads>>

Reader(r) ==
  /\ list = "sound"
  /\ \/ ReadPrepare(r) \/ ReadSubmit(r) \/ ReadPrint(r) \/ ReadSchedule(r)
     \/ ReadSleepOn(r) \/ ReadWoken(r) \/ ReadFinish(r)

-----------------------------------------------------------------------------
(* jiq_print_wq, jiq_print_wq_delayed, jiq_print_tasklet, jiq_timedout     *)

ItemStart(f) ==
  /\ f \in queued /\ ipc[f] = "idle"
  /\ queued' = queued \ {f} /\ ipc' = [ipc EXCEPT ![f] = "print"]
  /\ UNCHANGED <<pc, file, awake, len, adds, list, reads>>

\* jiq_print up to the formatting: full, or so many lines to add
PrintTest(f) ==
  /\ ipc[f] = "print"
  /\ IF len > LIMIT
       THEN Wake /\ ipc' = [ipc EXCEPT ![f] = "idle"] /\ UNCHANGED adds
       ELSE /\ ipc' = [ipc EXCEPT ![f] = "add"]
            /\ adds' = [adds EXCEPT ![f] = Lines]
            /\ UNCHANGED awake
  /\ UNCHANGED <<pc, file, len, queued, list, reads>>

\* data->len += len, and the item is queued again or the timer wakes the reader.
PrintAdd(f) ==
  /\ ipc[f] = "add" /\ ipc' = [ipc EXCEPT ![f] = "idle"]
  /\ len' = len + adds[f]
  /\ adds' = [adds EXCEPT ![f] = 0]
  /\ IF f = "jitimer" THEN Wake /\ UNCHANGED queued
                      ELSE queued' = queued \cup {f} /\ UNCHANGED awake
  /\ UNCHANGED <<pc, file, list, reads>>

Item(f) == list = "sound" /\ (ItemStart(f) \/ PrintTest(f) \/ PrintAdd(f))

Next ==
  \/ \E r \in Readers : \/ Reader(r)
                        \/ list = "sound" /\ (ReadSignal(r) \/ \E f \in Files : ReadStart(r, f))
  \/ \E f \in Files : Item(f)

Spec == Init /\ [][Next]_vars

\* The queues run what is queued and a process that can run does; nothing is
\* assumed of signals or of new reads.
Fairness ==
  /\ \A r \in Readers : WF_vars(Reader(r))
  /\ \A f \in Files : WF_vars(Item(f))

FairSpec == Spec /\ Fairness

-----------------------------------------------------------------------------
(* Properties                                                              *)

TypeOK ==
  /\ pc \in [Readers -> {"idle", "prepare", "submit", "print",
                          "schedule", "sleep_on", "sleep", "finish"}]
  /\ file \in [Readers -> Files]
  /\ awake \subseteq Readers /\ queued \subseteq Files
  /\ len \in Nat /\ reads \in 0..MaxReads
  /\ ipc \in [Files -> {"idle", "print", "add"}]
  /\ adds \in [Files -> 0..2] /\ list \in {"sound", "corrupt"}

\* jiq_read_wq and jiq_read_wq_delayed enter jiq_wait before they submit the
\* item, so however the items and the other readers run each of them returns,
\* unless two readers of jitimer spoil the timer list.
WorkReaderReturns ==
  \A r \in Readers :
    (pc[r] = "sleep" /\ file[r] \in {"jiqwq", "jiqwqdelay"})
      ~> (pc[r] = "idle" \/ list = "corrupt")
=============================================================================
