------------------------------- MODULE Timers -------------------------------
(***************************************************************************)
(* The kernel timers of src/timers and src/defer/defer_lab1_timer.c.  A    *)
(* driver is described by what its functions do with its timers; the       *)
(* actions below run any of them.                                          *)
(*                                                                         *)
(* External, from how the code uses it: a timer's function runs on one CPU *)
(* at a time; mod_timer from inside the function makes the timer pending   *)
(* while the function still runs; del_timer removes a pending timer and    *)
(* does not wait; del_timer_sync and hrtimer_cancel do so only when the    *)
(* function does not run; an hrtimer that returns HRTIMER_RESTART is       *)
(* queued again when its function has returned; del_timer_sync never       *)
(* returns from a timer that was not initialised.  Allocations succeed:    *)
(* the code does not test them.                                            *)
(***************************************************************************)
EXTENDS Integers, FiniteSets

CONSTANT MaxTimers   \* bound: timers that exist at a time, at least 2

ASSUME TimersAssumption == MaxTimers \in Nat /\ MaxTimers >= 2

Slots == 1..MaxTimers

\* started, deleted: timers that my_init starts and that the exit function deletes;
\* rearm: how the function restarts its timer; stop: how the exit function gets
\* rid of the timers; frees: who frees what the function uses.
Timer(started, deleted, rearm, stop, frees) ==
  [started |-> started, deleted |-> deleted, rearm |-> rearm, stop |-> stop, frees |-> frees]

lab1_timer               == Timer(0, 1, "no", "sync", "nobody")
lab2_multitimer          == Timer(0, 0, "no", "count", "function")
lab3_periodic_timer      == Timer(1, 1, "mod_timer", "sync", "nobody")
lab4_periodic_timers     == Timer(2, 2, "mod_timer", "sync", "exit")
lab4_periodic_timers_alt == Timer(2, 2, "mod_timer", "delete", "exit")
lab5_hrtimer             == Timer(2, 2, "restart", "sync", "exit")
lab7_hrexamp             == Timer(1, 1, "restart", "sync", "exit")
defer_lab1_timer         == Timer(1, 1, "no", "delete", "exit")

AllDrivers == {lab1_timer, lab2_multitimer, lab3_periodic_timer, lab4_periodic_timers,
               lab4_periodic_timers_alt, lab5_hrtimer, lab7_hrexamp, defer_lab1_timer}

VARIABLES
  driver,    \* the driver that is loaded
  mod,       \* "none", "loaded", "exit", "unloaded", "corrupt"
  next,      \* the timer that the exit function deletes next
  pending,   \* the timers that wait to expire
  fpc,       \* where each timer's function is
  memory,    \* the timers whose data is allocated, or (lab1_timer) initialised
  wpc,       \* the slot of a write() between atomic_inc and add_timer, or 0
  ntimers

vars == <<driver, mod, next, pending, fpc, memory, wpc, ntimers>>

Init ==
  /\ driver \in AllDrivers
  /\ mod = "none" /\ next = 1
  /\ pending = {} /\ memory = {}
  /\ fpc = [t \in Slots |-> "idle"]
  /\ wpc = 0 /\ ntimers = 0

-----------------------------------------------------------------------------
(* The timer functions                                                     *)

Expire(t) ==
  /\ t \in pending /\ fpc[t] = "idle"
  /\ pending' = pending \ {t}
  /\ fpc' = [fpc EXCEPT ![t] = "run"]
  /\ UNCHANGED <<driver, mod, next, memory, wpc, ntimers>>

\* mod_timer from inside the function
Rearm(t) ==
  /\ driver.rearm = "mod_timer"
  /\ fpc[t] = "run" /\ fpc' = [fpc EXCEPT ![t] = "return"]
  /\ pending' = pending \cup {t}
  /\ UNCHANGED <<driver, mod, next, memory, wpc, ntimers>>

\* hrtimer_forward, and HRTIMER_RESTART to the caller
Restart(t) ==
  /\ driver.rearm = "restart"
  /\ fpc[t] = "run" /\ fpc' = [fpc EXCEPT ![t] = "idle"]
  /\ pending' = pending \cup {t}
  /\ UNCHANGED <<driver, mod, next, memory, wpc, ntimers>>

Once_NoDec(t) ==
  /\ driver.rearm = "no"
  /\ fpc[t] = "run" /\ fpc' = [fpc EXCEPT ![t] = "return"]
  /\ memory' = IF driver.frees = "function" THEN memory \ {t} ELSE memory
  /\ UNCHANGED <<driver, mod, next, pending, wpc, ntimers>>

\* A function that prints, and frees its timer and its data if they are its own.
Once(t) ==
  /\ driver.rearm = "no"
  /\ fpc[t] = "run"
  /\ IF driver.frees = "function"
       THEN fpc' = [fpc EXCEPT ![t] = "dec"] /\ memory' = memory \ {t}
       ELSE fpc' = [fpc EXCEPT ![t] = "return"] /\ UNCHANGED memory
  /\ UNCHANGED <<driver, mod, next, pending, wpc, ntimers>>

\* atomic_dec(&ntimers)
Dec(t) ==
  /\ fpc[t] = "dec" /\ fpc' = [fpc EXCEPT ![t] = "return"]
  /\ ntimers' = ntimers - 1
  /\ UNCHANGED <<driver, mod, next, pending, memory, wpc>>

Return(t) ==
  /\ fpc[t] = "return" /\ fpc' = [fpc EXCEPT ![t] = "idle"]
  /\ UNCHANGED <<driver, mod, next, pending, memory, wpc, ntimers>>

Function(t) == Expire(t) \/ Rearm(t) \/ Restart(t) \/ Once(t) \/ Dec(t) \/ Return(t)

-----------------------------------------------------------------------------
(* mycdrv_write of lab2_multitimer                                         *)

Unused == {t \in Slots : t \notin memory /\ t \notin pending /\ fpc[t] = "idle"}

WriteInc_Late ==
  /\ driver.stop = "count" /\ mod = "loaded" /\ wpc = 0
  /\ wpc' \in Unused
  /\ memory' = memory \cup {wpc'}
  /\ UNCHANGED <<driver, mod, next, pending, fpc, ntimers>>

\* atomic_inc(&ntimers) and the two kmalloc
WriteInc ==
  /\ driver.stop = "count" /\ mod = "loaded" /\ wpc = 0
  /\ wpc' \in Unused
  /\ memory' = memory \cup {wpc'}
  /\ ntimers' = ntimers + 1
  /\ UNCHANGED <<driver, mod, next, pending, fpc>>

WriteAdd ==
  /\ wpc # 0 /\ wpc' = 0
  /\ pending' = pending \cup {wpc}
  /\ UNCHANGED <<driver, mod, next, fpc, memory, ntimers>>

-----------------------------------------------------------------------------
(* mycdrv_write of lab1_timer, which has one timer for all writers         *)

\* init_timer forgets where the timer is: one that is pending stays in the lists of
\* the kernel, which are corrupt from here on, and a function that runs is no longer
\* known as the timer's (slot 2 stands for it).
WriteReinit ==
  /\ driver = lab1_timer /\ mod = "loaded"
  /\ fpc[1] # "idle" => fpc[2] = "idle"
  /\ memory' = memory \cup {1} /\ pending' = pending \cup {1}
  /\ mod' = IF 1 \in pending THEN "corrupt" ELSE mod
  /\ fpc' = IF fpc[1] = "idle" THEN fpc ELSE [fpc EXCEPT ![1] = "idle", ![2] = fpc[1]]
  /\ UNCHANGED <<driver, next, wpc, ntimers>>

-----------------------------------------------------------------------------
(* my_init and my_exit                                                     *)

Load ==
  /\ mod = "none" /\ mod' = "loaded"
  /\ pending' = 1..driver.started
  /\ memory' = 1..driver.started
  /\ UNCHANGED <<driver, next, fpc, wpc, ntimers>>

\* The file of a write() pins the module.
ExitStart ==
  /\ mod = "loaded" /\ mod' = "exit"
  /\ wpc = 0
  /\ UNCHANGED <<driver, next, pending, fpc, memory, wpc, ntimers>>

ExitDelete_NoWait ==
  /\ mod = "exit" /\ next <= driver.deleted /\ next' = next + 1
  /\ pending' = pending \ {next}
  /\ UNCHANGED <<driver, mod, fpc, memory, wpc, ntimers>>

\* del_timer, del_timer_sync and hrtimer_cancel
ExitDelete ==
  /\ mod = "exit" /\ next <= driver.deleted /\ next' = next + 1
  /\ driver.stop = "sync" => next \in memory /\ fpc[next] = "idle"
  /\ pending' = pending \ {next}
  /\ UNCHANGED <<driver, mod, fpc, memory, wpc, ntimers>>

\* The wait for ntimers to become 0, the kfree, and the module is gone.
ExitEnd ==
  /\ mod = "exit" /\ next > driver.deleted /\ mod' = "unloaded"
  /\ driver.stop = "count" => ntimers = 0
  /\ memory' = IF driver.frees = "exit" THEN {} ELSE memory
  /\ UNCHANGED <<driver, next, pending, fpc, wpc, ntimers>>

Next ==
  \/ mod # "corrupt" /\ \E t \in Slots : Function(t)
  \/ WriteInc \/ WriteAdd \/ WriteReinit
  \/ Load \/ ExitStart \/ ExitDelete \/ ExitEnd

Spec == Init /\ [][Next]_vars

\* A pending timer expires, a function that runs returns, rmmod goes on.
\* del_timer_sync spins for a moment at which the function does not run; the
\* period of a timer, seconds, gives it that moment again and again.
Fairness ==
  /\ \A t \in Slots : WF_vars(mod # "corrupt" /\ Function(t))
  /\ WF_vars(WriteAdd) /\ WF_vars(ExitEnd) /\ SF_vars(ExitDelete)

FairSpec == Spec /\ Fairness

-----------------------------------------------------------------------------
(* Properties                                                              *)

TypeOK ==
  /\ driver \in AllDrivers
  /\ mod \in {"none", "loaded", "exit", "unloaded", "corrupt"}
  /\ next \in 1..3
  /\ pending \subseteq Slots /\ memory \subseteq Slots
  /\ fpc \in [Slots -> {"idle", "run", "dec", "return"}]
  /\ wpc \in 0..MaxTimers
  /\ ntimers \in 0..MaxTimers

Running == {t \in Slots : fpc[t] # "idle"}

\* my_exit of the drivers that delete synchronously, or wait until ntimers is zero:
\* when the module and its data are gone no timer is pending and no function uses
\* them, although functions start their timers again and a write() announces its
\* timer before it adds it.  The function that lab1_timer has lost sight of may
\* still run, and so may the last instructions of one that has counted itself out.
QuietAfterUnload ==
  mod = "unloaded" =>
    /\ driver.stop \in {"sync", "count"} => pending = {}
    /\ driver.stop = "sync" /\ driver # lab1_timer => Running = {}
    /\ driver.stop = "count" => \A t \in Running : fpc[t] = "return"

\* my_exit returns: the timers it waits for or deletes cannot hold it up for ever,
\* unless lab1_timer is unloaded before the first write() initialised its timer.
UnloadEnds == (mod = "exit" /\ (driver = lab1_timer => 1 \in memory)) ~> (mod = "unloaded")
=============================================================================
