------------------------------ MODULE OneThread ------------------------------
(***************************************************************************)
(* A shared interrupt whose bottom half is a kernel thread:                *)
(* src/interrupts/lab4_one_thread.c ("lab4") and                  *)
(* src/interrupts/lab5_one_thread_improved.c ("lab5"), with        *)
(* my_generic_init and my_generic_exit of lab_one_interrupt.h.             *)
(*                                                                         *)
(* The handler (one instance at a time per line) and the thread run on     *)
(* different CPUs; a step is one atomic operation.                         *)
(***************************************************************************)
EXTENDS Integers

CONSTANTS
  Drivers,   \* the solutions considered
  MaxInts    \* bound: number of interrupts raised

ASSUME OneThreadAssumption == Drivers \subseteq {"lab4", "lab5"} /\ MaxInts \in Nat

VARIABLES
  driver,       \* the solution that is loaded
  mod,          \* where the module loader is in my_init / my_exit
  irq_on,       \* my_interrupt is registered
  hpc,          \* where my_interrupt is
  tpc,          \* where thr_fun is
  should_stop,  \* kthread_should_stop()
  cond,
  nevents,      \* stays 0 in the lab4 solution, which has no such counter
  catchup,
  counter_th,
  counter_bh

vars == <<driver, mod, irq_on, hpc, tpc, should_stop, cond, nevents, catchup,
          counter_th, counter_bh>>

\* The improved solution.
CatchUp == driver = "lab5"

HandlerPC == {"idle", "th", "cond", "wake"}
ThreadPC == {"none", "reset", "check", "sleep", "woken", "bh", "dec", "loop", "dead"}
ModPC == {"none", "irq", "loaded", "failed", "stop", "join", "free", "unloaded", "oops"}

Init ==
  /\ driver \in Drivers
  /\ mod = "none"
  /\ irq_on = FALSE
  /\ hpc = "idle" /\ tpc = "none"
  /\ should_stop = FALSE
  /\ cond = 0
  /\ nevents = 0 /\ catchup = 0
  /\ counter_th = 0 /\ counter_bh = 0

-----------------------------------------------------------------------------
(* Wait queue primitives                                                   *)

\* wake_up_interruptible: a sleeper re-evaluates its condition.
Woken == IF tpc = "sleep" THEN "check" ELSE tpc

-----------------------------------------------------------------------------
(* my_interrupt                                                            *)

Interrupt ==
  /\ irq_on /\ hpc = "idle"
  /\ counter_th < MaxInts
  /\ IF CatchUp
       THEN nevents' = nevents + 1 /\ hpc' = "th" /\ UNCHANGED counter_th
       ELSE counter_th' = counter_th + 1 /\ hpc' = "cond" /\ UNCHANGED nevents
  /\ UNCHANGED <<driver, mod, irq_on, tpc, should_stop, cond, catchup, counter_bh>>

InterruptCount ==
  /\ hpc = "th" /\ hpc' = "cond"
  /\ counter_th' = counter_th + 1
  /\ UNCHANGED <<driver, mod, irq_on, tpc, should_stop, cond, nevents, catchup, counter_bh>>

InterruptCond ==
  /\ hpc = "cond" /\ hpc' = "wake"
  /\ cond' = 1
  /\ UNCHANGED <<driver, mod, irq_on, tpc, should_stop, nevents, catchup, counter_th, counter_bh>>

InterruptWake ==
  /\ hpc = "wake" /\ hpc' = "idle"
  /\ tpc' = Woken
  /\ UNCHANGED <<driver, mod, irq_on, should_stop, cond, nevents, catchup, counter_th, counter_bh>>

-----------------------------------------------------------------------------
(* thr_fun                                                                 *)

ThreadReset_KeepCond ==
  /\ tpc = "reset" /\ tpc' = "check"
  /\ UNCHANGED <<driver, mod, irq_on, hpc, should_stop, cond, nevents, catchup, counter_th, counter_bh>>

ThreadReset ==
  /\ tpc = "reset" /\ tpc' = "check"
  /\ cond' = 0
  /\ UNCHANGED <<driver, mod, irq_on, hpc, should_stop, nevents, catchup, counter_th, counter_bh>>

\* wait_event_interruptible enqueues the thread before it evaluates the
\* condition, so checking and falling asleep are one step.
ThreadCheck ==
  /\ tpc = "check"
  /\ tpc' = IF should_stop \/ cond = 1 THEN "woken" ELSE "sleep"
  /\ UNCHANGED <<driver, mod, irq_on, hpc, should_stop, cond, nevents, catchup, counter_th, counter_bh>>

\* lab4: one event per wakeup.
ThreadWoken ==
  /\ ~CatchUp
  /\ tpc = "woken" /\ tpc' = "loop"
  /\ counter_bh' = IF cond = 1 THEN counter_bh + 1 ELSE counter_bh
  /\ UNCHANGED <<driver, mod, irq_on, hpc, should_stop, cond, nevents, catchup, counter_th>>

ThreadWokenCatchUp_NoSpuriousCheck ==
  /\ CatchUp
  /\ tpc = "woken" /\ tpc' = IF should_stop THEN "dead" ELSE "bh"
  /\ UNCHANGED <<driver, mod, irq_on, hpc, should_stop, cond, nevents, catchup, counter_th, counter_bh>>

\* lab5: leave when told to stop, go back on a spurious wakeup, otherwise
\* consume events ...
ThreadWokenCatchUp ==
  /\ CatchUp
  /\ tpc = "woken"
  /\ tpc' = IF should_stop THEN "dead" ELSE IF nevents <= 0 THEN "loop" ELSE "bh"
  /\ UNCHANGED <<driver, mod, irq_on, hpc, should_stop, cond, nevents, catchup, counter_th, counter_bh>>

ThreadBh ==
  /\ tpc = "bh" /\ tpc' = "dec"
  /\ counter_bh' = counter_bh + 1
  /\ UNCHANGED <<driver, mod, irq_on, hpc, should_stop, cond, nevents, catchup, counter_th>>

ThreadDec_Reset ==
  /\ tpc = "dec" /\ tpc' = "loop"
  /\ nevents' = 0
  /\ UNCHANGED <<driver, mod, irq_on, hpc, should_stop, cond, catchup, counter_th, counter_bh>>

\* ... until atomic_dec_and_test finds none left.
ThreadDec ==
  /\ tpc = "dec"
  /\ nevents' = nevents - 1
  /\ IF nevents' = 0
       THEN tpc' = "loop" /\ UNCHANGED catchup
       ELSE tpc' = "bh" /\ catchup' = catchup + 1
  /\ UNCHANGED <<driver, mod, irq_on, hpc, should_stop, cond, counter_th, counter_bh>>

ThreadLoop ==
  /\ tpc = "loop"
  /\ tpc' = IF should_stop THEN "dead" ELSE "reset"
  /\ UNCHANGED <<driver, mod, irq_on, hpc, should_stop, cond, nevents, catchup, counter_th, counter_bh>>

-----------------------------------------------------------------------------
(* my_init and my_exit                                                     *)

\* kthread_run: the thread may run before my_generic_init is called.  When the
\* thread cannot be created the result is an ERR_PTR, which the test for NULL
\* lets pass, and the load goes on without a thread.
InitThread ==
  /\ mod = "none" /\ mod' = "irq"
  /\ cond' = 1 /\ nevents' = 0 /\ catchup' = 0
  /\ tpc' \in {"reset", "none"}
  /\ UNCHANGED <<driver, irq_on, hpc, should_stop, counter_th, counter_bh>>

\* my_generic_init: a line that cannot be shared fails the load, and my_init
\* returns that failure without stopping the thread.
InitIrq ==
  /\ mod = "irq"
  /\ counter_bh' = 0 /\ counter_th' = 0
  /\ \/ mod' = "loaded" /\ irq_on' = TRUE
     \/ mod' = "failed" /\ UNCHANGED irq_on
  /\ UNCHANGED <<driver, hpc, tpc, should_stop, cond, nevents, catchup>>

Exit ==
  /\ mod = "loaded" /\ mod' = "stop"
  /\ UNCHANGED <<driver, irq_on, hpc, tpc, should_stop, cond, nevents, catchup, counter_th, counter_bh>>

ExitStop_NoWake ==
  /\ mod = "stop" /\ mod' = "join"
  /\ should_stop' = TRUE
  /\ UNCHANGED <<driver, irq_on, hpc, tpc, cond, nevents, catchup, counter_th, counter_bh>>

\* kthread_stop sets the flag, wakes the thread ... (on an ERR_PTR it faults)
ExitStop ==
  /\ mod = "stop"
  /\ mod' = IF tpc = "none" THEN "oops" ELSE "join"
  /\ should_stop' = TRUE
  /\ tpc' = Woken
  /\ UNCHANGED <<driver, irq_on, hpc, cond, nevents, catchup, counter_th, counter_bh>>

\* ... and waits for it to return.
ExitJoin ==
  /\ mod = "join" /\ mod' = "free"
  /\ tpc = "dead"
  /\ UNCHANGED <<driver, irq_on, hpc, tpc, should_stop, cond, nevents, catchup, counter_th, counter_bh>>

\* my_generic_exit: synchronize_irq and free_irq wait for a running handler.
ExitFree ==
  /\ mod = "free" /\ mod' = "unloaded"
  /\ hpc = "idle"
  /\ irq_on' = FALSE
  /\ UNCHANGED <<driver, hpc, tpc, should_stop, cond, nevents, catchup, counter_th, counter_bh>>

-----------------------------------------------------------------------------
Handler == InterruptCount \/ InterruptCond \/ InterruptWake

Thread == \/ ThreadReset \/ ThreadCheck \/ ThreadWoken \/ ThreadWokenCatchUp
          \/ ThreadBh \/ ThreadDec \/ ThreadLoop

Loader == InitIrq \/ ExitStop \/ ExitJoin \/ ExitFree

Next == Interrupt \/ Handler \/ Thread \/ InitThread \/ Loader \/ Exit

Spec == Init /\ [][Next]_vars

\* The scheduler runs a runnable thread, a started handler and a started
\* init_module or delete_module call; nobody has to raise an interrupt, or to
\* load or unload the module.
Fairness == WF_vars(Handler) /\ WF_vars(Thread) /\ WF_vars(Loader)

FairSpec == Spec /\ Fairness

-----------------------------------------------------------------------------
(* Properties                                                              *)

TypeOK ==
  /\ driver \in Drivers
  /\ mod \in ModPC
  /\ irq_on \in BOOLEAN
  /\ hpc \in HandlerPC /\ tpc \in ThreadPC
  /\ should_stop \in BOOLEAN
  /\ cond \in {0, 1}
  /\ nevents \in Nat /\ catchup \in Nat
  /\ counter_th \in Nat /\ counter_bh \in Nat

\* Events raised so far: the improved handler publishes the event (nevents)
\* before it counts it.
Raised == IF hpc = "th" THEN counter_th + 1 ELSE counter_th

\* Events taken by the thread that nevents does not show yet.
InHand == IF tpc = "dec" THEN 1 ELSE 0

\* lab5: every interrupt is either still in nevents or has been counted by the
\* bottom half once, whatever the handler and the thread interleave; so nevents
\* never goes negative and atomic_dec_and_test always reaches zero.
EventsConserved ==
  CatchUp => /\ counter_bh + nevents = Raised + InHand
             /\ (tpc \in {"bh", "dec"} => nevents > 0)

\* Both solutions: a bottom half is never counted without its top half.  For
\* lab4 this rests on thr_fun clearing cond before it waits for it again.
BH == INSTANCE BottomHalf WITH raised <- Raised, handled <- counter_bh
ImplementsBottomHalf == BH!Spec

\* kthread_stop cannot hang: unloading a module that has its thread ends, also
\* when the thread sleeps, because the wait condition includes should_stop.
UnloadCompletes == (mod = "stop" /\ tpc # "none") ~> mod = "unloaded"

\* lab5's "a bottom half that can catch up ... cleaning up the pending queue":
\* a pending event is handled without waiting for another interrupt.
PendingHandled == (nevents > 0 /\ mod = "loaded") ~> (nevents = 0 \/ mod # "loaded")
=============================================================================
