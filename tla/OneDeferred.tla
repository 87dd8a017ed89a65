----------------------------- MODULE OneDeferred -----------------------------
(***************************************************************************)
(* A shared interrupt whose bottom half is a tasklet or a work item, with  *)
(* my_generic_init and my_generic_exit of lab_one_interrupt.h:             *)
(*   "static"   one item, one event per run: lab4_one_tasklet.c and        *)
(*              lab4_one_workqueue.c;                                      *)
(*   "catchup"  one item that consumes all events:                         *)
(*              lab5_one_tasklet_improved.c;                               *)
(*   "dynamic"  an item allocated per interrupt:                           *)
(*              lab4_one_tasklet_dynamic.c, lab5_one_workqueue_dynamic.c.  *)
(*                                                                         *)
(* An item is queued at most once (scheduling a pending item does nothing) *)
(* and stops being pending before its function starts; one item's function *)
(* does not run twice at a time, different items' may.                     *)
(***************************************************************************)
EXTENDS Integers

CONSTANTS
  Drivers,   \* the solutions considered
  MaxInts    \* bound: number of interrupts raised

VARIABLES
  driver,      \* the solution that is loaded
  mod,         \* "none", "loaded", "failed", "exit", "unloaded"
  hpc,         \* where my_interrupt is
  pending,     \* number of queued items
  active,      \* number of item functions started and not yet counted
  bpc,         \* where the catching-up t_fun is
  nevents, catchup, counter_th, counter_bh

vars == <<driver, mod, hpc, pending, active, bpc, nevents, catchup, counter_th, counter_bh>>

Init ==
  /\ driver \in Drivers
  /\ mod = "none" /\ hpc = "idle" /\ bpc = "idle"
  /\ pending = 0 /\ active = 0
  /\ nevents = 0 /\ catchup = 0 /\ counter_th = 0 /\ counter_bh = 0

-----------------------------------------------------------------------------
(* my_interrupt                                                            *)

Interrupt ==
  /\ mod \in {"loaded", "exit"}
  /\ hpc = "idle" /\ hpc' = IF driver = "catchup" THEN "nevents" ELSE "schedule"
  /\ counter_th < MaxInts /\ counter_th' = counter_th + 1
  /\ UNCHANGED <<driver, mod, pending, active, bpc, nevents, catchup, counter_bh>>

InterruptEvent ==
  /\ hpc = "nevents" /\ hpc' = "schedule"
  /\ nevents' = nevents + 1
  /\ UNCHANGED <<driver, mod, pending, active, bpc, catchup, counter_th, counter_bh>>

InterruptSchedule_Twice ==
  /\ hpc = "schedule" /\ hpc' \in {"idle", "schedule"}
  /\ pending' = IF driver = "dynamic" THEN pending + 1 ELSE 1
  /\ UNCHANGED <<driver, mod, active, bpc, nevents, catchup, counter_th, counter_bh>>

\* tasklet_schedule, schedule_work
InterruptSchedule ==
  /\ hpc = "schedule" /\ hpc' = "idle"
  /\ pending' = IF driver = "dynamic" THEN pending + 1 ELSE 1
  /\ UNCHANGED <<driver, mod, active, bpc, nevents, catchup, counter_th, counter_bh>>

-----------------------------------------------------------------------------
(* t_fun, w_fun                                                            *)

\* The kernel takes an item off the queue and calls its function.
Start ==
  /\ pending > 0 /\ pending' = pending - 1
  /\ \/ driver = "dynamic" /\ active' = active + 1 /\ UNCHANGED bpc
     \/ driver = "static" /\ active = 0 /\ active' = 1 /\ UNCHANGED bpc
     \/ driver = "catchup" /\ bpc = "idle" /\ bpc' = "run" /\ UNCHANGED active
  /\ UNCHANGED <<driver, mod, hpc, nevents, catchup, counter_th, counter_bh>>

\* One event is counted; a dynamic item is freed.
Count ==
  /\ active > 0 /\ active' = active - 1
  /\ counter_bh' = counter_bh + 1
  /\ UNCHANGED <<driver, mod, hpc, pending, bpc, nevents, catchup, counter_th>>

RunCheck_NoCheck ==
  /\ bpc = "run" /\ bpc' = "bh"
  /\ UNCHANGED <<driver, mod, hpc, pending, active, nevents, catchup, counter_th, counter_bh>>

\* "did we get a spurious interrupt, or was it queued too late?"
RunCheck ==
  /\ bpc = "run" /\ bpc' = IF nevents <= 0 THEN "idle" ELSE "bh"
  /\ UNCHANGED <<driver, mod, hpc, pending, active, nevents, catchup, counter_th, counter_bh>>

RunBh ==
  /\ bpc = "bh" /\ bpc' = "dec"
  /\ counter_bh' = counter_bh + 1
  /\ UNCHANGED <<driver, mod, hpc, pending, active, nevents, catchup, counter_th>>

RunDec_Once ==
  /\ bpc = "dec" /\ bpc' = "idle"
  /\ nevents' = nevents - 1
  /\ UNCHANGED <<driver, mod, hpc, pending, active, catchup, counter_th, counter_bh>>

RunDec ==
  /\ bpc = "dec"
  /\ nevents' = nevents - 1
  /\ IF nevents' = 0
       THEN bpc' = "idle" /\ UNCHANGED catchup
       ELSE bpc' = "bh" /\ catchup' = catchup + 1
  /\ UNCHANGED <<driver, mod, hpc, pending, active, counter_th, counter_bh>>

-----------------------------------------------------------------------------
(* my_init, my_generic_init, my_generic_exit                               *)

Load ==
  /\ mod = "none" /\ mod' \in {"loaded", "failed"}
  /\ nevents' = 0 /\ catchup' = 0 /\ counter_th' = 0 /\ counter_bh' = 0
  /\ UNCHANGED <<driver, hpc, pending, active, bpc>>

Exit ==
  /\ mod = "loaded" /\ mod' = "exit"
  /\ UNCHANGED <<driver, hpc, pending, active, bpc, nevents, catchup, counter_th, counter_bh>>

\* free_irq waits for the handler; nothing waits for a queued item.
ExitFree ==
  /\ mod = "exit" /\ mod' = "unloaded"
  /\ hpc = "idle"
  /\ UNCHANGED <<driver, hpc, pending, active, bpc, nevents, catchup, counter_th, counter_bh>>

-----------------------------------------------------------------------------
Handler == InterruptEvent \/ InterruptSchedule
Item == Start \/ Count \/ RunCheck \/ RunBh \/ RunDec

Next == Interrupt \/ Handler \/ Item \/ Load \/ Exit \/ ExitFree

Spec == Init /\ [][Next]_vars

\* A handler that entered returns, and softirqs and workers run queued items.
Fairness == WF_vars(Handler) /\ WF_vars(Item)

FairSpec == Spec /\ Fairness

-----------------------------------------------------------------------------
(* Properties                                                              *)

TypeOK ==
  /\ driver \in Drivers
  /\ mod \in {"none", "loaded", "failed", "exit", "unloaded"}
  /\ hpc \in {"idle", "nevents", "schedule"}
  /\ bpc \in {"idle", "run", "bh", "dec"}
  /\ pending \in Nat /\ active \in Nat /\ catchup \in Nat
  /\ nevents \in Nat /\ counter_th \in Nat /\ counter_bh \in Nat

InHandler == IF hpc = "idle" THEN 0 ELSE 1
InHand == IF bpc = "dec" THEN 1 ELSE 0

\* Where each counted interrupt is.  catchup: in nevents or handled once, and
\* nevents > 0 in t_fun's loop.  dynamic: one item each, queued, running or
\* handled and freed, so none is leaked.  static: runs may be fewer (events
\* merge in the one pending item) but a run never lacks its interrupt.
EventsAccounted ==
  CASE driver = "catchup" ->
         /\ counter_bh + nevents + (IF hpc = "nevents" THEN 1 ELSE 0) = counter_th + InHand
         /\ bpc \in {"bh", "dec"} => nevents > 0
    [] driver = "dynamic" -> counter_bh + pending + active + InHandler = counter_th
    [] driver = "static" -> counter_bh + pending + active + InHandler <= counter_th

\* The catching-up tasklet misses no event: the item is scheduled again when an
\* event arrives after t_fun's last atomic_dec_and_test.
PendingHandled == nevents > 0 ~> nevents = 0
=============================================================================
