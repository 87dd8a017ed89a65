----------------------------- MODULE ModuleLife -----------------------------
(***************************************************************************)
(* A module is loaded and unloaded, driven by the tables of DriverTables:  *)
(* init obtains one resource after the other, and when a step fails it     *)
(* gives back what the code at that place gives back; exit gives back in   *)
(* its own order.  Meanwhile processes open what is registered already:    *)
(* an open file keeps the module from being unloaded unless the driver     *)
(* names no .owner, and nothing keeps init from failing under it.          *)
(***************************************************************************)
EXTENDS DriverTables, Integers

CONSTANT MaxUsers    \* bound: files open at a time

VARIABLES
  driver,  \* the driver that is loaded
  phase,   \* "out", "init", "undo", "live", "exit", "gone"
  step,    \* steps of init done
  given,   \* places of what is being given back that are done
  held,    \* resources held
  missed,  \* resources whose failure went unnoticed
  extra,   \* resources given back without being held
  users    \* open files

vars == <<driver, phase, step, given, held, missed, extra, users>>

Init ==
  /\ driver \in Drivers
  /\ phase = "out" /\ step = 0 /\ given = 0
  /\ held = {} /\ missed = {} /\ extra = {} /\ users = 0

-----------------------------------------------------------------------------
Load ==
  /\ phase = "out" /\ phase' = "init"
  /\ UNCHANGED <<driver, step, given, held, missed, extra, users>>

StepGet ==
  /\ phase = "init" /\ step < Len(driver.init)
  /\ step' = step + 1
  /\ held' = held \cup {driver.init[step + 1].get}
  /\ UNCHANGED <<driver, phase, given, missed, extra, users>>

StepUnnoticed ==
  /\ phase = "init" /\ step < Len(driver.init)
  /\ driver.init[step + 1].fails = "unnoticed"
  /\ step' = step + 1
  /\ missed' = missed \cup {driver.init[step + 1].get}
  /\ UNCHANGED <<driver, phase, given, held, extra, users>>

StepFail ==
  /\ phase = "init" /\ step < Len(driver.init)
  /\ driver.init[step + 1].fails = "returns"
  /\ phase' = "undo" /\ given' = 0
  /\ UNCHANGED <<driver, step, held, missed, extra, users>>

Loaded ==
  /\ phase = "init" /\ step = Len(driver.init) /\ phase' = "live"
  /\ UNCHANGED <<driver, step, given, held, missed, extra, users>>

\* A module without an exit function cannot be unloaded.
ExitStart ==
  /\ phase = "live" /\ driver.exit # <<>>
  /\ users = 0 \/ driver \in Unowned
  /\ phase' = "exit" /\ given' = 0
  /\ UNCHANGED <<driver, step, held, missed, extra, users>>

\* What the failed step or the exit function gives back, in its order
Todo == IF phase = "undo" THEN driver.init[step + 1].undo ELSE driver.exit

Give ==
  /\ phase \in {"undo", "exit"} /\ given < Len(Todo)
  /\ given' = given + 1
  /\ held' = held \ {Todo[given + 1]}
  /\ extra' = extra \cup ({Todo[given + 1]} \ (held \cup missed))
  /\ UNCHANGED <<driver, phase, step, missed, users>>

Gone ==
  /\ phase \in {"undo", "exit"} /\ given = Len(Todo) /\ phase' = "gone"
  /\ UNCHANGED <<driver, step, given, held, missed, extra, users>>

\* try_module_get succeeds while init runs and fails once exit has begun; without an
\* .owner there is nothing to get.
Open ==
  /\ driver.entry \in held \ Asynchronous
  /\ phase \in {"init", "undo", "live"} \/ driver \in Unowned
  /\ users < MaxUsers /\ users' = users + 1
  /\ UNCHANGED <<driver, phase, step, given, held, missed, extra>>

Close ==
  /\ users > 0 /\ users' = users - 1
  /\ UNCHANGED <<driver, phase, step, given, held, missed, extra>>

Next == Load \/ StepGet \/ StepUnnoticed \/ StepFail \/ Loaded \/ ExitStart \/ Give \/ Gone
        \/ Open \/ Close

Spec == Init /\ [][Next]_vars

-----------------------------------------------------------------------------
(* Properties                                                              *)

TypeOK ==
  /\ driver \in Drivers
  /\ phase \in {"out", "init", "undo", "live", "exit", "gone"}
  /\ step \in 0..Len(driver.init) /\ users \in 0..MaxUsers

\* Drivers that leave something behind when a step fails or (the mouse drivers)
\* when they are unloaded
Leaky ==
  {block_lab2, block_sbd, data_lab3_list, facilities_lab1_list, hardware_lab2_memory,
   hardware_lab4_full_mouse, hardware_lab4_serial, lab3_workqueue_newapi,
   lab3_workqueue_private, lab4_one_thread, lab5_one_thread_improved, lab6_all_thread,
   lab6_all_workqueue, lab9_uio, lab_all_interrupt, ldddev, misc_interrupt_soft, tiny_tty}

\* Drivers that give something back twice or without having it
Twice == Unowned \cup {hardware_lab4_full_mouse, misc_interrupt_soft}

\* Drivers that can be called before what the call uses is there, or that register
\* first and fail later
Early ==
  (Unowned \ {defer_lab1_timer, defer_lab3_workqueue}) \cup
  {hardware_lab4_full_mouse, hardware_lab4_serial, hardware_lab5_silly, io_lab6_aio,
   lab3_workqueue, misc_completion_dyn, misc_wait_queue_dyn}

\* Whatever step of init fails, and after exit, nothing of what was obtained is
\* left and nothing was given back that was not held.  Failures that the code
\* does not notice are left aside, and so are the drivers that the README lists.
Balanced ==
  missed = {} =>
    /\ phase = "gone" /\ driver \notin Leaky => held \subseteq Static
    /\ driver \notin Twice => extra = {}

\* A process that has the device open, or an interrupt, finds what the driver's
\* functions use, also while init goes on behind the registration of the device.
Served ==
  missed = {} /\ driver \notin Early =>
    /\ users > 0 => phase # "gone" /\ driver.uses \subseteq held
    /\ driver.entry \in held \cap Asynchronous => driver.uses \subseteq held
=============================================================================
