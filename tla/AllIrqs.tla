------------------------------ MODULE AllIrqs ------------------------------
(***************************************************************************)
(* Drivers that share every interrupt line (lab_all_interrupt.h) and count *)
(* in `interrupts' the top halves and in `bhs' the bottom halves of each:  *)
(*   "tasklet", "workqueue"  lab6_all_tasklet.c, lab6_all_workqueue.c: one *)
(*              item for all lines, which finds the line in my_data;       *)
(*   "thread"   lab6_all_thread.c: a thread that waits for cond;           *)
(*   "dynamic"  lab7_all_tasklet_dynamic.c, lab7_all_workqueue_dynamic.c:  *)
(*              an item of its own for each interrupt.                     *)
(* Handlers of different lines run at the same time.  The counters are     *)
(* signed and -1 marks a line that could not be requested.                 *)
(***************************************************************************)
EXTENDS Integers, FiniteSets

CONSTANTS
  Lines,     \* 0..nr_irqs-1
  Kinds,     \* the drivers considered
  MaxRaised, \* bound: interrupts raised
  Half       \* half the number of values of atomic_t (2^31)

VARIABLES
  kind,
  phase,       \* "out", "load", "init", "live", "stop", "exit", "gone"
  at, step,    \* the line that get_irqs or freeup_irqs is at, and where
  installed,   \* lines with the handler
  hpc,         \* per line: where my_interrupt is
  my_irq,      \* my_data.irq
  queued,      \* per line: items queued (dynamic); static: see item
  item,        \* the one item is queued
  cond, tpc, t_irq, stop,  \* the thread, its line, and kthread_should_stop
  interrupts,
  bhs,            \* only printed, so kept as a number: the counter shows Signed(bhs)
  raised, early   \* interrupts raised, and those before the counter was set to 0

vars == <<kind, phase, at, step, installed, hpc, my_irq, queued, item, cond, tpc,
             t_irq, stop, interrupts, bhs, raised, early>>

Static == {"tasklet", "workqueue"}
First == CHOOSE l \in Lines : \A m \in Lines : l <= m

\* The sum over the lines of counters that are not negative
Total(f) == Cardinality(UNION {{l} \X (1..f[l]) : l \in Lines})

\* A counter of atomic_t wraps.
Signed(x) == ((x + Half) % (2 * Half)) - Half

Init ==
  /\ kind \in Kinds
  /\ phase = "out" /\ at = First /\ step = "reset" /\ installed = {}
  /\ hpc = [l \in Lines |-> "idle"]
  /\ my_irq = 0 /\ item = FALSE /\ queued = [l \in Lines |-> 0]
  /\ cond = 0 /\ tpc = "none" /\ t_irq = 0 /\ stop = FALSE
  /\ interrupts = [l \in Lines |-> 0] /\ bhs = [l \in Lines |-> 0]
  /\ raised = [l \in Lines |-> 0] /\ early = [l \in Lines |-> 0]

-----------------------------------------------------------------------------
(* my_interrupt                                                            *)

\* The static drivers and the thread driver leave the line in my_data.
Interrupt(l) ==
  /\ l \in installed /\ hpc[l] = "idle" /\ Total(raised) < MaxRaised
  /\ hpc' = [hpc EXCEPT ![l] = IF kind = "thread" THEN "cond" ELSE "count"]
  /\ my_irq' = IF kind = "dynamic" THEN my_irq ELSE l
  /\ raised' = [raised EXCEPT ![l] = @ + 1]
  /\ early' = [early EXCEPT ![l] = @ + IF phase = "init" /\ at = l THEN 1 ELSE 0]
  /\ UNCHANGED <<kind, phase, at, step, installed, queued, item, cond, tpc, t_irq, stop,
                 interrupts, bhs>>

InterruptCond(l) ==
  /\ hpc[l] = "cond" /\ hpc' = [hpc EXCEPT ![l] = "count"]
  /\ cond' = 1
  /\ UNCHANGED <<kind, phase, at, step, installed, my_irq, queued, item, tpc, t_irq, stop,
                 interrupts, bhs, raised, early>>

InterruptCount(l) ==
  /\ hpc[l] = "count" /\ hpc' = [hpc EXCEPT ![l] = "schedule"]
  /\ interrupts' = [interrupts EXCEPT ![l] = Signed(@ + 1)]
  /\ UNCHANGED <<kind, phase, at, step, installed, my_irq, queued, item, cond, tpc, t_irq,
                 stop, bhs, raised, early>>

InterruptSchedule_SharedData(l) ==
  /\ hpc[l] = "schedule" /\ hpc' = [hpc EXCEPT ![l] = "idle"]
  /\ queued' = IF kind = "dynamic" THEN [queued EXCEPT ![First] = @ + 1] ELSE queued
  /\ item' = (item \/ kind \in Static)
  /\ UNCHANGED <<kind, phase, at, step, installed, my_irq, cond, tpc, t_irq, stop,
                 interrupts, bhs, raised, early>>

\* tasklet_schedule, schedule_work, or the wakeup, which the thread's test of cond
\* stands for
InterruptSchedule(l) ==
  /\ hpc[l] = "schedule" /\ hpc' = [hpc EXCEPT ![l] = "idle"]
  /\ queued' = IF kind = "dynamic" THEN [queued EXCEPT ![l] = @ + 1] ELSE queued
  /\ item' = (item \/ kind \in Static)
  /\ UNCHANGED <<kind, phase, at, step, installed, my_irq, cond, tpc, t_irq, stop,
                 interrupts, bhs, raised, early>>

-----------------------------------------------------------------------------
(* Bottom halves                                                           *)

\* t_fun, w_fun of lab6: the line is the one of the last interrupt.
StaticFun ==
  /\ item /\ item' = FALSE
  /\ bhs' = [bhs EXCEPT ![my_irq] = @ + 1]
  /\ UNCHANGED <<kind, phase, at, step, installed, hpc, my_irq, queued, cond, tpc, t_irq,
                 stop, interrupts, raised, early>>

\* t_fun, w_fun of lab7: the item carries its line and is freed.
DynamicFun(l) ==
  /\ queued[l] > 0 /\ queued' = [queued EXCEPT ![l] = @ - 1]
  /\ bhs' = [bhs EXCEPT ![l] = @ + 1]
  /\ UNCHANGED <<kind, phase, at, step, installed, hpc, my_irq, item, cond, tpc, t_irq,
                 stop, interrupts, raised, early>>

\* The line is read before the wait.
ThreadTop ==
  /\ tpc = "top" /\ tpc' = "clear" /\ t_irq' = my_irq
  /\ UNCHANGED <<kind, phase, at, step, installed, hpc, my_irq, queued, item, cond, stop,
                 interrupts, bhs, raised, early>>

ThreadClear ==
  /\ tpc = "clear" /\ tpc' = "wait" /\ cond' = 0
  /\ UNCHANGED <<kind, phase, at, step, installed, hpc, my_irq, queued, item, t_irq, stop,
                 interrupts, bhs, raised, early>>

ThreadWoken ==
  /\ tpc = "wait" /\ (stop \/ cond = 1)
  /\ tpc' = "loop"
  /\ bhs' = IF cond = 1 THEN [bhs EXCEPT ![t_irq] = @ + 1] ELSE bhs
  /\ UNCHANGED <<kind, phase, at, step, installed, hpc, my_irq, queued, item, cond, t_irq,
                 stop, interrupts, raised, early>>

ThreadLoop ==
  /\ tpc = "loop" /\ tpc' = IF stop THEN "ended" ELSE "top"
  /\ UNCHANGED <<kind, phase, at, step, installed, hpc, my_irq, queued, item, cond, t_irq,
                 stop, interrupts, bhs, raised, early>>

-----------------------------------------------------------------------------
(* Loading and unloading                                                   *)

\* my_init of the thread driver starts its thread; get_irqs begins.
Load ==
  /\ phase = "out" /\ phase' = "init" /\ step' = "reset" /\ at' = First
  /\ IF kind = "thread" THEN cond' = 1 /\ tpc' = "top" ELSE UNCHANGED <<cond, tpc>>
  /\ UNCHANGED <<kind, installed, hpc, my_irq, queued, item, t_irq, stop, interrupts, bhs,
                 raised, early>>

\* The flag and the counters of a line, before the handler is installed
GetReset ==
  /\ phase = "init" /\ step = "reset" /\ step' = "request"
  /\ interrupts' = [interrupts EXCEPT ![at] = -1]
  /\ bhs' = [bhs EXCEPT ![at] = 0]
  /\ UNCHANGED <<kind, phase, at, installed, hpc, my_irq, queued, item, cond, tpc, t_irq,
                 stop, raised, early>>

\* Go on with the next line, or end.
NextLine(end) ==
  IF at + 1 \in Lines THEN at' = at + 1 /\ UNCHANGED phase ELSE at' = First /\ phase' = end

GetRequested ==
  /\ phase = "init" /\ step = "request" /\ step' = "zero"
  /\ installed' = installed \cup {at}
  /\ UNCHANGED <<kind, phase, at, hpc, my_irq, queued, item, cond, tpc, t_irq, stop,
                 interrupts, bhs, raised, early>>

GetRefused ==
  /\ phase = "init" /\ step = "request" /\ step' = "reset"
  /\ NextLine("live")
  /\ UNCHANGED <<kind, installed, hpc, my_irq, queued, item, cond, tpc, t_irq, stop,
                 interrupts, bhs, raised, early>>

\* The counter is set to 0 after interrupts may have been counted.
GetZero ==
  /\ phase = "init" /\ step = "zero" /\ step' = "reset"
  /\ interrupts' = [interrupts EXCEPT ![at] = 0]
  /\ early' = [early EXCEPT ![at] = @ - IF hpc[at] \in {"cond", "count"} THEN 1 ELSE 0]
  /\ NextLine("live")
  /\ UNCHANGED <<kind, installed, hpc, my_irq, queued, item, cond, tpc, t_irq, stop, bhs,
                 raised>>

\* The thread driver stops its thread first (kthread_stop waits for it).
ExitStart ==
  /\ phase = "live" /\ phase' = IF kind = "thread" THEN "stop" ELSE "exit"
  /\ stop' = (kind = "thread")
  /\ UNCHANGED <<kind, at, step, installed, hpc, my_irq, queued, item, cond, tpc, t_irq,
                 interrupts, bhs, raised, early>>

ExitJoin ==
  /\ phase = "stop" /\ tpc = "ended" /\ phase' = "exit"
  /\ UNCHANGED <<kind, at, step, installed, hpc, my_irq, queued, item, cond, tpc, t_irq,
                 stop, interrupts, bhs, raised, early>>

\* freeup_irqs goes by the counter; free_irq waits for the handler.
FreeLine ==
  /\ phase = "exit"
  /\ IF interrupts[at] >= 0
       THEN hpc[at] = "idle" /\ installed' = installed \ {at}
       ELSE UNCHANGED installed
  /\ NextLine("gone")
  /\ UNCHANGED <<kind, step, hpc, my_irq, queued, item, cond, tpc, t_irq, stop, interrupts,
                 bhs, raised, early>>

Handler == \E l \in Lines : InterruptCond(l) \/ InterruptCount(l) \/ InterruptSchedule(l)
Thread == ThreadTop \/ ThreadClear \/ ThreadWoken \/ ThreadLoop

\* Once the module is gone nothing is known of what still runs.
Next ==
  \/ Load \/ GetReset \/ GetRequested \/ GetRefused \/ GetZero
  \/ ExitStart \/ ExitJoin \/ FreeLine
  \/ /\ phase # "gone"
     /\ \/ Thread \/ Handler \/ StaticFun
        \/ \E l \in Lines : Interrupt(l) \/ DynamicFun(l)

Spec == Init /\ [][Next]_vars

-----------------------------------------------------------------------------
(* Properties                                                              *)

\* Once a line has been set up, its counters say what became of each interrupt:
\* with an item per interrupt it is counted, on its own line, once in each half,
\* except for those that came before the counter was set to 0; with one item or a
\* thread for all lines there are never more bottom halves than interrupts.  And
\* the module takes every handler back that it installed, although it remembers
\* which ones only in the sign of their counters: except for a line whose counter
\* has wrapped to a negative value.
LinesAccounted ==
  /\ kind = "dynamic" /\ phase \in {"live", "exit"} =>
       \A l \in installed :
         /\ interrupts[l] = Signed(raised[l] - early[l] - IF hpc[l] = "count" THEN 1 ELSE 0)
         /\ raised[l] = bhs[l] + queued[l] + IF hpc[l] = "idle" THEN 0 ELSE 1
  /\ Total(bhs) <= Total(raised)
  /\ phase = "gone" => \A l \in installed : raised[l] - early[l] >= Half
=============================================================================
