------------------------------ MODULE Deferral ------------------------------
(***************************************************************************)
(* One tasklet or work item that is handed a datum.  The producer is the   *)
(* handler of an interrupt or a process in write():                        *)
(*   "tasklet"    interrupts/lab3_tasklet.c: the scan code, by a handler;  *)
(*   "workqueue"  interrupts/lab3_workqueue.c: the same for a work item;   *)
(*   "shared"     interrupts/lab3_workqueue_shared.c: write() adds to len; *)
(*   "private"    lab3_workqueue_private.c, lab3_workqueue_newapi.c: the   *)
(*                same on a queue of the module's own;                     *)
(*   "device"     defer/defer_lab2_tasklet.c: the time of the last write();*)
(*   "soft"       defer/defer_lab3_workqueue.c: read() raises the          *)
(*                interrupt, whose handler counts; the item reads nothing; *)
(*   "load"       interrupts/lab11_mytasklet.c: scheduled once, by init.   *)
(* A datum is the number of times it was stored: later values are larger.  *)
(***************************************************************************)
EXTENDS Integers, FiniteSets

CONSTANTS
  Producers,   \* handlers or processes
  Kinds,       \* the drivers considered
  MaxStores    \* bound: how often a datum is stored

VARIABLES
  kind,
  mod,       \* "out", "irq", "live", "exit", "gone"
  ppc,       \* per producer: "out", "store", "queue"
  datum,     \* t_data.code, my_data.len, ldd_tdata.data, irq_counter
  due,       \* the datum at the last schedule that took effect
  pending,   \* the item is queued
  active,    \* its function runs
  seen       \* the datum that the last run found

vars == <<kind, mod, ppc, datum, due, pending, active, seen>>

\* These store the datum before they schedule the item.
StoresFirst == {"tasklet", "device", "soft", "load"}

\* The devices of defer/ name no .owner: an open file does not pin the module.
Unowned == {"device", "soft"}

\* One line has one handler at a time.
ByHandler == {"tasklet", "workqueue"}

Init ==
  /\ kind \in Kinds
  /\ mod = "out" /\ ppc = [p \in Producers |-> "out"]
  /\ datum = 0 /\ due = 0 /\ pending = FALSE /\ active = FALSE /\ seen = 0

\* lab3_workqueue.c has installed its handler when it comes to INIT_WORK; the others
\* declare the item or initialise it first.
Load ==
  /\ mod = "out" /\ mod' = IF kind = "workqueue" THEN "irq" ELSE "live"
  /\ IF kind = "load" THEN datum' = 1 /\ due' = 1 /\ pending' = TRUE
                      ELSE UNCHANGED <<datum, due, pending>>
  /\ UNCHANGED <<kind, ppc, active, seen>>

LoadInitWork ==
  /\ mod = "irq" /\ mod' = "live"
  /\ UNCHANGED <<kind, ppc, datum, due, pending, active, seen>>

-----------------------------------------------------------------------------
(* my_interrupt, mycdrv_write, tsklet_write, wq_read                       *)

Enter(p) ==
  /\ mod \in IF kind \in ByHandler \cup Unowned THEN {"irq", "live", "exit"} ELSE {"live"}
  /\ kind # "load" /\ ppc[p] = "out"
  /\ datum + Cardinality({q \in Producers : ppc[q] # "out"}) < MaxStores
  /\ kind \in ByHandler => \A q \in Producers : ppc[q] = "out"
  /\ ppc' = [ppc EXCEPT ![p] = IF kind \in StoresFirst THEN "store" ELSE "queue"]
  /\ UNCHANGED <<kind, mod, datum, due, pending, active, seen>>

Store_ThenOut(p) ==
  /\ ppc[p] = "store"
  /\ datum' = datum + 1
  /\ ppc' = [ppc EXCEPT ![p] = "out"]
  /\ UNCHANGED <<kind, mod, due, pending, active, seen>>

Store(p) ==
  /\ ppc[p] = "store"
  /\ datum' = datum + 1
  /\ ppc' = [ppc EXCEPT ![p] = IF kind \in StoresFirst THEN "queue" ELSE "out"]
  /\ UNCHANGED <<kind, mod, due, pending, active, seen>>

\* An item that is queued already stays queued once.  One that is still zero (no
\* INIT_WORK yet) is not on an empty list: the kernel warns and does not queue it.
Queue(p) ==
  /\ ppc[p] = "queue"
  /\ IF mod = "irq" THEN UNCHANGED <<pending, due>> ELSE pending' = TRUE /\ due' = datum
  /\ ppc' = [ppc EXCEPT ![p] = IF kind \in StoresFirst THEN "out" ELSE "store"]
  /\ UNCHANGED <<kind, mod, datum, active, seen>>

-----------------------------------------------------------------------------
(* The item                                                                *)

ItemStart ==
  /\ pending /\ ~active
  /\ pending' = FALSE /\ active' = TRUE
  /\ UNCHANGED <<kind, mod, ppc, datum, due, seen>>

\* tasklet_handler, w_fun, ldd_tasklet_function, ldd_workqueue_function, t_fun
ItemRun ==
  /\ active /\ active' = FALSE
  /\ seen' = datum
  /\ UNCHANGED <<kind, mod, ppc, datum, due, pending>>

-----------------------------------------------------------------------------
(* Exit: an open file pins the module unless it is Unowned, a handler does *)
(* not.                                                                    *)

ExitStart ==
  /\ mod = "live" /\ mod' = "exit"
  /\ kind \in ByHandler \cup Unowned \/ \A p \in Producers : ppc[p] = "out"
  /\ UNCHANGED <<kind, ppc, datum, due, pending, active, seen>>

\* free_irq waits for the handler (which "soft" runs inside read()),
\* destroy_workqueue for the items; nothing waits for a write() of "device", and the
\* system's queue and the tasklet are left alone.
ExitEnd ==
  /\ mod = "exit" /\ mod' = "gone"
  /\ kind # "device" => \A p \in Producers : ppc[p] = "out"
  /\ kind = "private" => ~pending /\ ~active
  /\ UNCHANGED <<kind, ppc, datum, due, pending, active, seen>>

Item == ItemStart \/ ItemRun

Next ==
  \/ Load \/ LoadInitWork \/ ExitStart \/ ExitEnd
  \/ mod # "gone" /\ (Item \/ \E p \in Producers : Enter(p) \/ Store(p) \/ Queue(p))

Spec == Init /\ [][Next]_vars

-----------------------------------------------------------------------------
(* Properties                                                              *)

\* A schedule that finds the item queued, or its function running, asks for nothing
\* in vain: when nothing is under way the last run of the item has found everything
\* that was stored before the item was last scheduled.  Where the datum is stored
\* before the item is scheduled that is the last datum.
SeesLatest ==
  (~pending /\ ~active /\ \A p \in Producers : ppc[p] = "out") =>
    seen >= due /\ (kind \in StoresFirst => seen = datum)
=============================================================================
