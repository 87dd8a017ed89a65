----------------------------- MODULE ThreadedIrq -----------------------------
(***************************************************************************)
(* A shared interrupt with a threaded handler,                             *)
(* src/interrupts/lab9_one_threaded.c, with my_generic_init and            *)
(* my_generic_exit of lab_one_interrupt.h.  src/interrupts/                *)
(* lab8_all_threaded.c runs the same two functions on the counters of each *)
(* line.                                                                   *)
(*                                                                         *)
(* my_interrupt asks the kernel to run thread_fun by returning             *)
(* IRQ_WAKE_THREAD; the kernel keeps one bit per thread for that, so       *)
(* requests made while one is outstanding merge.  The counters are atomic_t*)
(* and wrap.                                                               *)
(***************************************************************************)
EXTENDS Integers

CONSTANTS
  MaxInts,   \* bound: number of interrupts raised
  Wrap       \* number of values of an atomic_t (2^32 in the kernel),
             \* more than MaxInts

VARIABLES
  mod,         \* "none", "loaded", "failed", "sync", "free", "stop", "unloaded"
  hpc,         \* where my_interrupt is
  runthread,   \* the kernel's "run the thread" bit
  tpc,         \* where the interrupt thread is in thread_fun
  nevents, counter_th, counter_bh

vars == <<mod, hpc, runthread, tpc, nevents, counter_th, counter_bh>>

Init ==
  /\ mod = "none" /\ hpc = "idle" /\ tpc = "idle"
  /\ runthread = FALSE
  /\ nevents = 0 /\ counter_th = 0 /\ counter_bh = 0

-----------------------------------------------------------------------------
(* my_interrupt                                                            *)

Interrupt ==
  /\ mod \in {"loaded", "sync", "free"}
  /\ hpc = "idle" /\ hpc' = "nevents"
  /\ counter_th < MaxInts /\ counter_th' = counter_th + 1
  /\ UNCHANGED <<mod, runthread, tpc, nevents, counter_bh>>

InterruptEvent ==
  /\ hpc = "nevents" /\ hpc' = "wake"
  /\ nevents' = (nevents + 1) % Wrap
  /\ UNCHANGED <<mod, runthread, tpc, counter_th, counter_bh>>

\* return IRQ_WAKE_THREAD
InterruptWake ==
  /\ hpc = "wake" /\ hpc' = "idle"
  /\ runthread' = TRUE
  /\ UNCHANGED <<mod, tpc, nevents, counter_th, counter_bh>>

-----------------------------------------------------------------------------
(* thread_fun                                                              *)

\* The kernel's thread clears the bit before it calls thread_fun.
ThreadStart ==
  /\ runthread /\ mod # "unloaded"
  /\ tpc = "idle" /\ tpc' = "bh"
  /\ runthread' = FALSE
  /\ UNCHANGED <<mod, hpc, nevents, counter_th, counter_bh>>

ThreadBh ==
  /\ tpc = "bh" /\ tpc' = "dec"
  /\ counter_bh' = (counter_bh + 1) % Wrap
  /\ UNCHANGED <<mod, hpc, runthread, nevents, counter_th>>

ThreadDec_Once ==
  /\ tpc = "dec"
  /\ nevents' = (nevents - 1) % Wrap
  /\ tpc' = "idle"
  /\ UNCHANGED <<mod, hpc, runthread, counter_th, counter_bh>>

ThreadDec_Clear ==
  /\ tpc = "dec"
  /\ nevents' = 0
  /\ tpc' = "idle"
  /\ UNCHANGED <<mod, hpc, runthread, counter_th, counter_bh>>

\* while (!atomic_dec_and_test(&nevents))
ThreadDec ==
  /\ tpc = "dec"
  /\ nevents' = (nevents - 1) % Wrap
  /\ tpc' = IF nevents' = 0 THEN "idle" ELSE "bh"
  /\ UNCHANGED <<mod, hpc, runthread, counter_th, counter_bh>>

-----------------------------------------------------------------------------
(* my_init, my_generic_init, my_generic_exit                               *)

Load ==
  /\ mod = "none" /\ mod' \in {"loaded", "failed"}
  /\ nevents' = 0 /\ counter_th' = 0 /\ counter_bh' = 0
  /\ UNCHANGED <<hpc, runthread, tpc>>

Exit ==
  /\ mod = "loaded" /\ mod' = "sync"
  /\ UNCHANGED <<hpc, runthread, tpc, nevents, counter_th, counter_bh>>

\* synchronize_irq waits for the handler and for its thread.
ExitSync ==
  /\ mod = "sync" /\ mod' = "free"
  /\ hpc = "idle" /\ ~runthread /\ tpc = "idle"
  /\ UNCHANGED <<hpc, runthread, tpc, nevents, counter_th, counter_bh>>

\* free_irq unregisters the handler, waits for it, and stops the thread (which
\* may first serve a last request, or drop it, according to the kernel).
ExitFree ==
  /\ mod = "free" /\ mod' = "stop"
  /\ hpc = "idle"
  /\ UNCHANGED <<hpc, runthread, tpc, nevents, counter_th, counter_bh>>

ExitStop ==
  /\ mod = "stop" /\ mod' = "unloaded"
  /\ tpc = "idle"
  /\ UNCHANGED <<hpc, runthread, tpc, nevents, counter_th, counter_bh>>

-----------------------------------------------------------------------------
Handler == InterruptEvent \/ InterruptWake
Thread == ThreadStart \/ ThreadBh \/ ThreadDec
Loader == ExitSync \/ ExitFree \/ ExitStop

Next == Interrupt \/ Handler \/ Thread \/ Load \/ Exit \/ Loader

Spec == Init /\ [][Next]_vars

\* A handler that entered returns and the kernel runs a runnable thread.
Fairness == WF_vars(Handler) /\ WF_vars(Thread) /\ WF_vars(Loader)

FairSpec == Spec /\ Fairness

-----------------------------------------------------------------------------
(* Properties                                                              *)

TypeOK ==
  /\ mod \in {"none", "loaded", "failed", "sync", "free", "stop", "unloaded"}
  /\ hpc \in {"idle", "nevents", "wake"}
  /\ tpc \in {"idle", "bh", "dec"}
  /\ runthread \in BOOLEAN
  /\ nevents \in 0..Wrap-1 /\ counter_bh \in 0..Wrap-1
  /\ counter_th \in 0..MaxInts

\* Interrupts whose event is published, and events counted but not yet taken
\* off nevents.
Published == IF hpc = "nevents" THEN counter_th - 1 ELSE counter_th
InHand == IF tpc = "dec" THEN 1 ELSE 0

\* Each interrupt is in nevents or was counted by thread_fun, modulo the width
\* of the counters; so the halves agree whenever nevents is 0.
EventsConserved == (counter_bh + nevents) % Wrap = (Published + InHand) % Wrap

\* No event waits without somebody who will take it: IRQ_WAKE_THREAD after
\* atomic_inc(&nevents) also covers the event that arrives during the last
\* atomic_dec_and_test.
NoEventStranded ==
  nevents # 0 /\ mod # "unloaded" => runthread \/ tpc # "idle" \/ hpc = "wake"
=============================================================================
