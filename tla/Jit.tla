-------------------------------- MODULE Jit --------------------------------
(***************************************************************************)
(* jit_timer and jit_tasklet of src/timers/lab9_jit.c: a read allocates a  *)
(* jit_data, has a timer or a tasklet print JIT_ASYNC_LOOPS lines into its *)
(* buffer and waits for loops to become 0.  The two files have the same    *)
(* control; each read has data of its own, so a read is modelled alone.    *)
(***************************************************************************)
EXTENDS Integers

CONSTANTS
  Reads,              \* the reads considered, each with its own jit_data
  JIT_ASYNC_LOOPS     \* 5

VARIABLES
  pc,        \* where each read is
  queued,    \* the reads whose timer or tasklet is scheduled
  fpc,       \* where its function is
  loops, lines,
  data       \* the reads whose jit_data is allocated

vars == <<pc, queued, fpc, loops, lines, data>>

Init ==
  /\ pc = [r \in Reads |-> "idle"] /\ fpc = [r \in Reads |-> "idle"]
  /\ loops = [r \in Reads |-> 0] /\ lines = [r \in Reads |-> 0]
  /\ queued = {} /\ data = {}

Goto(r, from, to) == pc[r] = from /\ pc' = [pc EXCEPT ![r] = to]

-----------------------------------------------------------------------------
(* jit_timer, jit_tasklet                                                  *)

\* kmalloc, the two first lines, add_timer or tasklet_schedule
ReadStart(r) ==
  /\ Goto(r, "idle", "check")
  /\ data' = data \cup {r} /\ queued' = queued \cup {r}
  /\ loops' = [loops EXCEPT ![r] = JIT_ASYNC_LOOPS]
  /\ lines' = [lines EXCEPT ![r] = 2]
  /\ UNCHANGED fpc

ReadNoMemory(r) == Goto(r, "idle", "failed") /\ UNCHANGED <<queued, fpc, loops, lines, data>>

ReadCheck_LastRun(r) ==
  /\ Goto(r, "check", IF loops[r] = 1 THEN "done" ELSE "asleep")
  /\ UNCHANGED <<queued, fpc, loops, lines, data>>

\* wait_event_interruptible(data->wait, !data->loops)
ReadCheck(r) ==
  /\ Goto(r, "check", IF loops[r] = 0 THEN "done" ELSE "asleep")
  /\ UNCHANGED <<queued, fpc, loops, lines, data>>

\* if (signal_pending(current)) return -ERESTARTSYS: data stays allocated
ReadSignal(r) ==
  /\ pc[r] \in {"asleep", "done"} /\ pc' = [pc EXCEPT ![r] = "failed"]
  /\ UNCHANGED <<queued, fpc, loops, lines, data>>

ReadReturn(r) ==
  /\ Goto(r, "done", "returned")
  /\ data' = data \ {r}
  /\ UNCHANGED <<queued, fpc, loops, lines>>

-----------------------------------------------------------------------------
(* jit_timer_fn, jit_tasklet_fn                                            *)

Fire(r) ==
  /\ r \in queued /\ fpc[r] = "idle"
  /\ queued' = queued \ {r} /\ fpc' = [fpc EXCEPT ![r] = "line"]
  /\ UNCHANGED <<pc, loops, lines, data>>

FnLine(r) ==
  /\ fpc[r] = "line" /\ fpc' = [fpc EXCEPT ![r] = "dec"]
  /\ lines' = [lines EXCEPT ![r] = @ + 1]
  /\ UNCHANGED <<pc, queued, loops, data>>

\* if (--data->loops) schedule again, else wake the reader
FnDec(r) ==
  /\ fpc[r] = "dec"
  /\ loops' = [loops EXCEPT ![r] = @ - 1]
  /\ IF loops'[r] # 0
       THEN queued' = queued \cup {r} /\ fpc' = [fpc EXCEPT ![r] = "idle"]
       ELSE UNCHANGED queued /\ fpc' = [fpc EXCEPT ![r] = "wake"]
  /\ UNCHANGED <<pc, lines, data>>

FnWake(r) ==
  /\ fpc[r] = "wake" /\ fpc' = [fpc EXCEPT ![r] = "idle"]
  /\ pc' = IF pc[r] = "asleep" THEN [pc EXCEPT ![r] = "check"] ELSE pc
  /\ UNCHANGED <<queued, loops, lines, data>>

Reader(r) == ReadCheck(r) \/ ReadReturn(r)
Function(r) == Fire(r) \/ FnLine(r) \/ FnDec(r) \/ FnWake(r)

Next == \E r \in Reads : ReadStart(r) \/ ReadNoMemory(r) \/ Reader(r) \/ ReadSignal(r) \/ Function(r)

Spec == Init /\ [][Next]_vars

Fairness == \A r \in Reads : WF_vars(Reader(r)) /\ WF_vars(Function(r))

FairSpec == Spec /\ Fairness

-----------------------------------------------------------------------------
(* Properties                                                              *)

TypeOK ==
  /\ pc \in [Reads -> {"idle", "check", "asleep", "done", "returned", "failed"}]
  /\ fpc \in [Reads -> {"idle", "line", "dec", "wake"}]
  /\ loops \in [Reads -> 0..JIT_ASYNC_LOOPS] /\ lines \in [Reads -> 0..JIT_ASYNC_LOOPS + 2]
  /\ queued \subseteq Reads /\ data \subseteq Reads

\* "wait for the buffer to fill": a read that returns has the two lines of its
\* own and one of each run, and none is added to its buffer afterwards.
BufferFull ==
  \A r \in Reads :
    pc[r] = "returned" => /\ lines[r] = JIT_ASYNC_LOOPS + 2
                          /\ r \notin queued /\ fpc[r] \notin {"line", "dec"}

=============================================================================
