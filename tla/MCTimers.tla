------------------------------ MODULE MCTimers ------------------------------
(***************************************************************************)
(* Model checking of the timer drivers (Timers), of the jiq and jit        *)
(* modules and of the timer of the tiny serial ports (TinyPort).           *)
(* `subject' says which is run; the state of the others stays initial.     *)
(***************************************************************************)
EXTENDS Timers

CONSTANTS
  Readers,             \* processes that read the jiq files, and reads of jit
  LIMIT, MaxReads,     \* of Jiq
  JIT_ASYNC_LOOPS,
  Kinds, UART_XMIT_SIZE, fifosize, MaxOpens, MaxChars    \* of TinyPort

ASSUME MCTimersAssumption ==
  /\ JIT_ASYNC_LOOPS \in Nat \ {0}
  /\ UART_XMIT_SIZE \in Nat \ {0}

VARIABLES
  subject,
  q_pc, file, awake, len, q_queued, ipc, adds, list, reads,
  t_pc, t_queued, t_fpc, loops, lines, data,
  kind, p_mod, opens, users, p_pending, tpc, head, tail, count, x_char, written, tx,
  xset, xsent, xlost

jiqVars == <<q_pc, file, awake, len, q_queued, ipc, adds, list, reads>>
jitVars == <<t_pc, t_queued, t_fpc, loops, lines, data>>
portVars == <<kind, p_mod, opens, users, p_pending, tpc, head, tail, count, x_char, written, tx,
              xset, xsent, xlost>>

Queues == INSTANCE Jiq WITH pc <- q_pc, queued <- q_queued
Delays == INSTANCE Jit WITH Reads <- Readers, pc <- t_pc, queued <- t_queued, fpc <- t_fpc
Port   == INSTANCE TinyPort WITH mod <- p_mod, pending <- p_pending

MCInit ==
  /\ subject \in {"timers", "jiq", "jit", "port"}
  /\ Init /\ Queues!Init /\ Delays!Init /\ Port!Init
  /\ subject # "timers" => driver = lab3_periodic_timer
  /\ subject # "port" => kind = "tty"

MCNext ==
  \/ subject = "timers" /\ Next /\ UNCHANGED <<subject, jiqVars, jitVars, portVars>>
  \/ subject = "jiq" /\ Queues!Next /\ UNCHANGED <<subject, vars, jitVars, portVars>>
  \/ subject = "jit" /\ Delays!Next /\ UNCHANGED <<subject, vars, jiqVars, portVars>>
  \/ subject = "port" /\ Port!Next /\ UNCHANGED <<subject, vars, jiqVars, jitVars>>

\* No action under fairness is enabled in the initial state of its component.
MCSpec ==
  /\ MCInit
  /\ [][MCNext]_<<subject, vars, jiqVars, jitVars, portVars>>
  /\ Fairness /\ Queues!Fairness /\ Delays!Fairness /\ Port!Fairness

\* Jit: a read returns with a full buffer that nobody writes any more.
BufferFull == Delays!BufferFull

\* Jiq and TinyPort: who waits for a deferred function is served.  A reader that
\* waits for a work item returns, and an open port sends what was written.
WaitersServed == Queues!WorkReaderReturns /\ Port!TxDrains

\* TinyPort: tiny_tx_chars neither loses nor repeats a character of the buffer, and a
\* high-priority one is lost only to the next.
TxConserved == Port!TxConserved
=============================================================================
