----------------------------- MODULE MCBlocking -----------------------------
(***************************************************************************)
(* Model checking of the drivers whose read() waits for a write().         *)
(* `primitive' says whether it waits on a wait queue (CharWait) or on a    *)
(* completion or semaphore (CountWait); the other one's state stays        *)
(* initial.                                                                *)
(***************************************************************************)
EXTENDS CharWait

CONSTANTS
  Kinds,          \* the drivers of CountWait considered
  MaxSignals      \* bound: write() calls of CountWait

VARIABLES primitive, kind, c_pc, count, reads, c_writes

countVars == <<kind, c_pc, count, reads, c_writes>>

Count == INSTANCE CountWait WITH
  MaxWrites <- MaxSignals, pc <- c_pc, writes <- c_writes

MCInit ==
  /\ primitive \in {"queue", "count"}
  /\ Init /\ Count!Init
  /\ primitive = "queue" => kind = CHOOSE k \in Kinds : TRUE
  /\ primitive = "count" => driver = CHOOSE d \in Drivers : TRUE

MCNext ==
  \/ primitive = "queue" /\ Next /\ UNCHANGED <<primitive, countVars>>
  \/ primitive = "count" /\ Count!Next /\ UNCHANGED <<primitive, vars>>

\* Neither component has an action under fairness enabled initially.
MCSpec ==
  /\ MCInit
  /\ [][MCNext]_<<primitive, vars, countVars>>
  /\ Fairness /\ Count!Fairness

\* CountWait: each signal lets exactly one read() pass and none is lost.
TokensConserved == Count!TokensConserved

\* CharWait and CountWait: a write() reaches who waits for it.  A sleeper wakes while
\* the condition stays true, who is on the fasync list gets its signal, and the
\* readers of a completion or semaphore take what was signalled.
WriteReaches == SleeperWoken /\ FasyncReached /\ Count!SignalTaken
=============================================================================
