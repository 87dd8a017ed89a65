--------------------------- MODULE OneThreadProofs ---------------------------
(***************************************************************************)
(* The bottom half that is a thread, for any number of interrupts: no      *)
(* event is lost or handled twice in the improved solution, and both       *)
(* solutions implement BottomHalf.                                         *)
(*                                                                         *)
(* For the improved solution the count of events is inductive once it is   *)
(* known that nothing is counted before the handler is installed (Early):  *)
(* my_generic_init clears the counters while the thread already runs.  For *)
(* the first solution the flag cond carries at most one event, and carries *)
(* none from the moment it was counted until thr_fun clears it (Tokens).   *)
(***************************************************************************)
EXTENDS OneThread, TLAPS

\* The handler is installed.
Installed == {"loaded", "stop", "join", "free", "oops"}

\* Until my_generic_init has installed the handler nothing has been counted.
Early ==
  /\ irq_on <=> mod \in Installed
  /\ mod = "none" => tpc = "none"
  /\ hpc # "idle" => irq_on
  /\ mod \in {"none", "irq", "failed"} =>
       counter_th = 0 /\ counter_bh = 0 /\ nevents = 0 /\ tpc # "dec"

\* lab4: interrupts that are counted and that cond shows, or is about to show, to
\* a thread that has not counted them yet.
Tokens ==
  (IF hpc = "cond" THEN 1 ELSE 0)
    + (IF cond = 1 /\ tpc \in {"check", "sleep", "woken"} THEN 1 ELSE 0)

OneEachTime ==
  ~CatchUp => /\ hpc # "th" /\ tpc \notin {"bh", "dec"}
              /\ counter_bh + Tokens <= counter_th

IInv == TypeOK /\ Early /\ EventsConserved /\ OneEachTime

LEMMA InitIInv == Init => IInv
<1> SUFFICES ASSUME Init PROVE IInv
  OBVIOUS
<1>1. TypeOK
  BY DEF Init, TypeOK, ModPC, HandlerPC, ThreadPC
<1>2. ~irq_on /\ mod = "none" /\ mod \notin Installed
  BY DEF Init, Installed
<1>3. Early
  BY <1>2 DEF Init, Early
<1>4. EventsConserved /\ OneEachTime
  BY DEF Init, EventsConserved, OneEachTime, Tokens, Raised, InHand
<1> QED BY <1>1, <1>3, <1>4 DEF IInv

\* Every step of the handler, of the thread and of the loader keeps the invariant.
LEMMA StepIInv == IInv /\ [Next]_vars => IInv'
<1> SUFFICES ASSUME IInv, [Next]_vars PROVE IInv'
  OBVIOUS
<1> USE OneThreadAssumption DEF IInv, TypeOK, Early, EventsConserved, OneEachTime, Tokens,
        ModPC, HandlerPC, ThreadPC, Installed, CatchUp, Raised, InHand
<1>1. CASE Interrupt
  BY <1>1 DEF Interrupt
<1>2. CASE Handler
  <2>1. CASE InterruptCount
    BY <2>1 DEF InterruptCount
  <2>2. CASE InterruptCond
    BY <2>2 DEF InterruptCond
  <2>3. CASE InterruptWake
    BY <2>3 DEF InterruptWake, Woken
  <2> QED BY <1>2, <2>1, <2>2, <2>3 DEF Handler
<1>3. CASE Thread
  <2>1. CASE ThreadReset
    BY <2>1 DEF ThreadReset
  <2>2. CASE ThreadCheck
    BY <2>2 DEF ThreadCheck
  <2>3. CASE ThreadWoken
    BY <2>3 DEF ThreadWoken
  <2>4. CASE ThreadWokenCatchUp
    BY <2>4 DEF ThreadWokenCatchUp
  <2>5. CASE ThreadBh
    BY <2>5 DEF ThreadBh
  <2>6. CASE ThreadDec
    BY <2>6 DEF ThreadDec
  <2>7. CASE ThreadLoop
    BY <2>7 DEF ThreadLoop
  <2> QED BY <1>3, <2>1, <2>2, <2>3, <2>4, <2>5, <2>6, <2>7 DEF Thread
<1>4. CASE InitThread
  BY <1>4 DEF InitThread
<1>5. CASE Loader
  <2>1. CASE InitIrq
    <3>1. hpc = "idle" /\ ~irq_on
      BY <2>1 DEF InitIrq
    <3>2. \/ mod' = "loaded" /\ irq_on'
          \/ mod' = "failed" /\ ~irq_on'
      BY <2>1, <3>1 DEF InitIrq
    <3>3. TypeOK'
      BY <2>1 DEF InitIrq
    <3>4. Early'
      BY <2>1, <3>1, <3>2 DEF InitIrq
    <3>5. EventsConserved' /\ OneEachTime'
      BY <2>1, <3>1 DEF InitIrq
    <3> QED BY <3>3, <3>4, <3>5
  <2>2. CASE ExitStop
    BY <2>2 DEF ExitStop, Woken
  <2>3. CASE ExitJoin
    BY <2>3 DEF ExitJoin
  <2>4. CASE ExitFree
    BY <2>4 DEF ExitFree
  <2> QED BY <1>5, <2>1, <2>2, <2>3, <2>4 DEF Loader
<1>6. CASE Exit
  BY <1>6 DEF Exit
<1>7. CASE UNCHANGED vars
  BY <1>7 DEF vars
<1> QED BY <1>1, <1>2, <1>3, <1>4, <1>5, <1>6, <1>7 DEF Next

LEMMA Invariance == Spec => []IInv
  BY InitIInv, StepIInv, PTL DEF Spec

\* The counters of my_interrupt and thr_fun are natural numbers, and cond is a flag:
\* atomic_dec_and_test in particular never takes nevents below zero.
THEOREM TypeCorrect == Spec => []TypeOK
<1>1. IInv => TypeOK
  BY DEF IInv
<1> QED BY <1>1, Invariance, PTL

\* lab5: every interrupt that my_interrupt has counted is in nevents or was handled
\* by thr_fun, once, whatever the two interleave and whenever the module goes.
THEOREM EventsNeverLost == Spec => []EventsConserved
<1>1. IInv => EventsConserved
  BY DEF IInv
<1> QED BY <1>1, Invariance, PTL

\* While kthread_stop waits the thread has been told to stop and does not sleep.
StopSeen ==
  /\ mod = "join" => should_stop /\ tpc \notin {"none", "sleep"}
  /\ mod \in {"free", "unloaded"} => tpc = "dead"

\* my_exit: the thread that kthread_stop waits for is never asleep, whenever the request
\* comes between its test of cond and its going to sleep, and free_irq is only reached
\* when thr_fun has returned.
THEOREM StopNeverMissed == Spec => []StopSeen
<1>1. Init => StopSeen
  BY DEF Init, StopSeen
<1>2. StopSeen /\ [Next]_vars => StopSeen'
  <2> SUFFICES ASSUME StopSeen, [Next]_vars PROVE StopSeen'
    OBVIOUS
  <2> USE DEF StopSeen
  <2>1. CASE Interrupt \/ InterruptCount \/ InterruptCond
    BY <2>1 DEF Interrupt, InterruptCount, InterruptCond
  <2>2. CASE InterruptWake
    BY <2>2 DEF InterruptWake, Woken
  <2>3. CASE ThreadCheck
    BY <2>3 DEF ThreadCheck
  <2>4. CASE Thread /\ ~ThreadCheck
    BY <2>4 DEF Thread, ThreadReset, ThreadWoken, ThreadWokenCatchUp, ThreadBh, ThreadDec, ThreadLoop
  <2>5. CASE InitThread \/ InitIrq \/ Exit
    BY <2>5 DEF InitThread, InitIrq, Exit
  <2>6. CASE ExitStop
    <3>1. should_stop'
      BY <2>6, Zenon DEF ExitStop
    <3>2. mod' = "join" => tpc' \notin {"none", "sleep"}
      BY <2>6 DEF ExitStop, Woken
    <3> QED BY <2>6, <3>1, <3>2 DEF ExitStop
  <2>7. CASE ExitJoin \/ ExitFree \/ UNCHANGED vars
    BY <2>7 DEF ExitJoin, ExitFree, vars
  <2> QED BY <2>1, <2>2, <2>3, <2>4, <2>5, <2>6, <2>7 DEF Next, Handler, Loader
<1> QED BY <1>1, <1>2, PTL DEF Spec

\* thr_fun of both solutions handles an event only after my_interrupt has raised it,
\* and each at most once; the steps by which the counters are cleared and the flag
\* is set, tested and cleared do not show.
THEOREM Refinement == Spec => ImplementsBottomHalf
<1>1. Init => BH!Init
  BY DEF Init, BH!Init, Raised
<1>2. IInv /\ [Next]_vars => [BH!Next]_<<Raised, counter_bh>>
  <2> SUFFICES ASSUME IInv, [Next]_vars PROVE [BH!Next]_<<Raised, counter_bh>>
    OBVIOUS
  <2> USE DEF IInv, TypeOK, Raised
  <2>1. CASE Interrupt
    <3>1. Raised' = Raised + 1 /\ counter_bh' = counter_bh
      BY <2>1 DEF Interrupt, OneEachTime, CatchUp
    <3> QED BY <3>1 DEF BH!Next, BH!Raise
  <2>2. CASE Handler
    <3>1. Raised' = Raised /\ counter_bh' = counter_bh
      BY <2>2 DEF Handler, InterruptCount, InterruptCond, InterruptWake
    <3> QED BY <3>1
  <2>3. CASE ThreadWoken
    <3>1. Raised' = Raised /\ hpc # "th"
      BY <2>3 DEF ThreadWoken, OneEachTime, CatchUp
    <3>2. CASE cond = 1
      <4>1. counter_bh < Raised /\ counter_bh' = counter_bh + 1
        BY <2>3, <3>1, <3>2 DEF ThreadWoken, OneEachTime, CatchUp, Tokens
      <4> QED BY <3>1, <4>1 DEF BH!Next, BH!Handle
    <3>3. CASE cond # 1
      BY <2>3, <3>1, <3>3 DEF ThreadWoken
    <3> QED BY <3>2, <3>3
  <2>4. CASE ThreadBh
    <3>1. Raised' = Raised /\ counter_bh' = counter_bh + 1
      BY <2>4 DEF ThreadBh
    <3>2. counter_bh < Raised
      BY <2>4 DEF ThreadBh, EventsConserved, OneEachTime, CatchUp, InHand
    <3> QED BY <3>1, <3>2 DEF BH!Next, BH!Handle
  <2>5. CASE Thread /\ ~ThreadWoken /\ ~ThreadBh
    <3>1. Raised' = Raised /\ counter_bh' = counter_bh
      BY <2>5 DEF Thread, ThreadReset, ThreadCheck, ThreadWokenCatchUp, ThreadDec, ThreadLoop
    <3> QED BY <3>1
  <2>6. CASE InitIrq
    <3>1. Raised' = Raised /\ counter_bh' = counter_bh
      BY <2>6 DEF InitIrq, Early, Installed
    <3> QED BY <3>1
  <2>7. CASE InitThread \/ Exit \/ ExitStop \/ ExitJoin \/ ExitFree \/ UNCHANGED vars
    <3>1. Raised' = Raised /\ counter_bh' = counter_bh
      BY <2>7 DEF InitThread, Exit, ExitStop, ExitJoin, ExitFree, vars
    <3> QED BY <3>1
  <2> QED BY <2>1, <2>2, <2>3, <2>4, <2>5, <2>6, <2>7 DEF Next, Loader, Thread
<1> QED BY <1>1, <1>2, Invariance, PTL DEF Spec, ImplementsBottomHalf, BH!Spec
=============================================================================
