---------------------------- MODULE TimersProofs ----------------------------
(***************************************************************************)
(* The timer drivers, the waiting readers of lab8_jiq.c, the delayed reads *)
(* of lab9_jit.c and the transmitter of tiny_serial.c, for any number of   *)
(* timers, of reads and of lines, and for any size of the transmit buffer. *)
(***************************************************************************)
EXTENDS MCTimers, FiniteSetTheorems, TLAPS

-----------------------------------------------------------------------------
(* Timers: the module is quiet once it is unloaded                         *)

\* What the proofs use of the eight drivers.
LEMMA DriverFields ==
  ASSUME driver \in AllDrivers
  PROVE  /\ driver.started \in 0..2 /\ driver.deleted \in 0..2
         /\ driver.frees = "function" <=> driver.stop = "count"
         /\ driver.stop = "count" => /\ driver.rearm = "no"
                                      /\ driver.started = 0 /\ driver.deleted = 0
         /\ driver = lab1_timer => /\ driver.stop = "sync" /\ driver.rearm = "no"
                                   /\ driver.started = 0 /\ driver.deleted = 1
         /\ driver.stop = "sync" /\ driver # lab1_timer => driver.started = driver.deleted
BY DEF AllDrivers, Timer, lab1_timer, lab2_multitimer, lab3_periodic_timer, lab4_periodic_timers,
       lab4_periodic_timers_alt, lab5_hrtimer, lab7_hrexamp, defer_lab1_timer

TimerTypes ==
  /\ driver \in AllDrivers
  /\ mod \in {"none", "loaded", "exit", "unloaded", "corrupt"}
  /\ next \in Nat /\ next >= 1 /\ ntimers \in Int
  /\ pending \subseteq Slots /\ memory \subseteq Slots
  /\ fpc \in [Slots -> {"idle", "run", "dec", "return"}]
  /\ wpc \in {0} \cup Slots

\* How far the module is: before my_init nothing runs, a write() keeps it loaded,
\* and my_exit ends after the last timer it deletes.
Progress ==
  /\ mod \in {"none", "loaded", "corrupt"} => next = 1
  /\ mod = "none" => pending = {} /\ wpc = 0 /\ \A t \in Slots : fpc[t] = "idle"
  /\ wpc # 0 => mod = "loaded" /\ driver.stop = "count"
  /\ mod = "unloaded" => next > driver.deleted

\* del_timer_sync: what is pending or runs is not deleted yet.  The function that
\* lab1_timer has lost sight of may run, but does not start its timer again.
SyncInv ==
  driver.stop = "sync" =>
    /\ pending \subseteq next..driver.deleted
    /\ driver # lab1_timer => \A t \in Slots : fpc[t] # "idle" => t \in next..driver.deleted

\* ntimers of lab2_multitimer counts the timers that were announced and have not
\* counted themselves out: the write() before its add_timer, those that wait, and
\* the functions that run.
Announced == {t \in Slots : t = wpc \/ t \in pending \/ fpc[t] \in {"run", "dec"}}

CountInv ==
  driver.stop = "count" =>
    /\ ntimers = Cardinality(Announced)
    /\ \A t \in pending : fpc[t] = "idle" /\ t # wpc
    /\ wpc # 0 => fpc[wpc] = "idle"
    /\ mod = "unloaded" => ntimers = 0

TimersInv == TimerTypes /\ Progress /\ SyncInv /\ CountInv

LEMMA FiniteSlots ==
  ASSUME NEW S \in SUBSET Slots
  PROVE  IsFiniteSet(S) /\ Cardinality(S) \in Nat
<1>1. IsFiniteSet(Slots)
  BY TimersAssumption, FS_Interval DEF Slots
<1>2. IsFiniteSet(S)
  BY <1>1, FS_Subset
<1> QED BY <1>2, FS_CardinalityType

\* The functions and the module's actions that never announce a timer.
LEMMA TimersTypesStep ==
  ASSUME TimersInv, Next
  PROVE  TimerTypes' /\ Progress'
<1> USE TimersAssumption, DriverFields DEF TimersInv, TimerTypes, Progress, Slots
<1>1. ASSUME NEW t \in Slots, Function(t), mod # "corrupt" PROVE TimerTypes' /\ Progress'
  <2>1. TimerTypes'
    <3>1. CASE Expire(t) \/ Return(t)
      BY <3>1 DEF Expire, Return
    <3>2. CASE Rearm(t) \/ Restart(t)
      BY <3>2 DEF Rearm, Restart
    <3>3. CASE Once(t)
      BY <3>3 DEF Once
    <3>4. CASE Dec(t)
      BY <3>4 DEF Dec
    <3> QED BY <1>1, <3>1, <3>2, <3>3, <3>4 DEF Function
  <2>2. mod # "none"
    BY <1>1 DEF Function, Expire, Rearm, Restart, Once, Dec, Return
  <2>3. UNCHANGED <<driver, mod, next, wpc>>
    BY <1>1 DEF Function, Expire, Rearm, Restart, Once, Dec, Return
  <2> QED BY <2>1, <2>2, <2>3
<1>2. CASE WriteInc
  BY <1>2 DEF WriteInc, Unused
<1>6. CASE WriteAdd
  BY <1>6 DEF WriteAdd
<1>3. CASE WriteReinit
  BY <1>3 DEF WriteReinit
<1>4. CASE Load
  BY <1>4 DEF Load
<1>5. CASE ExitStart
  BY <1>5 DEF ExitStart
<1>8. CASE ExitDelete
  BY <1>8 DEF ExitDelete
<1>7. CASE ExitEnd
  BY <1>7 DEF ExitEnd
<1> QED BY <1>1, <1>2, <1>3, <1>4, <1>5, <1>6, <1>7, <1>8 DEF Next

LEMMA SyncStep ==
  ASSUME TimersInv, Next
  PROVE  SyncInv'
<1> SUFFICES ASSUME driver'.stop = "sync"
    PROVE  /\ pending' \subseteq next'..driver'.deleted
           /\ driver' # lab1_timer =>
                \A t \in Slots : fpc'[t] # "idle" => t \in next'..driver'.deleted
  BY DEF SyncInv
<1>1. driver' = driver
  BY DEF Next, Function, Expire, Rearm, Restart, Once, Dec, Return, WriteInc, WriteAdd,
         WriteReinit, Load, ExitStart, ExitDelete, ExitEnd
<1> USE TimersAssumption, DriverFields, <1>1 DEF TimersInv, TimerTypes, SyncInv, Slots
<1>2. ASSUME NEW t \in Slots, Function(t)
      PROVE  /\ pending' \subseteq next'..driver'.deleted
             /\ driver' # lab1_timer =>
                  \A s \in Slots : fpc'[s] # "idle" => s \in next'..driver'.deleted
  BY <1>2 DEF Function, Expire, Rearm, Restart, Once, Dec, Return
<1>3. CASE WriteInc \/ WriteAdd
  BY <1>3 DEF WriteInc, WriteAdd, Progress
<1>4. CASE WriteReinit
  BY <1>4 DEF WriteReinit, Progress
<1>5. CASE Load
  BY <1>5 DEF Load, Progress
<1>6. CASE ExitStart \/ ExitEnd
  BY <1>6 DEF ExitStart, ExitEnd
<1>7. CASE ExitDelete
  BY <1>7 DEF ExitDelete
<1> QED BY <1>2, <1>3, <1>4, <1>5, <1>6, <1>7 DEF Next

LEMMA CountStep ==
  ASSUME TimersInv, Next
  PROVE  CountInv'
<1> SUFFICES ASSUME driver'.stop = "count"
    PROVE  /\ ntimers' = Cardinality(Announced')
           /\ \A t \in pending' : fpc'[t] = "idle" /\ t # wpc'
           /\ wpc' # 0 => fpc'[wpc'] = "idle"
           /\ mod' = "unloaded" => ntimers' = 0
  BY DEF CountInv
<1>1. driver' = driver
  BY DEF Next, Function, Expire, Rearm, Restart, Once, Dec, Return, WriteInc, WriteAdd,
         WriteReinit, Load, ExitStart, ExitDelete, ExitEnd
<1>2. Announced \in SUBSET Slots
  BY DEF Announced
<1>3. /\ IsFiniteSet(Announced) /\ Cardinality(Announced) \in Nat
      /\ \A t : t \notin Announced => Cardinality(Announced \cup {t}) = Cardinality(Announced) + 1
      /\ \A t \in Announced : Cardinality(Announced \ {t}) = Cardinality(Announced) - 1
  BY <1>2, FiniteSlots, FS_AddElement, FS_RemoveElement
<1>4. mod = "unloaded" => Announced = {}
  BY <1>1, <1>3, FS_EmptySet DEF TimersInv, CountInv
<1> USE TimersAssumption, DriverFields, <1>1 DEF TimersInv, TimerTypes, CountInv, Slots
<1>5. ASSUME NEW t \in Slots, Expire(t) \/ Once(t) \/ Return(t)
      PROVE  CountInv'
  <2>1. Announced' = Announced
    BY <1>5 DEF Expire, Once, Return, Announced
  <2>2. UNCHANGED <<mod, ntimers, wpc>> /\ pending' \subseteq pending
    BY <1>5 DEF Expire, Once, Return
  <2>3. \A s \in Slots : s \in pending' \/ s = wpc' => fpc'[s] = "idle"
    BY <1>5 DEF Expire, Once, Return
  <2> QED BY <2>1, <2>2, <2>3
<1>6. ASSUME NEW t \in Slots, Rearm(t) \/ Restart(t)
      PROVE  FALSE
  BY <1>6 DEF Rearm, Restart
<1>7. ASSUME NEW t \in Slots, Dec(t)
      PROVE  CountInv'
  <2>1. t \in Announced /\ Announced' = Announced \ {t}
    BY <1>7 DEF Dec, Announced
  <2>2. mod # "unloaded"
    BY <1>4, <2>1
  <2> QED BY <1>3, <1>7, <2>1, <2>2 DEF Dec
<1>8. CASE WriteInc
  <2>1. wpc' \notin Announced /\ Announced' = Announced \cup {wpc'} /\ wpc' \in Slots
    BY <1>8 DEF WriteInc, Unused, Announced
  <2>2. mod' = "loaded"
    BY <1>8 DEF WriteInc
  <2>3. ntimers' = Cardinality(Announced')
    BY <1>3, <1>8, <2>1 DEF WriteInc
  <2> QED BY <1>8, <2>2, <2>3 DEF WriteInc, Unused
<1>9. CASE WriteAdd
  <2>1. Announced' = Announced
    BY <1>9 DEF WriteAdd, Announced
  <2> QED BY <1>9, <2>1 DEF WriteAdd, Progress
<1>10. CASE WriteReinit
  BY <1>10 DEF WriteReinit
<1>11. CASE Load
  <2>1. pending' = {} /\ Announced' = Announced
    BY <1>11 DEF Load, Announced, Progress
  <2> QED BY <1>11, <2>1 DEF Load
<1>12. CASE ExitStart
  <2>1. Announced' = Announced
    BY <1>12 DEF ExitStart, Announced
  <2> QED BY <1>12, <2>1 DEF ExitStart
<1>13. CASE ExitDelete
  BY <1>13 DEF ExitDelete, Progress
<1>14. CASE ExitEnd
  <2>1. Announced' = Announced
    BY <1>14 DEF ExitEnd, Announced
  <2> QED BY <1>14, <2>1 DEF ExitEnd
<1> QED BY <1>5, <1>6, <1>7, <1>8, <1>9, <1>10, <1>11, <1>12, <1>13, <1>14
        DEF Next, Function

\* my_exit of the timer drivers that delete synchronously or wait for their count, for
\* any number of timers: when the module is gone no timer is pending and no function
\* runs, but the one that lab1_timer has lost sight of and the last instructions of one
\* of lab2_multitimer that has counted itself out.
THEOREM QuietOnceUnloaded == Spec => []QuietAfterUnload
<1>1. Init => TimersInv
  <2> SUFFICES ASSUME Init PROVE TimersInv
    OBVIOUS
  <2>1. TimerTypes /\ Progress
    BY TimersAssumption DEF Init, TimerTypes, Progress, Slots
  <2>2. SyncInv
    BY DEF Init, SyncInv
  <2>3. Announced = {}
    BY DEF Init, Announced, Slots
  <2>4. CountInv
    BY <2>3, FS_EmptySet DEF Init, CountInv
  <2> QED BY <2>1, <2>2, <2>4 DEF TimersInv
<1>2. TimersInv /\ [Next]_vars => TimersInv'
  <2>1. CASE UNCHANGED vars
    BY <2>1 DEF vars, TimersInv, TimerTypes, Progress, SyncInv, CountInv, Announced
  <2> QED BY <2>1, TimersTypesStep, SyncStep, CountStep DEF TimersInv
<1>3. TimersInv => QuietAfterUnload
  <2> SUFFICES ASSUME TimersInv, mod = "unloaded"
      PROVE  /\ driver.stop \in {"sync", "count"} => pending = {}
             /\ driver.stop = "sync" /\ driver # lab1_timer => Running = {}
             /\ driver.stop = "count" => \A t \in Running : fpc[t] = "return"
    BY DEF QuietAfterUnload
  <2> USE DriverFields DEF TimersInv, TimerTypes, Progress
  <2>1. CASE driver.stop = "sync"
    BY <2>1 DEF SyncInv, Running, Slots
  <2>2. CASE driver.stop = "count"
    <3>1. Announced = {}
      BY <2>2, FiniteSlots, FS_EmptySet DEF CountInv, Announced
    <3> QED BY <2>2, <3>1 DEF Announced, Running
  <2> QED BY <2>1, <2>2
<1> QED BY <1>1, <1>2, <1>3, PTL DEF Spec

-----------------------------------------------------------------------------
(* Jiq: no reader sleeps without the item that will wake it                *)

\* The item of a file is queued or its function runs.
Underway(f) == f \in q_queued \/ ipc[f] # "idle"

\* A reader of jiqwq or jiqwqdelay that sleeps and was not woken
WorkWaits(r) == q_pc[r] = "sleep" /\ Queues!Prepares(file[r]) /\ r \notin awake

\* While such a reader sleeps its item goes on.
ItemGoesOn == \A r \in Readers : WorkWaits(r) => Underway(file[r])

\* The readers of the other files come to the queue on another way.
JiqTypes ==
  /\ q_pc \in [Readers -> {"idle", "prepare", "submit", "print", "schedule", "sleep_on",
                            "sleep", "finish"}]
  /\ file \in [Readers -> Queues!Files] /\ ipc \in [Queues!Files -> {"idle", "print", "add"}]
  /\ \A r \in Readers : q_pc[r] \in {"print", "schedule", "sleep_on"} => ~Queues!Prepares(file[r])

JiqInv == JiqTypes /\ ItemGoesOn

LEMMA JiqStep ==
  ASSUME JiqInv, Queues!Next
  PROVE  JiqInv'
<1> USE DEF JiqInv, JiqTypes, ItemGoesOn, WorkWaits, Underway, Queues!Prepares, Queues!Goto, Queues!Files
<1>1. ASSUME NEW r \in Readers, NEW f \in Queues!Files, Queues!ReadStart(r, f) PROVE JiqInv'
  BY <1>1 DEF Queues!ReadStart
<1>2. ASSUME NEW r \in Readers, Queues!ReadPrepare(r) \/ Queues!ReadSubmit(r) PROVE JiqInv'
  BY <1>2 DEF Queues!ReadPrepare, Queues!ReadSubmit
<1>3. ASSUME NEW r \in Readers, Queues!ReadPrint(r) PROVE JiqInv'
  <2>1. awake \subseteq awake' /\ UNCHANGED <<file, q_queued, ipc>>
    BY <1>3 DEF Queues!ReadPrint, Queues!Wake
  <2>2. q_pc[r] = "print" /\ q_pc' = [q_pc EXCEPT ![r] = "schedule"]
    BY <1>3 DEF Queues!ReadPrint
  <2> QED BY <2>1, <2>2
<1>4. ASSUME NEW r \in Readers, Queues!ReadSchedule(r) \/ Queues!ReadSleepOn(r) PROVE JiqInv'
  BY <1>4 DEF Queues!ReadSchedule, Queues!ReadSleepOn
<1>5. ASSUME NEW r \in Readers, Queues!ReadWoken(r) \/ Queues!ReadSignal(r) PROVE JiqInv'
  BY <1>5 DEF Queues!ReadWoken, Queues!ReadSignal
<1>6. ASSUME NEW r \in Readers, Queues!ReadFinish(r) PROVE JiqInv'
  BY <1>6 DEF Queues!ReadFinish
<1>7. ASSUME NEW f \in Queues!Files, Queues!ItemStart(f) PROVE JiqInv'
  BY <1>7 DEF Queues!ItemStart
<1>8. ASSUME NEW f \in Queues!Files, Queues!PrintTest(f) PROVE JiqInv'
  BY <1>8 DEF Queues!PrintTest, Queues!Wake
<1>9. ASSUME NEW f \in Queues!Files, Queues!PrintAdd(f) PROVE JiqInv'
  BY <1>9 DEF Queues!PrintAdd, Queues!Wake
<1> QED BY <1>1, <1>2, <1>3, <1>4, <1>5, <1>6, <1>7, <1>8, <1>9
        DEF Queues!Next, Queues!Reader, Queues!Item

\* jiq_read_wq and jiq_read_wq_delayed enter jiq_wait before they submit their item: for
\* any number of readers that share the items and the buffer, a reader that sleeps was
\* woken or its item is queued or runs, so that no wakeup passes it by (until two readers
\* of jitimer have corrupted the timer list, after which nothing is said).
THEOREM NoReaderForgotten == Queues!Spec => []ItemGoesOn
<1>1. Queues!Init => JiqInv
  BY DEF Queues!Init, Queues!Files, Queues!Prepares, JiqInv, JiqTypes, ItemGoesOn, WorkWaits
<1>2. JiqInv /\ [Queues!Next]_jiqVars => JiqInv'
  <2>1. CASE UNCHANGED jiqVars
    BY <2>1 DEF jiqVars, JiqInv, JiqTypes, ItemGoesOn, WorkWaits, Underway
  <2> QED BY <2>1, JiqStep
<1>3. JiqInv => ItemGoesOn
  BY DEF JiqInv
<1> QED BY <1>1, <1>2, <1>3, PTL DEF Queues!Spec, Queues!vars, jiqVars

-----------------------------------------------------------------------------
(* Jit: a read returns with a full buffer                                  *)

\* The function of a read is still to print.
Printing(r) == r \in t_queued \/ t_fpc[r] \in {"line", "dec"}

JitTypes ==
  /\ t_pc \in [Readers -> {"idle", "check", "asleep", "done", "returned", "failed"}]
  /\ t_fpc \in [Readers -> {"idle", "line", "dec", "wake"}]
  /\ loops \in [Readers -> Int] /\ lines \in [Readers -> Int]
  /\ t_queued \subseteq Readers

\* The lines printed and the runs to come add up while the function has runs to
\* come, a run that has printed and not counted included; and it has, exactly as
\* long as loops is not 0.
JitRead(r) ==
  /\ t_pc[r] = "idle" => r \notin t_queued /\ t_fpc[r] = "idle"
  /\ r \in t_queued => t_fpc[r] = "idle"
  /\ Printing(r) => /\ loops[r] >= 1
                    /\ lines[r] + loops[r]
                         = JIT_ASYNC_LOOPS + 2 + (IF t_fpc[r] = "dec" THEN 1 ELSE 0)
  /\ t_pc[r] \in {"check", "asleep", "done", "returned"} /\ ~Printing(r)
       => loops[r] = 0 /\ lines[r] = JIT_ASYNC_LOOPS + 2
  /\ t_pc[r] \in {"done", "returned"} => loops[r] = 0

JitInv == JitTypes /\ \A r \in Readers : JitRead(r)

\* A step of one read leaves the state of the others alone.
LEMMA JitOthers ==
  ASSUME NEW q, JitRead(q), t_pc'[q] = t_pc[q], t_fpc'[q] = t_fpc[q],
         loops'[q] = loops[q], lines'[q] = lines[q], q \in t_queued' <=> q \in t_queued
  PROVE  JitRead(q)'
BY DEF JitRead, Printing

LEMMA JitStep ==
  ASSUME JitInv, Delays!Next
  PROVE  JitInv'
<1> USE MCTimersAssumption DEF JitInv, JitTypes, Delays!Goto
<1>1. PICK r \in Readers :
        \/ Delays!ReadStart(r) \/ Delays!ReadNoMemory(r) \/ Delays!ReadSignal(r)
        \/ Delays!ReadCheck(r) \/ Delays!ReadReturn(r)
        \/ Delays!Fire(r) \/ Delays!FnLine(r) \/ Delays!FnDec(r) \/ Delays!FnWake(r)
  BY DEF Delays!Next, Delays!Reader, Delays!Function
<1>2. CASE Delays!ReadStart(r)
  <2>1. JitTypes'
    BY <1>2 DEF Delays!ReadStart
  <2>2. JitRead(r)'
    BY <1>2 DEF Delays!ReadStart, JitRead, Printing
  <2>3. \A q \in Readers \ {r} : JitRead(q)'
    BY <1>2, JitOthers DEF Delays!ReadStart
  <2> QED BY <2>1, <2>2, <2>3
<1>3. CASE Delays!ReadNoMemory(r) \/ Delays!ReadSignal(r)
  BY <1>3 DEF Delays!ReadNoMemory, Delays!ReadSignal, JitRead, Printing
<1>4. CASE Delays!ReadCheck(r)
  BY <1>4 DEF Delays!ReadCheck, JitRead, Printing
<1>5. CASE Delays!ReadReturn(r)
  BY <1>5 DEF Delays!ReadReturn, JitRead, Printing
<1>6. CASE Delays!Fire(r)
  <2>1. JitTypes'
    BY <1>6 DEF Delays!Fire
  <2>2. JitRead(r)'
    BY <1>6 DEF Delays!Fire, JitRead, Printing
  <2>3. \A q \in Readers \ {r} : JitRead(q)'
    BY <1>6, JitOthers DEF Delays!Fire
  <2> QED BY <2>1, <2>2, <2>3
<1>7. CASE Delays!FnLine(r)
  <2>1. JitTypes'
    BY <1>7 DEF Delays!FnLine
  <2>2. JitRead(r)'
    BY <1>7 DEF Delays!FnLine, JitRead, Printing
  <2>3. \A q \in Readers \ {r} : JitRead(q)'
    BY <1>7, JitOthers DEF Delays!FnLine
  <2> QED BY <2>1, <2>2, <2>3
<1>8. CASE Delays!FnDec(r)
  <2>1. JitTypes'
    BY <1>8 DEF Delays!FnDec
  <2>2. JitRead(r)'
    BY <1>8 DEF Delays!FnDec, JitRead, Printing
  <2>3. \A q \in Readers \ {r} : JitRead(q)'
    BY <1>8, JitOthers DEF Delays!FnDec
  <2> QED BY <2>1, <2>2, <2>3
<1>9. CASE Delays!FnWake(r)
  BY <1>9 DEF Delays!FnWake, JitRead, Printing
<1> QED BY <1>1, <1>2, <1>3, <1>4, <1>5, <1>6, <1>7, <1>8, <1>9

\* jit_timer and jit_tasklet of lab9_jit.c, for any number of lines: a read that
\* returns to user space has them all, and its function is past the last one.
THEOREM ReadsFullBuffer == Delays!Spec => []BufferFull
<1>1. Delays!Init => JitInv
  BY DEF Delays!Init, JitInv, JitTypes, JitRead, Printing
<1>2. JitInv /\ [Delays!Next]_jitVars => JitInv'
  <2>1. CASE UNCHANGED jitVars
    BY <2>1 DEF jitVars, JitInv, JitTypes, JitRead, Printing
  <2> QED BY <2>1, JitStep
<1>3. JitInv => BufferFull
  BY DEF JitInv, JitRead, Printing, BufferFull, Delays!BufferFull
<1> QED BY <1>1, <1>2, <1>3, PTL DEF Delays!Spec, Delays!vars, jitVars

-----------------------------------------------------------------------------
(* TinyPort: no character is lost or repeated                              *)

\* Positions in a ring of n slots.
LEMMA RingPosition ==
  ASSUME NEW n \in Nat \ {0}, NEW x \in Int
  PROVE  /\ x \in 0..(n - 1) => x % n = x
         /\ x \in (0 - n)..(0 - 1) => x % n = x + n
         /\ x = n => x % n = 0
OBVIOUS

\* Filling a slot adds one to the distance from tail to head, and emptying one
\* takes one off.
LEMMA RingDistance ==
  ASSUME NEW n \in Nat \ {0}, NEW h \in 0..(n - 1), NEW t \in 0..(n - 1)
  PROVE  /\ (h + 1) % n \in 0..(n - 1) /\ (t + 1) % n \in 0..(n - 1) /\ (h - t) % n \in Nat
         /\ (h + 1) % n # t => (((h + 1) % n) - t) % n = ((h - t) % n) + 1
         /\ h # t => (h - ((t + 1) % n)) % n = ((h - t) % n) - 1
<1> DEFINE next_h == (h + 1) % n
           next_t == (t + 1) % n
<1>1. next_h = IF h + 1 = n THEN 0 ELSE h + 1
  BY RingPosition
<1>2. next_t = IF t + 1 = n THEN 0 ELSE t + 1
  BY RingPosition
<1>3. \A x \in (1 - n)..(n - 1) : x % n = IF x >= 0 THEN x ELSE x + n
  BY RingPosition
<1> HIDE DEF next_h, next_t
<1>4. next_h \in 0..(n - 1) /\ next_t \in 0..(n - 1)
  BY <1>1, <1>2
<1>5. (h - t) % n = IF h - t >= 0 THEN h - t ELSE h - t + n
  BY <1>3
<1>6. (next_h - t) % n = IF next_h - t >= 0 THEN next_h - t ELSE next_h - t + n
  BY <1>3, <1>4
<1>7. (h - next_t) % n = IF h - next_t >= 0 THEN h - next_t ELSE h - next_t + n
  BY <1>3, <1>4
<1>8. next_h # t => (next_h - t) % n = ((h - t) % n) + 1
  BY <1>1, <1>5, <1>6
<1>9. h # t => (h - next_t) % n = ((h - t) % n) - 1
  BY <1>2, <1>5, <1>7
<1>10. (h - t) % n \in Nat
  BY <1>5
<1> QED BY <1>4, <1>8, <1>9, <1>10 DEF next_h, next_t

\* tiny_tx_chars is in its loop only while there is a character to send, and clears
\* x_char only while one is there: only it takes characters out.
PortInv ==
  /\ head \in 0..(UART_XMIT_SIZE - 1) /\ tail \in 0..(UART_XMIT_SIZE - 1)
  /\ written \in Int /\ tx \in Int /\ x_char \in 0..1
  /\ xset \in Int /\ xsent \in Int /\ xlost \in Int
  /\ tpc = "send" => head # tail
  /\ tpc = "xchar" => x_char = 1
  /\ TxConserved

LEMMA PortStep ==
  ASSUME PortInv, Port!Next
  PROVE  PortInv'
<1> DEFINE dist == (head - tail) % UART_XMIT_SIZE
<1>1. CASE Port!Open \/ Port!Close \/ Port!Unload \/ Port!Expire \/ Port!TimerAdd
  <2>1. /\ UNCHANGED <<head, tail, written, tx, x_char, xset, xsent, xlost>>
        /\ (tpc' = "send" => tpc = "send") /\ (tpc' = "xchar" => tpc = "xchar")
    BY <1>1 DEF Port!Open, Port!Close, Port!Unload, Port!Expire, Port!TimerAdd, Port!bufVars,
                Port!xVars
  <2> QED BY <2>1 DEF PortInv, TxConserved, Port!TxConserved
<1>2. dist \in Nat
  BY MCTimersAssumption, RingDistance DEF PortInv
<1>3. tx = written - dist + xsent /\ xset = xsent + xlost + x_char
  BY DEF PortInv, TxConserved, Port!TxConserved
<1>4. CASE Port!TxStart
  <2>1. /\ UNCHANGED <<head, tail, written, tx, x_char, xset, xsent, xlost>>
        /\ (tpc' = "send" => head # tail) /\ (tpc' = "xchar" => x_char # 0)
    BY <1>4 DEF Port!TxStart, Port!Empty, Port!xVars
  <2> QED BY <2>1 DEF PortInv, TxConserved, Port!TxConserved
<1>5. CASE Port!TxXChar
  <2>1. /\ UNCHANGED <<head, tail, written, xset, xlost>> /\ tpc = "xchar" /\ tpc' = "idle"
        /\ tx' = tx + 1 /\ x_char' = 0 /\ xsent' = xsent + 1
    BY <1>5 DEF Port!TxXChar
  <2> HIDE DEF dist
  <2>2. tx' = written' - dist + xsent' /\ xset' = xsent' + xlost' + x_char'
    BY <1>2, <1>3, <2>1 DEF PortInv
  <2>3. TxConserved'
    BY <2>1, <2>2 DEF TxConserved, Port!TxConserved, dist
  <2> QED BY <2>1, <2>3 DEF PortInv
<1>6. CASE Port!TxSend
  <2>1. /\ tail' = (tail + 1) % UART_XMIT_SIZE /\ head # tail
        /\ UNCHANGED <<head, written, x_char, xset, xsent, xlost>> /\ tx' = tx + 1
        /\ (tpc' = "send" => head # tail') /\ tpc' # "xchar"
    BY <1>6 DEF Port!TxSend, PortInv, Port!xVars
  <2>2. tail' \in 0..(UART_XMIT_SIZE - 1) /\ (head' - tail') % UART_XMIT_SIZE = dist - 1
    <3>1. /\ (tail + 1) % UART_XMIT_SIZE \in 0..(UART_XMIT_SIZE - 1)
          /\ (head - ((tail + 1) % UART_XMIT_SIZE)) % UART_XMIT_SIZE = dist - 1
      BY <2>1, MCTimersAssumption, RingDistance, Zenon DEF PortInv
    <3>2. head' = head /\ tail' = (tail + 1) % UART_XMIT_SIZE
      BY <2>1
    <3>3. tail' \in 0..(UART_XMIT_SIZE - 1)
      BY <3>1, <3>2
    <3>4. (head' - tail') % UART_XMIT_SIZE = (head - ((tail + 1) % UART_XMIT_SIZE)) % UART_XMIT_SIZE
      BY <3>2, <3>3, MCTimersAssumption DEF PortInv
    <3> HIDE DEF dist
    <3> QED BY <3>1, <3>3, <3>4
  <2> HIDE DEF dist
  <2>3. tx' = written' - (dist - 1) + xsent' /\ xset' = xsent' + xlost' + x_char'
    BY <1>2, <1>3, <2>1 DEF PortInv
  <2>4. TxConserved'
    BY <2>2, <2>3 DEF TxConserved, Port!TxConserved
  <2> QED BY <2>1, <2>2, <2>4 DEF PortInv
<1>7. CASE Port!CoreWrite
  <2>1. /\ head' = (head + 1) % UART_XMIT_SIZE /\ head' # tail
        /\ UNCHANGED <<tail, tx, x_char, tpc, xset, xsent, xlost>> /\ written' = written + 1
    BY <1>7 DEF Port!CoreWrite, PortInv, Port!xVars
  <2>2. head' \in 0..(UART_XMIT_SIZE - 1) /\ (head' - tail') % UART_XMIT_SIZE = dist + 1
    BY <2>1, MCTimersAssumption, RingDistance DEF PortInv
  <2> HIDE DEF dist
  <2>3. tx' = written' - (dist + 1) + xsent' /\ xset' = xsent' + xlost' + x_char'
    BY <1>2, <1>3, <2>1 DEF PortInv
  <2>4. TxConserved'
    BY <2>2, <2>3 DEF TxConserved, Port!TxConserved
  <2> QED BY <2>1, <2>2, <2>4 DEF PortInv
<1>8. CASE Port!CoreXChar
  <2>1. /\ UNCHANGED <<head, tail, written, tx, tpc, xsent>>
        /\ xset' = xset + 1 /\ x_char' = 1 /\ xlost' = xlost + x_char
    BY <1>8 DEF Port!CoreXChar
  <2> HIDE DEF dist
  <2>2. tx' = written' - dist + xsent' /\ xset' = xsent' + xlost' + x_char'
    BY <1>2, <1>3, <2>1 DEF PortInv
  <2>3. TxConserved'
    BY <2>1, <2>2 DEF TxConserved, Port!TxConserved, dist
  <2> QED BY <2>1, <2>3 DEF PortInv
<1> QED BY <1>1, <1>4, <1>5, <1>6, <1>7, <1>8 DEF Port!Next, Port!Timer

\* tiny_tx_chars of tiny_serial.c against the core that fills the buffer and stores
\* x_char, for any size of the buffer and of the fifo: every character of the buffer is
\* sent once or waits, and so is every high-priority one that no other was stored over.
THEOREM NoCharacterLost == Port!Spec => []TxConserved
<1>1. Port!Init => PortInv
  <2> SUFFICES ASSUME Port!Init PROVE PortInv
    OBVIOUS
  <2>1. /\ head = 0 /\ tail = 0 /\ written = 0 /\ tx = 0 /\ tpc = "idle" /\ x_char = 0
        /\ xset = 0 /\ xsent = 0 /\ xlost = 0
    BY DEF Port!Init
  <2>2. 0 % UART_XMIT_SIZE = 0
    BY MCTimersAssumption, RingPosition
  <2> QED BY <2>1, <2>2, MCTimersAssumption DEF PortInv, TxConserved, Port!TxConserved
<1>2. PortInv /\ [Port!Next]_portVars => PortInv'
  <2>1. CASE UNCHANGED portVars
    BY <2>1 DEF portVars, PortInv, TxConserved, Port!TxConserved
  <2> QED BY <2>1, PortStep
<1>3. PortInv => TxConserved
  BY DEF PortInv
<1> QED BY <1>1, <1>2, <1>3, PTL DEF Port!Spec, Port!vars, portVars
=============================================================================
