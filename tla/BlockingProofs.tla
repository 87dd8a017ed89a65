--------------------------- MODULE BlockingProofs ---------------------------
(***************************************************************************)
(* The drivers whose read() waits for a write(), for any number of         *)
(* processes and writes: NoLostWakeup and NsleepersExact of module         *)
(* CharWait, TokensConserved of module CountWait.                          *)
(*                                                                         *)
(* With the type invariant NoLostWakeup is inductive as it stands: only    *)
(* WriteSet makes the condition true, and the process that takes it is     *)
(* then itself the writer on its way to the wakeup; only WriteWake takes a *)
(* writer off that way, and it leaves nobody asleep.                       *)
(***************************************************************************)
EXTENDS MCBlocking, FiniteSetTheorems, TLAPS

\* The disjuncts of Next, for one process.
Step(p) ==
  \/ Open(p) \/ Release(p)
  \/ ReadStart(p) \/ ReadCheck(p) \/ ReadSignal(p) \/ ReadClear(p) \/ ReadDec(p) \/ ReadLast(p)
  \/ WriteStart(p) \/ WriteSet(p) \/ WriteWake(p) \/ WriteKill(p)
  \/ PollStart(p) \/ Poll(p) \/ PollEnd(p) \/ Fasync(p)

LEMMA NextSteps == Next <=> \E p \in Procs : Step(p)
  BY DEF Next, Step, Reading, Writing, Calls

\* The values of all variables but nsleepers, which depends on how many readers
\* there are.
PartTypeOK ==
  /\ driver \in Drivers
  /\ pc \in [Procs -> PC]
  /\ data_ready \in BOOLEAN
  /\ nsleepers \in Int
  /\ async_queue \subseteq Procs /\ sigio \subseteq Procs
  /\ writes \in 0..MaxWrites

LEMMA TypeInit == Init => PartTypeOK
<1> SUFFICES ASSUME Init PROVE PartTypeOK
  OBVIOUS
<1>1. pc \in [Procs -> PC]
  BY DEF Init, PC
<1>2. driver \in Drivers /\ data_ready \in BOOLEAN /\ async_queue \subseteq Procs /\ sigio \subseteq Procs
  BY DEF Init
<1>3. nsleepers \in Int /\ writes \in 0..MaxWrites
  BY CharWaitAssumption DEF Init
<1> QED BY <1>1, <1>2, <1>3 DEF PartTypeOK

\* Every step of a driver keeps its variables in their types.
LEMMA TypeStep ==
  ASSUME PartTypeOK, NEW p \in Procs, Step(p)
  PROVE  PartTypeOK'
<1> USE CharWaitAssumption DEF PartTypeOK, PC, InRead, Goto
<1>1. CASE Open(p) \/ Release(p) \/ Fasync(p)
  BY <1>1 DEF Open, Release, Fasync
<1>2. CASE ReadStart(p)
  BY <1>2 DEF ReadStart
<1>3. CASE ReadCheck(p) \/ ReadSignal(p)
  BY <1>3 DEF ReadCheck, ReadSignal
<1>8. CASE ReadClear(p) \/ ReadLast(p)
  BY <1>8 DEF ReadClear, ReadLast
<1>9. CASE ReadDec(p)
  BY <1>9 DEF ReadDec
<1>4. CASE WriteStart(p)
  BY <1>4 DEF WriteStart
<1>7. CASE WriteSet(p) \/ WriteKill(p)
  BY <1>7 DEF WriteSet, WriteKill
<1>5. CASE WriteWake(p)
  BY <1>5 DEF WriteWake, Awake
<1>6. CASE PollStart(p) \/ Poll(p) \/ PollEnd(p)
  BY <1>6 DEF PollStart, Poll, PollEnd
<1> QED BY <1>1, <1>2, <1>3, <1>4, <1>5, <1>6, <1>7, <1>8, <1>9 DEF Step

\* The driver that is loaded stays loaded.
LEMMA DriverFixed ==
  ASSUME NEW p \in Procs, Step(p)
  PROVE  driver' = driver
BY DEF Step, Open, Release, ReadStart, ReadCheck, ReadSignal, ReadClear, ReadDec, ReadLast,
       WriteStart, WriteSet, WriteWake, WriteKill, PollStart, Poll, PollEnd, Fasync

LEMMA WakeupStep ==
  ASSUME PartTypeOK, NoLostWakeup, NEW p \in Procs, Step(p)
  PROVE  NoLostWakeup'
<1> SUFFICES ASSUME SetsFirst, ~Killable,
                    NEW q \in Procs, Asleep(q)', data_ready'
             PROVE  \E w \in Procs : pc'[w] = "w_wake"
  BY DriverFixed DEF NoLostWakeup, SetsFirst, Killable
<1> USE DEF NoLostWakeup, PartTypeOK, Goto, Asleep
<1>1. CASE Open(p) \/ Release(p) \/ Fasync(p)
  BY <1>1 DEF Open, Release, Fasync
<1>2. CASE ReadStart(p) \/ ReadCheck(p) \/ ReadSignal(p) \/ ReadClear(p)
  BY <1>2 DEF ReadStart, ReadCheck, ReadSignal, ReadClear
<1>3. CASE ReadDec(p) \/ ReadLast(p)
  BY <1>3 DEF ReadDec, ReadLast
<1>4. CASE WriteStart(p) \/ WriteKill(p)
  BY <1>4 DEF WriteStart, WriteKill
<1>5. CASE WriteSet(p)
  BY <1>5 DEF WriteSet
<1>6. CASE WriteWake(p)
  <2>1. ~Exclusive
    BY DEF SetsFirst, Exclusive
  <2>2. Wakes = {{r \in Procs : Asleep(r)}}
    BY <2>1 DEF Wakes, Wakeable
  <2>3. ~Asleep(q)'
    BY <1>6, <2>2 DEF WriteWake, Awake
  <2> QED BY <2>3
<1>7. CASE PollStart(p) \/ Poll(p) \/ PollEnd(p)
  BY <1>7 DEF PollStart, Poll, PollEnd
<1> QED BY <1>1, <1>2, <1>3, <1>4, <1>5, <1>6, <1>7 DEF Step

\* mycdrv_read and mycdrv_write of lab4_wait_event.c and lab7_sleepy.c: however
\* many processes read, write, poll and are interrupted, a process sleeps on a
\* true condition only while a writer is about to wake it.
THEOREM WakeupNeverLost == Spec => []NoLostWakeup
<1>1. Init => PartTypeOK /\ NoLostWakeup
  <2> SUFFICES ASSUME Init PROVE PartTypeOK /\ NoLostWakeup
    OBVIOUS
  <2>1. PartTypeOK
    BY TypeInit
  <2>2. NoLostWakeup
    BY DEF Init, NoLostWakeup
  <2> QED BY <2>1, <2>2
<1>2. PartTypeOK /\ NoLostWakeup /\ [Next]_vars => (PartTypeOK /\ NoLostWakeup)'
  <2>1. CASE Next
    BY <2>1, NextSteps, TypeStep, WakeupStep
  <2>2. CASE UNCHANGED vars
    BY <2>2 DEF vars, PartTypeOK, NoLostWakeup, Asleep, SetsFirst, Killable
  <2> QED BY <2>1, <2>2
<1> QED BY <1>1, <1>2, PTL DEF Spec

-----------------------------------------------------------------------------
(* nsleepers                                                               *)

\* The readers that nsleepers counts.
InWait == {p \in Procs : pc[p] \in {"r_check", "r_sleep", "r_go"}}

\* The inductive invariant: what NsleepersExact says, and that the drivers without
\* exclusive waits leave nsleepers alone.
Sleepers ==
  /\ PartTypeOK
  /\ IF Exclusive THEN nsleepers = Cardinality(InWait) ELSE nsleepers = 0

LEMMA SleepersStep ==
  ASSUME Sleepers, NEW p \in Procs, Step(p)
  PROVE  Sleepers'
<1> USE DEF Sleepers, PartTypeOK
<1>1. PartTypeOK'
  BY TypeStep
<1>2. Exclusive' = Exclusive
  BY DriverFixed DEF Exclusive
<1>3. IsFiniteSet(InWait)
  BY CharWaitAssumption, FS_Subset DEF InWait
<1>4. CASE ReadStart(p)
  <2>1. p \notin InWait /\ InWait' = InWait \cup {p}
    BY <1>4 DEF ReadStart, Goto, InWait
  <2>2. Cardinality(InWait') = Cardinality(InWait) + 1
    BY <2>1, <1>3, FS_AddElement
  <2> QED BY <1>1, <1>2, <1>4, <2>2 DEF ReadStart
<1>5. CASE ReadDec(p)
  <2>1. p \in InWait /\ InWait' = InWait \ {p}
    BY <1>5 DEF ReadDec, Goto, InWait
  <2>2. Cardinality(InWait') = Cardinality(InWait) - 1
    BY <2>1, <1>3, FS_RemoveElement
  <2> QED BY <1>1, <1>2, <1>5, <2>2 DEF ReadDec
<1>6. CASE ReadClear(p)
  BY <1>1, <1>2, <1>6 DEF ReadClear
<1>7. CASE WriteWake(p)
  <2>1. InWait' = InWait
    BY <1>7 DEF WriteWake, InWait, Wakes, Wakeable, Asleep, Awake
  <2> QED BY <1>1, <1>2, <1>7, <2>1 DEF WriteWake
<1>8. CASE \/ Open(p) \/ Release(p) \/ ReadCheck(p) \/ ReadSignal(p) \/ ReadLast(p)
          \/ WriteStart(p) \/ WriteSet(p) \/ WriteKill(p)
          \/ PollStart(p) \/ Poll(p) \/ PollEnd(p) \/ Fasync(p)
  <2>1. nsleepers' = nsleepers
    BY <1>8 DEF Open, Release, ReadCheck, ReadSignal, ReadLast, WriteStart, WriteSet,
                WriteKill, PollStart, Poll, PollEnd, Fasync
  <2>2. \A q \in Procs : q \in InWait' <=> q \in InWait
    BY <1>8 DEF Open, Release, ReadCheck, ReadSignal, ReadLast, WriteStart, WriteSet,
                WriteKill, PollStart, Poll, PollEnd, Fasync, Goto, InWait
  <2>3. InWait' = InWait
    BY <2>2 DEF InWait
  <2> QED BY <1>1, <1>2, <2>1, <2>3
<1> QED BY <1>4, <1>5, <1>6, <1>7, <1>8 DEF Step

LEMMA SleepersInvariant == Spec => []Sleepers
<1>1. Init => Sleepers
  <2> SUFFICES ASSUME Init PROVE Sleepers
    OBVIOUS
  <2>1. InWait = {}
    BY DEF Init, InWait
  <2>2. nsleepers = 0 /\ Cardinality(InWait) = 0
    BY <2>1, FS_EmptySet DEF Init
  <2> QED BY <2>2, TypeInit DEF Sleepers
<1>2. Sleepers /\ [Next]_vars => Sleepers'
  <2>1. CASE Next
    BY <2>1, NextSteps, SleepersStep
  <2>2. CASE UNCHANGED vars
    BY <2>2 DEF vars, Sleepers, PartTypeOK, InWait, Exclusive
  <2> QED BY <2>1, <2>2
<1> QED BY <1>1, <1>2, PTL DEF Spec

\* The variables of all seven drivers keep their types; that nsleepers is never
\* negative rests on its being exact.
THEOREM TypeCorrect == Spec => []TypeOK
<1>1. Sleepers => TypeOK
  <2> SUFFICES ASSUME Sleepers PROVE TypeOK
    OBVIOUS
  <2>1. Cardinality(InWait) \in Nat
    BY CharWaitAssumption, FS_Subset, FS_CardinalityType DEF InWait
  <2> QED BY <2>1 DEF Sleepers, PartTypeOK, TypeOK
<1> QED BY <1>1, SleepersInvariant, PTL

\* lab4_excl.c: however readers begin, are woken, are interrupted and leave, for
\* any number of them, nsleepers counts those in the wait.
THEOREM SleepersCounted == Spec => []NsleepersExact
<1>1. Sleepers => NsleepersExact
  BY DEF Sleepers, NsleepersExact, InWait
<1> QED BY <1>1, SleepersInvariant, PTL

-----------------------------------------------------------------------------
(* CountWait                                                               *)

\* Whatever the kind, the counters are integers, and the completion and the
\* semaphore are never taken below 0.
Tokens == count \in Int /\ reads \in Int /\ c_writes \in Int /\ TokensConserved

LEMMA TokensStep ==
  ASSUME Tokens, Count!Next
  PROVE  Tokens'
<1> PICK p \in Procs : \/ Count!ReadStart(p) \/ Count!ReadSignal(p) \/ Count!WriteStart(p)
                       \/ Count!ReadWait(p) \/ Count!ReadShared(p) \/ Count!WriteSignal(p)
  BY DEF Count!Next, Count!Inside
<1>1. kind' = kind
  BY DEF Count!ReadStart, Count!ReadSignal, Count!WriteStart, Count!ReadWait,
         Count!ReadShared, Count!WriteSignal
<1>2. \/ UNCHANGED <<count, reads, c_writes>>
      \/ /\ kind # "rwsem" /\ count > 0 /\ count' = count - 1
         /\ reads' = reads + 1 /\ c_writes' = c_writes
      \/ kind = "rwsem" /\ count' = count + 1 /\ reads' = reads + 1 /\ c_writes' = c_writes
      \/ /\ count' = IF kind = "rwsem" THEN count - 1 ELSE count + 1
         /\ c_writes' = c_writes + 1 /\ reads' = reads
  BY DEF Count!ReadStart, Count!ReadSignal, Count!WriteStart, Count!ReadWait,
         Count!ReadShared, Count!WriteSignal
<1>3. Count!Initial' = Count!Initial /\ Count!Initial \in Int
  BY <1>1 DEF Count!Initial
<1> QED BY <1>1, <1>2, <1>3 DEF Tokens, TokensConserved, Count!TokensConserved

\* lab4_complete.c and lab4_semaphore.c: for any number of processes and calls each
\* signal of a write() lets exactly one read() pass and none is lost; the count of
\* lab4_semaphore_rw.c is the difference between the shares taken and given back.
THEOREM NoTokenLost == Count!Spec => []TokensConserved
<1>1. Count!Init => Tokens
  BY DEF Count!Init, Count!Initial, Tokens, TokensConserved, Count!TokensConserved
<1>2. Tokens /\ [Count!Next]_countVars => Tokens'
  <2>1. CASE UNCHANGED countVars
    BY <2>1 DEF countVars, Tokens, TokensConserved, Count!TokensConserved, Count!Initial
  <2> QED BY <2>1, TokensStep
<1>3. Tokens => TokensConserved
  BY DEF Tokens
<1> QED BY <1>1, <1>2, <1>3, PTL DEF Count!Spec, Count!vars, countVars
=============================================================================
