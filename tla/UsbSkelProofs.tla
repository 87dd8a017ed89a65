---------------------------- MODULE UsbSkelProofs ----------------------------
(***************************************************************************)
(* The safety properties of module UsbSkel for any number of processes,    *)
(* any number of permits and any size of the read buffer.                  *)
(*                                                                         *)
(* None of them is inductive by itself.  What carries them is who holds    *)
(* io_mutex (MutexInv): the reader that looks at the read URB and its      *)
(* buffer (ReadInv), the caller of skel_draw_down (QuietInv) and the mark  *)
(* "disconnected" (GoneInv) all rely on nobody else being inside it.       *)
(***************************************************************************)
EXTENDS UsbSkel, FiniteSetTheorems, TLAPS

-----------------------------------------------------------------------------
(* The inductive invariant                                                 *)

\* The types that do not follow from the counting parts.
Types ==
  /\ pc \in [Procs -> PC]
  /\ cnt \in [Procs -> 0..MaxCount]
  /\ rv \in [Procs -> Status]
  /\ core \in CorePC
  /\ io_mutex \in Procs \cup {"core", None}
  /\ limit_sem \in Nat /\ submitted \in Nat /\ kref \in Int
  /\ errors \in Status
  /\ ongoing_read \in BOOLEAN
  /\ bulk_in_filled \in 0..BulkInSize
  /\ bulk_in_copied \in 0..BulkInSize
  /\ bulk_in_urb \in 0..BulkInSize
  /\ intfdata \in BOOLEAN /\ registered \in BOOLEAN
  /\ disconnected \in BOOLEAN /\ enabled \in BOOLEAN
  /\ \A p \in Procs : pc[p] \in InRead \cup {"r_lock"} => cnt[p] > 0

\* io_mutex is held from the lock in skel_read, skel_flush and skel_pre_reset to
\* the matching unlock, and by nobody else.
MutexInv ==
  /\ \A p \in Procs : pc[p] \in InRead \cup InFlush <=> io_mutex = p
  /\ core \in {"p_drain", "p_kill", "p_post"} <=> io_mutex = "core"

\* ongoing_read and the read URB agree; the reader past the wait owns both, and
\* the buffer was empty when the URB was submitted.
ReadInv ==
  /\ ongoing_read <=> bulk_in_urb > 0
  /\ \A p \in Procs : pc[p] \in {"r_err", "r_clear", "r_data"} => bulk_in_urb = 0
  /\ bulk_in_copied <= bulk_in_filled
  /\ bulk_in_urb > 0 => bulk_in_copied = 0

\* What skel_draw_down has emptied stays empty while its caller holds io_mutex.
QuietInv ==
  /\ (core \in {"p_kill", "p_post"} \/ \E p \in Procs : pc[p] \in {"f_kill", "f_err"})
       => submitted = 0
  /\ (core = "p_post" \/ \E p \in Procs : pc[p] = "f_err") => bulk_in_urb = 0

\* The order in which skel_disconnect closes the ways into the driver.
GoneInv ==
  /\ registered => core \in {"bound", "d_start", "d_dereg"} \cup InReset \cup InSuspend
  /\ \A p \in Procs : pc[p] = "o_got" => core \in {"bound", "d_start", "d_dereg"} \cup InReset
  /\ core \in {"d_kill_in", "d_kill_out", "d_put"} => disconnected
  /\ disconnected => \A p \in Procs : pc[p] \notin InRead
  /\ core = "unbound" => ~disconnected
  /\ core \in {"unbound", "gone"} /\ ~disconnected => \A p \in Procs : pc[p] = "closed"
  /\ core \in {"unbound", "d_kill_out", "d_put", "gone"} => bulk_in_urb = 0
  /\ core \in {"unbound", "d_put", "gone"} => submitted = 0

IInv ==
  /\ Types /\ MutexInv /\ ReadInv /\ QuietInv /\ GoneInv
  /\ PermitsConserved /\ KrefExact
-----------------------------------------------------------------------------
(* Steps                                                                   *)

OpenRelease(p) == OpenFind(p) \/ OpenRef(p) \/ Release(p)
Flushing(p) == FlushStart(p) \/ FlushLock(p) \/ FlushDrained(p) \/ FlushKilled(p) \/ FlushErr(p)
Locking(p) == \/ \E n \in 1..MaxCount : ReadStart(p, n)
              \/ ReadLock(p) \/ ReadInterrupted(p)
Reading(p) == ReadRetry(p) \/ ReadWoken(p) \/ ReadErr(p) \/ ReadClear(p)
Writing(p) == WriteStart(p) \/ WriteDown(p) \/ WriteErr(p) \/ WritePrep(p) \/ WriteSubmit(p)
Completion == \E st \in Status : WriteComplete(st) \/ \E n \in 0..BulkInSize : ReadComplete(st, n)

\* The cases of Next that the proofs below go through.
LEMMA NextCases ==
  ASSUME Next
  PROVE  \/ \E p \in Procs : \/ OpenRelease(p) \/ Flushing(p) \/ Locking(p)
                             \/ Reading(p) \/ ReadData(p) \/ Writing(p)
         \/ Core
         \/ Completion
<1>1. CASE \E p \in Procs : Proc(p)
  BY <1>1 DEF Proc, Open, Flush, Read, Write, OpenRelease, Flushing, Locking, Reading, Writing
<1>2. CASE Giveback
  <2>1. 0 \in 0..BulkInSize
    BY UsbAssumption
  <2>2. Status \ {UNLINK} \subseteq Status /\ UNLINK \in Status
    BY DEF Status
  <2> QED BY <1>2, <2>1, <2>2 DEF Giveback, ReadGiveback, ReadUnlinked, WriteGiveback,
                                  WriteUnlinked, Completion
<1> QED BY <1>1, <1>2 DEF Next

LEMMA TypesStep ==
  ASSUME Types, MutexInv, ReadInv, Next
  PROVE  Types'
<1> USE UsbAssumption DEF Types, Goto, readVars, linkVars, procVars, PC, InRead, InFlush,
        HoldsFile, HoldsPermit
<1>1. CASE \E p \in Procs : OpenRelease(p)
  BY <1>1 DEF OpenRelease, OpenFind, OpenRef, Release, Putting
<1>2. CASE \E p \in Procs : Flushing(p)
  BY <1>2 DEF Flushing, FlushStart, FlushLock, FlushDrained, FlushKilled, FlushErr, Status, OK
<1>3. CASE \E p \in Procs : Locking(p)
  BY <1>3 DEF Locking, ReadStart, ReadLock, ReadInterrupted, ReadExit
<1>4. CASE \E p \in Procs : Reading(p)
  BY <1>4 DEF Reading, ReadRetry, ReadWoken, ReadErr, ReadClear, ReadExit, Status, OK
<1>5. ASSUME NEW p \in Procs, ReadData(p) PROVE Types'
  <2> DEFINE available == bulk_in_filled - bulk_in_copied
  <2>1. cnt[p] \in 1..MaxCount /\ available \in 0..BulkInSize
    BY <1>5 DEF ReadData, ReadInv
  <2>2. \A n \in 1..MaxCount : Smaller(BulkInSize, n) \in 0..BulkInSize
    BY DEF Smaller
  <2>3. UNCHANGED <<cnt, rv, core, limit_sem, errors, submitted, kref, linkVars>>
    BY <1>5 DEF ReadData
  <2>4. pc' \in [Procs -> PC] /\ io_mutex' \in Procs \cup {"core", None}
    BY <1>5 DEF ReadData, ReadExit
  <2>5. \A q \in Procs : pc'[q] \in InRead \cup {"r_lock"} => cnt'[q] > 0
    BY <1>5, <2>1 DEF ReadData, ReadExit
  <2>7. ongoing_read' \in BOOLEAN
    BY <1>5, Zenon DEF ReadData, DoReadIoOk, DoReadIoFail
  <2>6. /\ bulk_in_filled' \in 0..BulkInSize
        /\ bulk_in_copied' \in 0..BulkInSize
        /\ bulk_in_urb' \in 0..BulkInSize
    <3>1. CASE available > 0 /\ available < cnt[p]
      BY <1>5, <2>1, <2>2, <3>1 DEF ReadData, DoReadIoOk, DoReadIoFail, Smaller, ReadExit
    <3>2. CASE available > 0 /\ ~(available < cnt[p])
      BY <1>5, <2>1, <3>2 DEF ReadData, DoReadIoOk, DoReadIoFail, Smaller, ReadExit
    <3>3. CASE available = 0
      BY <1>5, <2>1, <2>2, <3>3 DEF ReadData, DoReadIoOk, DoReadIoFail
    <3> QED BY <2>1, <3>1, <3>2, <3>3
  <2> QED BY <2>3, <2>4, <2>5, <2>6, <2>7
<1>6. CASE \E p \in Procs : Writing(p)
  BY <1>6 DEF Writing, WriteStart, WriteDown, WriteErr, WritePrep, WriteSubmit, Status, OK
<1>7. CASE Core
  <2> USE DEF CorePC, InDisconnect, InReset, InSuspend, Step
  <2>1. CASE Probe
    BY <2>1 DEF Probe
  <2>6. CASE ProbeFail \/ Reenable
    BY <2>6 DEF ProbeFail, Reenable
  <2>4. CASE Unbind \/ ResetStart \/ SuspendStart
    BY <2>4 DEF Unbind, ResetStart, SuspendStart
  <2>2. CASE DisconnectClear \/ DisconnectDeregister \/ DisconnectMark
    BY <2>2 DEF DisconnectClear, DisconnectDeregister, DisconnectMark
  <2>5. CASE DisconnectKillIn \/ DisconnectKillOut \/ DisconnectPut
    BY <2>5 DEF DisconnectKillIn, DisconnectKillOut, DisconnectPut, Putting
  <2>3. CASE Reset \/ Suspend
    BY <2>3 DEF Reset, PreResetLock, PreResetDrained, PreResetKilled, PostReset,
                  Suspend, SuspendDrained, SuspendKilled, Resume, Status, EPIPE
  <2> QED BY <1>7, <2>1, <2>2, <2>3, <2>4, <2>5, <2>6 DEF Core, Disconnect
<1>8. CASE Completion
  <2>1. ASSUME NEW st \in Status, WriteComplete(st) PROVE Types'
    BY <2>1 DEF WriteComplete
  <2>2. ASSUME NEW st \in Status, NEW n \in 0..BulkInSize, ReadComplete(st, n) PROVE Types'
    <3>1. /\ UNCHANGED <<pc, cnt, rv, core, io_mutex, limit_sem, bulk_in_copied, submitted, kref, linkVars>>
      BY <2>2 DEF ReadComplete
    <3>2. errors' \in Status /\ bulk_in_filled' \in 0..BulkInSize /\ bulk_in_urb' \in 0..BulkInSize
      BY <2>2 DEF ReadComplete
    <3>3. ongoing_read' \in BOOLEAN
      BY <2>2, Zenon DEF ReadComplete
    <3> QED BY <3>1, <3>2, <3>3
  <2> QED BY <1>8, <2>1, <2>2 DEF Completion
<1> QED BY <1>1, <1>2, <1>3, <1>4, <1>5, <1>6, <1>7, <1>8, NextCases

LEMMA MutexStep ==
  ASSUME Types, MutexInv, Next
  PROVE  MutexInv'
<1> USE UsbAssumption DEF Types, MutexInv, Goto, procVars, PC, InRead, InFlush,
        HoldsFile, HoldsPermit
<1>1. CASE \E p \in Procs : OpenRelease(p)
  BY <1>1 DEF OpenRelease, OpenFind, OpenRef, Release, Putting
<1>2. CASE \E p \in Procs : Flushing(p)
  BY <1>2 DEF Flushing, FlushStart, FlushLock, FlushDrained, FlushKilled, FlushErr
<1>3. CASE \E p \in Procs : Locking(p)
  BY <1>3 DEF Locking, ReadStart, ReadLock, ReadInterrupted, ReadExit
<1>4. CASE \E p \in Procs : Reading(p)
  BY <1>4 DEF Reading, ReadRetry, ReadWoken, ReadErr, ReadClear, ReadExit
<1>5. CASE \E p \in Procs : ReadData(p)
  BY <1>5 DEF ReadData, ReadExit
<1>6. CASE \E p \in Procs : Writing(p)
  BY <1>6 DEF Writing, WriteStart, WriteDown, WriteErr, WritePrep, WriteSubmit
<1>7. CASE Core
  <2> USE DEF Step
  <2>1. CASE Probe \/ ProbeFail \/ Unbind \/ Reenable \/ ResetStart \/ SuspendStart
    BY <2>1 DEF Probe, ProbeFail, Unbind, Reenable, ResetStart, SuspendStart
  <2>2. CASE Disconnect
    BY <2>2 DEF Disconnect, DisconnectClear, DisconnectDeregister, DisconnectMark, DisconnectKillIn,
                  DisconnectKillOut, DisconnectPut, Putting
  <2>3. CASE Reset \/ Suspend
    BY <2>3 DEF Reset, PreResetLock, PreResetDrained, PreResetKilled, PostReset,
                  Suspend, SuspendDrained, SuspendKilled, Resume
  <2> QED BY <1>7, <2>1, <2>2, <2>3 DEF Core
<1>8. CASE Completion
  BY <1>8 DEF Completion, ReadComplete, WriteComplete
<1> QED BY <1>1, <1>2, <1>3, <1>4, <1>5, <1>6, <1>7, <1>8, NextCases

LEMMA ReadStep ==
  ASSUME Types, MutexInv, ReadInv, Next
  PROVE  ReadInv'
<1> USE UsbAssumption DEF Types, MutexInv, ReadInv, Goto, procVars, readVars, PC, InRead,
        InFlush, HoldsFile, HoldsPermit
<1>1. CASE \E p \in Procs : OpenRelease(p)
  BY <1>1 DEF OpenRelease, OpenFind, OpenRef, Release, Putting
<1>2. CASE \E p \in Procs : Flushing(p)
  BY <1>2 DEF Flushing, FlushStart, FlushLock, FlushDrained, FlushKilled, FlushErr
<1>3. CASE \E p \in Procs : Locking(p)
  BY <1>3 DEF Locking, ReadStart, ReadLock, ReadInterrupted, ReadExit
<1>4. CASE \E p \in Procs : Reading(p)
  BY <1>4 DEF Reading, ReadRetry, ReadWoken, ReadErr, ReadClear, ReadExit
<1>5. CASE \E p \in Procs : ReadData(p)
  BY <1>5 DEF ReadData, DoReadIoOk, DoReadIoFail, Smaller, ReadExit
<1>6. CASE \E p \in Procs : Writing(p)
  BY <1>6 DEF Writing, WriteStart, WriteDown, WriteErr, WritePrep, WriteSubmit
<1>7. CASE Core
  <2> USE DEF Step
  <2>1. CASE Probe \/ ProbeFail \/ Unbind \/ Reenable \/ ResetStart \/ SuspendStart
    BY <2>1 DEF Probe, ProbeFail, Unbind, Reenable, ResetStart, SuspendStart
  <2>2. CASE Disconnect
    BY <2>2 DEF Disconnect, DisconnectClear, DisconnectDeregister, DisconnectMark, DisconnectKillIn,
                  DisconnectKillOut, DisconnectPut, Putting
  <2>3. CASE Reset \/ Suspend
    BY <2>3 DEF Reset, PreResetLock, PreResetDrained, PreResetKilled, PostReset,
                  Suspend, SuspendDrained, SuspendKilled, Resume
  <2> QED BY <1>7, <2>1, <2>2, <2>3 DEF Core
<1>8. CASE Completion
  BY <1>8 DEF Completion, ReadComplete, WriteComplete
<1> QED BY <1>1, <1>2, <1>3, <1>4, <1>5, <1>6, <1>7, <1>8, NextCases

LEMMA QuietStep ==
  ASSUME Types, MutexInv, QuietInv, Next
  PROVE  QuietInv'
<1> USE UsbAssumption DEF Types, MutexInv, QuietInv, Goto, procVars, readVars, PC, InRead,
        InFlush, HoldsFile, HoldsPermit
<1>1. CASE \E p \in Procs : OpenRelease(p)
  BY <1>1 DEF OpenRelease, OpenFind, OpenRef, Release, Putting
<1>2. CASE \E p \in Procs : Flushing(p)
  BY <1>2 DEF Flushing, FlushStart, FlushLock, FlushDrained, FlushKilled, FlushErr
<1>3. CASE \E p \in Procs : Locking(p)
  BY <1>3 DEF Locking, ReadStart, ReadLock, ReadInterrupted, ReadExit
<1>4. CASE \E p \in Procs : Reading(p)
  BY <1>4 DEF Reading, ReadRetry, ReadWoken, ReadErr, ReadClear, ReadExit
<1>5. CASE \E p \in Procs : ReadData(p)
  BY <1>5 DEF ReadData, DoReadIoOk, DoReadIoFail, Smaller, ReadExit
<1>6. CASE \E p \in Procs : Writing(p)
  BY <1>6 DEF Writing, WriteStart, WriteDown, WriteErr, WritePrep, WriteSubmit
<1>7. CASE Core
  <2> USE DEF Step
  <2>1. CASE Probe \/ ProbeFail \/ Unbind \/ Reenable \/ ResetStart \/ SuspendStart
    BY <2>1 DEF Probe, ProbeFail, Unbind, Reenable, ResetStart, SuspendStart
  <2>2. CASE Disconnect
    BY <2>2 DEF Disconnect, DisconnectClear, DisconnectDeregister, DisconnectMark, DisconnectKillIn,
                  DisconnectKillOut, DisconnectPut, Putting
  <2>3. CASE Reset \/ Suspend
    BY <2>3 DEF Reset, PreResetLock, PreResetDrained, PreResetKilled, PostReset,
                  Suspend, SuspendDrained, SuspendKilled, Resume
  <2> QED BY <1>7, <2>1, <2>2, <2>3 DEF Core
<1>8. CASE Completion
  BY <1>8 DEF Completion, ReadComplete, WriteComplete
<1> QED BY <1>1, <1>2, <1>3, <1>4, <1>5, <1>6, <1>7, <1>8, NextCases

LEMMA GoneStep ==
  ASSUME Types, MutexInv, GoneInv, Next
  PROVE  GoneInv'
<1> USE UsbAssumption DEF Types, MutexInv, GoneInv, Goto, procVars, readVars, linkVars, PC,
        InRead, InFlush, HoldsFile, HoldsPermit, InReset, InSuspend
<1>1. CASE \E p \in Procs : OpenRelease(p)
  BY <1>1 DEF OpenRelease, OpenFind, OpenRef, Release, Putting, Running
<1>2. CASE \E p \in Procs : Flushing(p)
  BY <1>2 DEF Flushing, FlushStart, FlushLock, FlushDrained, FlushKilled, FlushErr
<1>3. CASE \E p \in Procs : Locking(p)
  BY <1>3 DEF Locking, ReadStart, ReadLock, ReadInterrupted, ReadExit
<1>4. CASE \E p \in Procs : Reading(p)
  BY <1>4 DEF Reading, ReadRetry, ReadWoken, ReadErr, ReadClear, ReadExit
<1>5. CASE \E p \in Procs : ReadData(p)
  BY <1>5 DEF ReadData, DoReadIoOk, DoReadIoFail, Smaller, ReadExit
<1>6. CASE \E p \in Procs : Writing(p)
  BY <1>6 DEF Writing, WriteStart, WriteDown, WriteErr, WritePrep, WriteSubmit
<1>7. CASE Core
  <2> USE DEF Step
  <2>1. CASE Probe \/ ProbeFail \/ Unbind \/ Reenable \/ ResetStart \/ SuspendStart
    BY <2>1 DEF Probe, ProbeFail, Unbind, Reenable, ResetStart, SuspendStart
  <2>2. CASE Disconnect
    BY <2>2 DEF Disconnect, DisconnectClear, DisconnectDeregister, DisconnectMark, DisconnectKillIn,
                  DisconnectKillOut, DisconnectPut, Putting
  <2>3. CASE Reset \/ Suspend
    BY <2>3 DEF Reset, PreResetLock, PreResetDrained, PreResetKilled, PostReset,
                  Suspend, SuspendDrained, SuspendKilled, Resume
  <2> QED BY <1>7, <2>1, <2>2, <2>3 DEF Core
<1>8. CASE Completion
  BY <1>8 DEF Completion, ReadComplete, WriteComplete
<1> QED BY <1>1, <1>2, <1>3, <1>4, <1>5, <1>6, <1>7, <1>8, NextCases

-----------------------------------------------------------------------------
(* Counting                                                                *)

\* How a set of processes grows and shrinks when one of them moves.
LEMMA Counted ==
  ASSUME NEW S, NEW T, IsFiniteSet(S), NEW p
  PROVE  /\ T = S => Cardinality(T) = Cardinality(S)
         /\ p \notin S /\ T = S \cup {p} => Cardinality(T) = Cardinality(S) + 1
         /\ p \in S /\ T = S \ {p} => Cardinality(T) = Cardinality(S) - 1
BY FS_AddElement, FS_RemoveElement

LEMMA Finite == IsFiniteSet(Files) /\ IsFiniteSet(Writers)
BY UsbAssumption, FS_Subset DEF Files, Writers

LEMMA CardNat == Cardinality(Files) \in Nat /\ Cardinality(Writers) \in Nat
BY Finite, FS_CardinalityType

\* limit_sem: the permit that a writer takes is given back or goes to its URB.
LEMMA PermitsStep ==
  ASSUME Types, PermitsConserved, Next
  PROVE  PermitsConserved'
<1> USE UsbAssumption, Finite, CardNat DEF Types, PermitsConserved
<1>1. ASSUME NEW p \in Procs,
             OpenRelease(p) \/ Flushing(p) \/ Locking(p) \/ Reading(p) \/ ReadData(p)
      PROVE  PermitsConserved'
  <2>1. UNCHANGED <<limit_sem, submitted>>
    BY <1>1 DEF OpenRelease, OpenFind, OpenRef, Release, Putting, Flushing, FlushStart, FlushLock, FlushDrained, FlushKilled, FlushErr,
                Locking, ReadStart, ReadLock, ReadInterrupted, ReadExit, Reading, ReadRetry, ReadWoken, ReadErr, ReadClear, ReadExit, ReadData
  <2>2. \A q \in Procs : pc'[q] \in HoldsPermit <=> pc[q] \in HoldsPermit
    BY <1>1 DEF OpenRelease, OpenFind, OpenRef, Release, Putting, Flushing, FlushStart, FlushLock, FlushDrained, FlushKilled, FlushErr,
                Locking, ReadStart, ReadLock, ReadInterrupted, ReadExit, Reading, ReadRetry, ReadWoken, ReadErr, ReadClear, ReadExit, ReadData, Goto, HoldsPermit
  <2>3. Writers' = Writers
    BY <2>2 DEF Writers
  <2> QED BY <2>1, <2>3
<1>2. ASSUME NEW p \in Procs, Writing(p) PROVE PermitsConserved'
  <2>1. CASE WriteStart(p)
    <3>1. Writers' = Writers
      BY <2>1 DEF WriteStart, Goto, Writers, HoldsPermit
    <3> QED BY <2>1, <3>1 DEF WriteStart
  <2>2. CASE WriteDown(p)
    <3>1. CASE limit_sem > 0
      <4>1. p \notin Writers /\ Writers' = Writers \cup {p}
        BY <2>2, <3>1 DEF WriteDown, Goto, Writers, HoldsPermit
      <4> QED BY <2>2, <3>1, <4>1, Counted DEF WriteDown
    <3>2. CASE limit_sem = 0
      <4>1. Writers' = Writers
        BY <2>2, <3>2 DEF WriteDown, Goto, Writers, HoldsPermit
      <4> QED BY <2>2, <3>2, <4>1 DEF WriteDown
    <3> QED BY <3>1, <3>2
  <2>3. CASE WriteErr(p) \/ WritePrep(p)
    <3>1. \/ Writers' = Writers /\ limit_sem' = limit_sem
          \/ p \in Writers /\ Writers' = Writers \ {p} /\ limit_sem' = limit_sem + 1
      BY <2>3 DEF WriteErr, WritePrep, Goto, Writers, HoldsPermit
    <3>2. submitted' = submitted
      BY <2>3 DEF WriteErr, WritePrep
    <3> QED BY <3>1, <3>2, Counted
  <2>4. CASE WriteSubmit(p)
    <3>1. p \in Writers /\ Writers' = Writers \ {p}
      BY <2>4 DEF WriteSubmit, Goto, Writers, HoldsPermit
    <3> QED BY <2>4, <3>1, Counted DEF WriteSubmit
  <2> QED BY <1>2, <2>1, <2>2, <2>3, <2>4 DEF Writing
<1>3. CASE Core
  <2>1. UNCHANGED <<pc, limit_sem, submitted>>
    BY <1>3 DEF Core, procVars, Probe, ProbeFail, Unbind, Reenable, ResetStart, SuspendStart,
                  Disconnect, DisconnectClear, DisconnectDeregister, DisconnectMark, DisconnectKillIn,
                  DisconnectKillOut, DisconnectPut, Putting, Reset, PreResetLock, PreResetDrained, PreResetKilled, PostReset,
                  Suspend, SuspendDrained, SuspendKilled, Resume
  <2> QED BY <2>1 DEF Writers
<1>4. CASE Completion
  <2>1. \/ limit_sem' = limit_sem /\ submitted' = submitted
        \/ limit_sem' = limit_sem + 1 /\ submitted' = submitted - 1
    BY <1>4 DEF Completion, ReadComplete, WriteComplete
  <2>2. Writers' = Writers
    BY <1>4 DEF Completion, ReadComplete, WriteComplete, procVars, Writers
  <2> QED BY <2>1, <2>2
<1> QED BY <1>1, <1>2, <1>3, <1>4, NextCases

\* kref: open takes a reference, release and the end of disconnect drop one.
LEMMA KrefStep ==
  ASSUME Types, GoneInv, KrefExact, Next
  PROVE  KrefExact'
<1> USE UsbAssumption, Finite, CardNat DEF Types, KrefExact
<1>1. ASSUME NEW p \in Procs,
             OpenFind(p) \/ Flushing(p) \/ Locking(p) \/ Reading(p) \/ ReadData(p) \/ Writing(p)
      PROVE  KrefExact'
  <2>1. UNCHANGED <<core, kref>>
    BY <1>1 DEF OpenFind, Flushing, FlushStart, FlushLock, FlushDrained, FlushKilled, FlushErr,
                Locking, ReadStart, ReadLock, ReadInterrupted, ReadExit, Reading, ReadRetry, ReadWoken, ReadErr, ReadClear, ReadExit, ReadData,
                Writing, WriteStart, WriteDown, WriteErr, WritePrep, WriteSubmit
  <2>2. \A q \in Procs : pc'[q] \in HoldsFile <=> pc[q] \in HoldsFile
    <3>1. CASE OpenFind(p) \/ Flushing(p)
      BY <3>1 DEF OpenFind, Flushing, FlushStart, FlushLock, FlushDrained, FlushKilled, FlushErr,
                  Goto, HoldsFile, HoldsPermit, InRead, InFlush
    <3>2. CASE Locking(p) \/ Reading(p) \/ ReadData(p)
      BY <3>2 DEF Locking, ReadStart, ReadLock, ReadInterrupted, ReadExit, Reading, ReadRetry, ReadWoken, ReadErr, ReadClear, ReadExit, ReadData,
                  Goto, HoldsFile, HoldsPermit, InRead, InFlush
    <3>3. CASE Writing(p)
      BY <3>3 DEF Writing, WriteStart, WriteDown, WriteErr, WritePrep, WriteSubmit,
                  Goto, HoldsFile, HoldsPermit, InRead, InFlush
    <3> QED BY <1>1, <3>1, <3>2, <3>3
  <2>3. Files' = Files
    BY <2>2 DEF Files
  <2> QED BY <2>1, <2>3 DEF CoreRef
<1>2. ASSUME NEW p \in Procs, OpenRef(p) PROVE KrefExact'
  <2>1. \/ p \notin Files /\ Files' = Files \cup {p} /\ kref' = kref + 1
        \/ Files' = Files /\ kref' = kref
    BY <1>2 DEF OpenRef, Goto, Files, HoldsFile, HoldsPermit, InRead, InFlush
  <2>2. CoreRef' = CoreRef /\ CoreRef \in Nat
    BY <1>2 DEF OpenRef, CoreRef
  <2> QED BY <2>1, <2>2, Counted
<1>3. ASSUME NEW p \in Procs, Release(p) PROVE KrefExact'
  <2>1. p \in Files /\ Files' = Files \ {p} /\ kref' = kref - 1
    BY <1>3 DEF Release, Putting, Goto, Files, HoldsFile, HoldsPermit, InRead, InFlush
  <2>2. CoreRef' = CoreRef /\ CoreRef \in Nat
    BY <1>3 DEF Release, CoreRef
  <2> QED BY <2>1, <2>2, Counted
<1>4. CASE Core
  <2>1. Files' = Files
    BY <1>4 DEF Files, Core, procVars, Probe, ProbeFail, Unbind, Reenable, ResetStart, SuspendStart,
                  Disconnect, DisconnectClear, DisconnectDeregister, DisconnectMark, DisconnectKillIn,
                  DisconnectKillOut, DisconnectPut, Putting, Reset, PreResetLock, PreResetDrained, PreResetKilled, PostReset,
                  Suspend, SuspendDrained, SuspendKilled, Resume
  <2> USE <2>1 DEF Step, CoreRef
  <2>2. CASE Probe
    <3>1. kref = Cardinality(Files)
      BY <2>2 DEF Probe
    <3>2. Files = {}
      BY <2>2 DEF Probe, Files, GoneInv, HoldsFile, HoldsPermit, InRead, InFlush
    <3> QED BY <2>2, <3>1, <3>2, FS_EmptySet DEF Probe
  <2>3. CASE ProbeFail \/ Unbind \/ Reenable \/ ResetStart \/ SuspendStart
    BY <2>3 DEF ProbeFail, Unbind, Reenable, ResetStart, SuspendStart
  <2>4. CASE Disconnect
    <3>1. CASE DisconnectPut
      BY <2>4, <3>1 DEF DisconnectPut, Putting
    <3>2. CASE ~DisconnectPut
      BY <2>4, <3>2 DEF Disconnect, DisconnectClear, DisconnectDeregister, DisconnectMark,
                        DisconnectKillIn, DisconnectKillOut
    <3> QED BY <3>1, <3>2
  <2>5. CASE Reset
    BY <2>5 DEF Reset, PreResetLock, PreResetDrained, PreResetKilled, PostReset
  <2>6. CASE Suspend
    BY <2>6 DEF Suspend, SuspendDrained, SuspendKilled, Resume
  <2> QED BY <1>4, <2>2, <2>3, <2>4, <2>5, <2>6 DEF Core
<1>5. CASE Completion
  <2>1. UNCHANGED <<pc, core, kref>>
    BY <1>5 DEF Completion, ReadComplete, WriteComplete, procVars
  <2> QED BY <2>1 DEF Files, CoreRef
<1> QED BY <1>1, <1>2, <1>3, <1>4, <1>5, NextCases DEF OpenRelease

-----------------------------------------------------------------------------
(* The invariant and what follows from it                                  *)

LEMMA IInvInit == Init => IInv
<1> SUFFICES ASSUME Init PROVE IInv
  OBVIOUS
<1> USE UsbAssumption DEF Init
<1>1. Types
  <2>1. /\ pc \in [Procs -> PC] /\ cnt \in [Procs -> 0..MaxCount] /\ rv \in [Procs -> Status]
        /\ core \in CorePC /\ io_mutex \in Procs \cup {"core", None} /\ errors \in Status
    BY DEF PC, Status, OK, CorePC
  <2>2. \A p \in Procs : pc[p] \notin InRead \cup {"r_lock"}
    BY DEF InRead
  <2>3. /\ limit_sem \in Nat /\ submitted \in Nat /\ kref \in Int
        /\ bulk_in_filled \in 0..BulkInSize /\ bulk_in_copied \in 0..BulkInSize
        /\ bulk_in_urb \in 0..BulkInSize
    OBVIOUS
  <2>4. /\ ongoing_read \in BOOLEAN /\ intfdata \in BOOLEAN /\ registered \in BOOLEAN
        /\ disconnected \in BOOLEAN /\ enabled \in BOOLEAN
    BY Zenon
  <2> HIDE DEF Init
  <2> QED BY <2>1, <2>2, <2>3, <2>4, Zenon DEF Types
<1>2. MutexInv /\ ReadInv /\ QuietInv
  BY DEF MutexInv, ReadInv, QuietInv, InRead, InFlush
<1>3. GoneInv
  BY DEF GoneInv, InRead
<1>4. Files = {} /\ Writers = {}
  BY DEF Files, Writers, HoldsFile, HoldsPermit, InRead, InFlush
<1>5. PermitsConserved /\ KrefExact
  BY <1>4, FS_EmptySet DEF PermitsConserved, KrefExact, CoreRef
<1> QED BY <1>1, <1>2, <1>3, <1>5 DEF IInv

LEMMA IInvInductive == Spec => []IInv
<1>1. IInv /\ [Next]_vars => IInv'
  <2>1. CASE Next
    BY <2>1, TypesStep, MutexStep, ReadStep, QuietStep, GoneStep, PermitsStep, KrefStep DEF IInv
  <2>2. CASE UNCHANGED vars
    BY <2>2 DEF vars, procVars, readVars, linkVars, IInv, Types, MutexInv, ReadInv, QuietInv,
                GoneInv, PermitsConserved, KrefExact, Files, Writers, CoreRef
  <2> QED BY <2>1, <2>2
<1> QED BY <1>1, IInvInit, PTL DEF Spec

\* Every variable of the driver keeps its type; limit_sem and the number of URBs
\* in flight stay within WRITES_IN_FLIGHT because permits are conserved.
THEOREM TypeCorrect == Spec => []TypeOK
<1>1. IInv => TypeOK
  <2> SUFFICES ASSUME IInv PROVE TypeOK
    OBVIOUS
  <2> USE UsbAssumption, CardNat DEF IInv
  <2>1. limit_sem \in 0..WRITES_IN_FLIGHT /\ submitted \in 0..WRITES_IN_FLIGHT
    BY DEF PermitsConserved, Types
  <2>2. kref \in Nat
    BY DEF KrefExact, CoreRef
  <2> QED BY <2>1, <2>2 DEF Types, TypeOK
<1> QED BY <1>1, IInvInductive, PTL

\* limit_sem, for any number of permits and writers: none is lost or duplicated.
THEOREM PermitsNeverLost == Spec => []PermitsConserved
<1>1. IInv => PermitsConserved
  BY DEF IInv
<1> QED BY <1>1, IInvInductive, PTL

\* kref is the number of open files plus one for the bound interface.
THEOREM KrefCorrect == Spec => []KrefExact
<1>1. IInv => KrefExact
  BY DEF IInv
<1> QED BY <1>1, IInvInductive, PTL

\* After skel_delete nobody is left with a pointer to the structure: no process in
\* the driver, the core past disconnect, no URB that could call back.
THEOREM NoUseAfterFreeCorrect == Spec => []NoUseAfterFree
<1>1. IInv => NoUseAfterFree
  <2> SUFFICES ASSUME IInv, core # "unbound", kref = 0
               PROVE  /\ \A p \in Procs : pc[p] = "closed"
                      /\ core = "gone"
                      /\ bulk_in_urb = 0 /\ submitted = 0
    BY DEF NoUseAfterFree
  <2> USE DEF IInv
  <2>1. Cardinality(Files) = 0 /\ core = "gone"
    BY CardNat DEF KrefExact, CoreRef
  <2>2. Files = {}
    BY <2>1, Finite, FS_EmptySet
  <2>3. \A p \in Procs : pc[p] = "closed"
    BY <2>1, <2>2 DEF Files, Types, PC, GoneInv, InReset
  <2> QED BY <2>1, <2>3 DEF GoneInv
<1> QED BY <1>1, IInvInductive, PTL

\* No URB is in flight between the end of skel_draw_down and the release of
\* io_mutex.
THEOREM QuietCorrect == Spec => []QuietAfterDrawDown
<1>1. IInv => QuietAfterDrawDown
  BY DEF IInv, QuietInv, QuietAfterDrawDown
<1> QED BY <1>1, IInvInductive, PTL

\* Once skel_disconnect has killed the URBs none is submitted again, whatever
\* calls were on their way, also when the core has enabled the endpoints again.
THEOREM DisconnectIsFinal == Spec => []NoUrbAfterDisconnect
<1>1. IInv => NoUrbAfterDisconnect
  BY DEF IInv, GoneInv, NoUrbAfterDisconnect
<1> QED BY <1>1, IInvInductive, PTL

\* The read URB and its buffer have one owner at a time.
THEOREM ReadBufferCorrect == Spec => []ReadUrbOwned
<1>1. IInv => ReadUrbOwned
  BY DEF IInv, ReadInv, ReadUrbOwned
<1> QED BY <1>1, IInvInductive, PTL

\* The copy to user space stays inside the filled part of the read buffer, for
\* every size of the buffer and every count.
THEOREM CopyInsideBuffer == Spec => []BufferBounds
<1>1. IInv => BufferBounds
  BY DEF IInv, ReadInv, BufferBounds
<1> QED BY <1>1, IInvInductive, PTL
=============================================================================
