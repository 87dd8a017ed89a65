------------------------------ MODULE UsbSkel ------------------------------
(***************************************************************************)
(* The USB skeleton driver, src/usb/usb-skeleton.c: one usb_skel structure *)
(* from probe to the last kref_put, used by processes that open, read,     *)
(* write and close its device node while the USB core (one thread per      *)
(* device: it holds the device lock) disconnects, resets or suspends it    *)
(* and the host controller gives URBs back.                                *)
(*                                                                         *)
(* A step is what the code does between two points at which another actor  *)
(* can be observed: taking or sleeping on io_mutex, limit_sem, err_lock or *)
(* the wait queue, and the two unlocked accesses to dev->errors in         *)
(* skel_read.  A completion callback runs in one step.                     *)
(***************************************************************************)
EXTENDS Integers, FiniteSets

CONSTANTS
  Procs,             \* processes; each has at most one file open
  WRITES_IN_FLIGHT,  \* initial value of limit_sem (8 in the source)
  BulkInSize,        \* dev->bulk_in_size, the size of bulk_in_buffer
  MaxCount,          \* bound: the largest count a process passes to read()
  None               \* io_mutex is free

ASSUME UsbAssumption ==
  /\ IsFiniteSet(Procs)
  /\ WRITES_IN_FLIGHT \in Nat \ {0}
  /\ BulkInSize \in Nat \ {0}
  /\ MaxCount \in Nat \ {0}
  /\ None \notin Procs \cup {"core"}
  /\ "core" \notin Procs

VARIABLES
  pc,              \* where each process is in the driver
  cnt,             \* the count argument of its read()
  rv,              \* the local rv of its skel_read: the error it will report
  core,            \* where the USB core's thread is in the driver
  io_mutex,        \* holder of dev->io_mutex
  limit_sem,       \* dev->limit_sem
  errors,          \* dev->errors
  ongoing_read,    \* dev->ongoing_read
  bulk_in_filled,  \* dev->bulk_in_filled
  bulk_in_copied,  \* dev->bulk_in_copied
  bulk_in_urb,     \* 0: idle; n > 0: submitted with a transfer length of n
  submitted,       \* number of URBs on dev->submitted that are in flight
  kref,            \* dev->kref; 0 before probe and once dev is freed
  intfdata,        \* usb_get_intfdata(interface) is not NULL
  registered,      \* the minor is registered (usb_register_dev)
  disconnected,    \* dev->disconnected
  enabled          \* the interface's endpoints accept URBs

readVars == <<ongoing_read, bulk_in_filled, bulk_in_copied, bulk_in_urb>>
linkVars == <<intfdata, registered, disconnected, enabled>>
procVars == <<pc, cnt, rv>>
vars == <<procVars, core, io_mutex, limit_sem, errors, readVars, submitted,
          kref, linkVars>>

\* urb->status and dev->errors: 0, a stall or reset, another fault, or one of
\* -ENOENT, -ECONNRESET, -ESHUTDOWN, the faults of an unlinked URB.
OK == "OK"
EPIPE == "EPIPE"
EIO == "EIO"
UNLINK == "UNLINK"
Status == {OK, EPIPE, EIO, UNLINK}

InRead == {"r_retry", "r_wait", "r_err", "r_clear", "r_data"}
InFlush == {"f_drain", "f_kill", "f_err"}
HoldsPermit == {"w_err", "w_prep", "w_lock"}
HoldsFile == {"open", "r_lock", "w_down", "f_lock", "release"}
               \cup InRead \cup InFlush \cup HoldsPermit
PC == {"closed", "o_got"} \cup HoldsFile

InDisconnect == {"d_start", "d_dereg", "d_lock", "d_kill_in", "d_kill_out", "d_put"}
InReset == {"p_lock", "p_drain", "p_kill", "p_post"}
InSuspend == {"s_drain", "s_kill", "suspended"}
CorePC == {"unbound", "bound", "gone"} \cup InDisconnect \cup InReset \cup InSuspend

Init ==
  /\ pc = [p \in Procs |-> "closed"]
  /\ cnt = [p \in Procs |-> 0]
  /\ rv = [p \in Procs |-> OK]
  /\ core = "unbound"
  /\ io_mutex = None
  /\ limit_sem = WRITES_IN_FLIGHT
  /\ errors = OK
  /\ ongoing_read = FALSE
  /\ bulk_in_filled = 0 /\ bulk_in_copied = 0 /\ bulk_in_urb = 0
  /\ submitted = 0
  /\ kref = 0
  /\ intfdata = FALSE /\ registered = FALSE
  /\ disconnected = FALSE /\ enabled = TRUE

-----------------------------------------------------------------------------
(* Helpers.                                                                *)

Smaller(a, b) == IF a < b THEN a ELSE b

Goto(p, from, to) == pc[p] = from /\ pc' = [pc EXCEPT ![p] = to]

\* goto exit of skel_read: release io_mutex and return to user space.
ReadExit(p) == pc' = [pc EXCEPT ![p] = "open"] /\ io_mutex' = None

\* User space is frozen while the interface is suspended (an open file keeps
\* it from autosuspending), so no system call starts then.
Running == core \notin InSuspend

Putting == kref' = kref - 1

-----------------------------------------------------------------------------
(* open and release                                                        *)

\* usb_find_interface and usb_get_intfdata, under the core's minor lock.
OpenFind(p) ==
  /\ Running
  /\ pc[p] = "closed"
  /\ pc' = [pc EXCEPT ![p] = IF registered /\ intfdata THEN "o_got" ELSE "closed"]
  /\ UNCHANGED <<cnt, rv, core, io_mutex, limit_sem, errors, readVars, submitted, kref, linkVars>>

OpenRef_RefBeforePm(p) ==
  /\ Goto(p, "o_got", "open") \/ Goto(p, "o_got", "closed")
  /\ kref' = kref + 1
  /\ UNCHANGED <<cnt, rv, core, io_mutex, limit_sem, errors, readVars, submitted, linkVars>>

\* usb_autopm_get_interface may fail; otherwise kref_get and private_data.
OpenRef(p) ==
  /\ \/ Goto(p, "o_got", "open") /\ kref' = kref + 1
     \/ Goto(p, "o_got", "closed") /\ UNCHANGED kref
  /\ UNCHANGED <<cnt, rv, core, io_mutex, limit_sem, errors, readVars, submitted, linkVars>>

Release(p) ==
  /\ Goto(p, "release", "closed")
  /\ Putting
  /\ UNCHANGED <<cnt, rv, core, io_mutex, limit_sem, errors, readVars, submitted, linkVars>>

-----------------------------------------------------------------------------
(* skel_flush: every close of a descriptor                                 *)

FlushStart(p) ==
  /\ Running
  /\ Goto(p, "open", "f_lock")
  /\ UNCHANGED <<cnt, rv, core, io_mutex, limit_sem, errors, readVars, submitted, kref, linkVars>>

FlushLock(p) ==
  /\ io_mutex = None
  /\ Goto(p, "f_lock", "f_drain")
  /\ io_mutex' = p
  /\ UNCHANGED <<cnt, rv, core, limit_sem, errors, readVars, submitted, kref, linkVars>>

\* skel_draw_down: the anchor is empty, by itself or because the one second
\* passed and usb_kill_anchored_urbs (see WriteComplete) emptied it; then the
\* read URB is killed.  kill_urb returns once the callback has returned.
FlushDrained(p) ==
  /\ submitted = 0
  /\ Goto(p, "f_drain", "f_kill")
  /\ UNCHANGED <<cnt, rv, core, io_mutex, limit_sem, errors, readVars, submitted, kref, linkVars>>

FlushKilled(p) ==
  /\ bulk_in_urb = 0
  /\ Goto(p, "f_kill", "f_err")
  /\ UNCHANGED <<cnt, rv, core, io_mutex, limit_sem, errors, readVars, submitted, kref, linkVars>>

\* Report and clear the error under err_lock and drop io_mutex; the last
\* close of the file goes on to skel_release, the close of a duplicate not.
FlushErr(p) ==
  /\ \E to \in {"release", "open"} : Goto(p, "f_err", to)
  /\ errors' = OK
  /\ io_mutex' = None
  /\ UNCHANGED <<cnt, rv, core, limit_sem, readVars, submitted, kref, linkVars>>

-----------------------------------------------------------------------------
(* skel_read                                                               *)

\* A count of 0 returns at once and changes nothing.
ReadStart(p, n) ==
  /\ Running
  /\ Goto(p, "open", "r_lock")
  /\ cnt' = [cnt EXCEPT ![p] = n]
  /\ UNCHANGED <<rv, core, io_mutex, limit_sem, errors, readVars, submitted, kref, linkVars>>

ReadLock(p) ==
  /\ pc[p] = "r_lock"
  /\ io_mutex = None
  /\ IF disconnected
       THEN ReadExit(p)
       ELSE io_mutex' = p /\ pc' = [pc EXCEPT ![p] = "r_retry"]
  /\ UNCHANGED <<cnt, rv, core, limit_sem, errors, readVars, submitted, kref, linkVars>>

\* A signal ends mutex_lock_interruptible, or the wait for an ongoing read.
ReadInterrupted(p) ==
  /\ \/ Goto(p, "r_lock", "open") /\ UNCHANGED io_mutex
     \/ pc[p] = "r_wait" /\ ongoing_read /\ ReadExit(p)
  /\ UNCHANGED <<cnt, rv, core, limit_sem, errors, readVars, submitted, kref, linkVars>>

ReadRetry_NoOngoingCheck(p) ==
  /\ Goto(p, "r_retry", "r_err")
  /\ UNCHANGED <<cnt, rv, core, io_mutex, limit_sem, errors, readVars, submitted, kref, linkVars>>

\* retry: an ongoing read is waited for, or refused with -EAGAIN when the
\* file is O_NONBLOCK.
ReadRetry(p) ==
  /\ pc[p] = "r_retry"
  /\ \/ ~ongoing_read /\ Goto(p, "r_retry", "r_err") /\ UNCHANGED io_mutex
     \/ ongoing_read /\ Goto(p, "r_retry", "r_wait") /\ UNCHANGED io_mutex
     \/ ongoing_read /\ ReadExit(p)
  /\ UNCHANGED <<cnt, rv, core, limit_sem, errors, readVars, submitted, kref, linkVars>>

ReadWoken(p) ==
  /\ ~ongoing_read
  /\ Goto(p, "r_wait", "r_err")
  /\ UNCHANGED <<cnt, rv, core, io_mutex, limit_sem, errors, readVars, submitted, kref, linkVars>>

\* rv = dev->errors, without err_lock ...
ReadErr(p) ==
  /\ Goto(p, "r_err", IF errors = OK THEN "r_data" ELSE "r_clear")
  /\ rv' = [rv EXCEPT ![p] = errors]
  /\ UNCHANGED <<cnt, core, io_mutex, limit_sem, errors, readVars, submitted, kref, linkVars>>

\* ... and dev->errors = 0, also without it, before rv is reported.
ReadClear(p) ==
  /\ pc[p] = "r_clear"
  /\ errors' = OK
  /\ rv' = [rv EXCEPT ![p] = OK]
  /\ ReadExit(p)
  /\ UNCHANGED <<cnt, core, limit_sem, readVars, submitted, kref, linkVars>>

DoReadIoOk_KeepCopied(n) ==
  /\ enabled
  /\ ongoing_read' = TRUE
  /\ bulk_in_filled' = 0 /\ UNCHANGED bulk_in_copied
  /\ bulk_in_urb' = Smaller(BulkInSize, n)

\* skel_do_read_io: nobody else can see the state between its assignments,
\* since its caller holds io_mutex and the URB is not in flight yet.
DoReadIoOk(n) ==
  /\ enabled
  /\ ongoing_read' = TRUE
  /\ bulk_in_filled' = 0 /\ bulk_in_copied' = 0
  /\ bulk_in_urb' = Smaller(BulkInSize, n)

DoReadIoFail ==
  /\ ongoing_read' = FALSE
  /\ bulk_in_filled' = 0 /\ bulk_in_copied' = 0
  /\ UNCHANGED bulk_in_urb

\* Data is copied; when more was asked for, a read is started but not waited
\* for (whether it could be submitted is ignored).  Without data a read is
\* started and retried.
ReadData(p) ==
  LET available == bulk_in_filled - bulk_in_copied
      chunk == Smaller(available, cnt[p])
  IN  /\ pc[p] = "r_data"
      /\ \/ /\ available > 0
            /\ ReadExit(p)
            /\ IF available < cnt[p]
                 THEN DoReadIoOk(cnt[p] - chunk) \/ DoReadIoFail
                 ELSE /\ bulk_in_copied' = bulk_in_copied + chunk
                      /\ UNCHANGED <<ongoing_read, bulk_in_filled, bulk_in_urb>>
         \/ /\ available = 0
            /\ DoReadIoOk(cnt[p])
            /\ Goto(p, "r_data", "r_retry") /\ UNCHANGED io_mutex
         \/ /\ available = 0
            /\ DoReadIoFail
            /\ ReadExit(p)
      /\ UNCHANGED <<cnt, rv, core, limit_sem, errors, submitted, kref, linkVars>>

-----------------------------------------------------------------------------
(* skel_write                                                              *)

WriteStart(p) ==
  /\ Running
  /\ Goto(p, "open", "w_down")
  /\ UNCHANGED <<cnt, rv, core, io_mutex, limit_sem, errors, readVars, submitted, kref, linkVars>>

\* down_interruptible or down_trylock; a signal, or an empty semaphore under
\* O_NONBLOCK, ends the call.
WriteDown(p) ==
  /\ \/ limit_sem > 0 /\ Goto(p, "w_down", "w_err") /\ limit_sem' = limit_sem - 1
     \/ limit_sem = 0 /\ Goto(p, "w_down", "open") /\ UNCHANGED limit_sem
  /\ UNCHANGED <<cnt, rv, core, io_mutex, errors, readVars, submitted, kref, linkVars>>

WriteErr_UpTwice(p) ==
  /\ \/ errors = OK /\ Goto(p, "w_err", "w_prep") /\ UNCHANGED errors
     \/ errors # OK /\ Goto(p, "w_err", "open") /\ errors' = OK
  /\ limit_sem' = limit_sem + 1
  /\ UNCHANGED <<cnt, rv, core, io_mutex, readVars, submitted, kref, linkVars>>

\* Under err_lock: an error is reported and cleared, and the permit returned.
WriteErr(p) ==
  /\ \/ errors = OK /\ Goto(p, "w_err", "w_prep") /\ UNCHANGED <<errors, limit_sem>>
     \/ /\ errors # OK /\ Goto(p, "w_err", "open")
        /\ errors' = OK /\ limit_sem' = limit_sem + 1
  /\ UNCHANGED <<cnt, rv, core, io_mutex, readVars, submitted, kref, linkVars>>

\* usb_alloc_urb, usb_alloc_coherent and copy_from_user; any may fail.
WritePrep(p) ==
  /\ \/ Goto(p, "w_prep", "w_lock") /\ UNCHANGED limit_sem
     \/ Goto(p, "w_prep", "open") /\ limit_sem' = limit_sem + 1
  /\ UNCHANGED <<cnt, rv, core, io_mutex, errors, readVars, submitted, kref, linkVars>>

WriteSubmit_Unlocked(p) ==
  /\ Goto(p, "w_lock", "open")
  /\ \/ ~disconnected /\ enabled /\ submitted' = submitted + 1 /\ UNCHANGED limit_sem
     \/ limit_sem' = limit_sem + 1 /\ UNCHANGED submitted
  /\ UNCHANGED <<cnt, rv, core, io_mutex, errors, readVars, kref, linkVars>>

WriteSubmit_GoneDevice(p) ==
  /\ io_mutex = None
  /\ Goto(p, "w_lock", "open")
  /\ \/ enabled /\ submitted' = submitted + 1 /\ UNCHANGED limit_sem
     \/ limit_sem' = limit_sem + 1 /\ UNCHANGED submitted
  /\ UNCHANGED <<cnt, rv, core, io_mutex, errors, readVars, kref, linkVars>>

WriteSubmit_LeakPermit(p) ==
  /\ io_mutex = None
  /\ Goto(p, "w_lock", "open")
  /\ \/ ~disconnected /\ enabled /\ submitted' = submitted + 1 /\ UNCHANGED limit_sem
     \/ UNCHANGED <<limit_sem, submitted>>
  /\ UNCHANGED <<cnt, rv, core, io_mutex, errors, readVars, kref, linkVars>>

\* The whole io_mutex section: a gone device and a failed usb_submit_urb go
\* to error: and return the permit, a submitted URB keeps it until its
\* callback.
WriteSubmit(p) ==
  /\ io_mutex = None
  /\ Goto(p, "w_lock", "open")
  /\ \/ ~disconnected /\ enabled /\ submitted' = submitted + 1 /\ UNCHANGED limit_sem
     \/ limit_sem' = limit_sem + 1 /\ UNCHANGED submitted
  /\ UNCHANGED <<cnt, rv, core, io_mutex, errors, readVars, kref, linkVars>>

-----------------------------------------------------------------------------
(* URB callbacks                                                           *)

\* Who is killing URBs: draw_down after its timeout, or disconnect; the core
\* itself does once the endpoints are disabled.
KillingOut == \/ ~enabled
              \/ core \in {"d_kill_out", "p_drain", "s_drain"}
              \/ \E p \in Procs : pc[p] = "f_drain"

KillingIn == \/ ~enabled
             \/ core \in {"d_kill_in", "p_kill", "s_kill"}
             \/ \E p \in Procs : pc[p] = "f_kill"

ReadComplete_ErrorKeepsOngoing(st, n) ==
  /\ bulk_in_urb > 0
  /\ bulk_in_urb' = 0
  /\ IF st = OK
       THEN n \in 0..bulk_in_urb /\ bulk_in_filled' = n /\ UNCHANGED errors
       ELSE errors' = st /\ UNCHANGED bulk_in_filled
  /\ ongoing_read' = (st # OK)
  /\ UNCHANGED <<procVars, core, io_mutex, limit_sem, bulk_in_copied, submitted, kref, linkVars>>

\* skel_read_bulk_callback
ReadComplete(st, n) ==
  /\ bulk_in_urb > 0
  /\ bulk_in_urb' = 0
  /\ IF st = OK
       THEN n \in 0..bulk_in_urb /\ bulk_in_filled' = n /\ UNCHANGED errors
       ELSE errors' = st /\ UNCHANGED bulk_in_filled
  /\ ongoing_read' = FALSE
  /\ UNCHANGED <<procVars, core, io_mutex, limit_sem, bulk_in_copied, submitted, kref, linkVars>>

\* skel_write_bulk_callback
WriteComplete(st) ==
  /\ submitted > 0
  /\ submitted' = submitted - 1
  /\ errors' = IF st = OK THEN errors ELSE st
  /\ limit_sem' = limit_sem + 1
  /\ UNCHANGED <<procVars, core, io_mutex, readVars, kref, linkVars>>

ReadGiveback == \E st \in Status \ {UNLINK}, n \in 0..BulkInSize : ReadComplete(st, n)
ReadUnlinked == KillingIn /\ ReadComplete(UNLINK, 0)
WriteGiveback == \E st \in Status \ {UNLINK} : WriteComplete(st)
WriteUnlinked == KillingOut /\ WriteComplete(UNLINK)

-----------------------------------------------------------------------------
(* The USB core's calls                                                    *)

Step(from, to) == core = from /\ core' = to

\* skel_probe: the structure is set up with kref 1 and published.
Probe ==
  /\ Step("unbound", "bound")
  /\ kref' = 1 /\ intfdata' = TRUE /\ registered' = TRUE
  /\ UNCHANGED <<procVars, io_mutex, limit_sem, errors, readVars, submitted, disconnected, enabled>>

\* Any failing step of it drops the only reference and leaves no intfdata.
ProbeFail ==
  /\ Step("unbound", "gone")
  /\ UNCHANGED <<procVars, io_mutex, limit_sem, errors, readVars, submitted, kref, linkVars>>

\* usb_unbind_interface disables the endpoints before it calls disconnect.
Unbind ==
  /\ Step("bound", "d_start")
  /\ enabled' = FALSE
  /\ UNCHANGED <<procVars, io_mutex, limit_sem, errors, readVars, submitted, kref, intfdata, registered, disconnected>>

DisconnectClear ==
  /\ Step("d_start", "d_dereg")
  /\ intfdata' = FALSE
  /\ UNCHANGED <<procVars, io_mutex, limit_sem, errors, readVars, submitted, kref, registered, disconnected, enabled>>

DisconnectDeregister_NoWait ==
  /\ Step("d_dereg", "d_lock")
  /\ registered' = FALSE
  /\ UNCHANGED <<procVars, io_mutex, limit_sem, errors, readVars, submitted, kref, intfdata, disconnected, enabled>>

\* usb_deregister_dev takes the minor lock, so it waits for skel_open calls.
DisconnectDeregister ==
  /\ \A p \in Procs : pc[p] # "o_got"
  /\ Step("d_dereg", "d_lock")
  /\ registered' = FALSE
  /\ UNCHANGED <<procVars, io_mutex, limit_sem, errors, readVars, submitted, kref, intfdata, disconnected, enabled>>

DisconnectMark ==
  /\ io_mutex = None
  /\ Step("d_lock", "d_kill_in")
  /\ disconnected' = TRUE
  /\ UNCHANGED <<procVars, io_mutex, limit_sem, errors, readVars, submitted, kref, intfdata, registered, enabled>>

DisconnectKillIn ==
  /\ bulk_in_urb = 0
  /\ Step("d_kill_in", "d_kill_out")
  /\ UNCHANGED <<procVars, io_mutex, limit_sem, errors, readVars, submitted, kref, linkVars>>

DisconnectKillOut ==
  /\ submitted = 0
  /\ Step("d_kill_out", "d_put")
  /\ UNCHANGED <<procVars, io_mutex, limit_sem, errors, readVars, submitted, kref, linkVars>>

DisconnectPut ==
  /\ Step("d_put", "gone")
  /\ Putting
  /\ UNCHANGED <<procVars, io_mutex, limit_sem, errors, readVars, submitted, linkVars>>

\* After unbinding a device that is still attached the core enables the
\* endpoints of the default setting again.
Reenable ==
  /\ core = "gone" /\ ~enabled
  /\ enabled' = TRUE
  /\ UNCHANGED <<procVars, core, io_mutex, limit_sem, errors, readVars, submitted, kref, intfdata, registered, disconnected>>

ResetStart ==
  /\ Step("bound", "p_lock")
  /\ UNCHANGED <<procVars, io_mutex, limit_sem, errors, readVars, submitted, kref, linkVars>>

\* skel_pre_reset keeps io_mutex over the reset ...
PreResetLock ==
  /\ io_mutex = None
  /\ Step("p_lock", "p_drain")
  /\ io_mutex' = "core"
  /\ UNCHANGED <<procVars, limit_sem, errors, readVars, submitted, kref, linkVars>>

PreResetDrained ==
  /\ submitted = 0
  /\ Step("p_drain", "p_kill")
  /\ UNCHANGED <<procVars, io_mutex, limit_sem, errors, readVars, submitted, kref, linkVars>>

PreResetKilled ==
  /\ bulk_in_urb = 0
  /\ Step("p_kill", "p_post")
  /\ UNCHANGED <<procVars, io_mutex, limit_sem, errors, readVars, submitted, kref, linkVars>>

\* ... and skel_post_reset releases it.
PostReset ==
  /\ Step("p_post", "bound")
  /\ errors' = EPIPE
  /\ io_mutex' = None
  /\ UNCHANGED <<procVars, limit_sem, readVars, submitted, kref, linkVars>>

\* skel_suspend draws down without io_mutex: user space is already frozen.
SuspendStart ==
  /\ \A p \in Procs : pc[p] \in {"closed", "open"}
  /\ Step("bound", "s_drain")
  /\ UNCHANGED <<procVars, io_mutex, limit_sem, errors, readVars, submitted, kref, linkVars>>

SuspendDrained ==
  /\ submitted = 0
  /\ Step("s_drain", "s_kill")
  /\ UNCHANGED <<procVars, io_mutex, limit_sem, errors, readVars, submitted, kref, linkVars>>

SuspendKilled ==
  /\ bulk_in_urb = 0
  /\ Step("s_kill", "suspended")
  /\ UNCHANGED <<procVars, io_mutex, limit_sem, errors, readVars, submitted, kref, linkVars>>

Resume ==
  /\ Step("suspended", "bound")
  /\ UNCHANGED <<procVars, io_mutex, limit_sem, errors, readVars, submitted, kref, linkVars>>

-----------------------------------------------------------------------------
Open(p) == OpenFind(p) \/ OpenRef(p)
Flush(p) == FlushLock(p) \/ FlushDrained(p) \/ FlushKilled(p) \/ FlushErr(p)
Read(p) == ReadRetry(p) \/ ReadWoken(p) \/ ReadErr(p) \/ ReadClear(p) \/ ReadData(p)
Write(p) == WriteDown(p) \/ WriteErr(p) \/ WritePrep(p) \/ WriteSubmit(p)

Proc(p) ==
  \/ Open(p) \/ Flush(p) \/ Read(p) \/ Write(p) \/ Release(p)
  \/ FlushStart(p) \/ WriteStart(p) \/ ReadLock(p) \/ ReadInterrupted(p)
  \/ \E n \in 1..MaxCount : ReadStart(p, n)

Disconnect ==
  \/ DisconnectClear \/ DisconnectDeregister \/ DisconnectMark
  \/ DisconnectKillIn \/ DisconnectKillOut \/ DisconnectPut

Reset == PreResetLock \/ PreResetDrained \/ PreResetKilled \/ PostReset

Suspend == SuspendDrained \/ SuspendKilled \/ Resume

Core == Probe \/ ProbeFail \/ Unbind \/ Reenable \/ ResetStart \/ SuspendStart
          \/ Disconnect \/ Reset \/ Suspend

Giveback == ReadGiveback \/ ReadUnlinked \/ WriteGiveback \/ WriteUnlinked

Next == (\E p \in Procs : Proc(p)) \/ Core \/ Giveback

Spec == Init /\ [][Next]_vars

(* What the kernel guarantees: a runnable task runs, a sleeper on io_mutex   *)
(* gets it if it keeps being released, and a killed URB is given back.  A    *)
(* device may never answer (no fairness of ReadGiveback or WriteGiveback)    *)
(* and nobody has to start a system call, a reset or a disconnect.           *)
Fairness ==
  /\ \A p \in Procs :
       /\ WF_vars(OpenRef(p)) /\ WF_vars(Read(p)) /\ WF_vars(Write(p))
       /\ WF_vars(Flush(p)) /\ WF_vars(Release(p))
  /\ WF_vars(Disconnect) /\ SF_vars(DisconnectMark)
  /\ WF_vars(ReadUnlinked) /\ WF_vars(WriteUnlinked)

FairSpec == Spec /\ Fairness

-----------------------------------------------------------------------------
(* Properties                                                              *)

\* Type correctness; limit_sem never exceeds its initial value.
TypeOK ==
  /\ pc \in [Procs -> PC]
  /\ cnt \in [Procs -> 0..MaxCount]
  /\ rv \in [Procs -> Status]
  /\ core \in CorePC
  /\ io_mutex \in Procs \cup {"core", None}
  /\ limit_sem \in 0..WRITES_IN_FLIGHT
  /\ errors \in Status
  /\ ongoing_read \in BOOLEAN
  /\ bulk_in_filled \in 0..BulkInSize
  /\ bulk_in_copied \in 0..BulkInSize
  /\ bulk_in_urb \in 0..BulkInSize
  /\ submitted \in 0..WRITES_IN_FLIGHT
  /\ kref \in Nat
  /\ intfdata \in BOOLEAN /\ registered \in BOOLEAN
  /\ disconnected \in BOOLEAN /\ enabled \in BOOLEAN

Files == {p \in Procs : pc[p] \in HoldsFile}
Writers == {p \in Procs : pc[p] \in HoldsPermit}
CoreRef == IF core \in {"unbound", "gone"} THEN 0 ELSE 1

\* limit_sem (skel_write, skel_write_bulk_callback): every permit is free, held
\* by a writer on its way to usb_submit_urb, or owned by a URB in flight; no
\* error path of skel_write loses or duplicates one.
PermitsConserved ==
  limit_sem + Cardinality(Writers) + submitted = WRITES_IN_FLIGHT

\* kref (skel_open, skel_release, skel_probe, skel_disconnect): one reference
\* per open file and one for the bound interface, so the structure is freed
\* exactly when the last of them goes.
KrefExact == kref = Cardinality(Files) + CoreRef

\* Once skel_delete has run nobody is in or on its way into the driver with a
\* pointer to the structure, and no callback can still be called with it.
NoUseAfterFree ==
  (core # "unbound" /\ kref = 0) =>
    /\ \A p \in Procs : pc[p] = "closed"
    /\ core = "gone"
    /\ bulk_in_urb = 0 /\ submitted = 0

\* skel_draw_down under io_mutex: from its end until the mutex is released (the
\* error report of skel_flush, "no URBs are active - no locking needed" of
\* skel_post_reset) no URB is in flight.
QuietAfterDrawDown ==
  (core = "p_post" \/ \E p \in Procs : pc[p] = "f_err") =>
    bulk_in_urb = 0 /\ submitted = 0

\* disconnected under io_mutex: once skel_disconnect has killed the URBs no URB
\* is in flight again, whatever calls were on their way.
NoUrbAfterDisconnect ==
  core \in {"d_put", "gone"} => bulk_in_urb = 0 /\ submitted = 0

\* ongoing_read guards the one read URB and its buffer: it is set exactly while
\* the URB is in flight, so the reader that looks at the buffer or submits the
\* URB again never shares it with the controller.
ReadUrbOwned ==
  /\ ongoing_read <=> bulk_in_urb > 0
  /\ \A p \in Procs : pc[p] = "r_data" => bulk_in_urb = 0

\* skel_read's unsigned bulk_in_filled - bulk_in_copied does not wrap, and the
\* copy stays inside bulk_in_buffer.
BufferBounds == bulk_in_copied <= bulk_in_filled

\* A disconnect that began ends, also with readers asleep on a device that
\* never answers, because they are woken by their failed URB.
DisconnectCompletes == core \in InDisconnect ~> core = "gone"

\* skel_read's comment "any error is reported once": the error that a reader
\* clears is the one it reports.
ErrorReportedOnce ==
  [][\A p \in Procs : (pc[p] = "r_clear" /\ pc'[p] = "open") => errors = rv[p]]_vars
=============================================================================
