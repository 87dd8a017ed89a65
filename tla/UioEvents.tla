----------------------------- MODULE UioEvents -----------------------------
(***************************************************************************)
(* interrupts/lab9_uio.c: the handler of a shared line counts in nevents,  *)
(* and user space takes the events: read() waits until there are some,     *)
(* loads their number and subtracts it, in two steps; poll() tells whether *)
(* there are some.  nevents is atomic; nothing keeps two readers apart.    *)
(***************************************************************************)
EXTENDS Integers

CONSTANTS
  Readers,
  MaxRaised   \* bound: interrupts raised

VARIABLES
  mod,       \* "out", "irq", "live", "gone"
  nevents,
  rpc,       \* per reader: "closed", "user", "wait", "load", "sub", "copy"
  nev,       \* per reader: the number that it loaded
  ready,     \* readers whose last poll has found events, none taken by others since
  raised,    \* interrupts counted since the counter was set to 0
  taken,     \* the sum of what readers have subtracted
  given,     \* the part of it that they could return to user space
  shared     \* a reader has loaded what another had loaded and not yet subtracted

vars == <<mod, nevents, rpc, nev, ready, raised, taken, given, shared>>

Init ==
  /\ mod = "out" /\ nevents = 0
  /\ rpc = [r \in Readers |-> "closed"] /\ nev = [r \in Readers |-> 0]
  /\ ready = {}
  /\ raised = 0 /\ taken = 0 /\ given = 0 /\ shared = FALSE

-----------------------------------------------------------------------------
\* The handler is installed before the counter is set to 0, and the device only
\* then: whatever was counted early is lost before anybody could take it.
Load ==
  /\ mod = "out" /\ mod' = "irq"
  /\ UNCHANGED <<nevents, rpc, nev, ready, raised, taken, given, shared>>

LoadReset ==
  /\ mod = "irq" /\ mod' = "live"
  /\ nevents' = 0 /\ raised' = 0
  /\ UNCHANGED <<rpc, nev, ready, taken, given, shared>>

\* An open file keeps the module from being unloaded.
Exit ==
  /\ mod = "live" /\ \A r \in Readers : rpc[r] = "closed"
  /\ mod' = "gone"
  /\ UNCHANGED <<nevents, rpc, nev, ready, raised, taken, given, shared>>

\* my_interrupt; the wakeup is in the condition of the wait.
Interrupt ==
  /\ mod \in {"irq", "live"} /\ raised < MaxRaised
  /\ nevents' = nevents + 1 /\ raised' = raised + 1
  /\ UNCHANGED <<mod, rpc, nev, ready, taken, given, shared>>

Open(r) ==
  /\ mod = "live" /\ rpc[r] = "closed" /\ rpc' = [rpc EXCEPT ![r] = "user"]
  /\ UNCHANGED <<mod, nevents, nev, ready, raised, taken, given, shared>>

Release(r) ==
  /\ rpc[r] = "user" /\ rpc' = [rpc EXCEPT ![r] = "closed"]
  /\ ready' = ready \ {r}
  /\ UNCHANGED <<mod, nevents, nev, raised, taken, given, shared>>

mycdrv_poll(r) ==
  /\ rpc[r] = "user" /\ ready' = IF nevents > 0 THEN ready \cup {r} ELSE ready \ {r}
  /\ UNCHANGED <<mod, nevents, rpc, nev, raised, taken, given, shared>>

-----------------------------------------------------------------------------
(* mycdrv_read                                                             *)

ReadStart(r) ==
  /\ rpc[r] = "user" /\ rpc' = [rpc EXCEPT ![r] = "wait"]
  /\ UNCHANGED <<mod, nevents, nev, ready, raised, taken, given, shared>>

\* A signal ends the call, also one that comes after the wait has ended.
ReadSignal(r) ==
  /\ rpc[r] = "wait" /\ rpc' = [rpc EXCEPT ![r] = "user"]
  /\ ready' = ready \ {r}
  /\ UNCHANGED <<mod, nevents, nev, raised, taken, given, shared>>

ReadWoken(r) ==
  /\ rpc[r] = "wait" /\ nevents > 0 /\ rpc' = [rpc EXCEPT ![r] = "load"]
  /\ UNCHANGED <<mod, nevents, nev, ready, raised, taken, given, shared>>

ReadLoad(r) ==
  /\ rpc[r] = "load" /\ rpc' = [rpc EXCEPT ![r] = "sub"]
  /\ nev' = [nev EXCEPT ![r] = nevents]
  /\ shared' = (shared \/ \E q \in Readers \ {r} : rpc[q] = "sub")
  /\ UNCHANGED <<mod, nevents, ready, raised, taken, given>>

ReadSub_Clear(r) ==
  /\ rpc[r] = "sub" /\ rpc' = [rpc EXCEPT ![r] = "copy"]
  /\ nevents' = 0 /\ taken' = taken + nev[r] /\ ready' = ready \cap {r}
  /\ UNCHANGED <<mod, nev, raised, given, shared>>

\* Exactly what was loaded is subtracted: later events stay.  To others poll has
\* announced it in vain.
ReadSub(r) ==
  /\ rpc[r] = "sub" /\ rpc' = [rpc EXCEPT ![r] = "copy"]
  /\ nevents' = nevents - nev[r] /\ taken' = taken + nev[r] /\ ready' = ready \cap {r}
  /\ UNCHANGED <<mod, nev, raised, given, shared>>

\* A copy that fails loses the number.
ReadCopy(r) ==
  /\ rpc[r] = "copy" /\ rpc' = [rpc EXCEPT ![r] = "user"]
  /\ given' \in {given, given + nev[r]}
  /\ nev' = [nev EXCEPT ![r] = 0] /\ ready' = ready \ {r}
  /\ UNCHANGED <<mod, nevents, raised, taken, shared>>

Next ==
  \/ Load \/ LoadReset \/ Exit \/ Interrupt
  \/ \E r \in Readers :
       \/ Open(r) \/ Release(r) \/ mycdrv_poll(r) \/ ReadStart(r) \/ ReadSignal(r)
       \/ ReadWoken(r) \/ ReadLoad(r) \/ ReadSub(r) \/ ReadCopy(r)

Spec == Init /\ [][Next]_vars

-----------------------------------------------------------------------------
(* Properties                                                              *)

\* Every event since the counter was set to 0 is in nevents or was subtracted by a
\* reader, the ones that arrive between load and subtraction included.  As long as no
\* reader has loaded what another one has loaded and not yet subtracted, nevents is
\* not negative and user space has been given no more than there were; and events
\* that poll has announced are there when read() comes, unless another reader took
\* some of them: nothing else takes events away.
EventsTakenOnce ==
  /\ nevents + taken = raised
  /\ ~shared => nevents >= 0 /\ given <= raised
  /\ \A r \in ready : rpc[r] \in {"user", "wait"} => nevents > 0
=============================================================================
