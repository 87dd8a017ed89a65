------------------------------- MODULE Mouse -------------------------------
(***************************************************************************)
(* The serial mouse driver src/hardware/lab4_full_mouse_driver.c.  The     *)
(* interrupt handler collects the bytes of a packet; read() waits for a    *)
(* packet and copies it with the interrupt disabled; a tasklet sends SIGIO *)
(* to the process that opened the device last.                             *)
(*                                                                         *)
(* A byte is the number of its packet and its place in it; the first byte  *)
(* of a packet, and no other, carries FIRST_BYTE_MAGIC.  The line may lose *)
(* bytes.  disable_irq nests and waits for a handler that runs, so the     *)
(* handler takes a byte in one step.                                       *)
(***************************************************************************)
EXTENDS Integers

CONSTANTS
  Procs,       \* processes that use the device
  MaxPackets,  \* bound: packets that the mouse sends
  MaxLost,     \* bound: bytes lost on the line
  MaxDepth     \* bound: disable_irq calls that no enable_irq has undone

MY_NBYTES == 3

VARIABLES
  pc,              \* where each process is
  packet, place,   \* the byte that the mouse sends next
  lost,            \* bytes lost so far
  bytes,           \* my_state.bytes
  numByteIn,
  ready,           \* my_state.ready
  depth,           \* disable_irq calls without their enable_irq
  user_pid,        \* the process to signal, or "none"
  usersig,         \* the tasklet is scheduled
  spoiled          \* packets completed with bytes of different packets

vars == <<pc, packet, place, lost, bytes, numByteIn, ready, depth, user_pid, usersig, spoiled>>
lineVars == <<packet, place, lost>>
stateVars == <<bytes, numByteIn, spoiled>>

None == [packet |-> 0, place |-> 0]

Init ==
  /\ pc = [p \in Procs |-> "closed"]
  /\ packet = 1 /\ place = 1 /\ lost = 0
  /\ bytes = [i \in 0..MY_NBYTES - 1 |-> None] /\ numByteIn = 0
  /\ ready = FALSE /\ depth = 0
  /\ user_pid = "none" /\ usersig = FALSE
  /\ spoiled = 0

Goto(p, from, to) == pc[p] = from /\ pc' = [pc EXCEPT ![p] = to]

-----------------------------------------------------------------------------
(* The mouse and my_interrupt                                              *)

Advance ==
  /\ packet <= MaxPackets
  /\ IF place = MY_NBYTES THEN packet' = packet + 1 /\ place' = 1
                          ELSE place' = place + 1 /\ UNCHANGED packet

Lose ==
  /\ lost < MaxLost /\ lost' = lost + 1
  /\ Advance
  /\ UNCHANGED <<pc, stateVars, ready, depth, user_pid, usersig>>

Whole(b) == \A i \in 0..MY_NBYTES - 1 : b[i] = [packet |-> b[0].packet, place |-> i + 1]

Accept_Always == TRUE

\* the byte is taken "*UNLESS* it is the first byte of a my_mouse data packet and
\* it doesn't match the protocol"
Accept == numByteIn > 0 \/ place = 1

Interrupt ==
  /\ depth = 0 /\ Advance
  /\ IF ~Accept THEN UNCHANGED <<stateVars, ready, usersig>>
     ELSE /\ bytes' = [bytes EXCEPT ![numByteIn] = [packet |-> packet, place |-> place]]
          /\ numByteIn' = (numByteIn + 1) % MY_NBYTES
          /\ IF numByteIn' = 0
               THEN /\ ready' = TRUE
                    /\ usersig' = (usersig \/ user_pid # "none")
                    /\ spoiled' = IF Whole(bytes') THEN spoiled ELSE spoiled + 1
               ELSE UNCHANGED <<ready, usersig, spoiled>>
  /\ UNCHANGED <<pc, lost, depth, user_pid>>

\* t_sendsig
SendSig ==
  /\ usersig /\ usersig' = FALSE
  /\ UNCHANGED <<pc, lineVars, stateVars, ready, depth, user_pid>>

-----------------------------------------------------------------------------
(* mymouse_open, mymouse_release                                           *)

Open(p) ==
  /\ Goto(p, "closed", "open")
  /\ ready' = FALSE /\ user_pid' = p
  /\ UNCHANGED <<lineVars, stateVars, depth, usersig>>

ReleaseStart(p) ==
  /\ Goto(p, "open", IF user_pid = "none" THEN "closed" ELSE "kill")
  /\ ready' = FALSE
  /\ UNCHANGED <<lineVars, stateVars, depth, user_pid, usersig>>

\* tasklet_kill waits until the tasklet has run.
ReleaseKill(p) ==
  /\ Goto(p, "kill", "clear") /\ ~usersig
  /\ UNCHANGED <<lineVars, stateVars, ready, depth, user_pid, usersig>>

ReleaseClear(p) ==
  /\ Goto(p, "clear", "closed")
  /\ user_pid' = "none"
  /\ UNCHANGED <<lineVars, stateVars, ready, depth, usersig>>

-----------------------------------------------------------------------------
(* mymouse_read                                                            *)

ReadStart(p) ==
  /\ Goto(p, "open", "test")
  /\ UNCHANGED <<lineVars, stateVars, ready, depth, user_pid, usersig>>

\* The loop until a packet is ready; O_NDELAY and a signal leave it.
ReadTest(p) ==
  /\ \/ ready /\ Goto(p, "test", "disable")
     \/ ~ready /\ (Goto(p, "test", "wait") \/ Goto(p, "test", "open"))
  /\ UNCHANGED <<lineVars, stateVars, ready, depth, user_pid, usersig>>

ReadWait(p) ==
  /\ \/ ready /\ Goto(p, "wait", "test")
     \/ Goto(p, "wait", "open")
  /\ UNCHANGED <<lineVars, stateVars, ready, depth, user_pid, usersig>>

ReadDisable_Flag(p) ==
  /\ Goto(p, "disable", "copy")
  /\ depth' = 1
  /\ UNCHANGED <<lineVars, stateVars, ready, user_pid, usersig>>

ReadDisable(p) ==
  /\ Goto(p, "disable", "copy")
  /\ depth < MaxDepth /\ depth' = depth + 1
  /\ UNCHANGED <<lineVars, stateVars, ready, user_pid, usersig>>

\* copy_to_user; when it fails the interrupt stays disabled.
ReadCopy(p) ==
  /\ Goto(p, "copy", "reset") \/ Goto(p, "copy", "open")
  /\ UNCHANGED <<lineVars, stateVars, ready, depth, user_pid, usersig>>

ReadReset(p) ==
  /\ Goto(p, "reset", "enable")
  /\ ready' = FALSE
  /\ UNCHANGED <<lineVars, stateVars, depth, user_pid, usersig>>

ReadEnable(p) ==
  /\ Goto(p, "enable", "open")
  /\ depth' = depth - 1
  /\ UNCHANGED <<lineVars, stateVars, ready, user_pid, usersig>>

Read(p) == ReadStart(p) \/ ReadTest(p) \/ ReadWait(p) \/ ReadDisable(p) \/ ReadCopy(p)
           \/ ReadReset(p) \/ ReadEnable(p)

Next ==
  \/ Lose \/ Interrupt \/ SendSig
  \/ \E p \in Procs : Open(p) \/ ReleaseStart(p) \/ ReleaseKill(p) \/ ReleaseClear(p) \/ Read(p)

Spec == Init /\ [][Next]_vars

-----------------------------------------------------------------------------
(* Properties                                                              *)

TypeOK ==
  /\ pc \in [Procs -> {"closed", "open", "kill", "clear", "test", "wait", "disable",
                       "copy", "reset", "enable"}]
  /\ packet \in 1..MaxPackets + 1 /\ place \in 1..MY_NBYTES /\ lost \in 0..MaxLost
  /\ numByteIn \in 0..MY_NBYTES - 1
  /\ ready \in BOOLEAN /\ usersig \in BOOLEAN
  /\ depth \in 0..MaxDepth /\ spoiled \in Nat
  /\ user_pid \in Procs \cup {"none"}

\* "This lets us resync with the mouse if we somehow get out of step": a byte
\* lost on the line spoils at most one packet, however many follow.
Resyncs == spoiled <= lost

\* "disable this irq while processing": from disable_irq to enable_irq of any
\* reader the packet it copies does not change, whatever other readers do.
CopyUntouched ==
  [][(\E p \in Procs : pc[p] \in {"copy", "reset", "enable"}) => UNCHANGED bytes]_vars
=============================================================================
