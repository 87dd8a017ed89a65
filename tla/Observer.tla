------------------------------ MODULE Observer ------------------------------
(***************************************************************************)
(* hardware/lab4_serial.c: a handler on the shared line of a serial mouse  *)
(* assembles the mouse's packets of three bytes and adds their movement to *)
(* xpos and ypos, while a process reads the position or sets it to zero,   *)
(* with no lock between them.  The line is shared and the handler does not *)
(* ask whether there is a byte: an interrupt of another device makes it    *)
(* read whatever the register holds, and the other driver of the line may  *)
(* have taken the mouse's byte before it.                                  *)
(***************************************************************************)
EXTENDS Integers, Sequences

CONSTANTS
  Moves,      \* movements <<dx, dy>> that the mouse reports, in -128..127
  Strays,     \* what the register may hold when no byte is there (seven bits)
  MaxPackets, \* bound: packets sent
  MaxFaults   \* bound: bytes read that the mouse did not send, or lost

VARIABLES
  line,      \* bytes of the current packet that are still to come
  packets,   \* packets begun
  byte_in,   \* the bytes accepted
  hpc, reg,  \* where my_interrupt is, and the coordinate that it has loaded
  xpos, ypos,
  upc, user, \* where the process is, and the pair that the last read has copied
  move,      \* the movement of the packet that is being received
  truth,     \* the movements since each coordinate was last set to zero
  off,       \* coordinates to which something else was added since, or that were
             \* set to zero between the handler's load and store
  faults,    \* bytes read that the mouse did not send, and bytes lost
  spoilt,    \* packets put together that are not those of the mouse
  had,       \* the positions of the pointer between packets
  torn       \* a coordinate changed between the two copies of the last read, or
             \* the read began between the two stores of the handler

vars == <<line, packets, byte_in, hpc, reg, xpos, ypos, upc, user, move, truth, off, faults,
          spoilt, had, torn>>

Init ==
  /\ line = <<>> /\ packets = 0 /\ byte_in = <<>>
  /\ hpc = "idle" /\ reg = 0 /\ xpos = 0 /\ ypos = 0
  /\ upc = "idle" /\ user = <<0, 0>> /\ move = <<0, 0>> /\ truth = <<0, 0>> /\ off = {}
  /\ faults = 0 /\ spoilt = 0
  /\ had = {<<0, 0>>} /\ torn = FALSE

-----------------------------------------------------------------------------
(* The mouse: 1LRYYXXX with the upper bits of both movements, then the     *)
(* lower six bits of each.                                                 *)

Encode(m) ==
  LET x == m[1] % 256  y == m[2] % 256
  IN  <<64 + (y \div 64) * 4 + (x \div 64), x % 64, y % 64>>

\* A packet follows when the handler is done with the byte before: until then it
\* would wait in the UART.
Send(m) ==
  /\ line = <<>> /\ hpc = "idle" /\ packets < MaxPackets
  /\ line' = Encode(m) /\ packets' = packets + 1 /\ move' = m
  /\ UNCHANGED <<byte_in, hpc, reg, xpos, ypos, upc, user, truth, off, faults, spoilt, had, torn>>

\* The other driver of the line was faster.
Lose ==
  /\ line # <<>> /\ line' = Tail(line)
  /\ faults < MaxFaults /\ faults' = faults + 1
  /\ UNCHANGED <<packets, byte_in, hpc, reg, xpos, ypos, upc, user, move, truth, off, spoilt,
                 had, torn>>

-----------------------------------------------------------------------------
(* my_interrupt                                                            *)

\* (signed char)
Signed_Lost(b) == b
Signed(b) == IF b >= 128 THEN b - 256 ELSE b

\* The two bits of the first byte and the six bits of another, as a signed byte
Dx == Signed((byte_in[1] % 4) * 64 + (byte_in[2] % 64))
Dy == Signed(((byte_in[1] \div 4) % 4) * 64 + (byte_in[3] % 64))

\* A byte is accepted unless it is the first and is not marked as such.
Accept(b) == byte_in # <<>> \/ (b \div 64) % 2 = 1

Receive(b) ==
  /\ hpc = "idle"
  /\ byte_in' = IF Accept(b) THEN Append(byte_in, b) ELSE byte_in
  /\ hpc' = IF Len(byte_in') = 3 THEN "loadx" ELSE "idle"
  /\ UNCHANGED <<move, packets, reg, xpos, ypos, upc, user, truth, off, spoilt, had, torn>>

Interrupt ==
  /\ line # <<>> /\ line' = Tail(line) /\ Receive(Head(line)) /\ UNCHANGED faults

\* Another device of the line interrupts.
StrayInterrupt(b) ==
  /\ Receive(b) /\ UNCHANGED line
  /\ faults < MaxFaults /\ faults' = faults + 1

Load(here, after, value) ==
  /\ hpc = here /\ hpc' = after /\ reg' = value
  /\ UNCHANGED <<move, line, packets, byte_in, xpos, ypos, upc, user, truth, off, faults, spoilt,
                 had, torn>>

LoadX == Load("loadx", "storex", xpos)
LoadY == Load("loady", "storey", ypos)

\* The three bytes are a packet of the mouse.
Whole == byte_in = Encode(move)

\* What is summed up for coordinate c, and whether the coordinate still is that sum
Account(c) ==
  IF Whole THEN truth' = [truth EXCEPT ![c] = @ + move[c]] /\ UNCHANGED off
           ELSE off' = off \cup {c} /\ UNCHANGED truth

StoreX ==
  /\ hpc = "storex" /\ hpc' = "loady"
  /\ xpos' = reg + Dx /\ Account(1) /\ spoilt' = IF Whole THEN spoilt ELSE spoilt + 1
  /\ UNCHANGED <<move, line, packets, byte_in, reg, ypos, upc, user, faults, had>>
  /\ torn' = (torn \/ upc = "read")

StoreY ==
  /\ hpc = "storey" /\ hpc' = "idle" /\ byte_in' = <<>>
  /\ ypos' = reg + Dy /\ Account(2)
  /\ UNCHANGED <<move, line, packets, reg, xpos, upc, user, faults, spoilt>>
  /\ torn' = (torn \/ upc = "read") /\ had' = had \cup {<<xpos, ypos'>>}

-----------------------------------------------------------------------------
(* The process: mymouse_read and the ioctl MY_IOC_Z                        *)

ReadX ==
  /\ upc = "idle" /\ upc' = "read" /\ user' = [user EXCEPT ![1] = xpos]
  /\ torn' = (hpc \in {"loady", "storey"})
  /\ UNCHANGED <<move, line, packets, byte_in, hpc, reg, xpos, ypos, truth, off, faults, spoilt,
                 had>>

ReadY ==
  /\ upc = "read" /\ upc' = "idle" /\ user' = [user EXCEPT ![2] = ypos]
  /\ UNCHANGED <<move, line, packets, byte_in, hpc, reg, xpos, ypos, truth, off, faults, spoilt,
                 had, torn>>

ZeroX ==
  /\ upc = "idle" /\ upc' = "zero"
  /\ xpos' = 0 /\ truth' = [truth EXCEPT ![1] = 0]
  /\ off' = IF hpc = "storex" THEN off \cup {1} ELSE off \ {1}
  /\ UNCHANGED <<move, line, packets, byte_in, hpc, reg, ypos, user, faults, spoilt, had, torn>>

ZeroY ==
  /\ upc = "zero" /\ upc' = "idle"
  /\ ypos' = 0 /\ truth' = [truth EXCEPT ![2] = 0]
  /\ off' = IF hpc = "storey" THEN off \cup {2} ELSE off \ {2}
  /\ UNCHANGED <<move, line, packets, byte_in, hpc, reg, xpos, user, faults, spoilt, torn>>
  /\ had' = had \cup {<<xpos, 0>>}

Next ==
  \/ Lose \/ Interrupt \/ (\E b \in Strays : StrayInterrupt(b))
  \/ LoadX \/ StoreX \/ LoadY \/ StoreY
  \/ ReadX \/ ReadY \/ ZeroX \/ ZeroY
  \/ \E m \in Moves : Send(m)

Spec == Init /\ [][Next]_vars

-----------------------------------------------------------------------------
(* Properties                                                              *)

\* Each coordinate is the sum of the movements of the packets received since it was
\* set to zero, unless that fell between the load and the store of the handler or
\* three bytes that are no packet were added; this happens no more often than bytes
\* were lost or read that the mouse did not send: the handler finds back into step.
\* A read that no update cuts in two returns a position where the pointer has been.
PositionExact ==
  /\ 1 \notin off => xpos = truth[1]
  /\ 2 \notin off => ypos = truth[2]
  /\ spoilt <= faults
  /\ upc # "read" /\ ~torn => user \in had
=============================================================================
