----------------------------- MODULE MCDevices -----------------------------
(***************************************************************************)
(* Model checking of the data paths of the drivers: the memory behind the  *)
(* character drivers (RamDisk), the two mouse drivers (Mouse, Observer),   *)
(* scullc (Scullc), I/O memory (Silly), packets (NetDev), the files of     *)
(* records (SeqFile) and the RAM disks (Block).  `subject' says which is   *)
(* run; the state of the others stays initial.                             *)
(***************************************************************************)
EXTENDS RamDisk, FiniteSets, Sequences

CONSTANTS
  Procs,                                                        \* of Mouse and Scullc
  MaxPackets, MaxLost, MaxDepth,                                \* of Mouse
  MaxMoves, MaxFaults, Strays,                                  \* of Observer
  Quanta, Qsets, Quantum0, Qset0, Positions, MaxCount, MaxObjects,   \* of Scullc
  Window, Seeks, MaxBytes, MaxWrites, MaxLeaks, KmallocMax, EFAULT,  \* of Silly
  Packets, NetKinds,                                            \* of NetDev
  SeqKinds, Items, Width, BufSize, MaxOut,                      \* of SeqFile
  DiskKinds, Sizes, Capacity, Names                             \* of Block

\* The ioctls of scullc are given sizes other than 0.  The window and what kmalloc can
\* give fit in a word, and a file position, which has one bit less than a word, is so
\* far below a word that the difference to the window is more than kmalloc can give.
\* seq_read gives a record that does not fit in its empty buffer a larger one.
ASSUME MCDevicesAssumption ==
  /\ IsFiniteSet(Procs)
  /\ Quanta \cup {Quantum0} \subseteq Nat \ {0}
  /\ Qsets \cup {Qset0} \subseteq Nat \ {0}
  /\ Positions \subseteq Nat
  /\ Window \in Nat /\ Window < Word /\ EFAULT \in Nat
  /\ KmallocMax \in Nat /\ KmallocMax < Word
  /\ \A p \in Seeks : p \in Int /\ p < Window + Word - KmallocMax
  /\ Capacity \in Nat
  /\ SeqKinds \subseteq {"busy", "count", "tasks"}
  /\ Items \in Nat \ {0} /\ Width \in Nat \ {0} /\ BufSize \in Nat /\ Width <= BufSize

VARIABLES
  subject,
  m_pc, packet, place, lost, bytes, numByteIn, ready, depth, user_pid, usersig, spoiled,
  line, packets, byte_in, hpc, reg, xpos, ypos, upc, user, move, truth, off, faults,
  spoilt, had, torn,
  loaded, scullc_quantum, scullc_qset, dev, objects, opened, call, work, answers, stale, beyond,
  s_pos, window, writes, result, partial, leaked,
  n_kind, state, queue, xpc, skb, backlog, sent, frees, tx_packets, rx_packets,
  q_kind, q_pc, want, index, pos, next, v, held, buf, out, got, eof,
  b_kind, block, b_queue, unsent, req, disk, expected, fetched, wanted, geometry

mouseVars == <<m_pc, packet, place, lost, bytes, numByteIn, ready, depth, user_pid,
               usersig, spoiled>>
observerVars == <<line, packets, byte_in, hpc, reg, xpos, ypos, upc, user, move, truth, off,
                  faults, spoilt, had, torn>>
scullcVars == <<loaded, scullc_quantum, scullc_qset, dev, objects, opened, call, work,
                answers, stale, beyond>>
sillyVars == <<s_pos, window, writes, result, partial, leaked>>
netVars == <<n_kind, state, queue, xpc, skb, backlog, sent, frees, tx_packets, rx_packets>>
seqVars == <<q_kind, q_pc, want, index, pos, next, v, held, buf, out, got, eof>>
diskVars == <<b_kind, block, b_queue, unsent, req, disk, expected, fetched, wanted, geometry>>

\* Movements whose encoding uses the sign and the upper bits of both bytes
Moves == {<<1, -1>>, <<-128, 127>>}

SerialMouse == INSTANCE Mouse WITH pc <- m_pc
Position == INSTANCE Observer WITH MaxPackets <- MaxMoves
Quantized == INSTANCE Scullc
IoMemory == INSTANCE Silly WITH
  Size <- Window, Positions <- Seeks, MaxCount <- MaxBytes, f_pos <- s_pos
Network == INSTANCE NetDev WITH Kinds <- NetKinds, kind <- n_kind
Records == INSTANCE SeqFile WITH Kinds <- SeqKinds, kind <- q_kind, pc <- q_pc
Disks == INSTANCE Block WITH Kinds <- DiskKinds, kind <- b_kind, queue <- b_queue

MCInit ==
  /\ subject \in {"ramdisk", "mouse", "observer", "scullc", "silly", "net", "seq", "disk"}
  /\ Init /\ SerialMouse!Init /\ Position!Init /\ Quantized!Init /\ IoMemory!Init
  /\ Network!Init /\ Records!Init /\ Disks!Init
  /\ subject # "ramdisk" => family = CHOOSE f \in Families : TRUE
  /\ subject # "net" => n_kind = CHOOSE k \in NetKinds : TRUE
  /\ subject # "seq" => q_kind = CHOOSE k \in SeqKinds : TRUE
  /\ subject # "disk" => b_kind = "lab2"

MCNext ==
  \/ /\ subject = "ramdisk" /\ Next
     /\ UNCHANGED <<mouseVars, observerVars, scullcVars, sillyVars, netVars, seqVars, diskVars>>
  \/ /\ subject = "mouse" /\ SerialMouse!Next
     /\ UNCHANGED <<vars, observerVars, scullcVars, sillyVars, netVars, seqVars, diskVars>>
  \/ /\ subject = "observer" /\ Position!Next
     /\ UNCHANGED <<vars, mouseVars, scullcVars, sillyVars, netVars, seqVars, diskVars>>
  \/ /\ subject = "scullc" /\ Quantized!Next
     /\ UNCHANGED <<vars, mouseVars, observerVars, sillyVars, netVars, seqVars, diskVars>>
  \/ /\ subject = "silly" /\ IoMemory!Next
     /\ UNCHANGED <<vars, mouseVars, observerVars, scullcVars, netVars, seqVars, diskVars>>
  \/ /\ subject = "net" /\ Network!Next
     /\ UNCHANGED <<vars, mouseVars, observerVars, scullcVars, sillyVars, seqVars, diskVars>>
  \/ /\ subject = "seq" /\ Records!Next
     /\ UNCHANGED <<vars, mouseVars, observerVars, scullcVars, sillyVars, netVars, diskVars>>
  \/ /\ subject = "disk" /\ Disks!Next
     /\ UNCHANGED <<vars, mouseVars, observerVars, scullcVars, sillyVars, netVars, seqVars>>

MCSpec ==
  /\ MCInit
  /\ [][MCNext /\ UNCHANGED subject]_<<subject, vars, mouseVars, observerVars, scullcVars,
                                       sillyVars, netVars, seqVars, diskVars>>

\* Mouse: a lost byte spoils at most one packet.
Resyncs == SerialMouse!Resyncs

\* Mouse: the packet does not change while a reader copies it.
CopyUntouched == SerialMouse!CopyUntouched

\* Observer: the position is the sum of the movements reported.
PositionExact == Position!PositionExact

\* Scullc: every object of the cache that was allocated is in the device's list.
NoQuantumLost == Quantized!NoQuantumLost

\* Scullc: a transfer is answered once, at once or by its work item.
AnsweredOnce == Quantized!AnsweredOnce

\* Silly and Block: a transfer stays in the device and moves what is at its place.
TransferExact == IoMemory!TransferExact /\ Disks!SectorsExact

\* NetDev: every packet is freed once and counted in order.
PacketsAccounted == Network!PacketsAccounted

\* SeqFile: a reader gets each record once and in order.
RecordsInOrder == Records!RecordsInOrder
=============================================================================
