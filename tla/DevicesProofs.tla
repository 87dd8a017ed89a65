---------------------------- MODULE DevicesProofs ----------------------------
(***************************************************************************)
(* The memory behind the character drivers, the two mouse drivers and the  *)
(* network drivers, for any number of threads, of readers and of packets,  *)
(* and for any size of the device.                                         *)
(***************************************************************************)
EXTENDS MCDevices, FiniteSetTheorems, TLAPS

-----------------------------------------------------------------------------
(* RamDisk: transfers and seeks that interleave stay inside the device     *)

\* The conversion to size_t, for what read, write and lseek pass to it: a value
\* of the device's range stays as it is, a negative one becomes large.
LEMMA UnsignedValue ==
  ASSUME NEW x \in -MaxArg..(2 * Size + MaxArg)
  PROVE  /\ x >= 0 => Unsigned(x) = x
         /\ x < 0 => Unsigned(x) > Size
<1> /\ Size \in Nat /\ MaxArg \in Nat /\ Word \in Nat /\ Word > 2 * (Size + MaxArg)
  BY RamDiskAssumption
<1>1. x \in Int /\ -Word < x /\ x < Word
  OBVIOUS
<1>2. ASSUME x >= 0 PROVE x % Word = x
  BY <1>1, <1>2
<1>3. ASSUME x < 0 PROVE x % Word = x + Word
  BY <1>1, <1>3
<1> QED
  BY <1>1, <1>2, <1>3 DEF Unsigned

\* What a transfer at a position beyond the end copies: nothing with the drivers of
\* char/, all that was asked for with the generic entry points.
LEMMA BytesBeyond ==
  ASSUME NEW p \in Preads, p > Size, NEW lbuf \in 0..MaxArg
  PROVE  Bytes(p, lbuf) = IF family = "generic" THEN lbuf ELSE 0
<1> /\ Size \in Nat /\ MaxArg \in Nat /\ Word \in Nat /\ Word > 2 * (Size + MaxArg)
    /\ p \in Nat /\ 2 * p < Word
  BY RamDiskAssumption
<1>1. (Size - p) % Word = Size - p + Word
  <2>1. Size - p \in Int /\ -Word < Size - p /\ Size - p < 0
    OBVIOUS
  <2> QED BY <2>1
<1>2. (lbuf + p) % Word = lbuf + p
  <2>1. lbuf + p \in Int /\ 0 <= lbuf + p /\ lbuf + p < Word
    OBVIOUS
  <2> QED BY <2>1
<1> QED
  BY <1>1, <1>2 DEF Bytes, BytesToDo, WholeOrNone, Unsigned

\* What a transfer at a position of the device copies fits into the rest of it.
LEMMA BytesFit ==
  ASSUME NEW p \in 0..Size, NEW lbuf \in 0..MaxArg
  PROVE  Bytes(p, lbuf) \in Nat /\ p + Bytes(p, lbuf) <= Size
<1> /\ Size \in Nat /\ MaxArg \in Nat
  BY RamDiskAssumption
<1>1. Unsigned(Size - p) = Size - p
  BY UnsignedValue
<1>2. Unsigned(lbuf + p) = lbuf + p
  BY UnsignedValue
<1> QED
  BY <1>1, <1>2 DEF Bytes, BytesToDo, WholeOrNone

\* The position a seek aims at, before it is brought into the device.
LEMMA TargetRange ==
  ASSUME f_pos \in 0..Size,
         NEW orig \in {"SET", "CUR", "END"}, NEW offset \in -MaxArg..MaxArg
  PROVE  Target(orig, offset) \in -MaxArg..(2 * Size + MaxArg)
<1> /\ Size \in Nat /\ MaxArg \in Nat
  BY RamDiskAssumption
<1>1. CASE orig = "SET"
  BY <1>1 DEF Target
<1>2. CASE orig = "CUR"
  BY <1>2 DEF Target
<1>3. CASE orig = "END"
  BY <1>3 DEF Target
<1> QED
  BY <1>1, <1>2, <1>3

\* lseek brings every position it can aim at into the device.
LEMMA ClampValue ==
  ASSUME NEW x \in -MaxArg..(2 * Size + MaxArg)
  PROVE  Clamp(x) = IF x \in 0..Size THEN x ELSE Size
<1> /\ Size \in Nat /\ MaxArg \in Nat
  BY RamDiskAssumption
<1>1. CASE x >= 0
  <2>1. Unsigned(x) = x
    BY <1>1, UnsignedValue
  <2> QED
    BY <1>1, <2>1 DEF Clamp
<1>2. CASE x < 0
  <2>1. Unsigned(x) > Size
    BY <1>2, UnsignedValue
  <2>2. Unsigned(x) \in Int
    BY RamDiskAssumption DEF Unsigned
  <2> QED
    BY <1>2, <2>1, <2>2 DEF Clamp
<1> QED
  BY <1>1, <1>2

\* The positions of the file and of the calls, and the transfers that are under way.
DiskInv ==
  /\ TypeOK
  /\ PosInBounds
  /\ CopyInBounds

LEMMA DiskStep == DiskInv /\ [Next]_vars => DiskInv'
<1> SUFFICES ASSUME DiskInv, [Next]_vars PROVE DiskInv'
  OBVIOUS
<1> /\ Size \in Nat /\ MaxArg \in Nat
  BY RamDiskAssumption
<1>1. ASSUME NEW t \in Threads, NEW lbuf \in 0..MaxArg, Call(t, lbuf) PROVE DiskInv'
  <2>1. Bytes(f_pos, lbuf) \in Nat /\ f_pos + Bytes(f_pos, lbuf) <= Size
    BY BytesFit DEF DiskInv, PosInBounds
  <2> QED
    BY <1>1, <2>1 DEF Call, Transfer, DiskInv, TypeOK, PosInBounds, CopyInBounds
<1>6. ASSUME NEW t \in Threads, NEW p \in Preads, NEW lbuf \in 0..MaxArg, CallAt(t, p, lbuf)
      PROVE  DiskInv'
  <2>1. p \in Nat /\ Bytes(p, lbuf) \in Nat
    BY BytesFit, BytesBeyond, RamDiskAssumption
  <2>2. Bytes(p, lbuf) # 0 /\ (family = "char" \/ p <= Size) => p + Bytes(p, lbuf) <= Size
    BY <2>1, BytesFit, BytesBeyond, RamDiskAssumption
  <2> QED
    BY <1>6, <2>1, <2>2 DEF CallAt, Transfer, DiskInv, TypeOK, PosInBounds, CopyInBounds
<1>2. ASSUME NEW t \in Threads, Copy(t) PROVE DiskInv'
  BY <1>2 DEF Copy, DiskInv, TypeOK, PosInBounds, CopyInBounds
<1>3. ASSUME NEW t \in Threads, Store(t) PROVE DiskInv'
  BY <1>3 DEF Store, DiskInv, TypeOK, PosInBounds, CopyInBounds
<1>4. ASSUME NEW t \in Threads, NEW orig \in {"SET", "CUR", "END"},
             NEW offset \in -MaxArg..MaxArg, Lseek(t, orig, offset)
      PROVE  DiskInv'
  <2>1. Clamp(Target(orig, offset)) \in 0..Size
    BY TargetRange, ClampValue DEF DiskInv, PosInBounds
  <2> QED
    BY <1>4, <2>1 DEF Lseek, DiskInv, TypeOK, PosInBounds, CopyInBounds
<1>5. CASE UNCHANGED vars
  BY <1>5 DEF vars, DiskInv, TypeOK, PosInBounds, CopyInBounds
<1> QED
  BY <1>1, <1>2, <1>3, <1>4, <1>5, <1>6 DEF Next

LEMMA DiskAlways == Spec => []DiskInv
<1>1. Init => DiskInv
  BY RamDiskAssumption DEF Init, DiskInv, TypeOK, PosInBounds, CopyInBounds
<1> QED
  BY <1>1, DiskStep, PTL DEF Spec

\* chardrv_read and chardrv_write never copy outside the device's memory, whatever the
\* position, nor do mycdrv_generic_read and mycdrv_generic_write at positions up to its
\* end, which those of the open file always are: for any number of threads that share
\* the file and race transfers with seeks.
THEOREM TransfersInside == Spec => []CopyInBounds
BY DiskAlways, PTL DEF DiskInv

\* mycdrv_generic_lseek, chardrv_lseek: in every state of the file, a seek to a
\* place of the device goes there and any other goes to its end, in spite of the
\* unsigned comparison.
THEOREM SeeksExact == Spec => []SeekExact
<1>1. DiskInv => SeekExact
  BY TargetRange, ClampValue DEF DiskInv, PosInBounds, SeekExact
<1> QED
  BY <1>1, DiskAlways, PTL

-----------------------------------------------------------------------------
(* Mouse: lost bytes and readers that disable the interrupt                *)

MouseTypes ==
  /\ place \in 1..3 /\ numByteIn \in 0..2
  /\ lost \in Nat /\ spoiled \in Nat
  /\ bytes \in [0..2 -> [packet : Int, place : Int]] /\ packet \in Int

\* The driver is in step with the mouse: the bytes it holds are the first ones of
\* the packet that the mouse is sending, and the next one is the one it expects.
InStep ==
  numByteIn > 0 =>
    /\ place = numByteIn + 1
    /\ \A i \in 0..2 : i < numByteIn => bytes[i] = [packet |-> packet, place |-> i + 1]

\* A packet under way that will be spoiled has its lost byte already.
ResyncInv ==
  /\ MouseTypes
  /\ spoiled <= lost
  /\ InStep \/ spoiled + 1 <= lost

\* While the driver is in step, the packet that a third byte completes is whole.
LEMMA ThirdByteWhole ==
  ASSUME ResyncInv, InStep, numByteIn = 2,
         bytes' = [bytes EXCEPT ![numByteIn] = [packet |-> packet, place |-> place]]
  PROVE  SerialMouse!Whole(bytes')
<1>1. /\ place = 3
      /\ bytes[0] = [packet |-> packet, place |-> 1]
      /\ bytes[1] = [packet |-> packet, place |-> 2]
  BY DEF InStep, ResyncInv, MouseTypes
<1>2. /\ bytes'[0] = [packet |-> packet, place |-> 1]
      /\ bytes'[1] = [packet |-> packet, place |-> 2]
      /\ bytes'[2] = [packet |-> packet, place |-> 3]
  BY <1>1 DEF ResyncInv, MouseTypes
<1>3. \A i \in 0..2 : i = 0 \/ i = 1 \/ i = 2
  OBVIOUS
<1> QED
  BY <1>2, <1>3 DEF SerialMouse!Whole, SerialMouse!MY_NBYTES

LEMMA ResyncStep == ResyncInv /\ [SerialMouse!Next]_mouseVars => ResyncInv'
<1> SUFFICES ASSUME ResyncInv, [SerialMouse!Next]_mouseVars PROVE ResyncInv'
  OBVIOUS
<1>1. CASE SerialMouse!Lose
  BY <1>1 DEF ResyncInv, MouseTypes, InStep, SerialMouse!Lose, SerialMouse!Advance,
              SerialMouse!MY_NBYTES, SerialMouse!stateVars
<1>2. CASE SerialMouse!Interrupt /\ ~SerialMouse!Accept
  BY <1>2 DEF ResyncInv, MouseTypes, InStep, SerialMouse!Interrupt, SerialMouse!Accept,
              SerialMouse!Advance, SerialMouse!MY_NBYTES, SerialMouse!stateVars
<1>3. CASE SerialMouse!Interrupt /\ SerialMouse!Accept
  <2>1. /\ bytes' = [bytes EXCEPT ![numByteIn] = [packet |-> packet, place |-> place]]
        /\ numByteIn' = (numByteIn + 1) % 3
        /\ lost' = lost
        /\ IF place = 3 THEN packet' = packet + 1 /\ place' = 1
                        ELSE place' = place + 1 /\ packet' = packet
        /\ IF numByteIn' = 0
             THEN spoiled' = IF SerialMouse!Whole(bytes') THEN spoiled ELSE spoiled + 1
             ELSE spoiled' = spoiled
        /\ numByteIn > 0 \/ place = 1
    BY <1>3 DEF SerialMouse!Interrupt, SerialMouse!Accept, SerialMouse!Advance,
                SerialMouse!MY_NBYTES, SerialMouse!stateVars
  <2>2. numByteIn' = IF numByteIn = 2 THEN 0 ELSE numByteIn + 1
    BY <2>1 DEF ResyncInv, MouseTypes
  <2>3. MouseTypes'
    <3>1. bytes' \in [0..2 -> [packet : Int, place : Int]]
      BY <2>1 DEF ResyncInv, MouseTypes
    <3> QED
      BY <2>1, <2>2, <3>1 DEF ResyncInv, MouseTypes
  <2>4. CASE numByteIn = 2
    <3>1. InStep => spoiled' = spoiled
      BY <2>1, <2>2, <2>4, ThirdByteWhole
    <3>2. spoiled' = spoiled \/ spoiled' = spoiled + 1
      BY <2>1
    <3>3. InStep'
      BY <2>2, <2>4 DEF InStep
    <3> QED
      BY <2>1, <2>3, <3>1, <3>2, <3>3 DEF ResyncInv, MouseTypes
  <2>5. CASE numByteIn # 2
    <3>1. numByteIn' = numByteIn + 1 /\ spoiled' = spoiled /\ numByteIn \in 0..1
      BY <2>1, <2>2, <2>5 DEF ResyncInv, MouseTypes
    <3>2. ASSUME InStep PROVE InStep'
      <4>1. place = numByteIn + 1 /\ place # 3
        BY <2>1, <3>1, <3>2 DEF InStep, ResyncInv, MouseTypes
      <4>2. place' = numByteIn' + 1 /\ packet' = packet
        BY <2>1, <3>1, <4>1
      <4>3. ASSUME NEW i \in 0..2, i < numByteIn'
            PROVE  bytes'[i] = [packet |-> packet', place |-> i + 1]
        <5>1. CASE i = numByteIn
          BY <2>1, <4>1, <4>2, <5>1 DEF ResyncInv, MouseTypes
        <5>2. CASE i # numByteIn
          <6>1. i < numByteIn /\ numByteIn > 0
            BY <3>1, <4>3, <5>2
          <6> QED
            BY <2>1, <3>2, <4>2, <5>2, <6>1 DEF InStep, ResyncInv, MouseTypes
        <5> QED
          BY <5>1, <5>2
      <4> QED
        BY <4>2, <4>3 DEF InStep
    <3> QED
      BY <2>1, <2>3, <3>1, <3>2 DEF ResyncInv
  <2> QED
    BY <2>4, <2>5
<1>4. CASE UNCHANGED <<packet, place, lost, bytes, numByteIn, spoiled>>
  BY <1>4 DEF ResyncInv, MouseTypes, InStep
<1>5. CASE SerialMouse!SendSig \/ UNCHANGED mouseVars
  BY <1>4, <1>5 DEF SerialMouse!SendSig, SerialMouse!lineVars, SerialMouse!stateVars, mouseVars
<1>6. ASSUME NEW p \in Procs,
             SerialMouse!Open(p) \/ SerialMouse!ReleaseStart(p) \/ SerialMouse!ReleaseKill(p)
             \/ SerialMouse!ReleaseClear(p) \/ SerialMouse!Read(p)
      PROVE  ResyncInv'
  BY <1>4, <1>6 DEF SerialMouse!Open, SerialMouse!ReleaseStart, SerialMouse!ReleaseKill,
       SerialMouse!ReleaseClear, SerialMouse!Read, SerialMouse!ReadStart, SerialMouse!ReadTest,
       SerialMouse!ReadWait, SerialMouse!ReadDisable, SerialMouse!ReadCopy,
       SerialMouse!ReadReset, SerialMouse!ReadEnable, SerialMouse!lineVars, SerialMouse!stateVars
<1> QED
  BY <1>1, <1>2, <1>3, <1>5, <1>6 DEF SerialMouse!Next

\* my_interrupt of lab4_full_mouse_driver.c: a byte lost on the line spoils at most
\* one packet, for any number of packets, of lost bytes and of readers.
THEOREM MouseResyncs == SerialMouse!Spec => []Resyncs
<1>1. SerialMouse!Init => ResyncInv
  BY DEF SerialMouse!Init, SerialMouse!None, SerialMouse!MY_NBYTES, ResyncInv, MouseTypes, InStep
<1>2. ResyncInv => Resyncs
  BY DEF ResyncInv, Resyncs, SerialMouse!Resyncs
<1> QED
  BY <1>1, <1>2, ResyncStep, PTL DEF SerialMouse!Spec, SerialMouse!vars, mouseVars

\* The readers between their disable_irq and their enable_irq.
Copying == {p \in Procs : m_pc[p] \in {"copy", "reset", "enable"}}

\* Each of them holds one level of disable_irq; a reader whose copy_to_user failed
\* leaves another behind.
DepthInv ==
  /\ m_pc \in [Procs -> {"closed", "open", "kill", "clear", "test", "wait", "disable",
                         "copy", "reset", "enable"}]
  /\ depth \in Nat
  /\ Cardinality(Copying) <= depth

LEMMA CopyingFinite == IsFiniteSet(Copying) /\ Cardinality(Copying) \in Nat
<1>1. IsFiniteSet(Copying)
  BY MCDevicesAssumption, FS_Subset DEF Copying
<1> QED
  BY <1>1, FS_CardinalityType

\* A process that moves between two places on the same side of the disable_irq.
LEMMA CopyingSame ==
  ASSUME DepthInv, NEW p \in Procs, NEW to,
         m_pc' = [m_pc EXCEPT ![p] = to],
         to \in {"closed", "open", "kill", "clear", "test", "wait", "disable",
                 "copy", "reset", "enable"},
         p \notin Copying => to \notin {"copy", "reset", "enable"},
         depth' = depth
  PROVE  DepthInv'
<1>1. m_pc' \in [Procs -> {"closed", "open", "kill", "clear", "test", "wait", "disable",
                           "copy", "reset", "enable"}]
  BY DEF DepthInv
<1>2. Copying' \subseteq Copying
  BY DEF DepthInv, Copying
<1>3. Cardinality(Copying') <= Cardinality(Copying) /\ Cardinality(Copying') \in Nat
  BY <1>2, CopyingFinite, FS_Subset, FS_CardinalityType
<1> QED
  BY <1>1, <1>3, CopyingFinite DEF DepthInv

LEMMA DepthStep == DepthInv /\ [SerialMouse!Next]_mouseVars => DepthInv'
<1> SUFFICES ASSUME DepthInv, [SerialMouse!Next]_mouseVars PROVE DepthInv'
  OBVIOUS
<1>1. CASE m_pc' = m_pc /\ depth' = depth
  BY <1>1 DEF DepthInv, Copying
<1>2. CASE SerialMouse!Lose \/ SerialMouse!Interrupt \/ SerialMouse!SendSig \/ UNCHANGED mouseVars
  BY <1>1, <1>2 DEF SerialMouse!Lose, SerialMouse!Interrupt, SerialMouse!SendSig, mouseVars
<1>3. ASSUME NEW p \in Procs,
             SerialMouse!Open(p) \/ SerialMouse!ReleaseStart(p) \/ SerialMouse!ReleaseKill(p)
             \/ SerialMouse!ReleaseClear(p)
      PROVE  DepthInv'
  <2>1. \E to \in {"closed", "open", "kill", "clear"} : m_pc' = [m_pc EXCEPT ![p] = to]
    BY <1>3 DEF SerialMouse!Open, SerialMouse!ReleaseStart, SerialMouse!ReleaseKill,
                SerialMouse!ReleaseClear, SerialMouse!Goto
  <2>2. depth' = depth
    BY <1>3 DEF SerialMouse!Open, SerialMouse!ReleaseStart, SerialMouse!ReleaseKill,
                SerialMouse!ReleaseClear
  <2> QED
    BY <2>1, <2>2, CopyingSame
<1>4. ASSUME NEW p \in Procs,
             SerialMouse!ReadStart(p) \/ SerialMouse!ReadTest(p) \/ SerialMouse!ReadWait(p)
      PROVE  DepthInv'
  <2>1. \E to \in {"test", "disable", "wait", "open"} : m_pc' = [m_pc EXCEPT ![p] = to]
    BY <1>4 DEF SerialMouse!ReadStart, SerialMouse!ReadTest, SerialMouse!ReadWait,
                SerialMouse!Goto
  <2>2. depth' = depth
    BY <1>4 DEF SerialMouse!ReadStart, SerialMouse!ReadTest, SerialMouse!ReadWait
  <2> QED
    BY <2>1, <2>2, CopyingSame
<1>5. ASSUME NEW p \in Procs, SerialMouse!ReadCopy(p) \/ SerialMouse!ReadReset(p) PROVE DepthInv'
  <2>1. \E to \in {"reset", "open", "enable"} : m_pc' = [m_pc EXCEPT ![p] = to]
    BY <1>5 DEF SerialMouse!ReadCopy, SerialMouse!ReadReset, SerialMouse!Goto
  <2>2. depth' = depth /\ p \in Copying
    BY <1>5 DEF SerialMouse!ReadCopy, SerialMouse!ReadReset, SerialMouse!Goto, Copying
  <2> QED
    BY <2>1, <2>2, CopyingSame
<1>6. ASSUME NEW p \in Procs, SerialMouse!ReadDisable(p) PROVE DepthInv'
  <2>1. m_pc' = [m_pc EXCEPT ![p] = "copy"] /\ m_pc[p] = "disable" /\ depth' = depth + 1
    BY <1>6 DEF SerialMouse!ReadDisable, SerialMouse!Goto
  <2>2. Copying' = Copying \cup {p} /\ p \notin Copying
    BY <2>1 DEF DepthInv, Copying
  <2>3. Cardinality(Copying') = Cardinality(Copying) + 1
    BY <2>2, CopyingFinite, FS_AddElement
  <2>4. m_pc' \in [Procs -> {"closed", "open", "kill", "clear", "test", "wait", "disable",
                             "copy", "reset", "enable"}]
    BY <2>1 DEF DepthInv
  <2> QED
    BY <2>1, <2>3, <2>4, CopyingFinite DEF DepthInv
<1>7. ASSUME NEW p \in Procs, SerialMouse!ReadEnable(p) PROVE DepthInv'
  <2>1. m_pc' = [m_pc EXCEPT ![p] = "open"] /\ m_pc[p] = "enable" /\ depth' = depth - 1
    BY <1>7 DEF SerialMouse!ReadEnable, SerialMouse!Goto
  <2>2. Copying' = Copying \ {p} /\ p \in Copying
    BY <2>1 DEF DepthInv, Copying
  <2>3. Cardinality(Copying') = Cardinality(Copying) - 1 /\ Cardinality(Copying') \in Nat
    BY <2>2, CopyingFinite, FS_RemoveElement, FS_CardinalityType
  <2>4. m_pc' \in [Procs -> {"closed", "open", "kill", "clear", "test", "wait", "disable",
                             "copy", "reset", "enable"}]
    BY <2>1 DEF DepthInv
  <2> QED
    BY <2>1, <2>3, <2>4, CopyingFinite DEF DepthInv
<1> QED
  BY <1>2, <1>3, <1>4, <1>5, <1>6, <1>7 DEF SerialMouse!Next, SerialMouse!Read

\* mymouse_read of lab4_full_mouse_driver.c: from a reader's disable_irq to its
\* enable_irq the packet it copies does not change, for any number of readers.
THEOREM PacketHeldStill == SerialMouse!Spec => CopyUntouched
<1>1. SerialMouse!Init => DepthInv
  <2> SUFFICES ASSUME SerialMouse!Init PROVE DepthInv
    OBVIOUS
  <2>1. m_pc \in [Procs -> {"closed"}] /\ depth = 0
    BY DEF SerialMouse!Init
  <2>2. Copying = {}
    BY <2>1 DEF Copying
  <2> QED
    BY <2>1, <2>2, FS_EmptySet DEF DepthInv
<1>2. DepthInv /\ [SerialMouse!Next]_mouseVars
        => [(\E p \in Procs : m_pc[p] \in {"copy", "reset", "enable"})
              => UNCHANGED bytes]_mouseVars
  <2> SUFFICES ASSUME DepthInv, SerialMouse!Next,
                      NEW q \in Procs, m_pc[q] \in {"copy", "reset", "enable"}
               PROVE  bytes' = bytes
    BY DEF mouseVars
  <2>1. depth # 0
    <3>1. q \in Copying
      BY DEF Copying
    <3>2. Cardinality(Copying) # 0
      BY <3>1, CopyingFinite, FS_EmptySet
    <3> QED
      BY <3>2, CopyingFinite DEF DepthInv
  <2>2. ~SerialMouse!Interrupt
    BY <2>1 DEF SerialMouse!Interrupt
  <2> QED
    BY <2>2 DEF SerialMouse!Next, SerialMouse!Lose, SerialMouse!SendSig,
         SerialMouse!Open, SerialMouse!ReleaseStart, SerialMouse!ReleaseKill,
         SerialMouse!ReleaseClear, SerialMouse!Read, SerialMouse!ReadStart, SerialMouse!ReadTest,
         SerialMouse!ReadWait, SerialMouse!ReadDisable, SerialMouse!ReadCopy,
         SerialMouse!ReadReset, SerialMouse!ReadEnable, SerialMouse!stateVars
<1> QED
  BY <1>1, <1>2, DepthStep, PTL
    DEF SerialMouse!Spec, SerialMouse!vars, mouseVars, CopyUntouched, SerialMouse!CopyUntouched

-----------------------------------------------------------------------------
(* NetDev: every packet is freed once                                      *)

NetTypes ==
  /\ state \in {"out", "down", "up", "closing", "gone"}
  /\ xpc \in {"idle", "print", "free", "count", "rx", "netif_rx"}
  /\ sent \subseteq Packets /\ IsFiniteSet(sent) /\ backlog \subseteq sent
  /\ frees \in [Packets -> Int] /\ tx_packets \in Int /\ rx_packets \in Int

\* start_xmit has one packet while it runs, which is not in the backlog, and each
\* driver takes its own way through it; it does not run in a device that is down.
XmitInv ==
  /\ IF xpc = "idle" THEN skb = {} ELSE \E p \in sent \ backlog : skb = {p}
  /\ xpc \in {"rx", "netif_rx"} => n_kind = "receive"
  /\ xpc = "count" => n_kind \in {"transmit", "receive"}
  /\ xpc = "free" => n_kind # "receive"
  /\ state \in {"out", "down", "gone"} => xpc = "idle"
  /\ state = "gone" => backlog = {}

\* Where every packet is decides whether it is freed.
FreesInv ==
  \A p \in Packets :
    frees[p] = IF p \notin sent \/ p \in backlog \/ Network!Held(p) THEN 0 ELSE 1

\* The statistics miss only the packet that start_xmit has not counted yet.
StatsInv ==
  /\ n_kind \in {"transmit", "receive"} =>
       tx_packets = Cardinality(sent) - IF xpc \in {"print", "free", "count"} THEN 1 ELSE 0
  /\ n_kind = "receive" => tx_packets - rx_packets = IF xpc = "rx" THEN 1 ELSE 0

NetInv == NetTypes /\ XmitInv /\ FreesInv /\ StatsInv

LEMMA NetStep == NetInv /\ [Network!Next]_netVars => NetInv'
<1> SUFFICES ASSUME NetInv, [Network!Next]_netVars PROVE NetInv'
  OBVIOUS
<1> USE DEF NetInv, Network!Held
<1>0. Cardinality(sent) \in Nat
  BY FS_CardinalityType DEF NetTypes
<1>1. CASE Network!Load \/ Network!my_open \/ Network!Deactivate \/ Network!my_close
  BY <1>1 DEF NetTypes, XmitInv, FreesInv, StatsInv,
              Network!Load, Network!my_open, Network!Deactivate, Network!my_close
<1>2. CASE Network!Unload
  <2>1. NetTypes'
    BY <1>2 DEF NetTypes, Network!Unload
  <2>2. XmitInv'
    BY <1>2 DEF NetTypes, XmitInv, Network!Unload
  <2>3. FreesInv'
    BY <1>2 DEF NetTypes, XmitInv, FreesInv, Network!Unload
  <2>4. StatsInv'
    BY <1>2 DEF StatsInv, Network!Unload
  <2> QED
    BY <2>1, <2>2, <2>3, <2>4
<1>3. CASE Network!PrintPacket
  BY <1>3 DEF NetTypes, XmitInv, FreesInv, StatsInv, Network!PrintPacket
<1>4. CASE Network!Free
  <2>1. NetTypes'
    BY <1>4 DEF NetTypes, Network!Free
  <2>2. XmitInv'
    BY <1>4 DEF NetTypes, XmitInv, Network!Free
  <2>3. FreesInv'
    BY <1>4 DEF NetTypes, XmitInv, FreesInv, Network!Free
  <2>4. StatsInv'
    BY <1>4 DEF StatsInv, XmitInv, Network!Free
  <2> QED
    BY <2>1, <2>2, <2>3, <2>4
<1>5. CASE Network!Count
  <2>1. NetTypes'
    BY <1>5 DEF NetTypes, Network!Count
  <2>2. XmitInv'
    BY <1>5 DEF NetTypes, XmitInv, Network!Count
  <2>3. FreesInv'
    BY <1>5 DEF NetTypes, XmitInv, FreesInv, Network!Count
  <2>4. StatsInv'
    BY <1>0, <1>5 DEF NetTypes, StatsInv, XmitInv, Network!Count
  <2> QED
    BY <2>1, <2>2, <2>3, <2>4
<1>6. CASE Network!RxCount
  <2>1. NetTypes' /\ XmitInv'
    BY <1>6 DEF NetTypes, XmitInv, Network!RxCount
  <2>2. FreesInv'
    BY <1>6 DEF NetTypes, XmitInv, FreesInv, Network!RxCount
  <2>3. StatsInv'
    BY <1>0, <1>6 DEF NetTypes, StatsInv, XmitInv, Network!RxCount
  <2> QED
    BY <2>1, <2>2, <2>3
<1>7. CASE Network!NetifRx
  <2>1. NetTypes'
    BY <1>7 DEF NetTypes, XmitInv, Network!NetifRx
  <2>2. XmitInv'
    BY <1>7 DEF NetTypes, XmitInv, Network!NetifRx
  <2>3. FreesInv'
    BY <1>7 DEF NetTypes, XmitInv, FreesInv, Network!NetifRx
  <2>4. StatsInv'
    BY <1>7 DEF StatsInv, XmitInv, Network!NetifRx
  <2> QED
    BY <2>1, <2>2, <2>3, <2>4
<1>8. ASSUME NEW p \in Packets, Network!Xmit(p) PROVE NetInv'
  <2>1. IsFiniteSet(sent') /\ Cardinality(sent') = Cardinality(sent) + 1
    BY <1>8, FS_AddElement DEF NetTypes, Network!Xmit
  <2>2. NetTypes'
    BY <1>8, <2>1 DEF NetTypes, Network!Xmit
  <2>3. XmitInv'
    BY <1>8 DEF NetTypes, XmitInv, Network!Xmit
  <2>4. FreesInv'
    BY <1>8 DEF NetTypes, XmitInv, FreesInv, Network!Xmit
  <2>5. StatsInv'
    BY <1>0, <1>8, <2>1 DEF NetTypes, StatsInv, Network!Xmit
  <2> QED
    BY <2>2, <2>3, <2>4, <2>5
<1>9. ASSUME NEW p \in Packets, Network!Deliver(p) PROVE NetInv'
  <2>1. NetTypes'
    BY <1>9 DEF NetTypes, Network!Deliver
  <2>2. XmitInv'
    BY <1>9 DEF NetTypes, XmitInv, Network!Deliver
  <2>3. FreesInv'
    BY <1>9 DEF NetTypes, XmitInv, FreesInv, Network!Deliver
  <2>4. StatsInv'
    BY <1>9 DEF StatsInv, Network!Deliver
  <2> QED
    BY <2>1, <2>2, <2>3, <2>4
<1>10. CASE UNCHANGED netVars
  BY <1>10 DEF netVars, NetTypes, XmitInv, FreesInv, StatsInv
<1> QED
  BY <1>1, <1>2, <1>3, <1>4, <1>5, <1>6, <1>7, <1>8, <1>9, <1>10 DEF Network!Next

\* my_hard_start_xmit of lab1_network.c, lab3_transmit*.c and lab4_receive.c: every
\* packet is freed exactly once and counted in order, for any number of packets
\* and however the softirq and the removal of the device interleave with it.
THEOREM PacketsFreedOnce == Network!Spec => []PacketsAccounted
<1>1. Network!Init => NetInv
  BY FS_EmptySet DEF Network!Init, Network!Held, NetInv, NetTypes, XmitInv, FreesInv, StatsInv
<1>2. NetInv => PacketsAccounted
  <2>1. Network!Cardinality(sent) = Cardinality(sent)
    BY DEF Network!Cardinality, Cardinality
  <2> QED
    BY <2>1, FS_CardinalityType DEF NetInv, NetTypes, XmitInv, FreesInv, StatsInv,
         Network!Held, PacketsAccounted, Network!PacketsAccounted
<1> QED
  BY <1>1, <1>2, NetStep, PTL DEF Network!Spec, Network!vars, netVars

-----------------------------------------------------------------------------
(* Observer: the position is the sum of the movements                      *)

\* Every movement that a packet can report.
AnyMoves == (-128..127) \X (-128..127)

AnyMouse == INSTANCE Observer WITH
  MaxPackets <- MaxMoves, Moves <- AnyMoves, Strays <- 0..127

Code(m, i) == AnyMouse!Encode(m)[i]

\* The three bytes of a packet, of which the first and no other is marked.
LEMMA EncodeBytes ==
  ASSUME NEW m \in AnyMoves
  PROVE  /\ AnyMouse!Encode(m) \in Seq(Int) /\ Len(AnyMouse!Encode(m)) = 3
         /\ \A i \in 1..3 : Code(m, i) \in Int
         /\ (Code(m, 1) \div 64) % 2 = 1
         /\ (Code(m, 2) \div 64) % 2 = 0 /\ (Code(m, 3) \div 64) % 2 = 0
<1>1. m[1] \in -128..127 /\ m[2] \in -128..127
  BY DEF AnyMoves
<1> DEFINE x == m[1] % 256
           y == m[2] % 256
<1>2. x \in 0..255 /\ y \in 0..255
  BY <1>1
<1> HIDE DEF x, y
<1>3. x \div 64 \in 0..3 /\ y \div 64 \in 0..3
  BY <1>2
<1>4. x % 64 \in 0..63 /\ y % 64 \in 0..63
  BY <1>2
<1> DEFINE a == 64 + (y \div 64) * 4 + (x \div 64)
<1>5. a \in 64..127
  BY <1>3
<1>6. AnyMouse!Encode(m) = <<a, x % 64, y % 64>>
  BY DEF AnyMouse!Encode, x, y
<1> HIDE DEF a
<1>7. a \div 64 = 1
  BY <1>5
<1>8. \A c \in 0..63 : c \div 64 = 0
  OBVIOUS
<1> QED
  BY <1>4, <1>5, <1>6, <1>7, <1>8 DEF Code

\* The sign and the bits that the handler puts together are those of the movement.
LEMMA DecodeMove ==
  ASSUME NEW m \in AnyMoves
  PROVE  /\ AnyMouse!Signed((Code(m, 1) % 4) * 64 + (Code(m, 2) % 64)) = m[1]
         /\ AnyMouse!Signed(((Code(m, 1) \div 4) % 4) * 64 + (Code(m, 3) % 64)) = m[2]
<1>1. m[1] \in -128..127 /\ m[2] \in -128..127
  BY DEF AnyMoves
<1> DEFINE x == m[1] % 256
           y == m[2] % 256
<1>2. /\ x \in 0..255 /\ m[1] = IF x >= 128 THEN x - 256 ELSE x
      /\ y \in 0..255 /\ m[2] = IF y >= 128 THEN y - 256 ELSE y
  BY <1>1
<1> HIDE DEF x, y
<1>3. PICK xh \in 0..3, xl \in 0..63 : xh = x \div 64 /\ xl = x % 64 /\ x = xh * 64 + xl
  BY <1>2
<1>4. PICK yh \in 0..3, yl \in 0..63 : yh = y \div 64 /\ yl = y % 64 /\ y = yh * 64 + yl
  BY <1>2
<1>5. AnyMouse!Encode(m) = <<64 + yh * 4 + xh, xl, yl>>
  BY <1>3, <1>4 DEF AnyMouse!Encode, x, y
<1>6. Code(m, 1) = 64 + yh * 4 + xh /\ Code(m, 2) = xl /\ Code(m, 3) = yl
  BY <1>5 DEF Code
<1>7. (64 + yh * 4 + xh) % 4 = xh
  OBVIOUS
<1>8. ((64 + yh * 4 + xh) \div 4) % 4 = yh
  OBVIOUS
<1>9. xl % 64 = xl /\ yl % 64 = yl
  OBVIOUS
<1>10. /\ AnyMouse!Signed(xh * 64 + xl) = m[1]
       /\ AnyMouse!Signed(yh * 64 + yl) = m[2]
  BY <1>2, <1>3, <1>4 DEF AnyMouse!Signed
<1> QED
  BY <1>6, <1>7, <1>8, <1>9, <1>10

ObserverTypes ==
  /\ move \in AnyMoves
  /\ hpc \in {"idle", "loadx", "storex", "loady", "storey"}
  /\ upc \in {"idle", "read", "zero"}
  /\ reg \in Int /\ xpos \in Int /\ ypos \in Int
  /\ truth \in Int \X Int /\ user \in Int \X Int

\* The line holds the rest of the packet.
BytesInv ==
  /\ line \in Seq(Int) /\ Len(line) <= 3
  /\ byte_in \in Seq(Int) /\ Len(byte_in) <= 3
  /\ \A i \in 1..Len(line) : line[i] = Code(move, 3 - Len(line) + i)
  /\ hpc = "idle" <=> Len(byte_in) < 3

\* The bytes accepted are those of the packet that the line has not.
Aligned ==
  Len(byte_in) > 0 =>
    /\ Len(byte_in) + Len(line) = 3
    /\ \A i \in 1..Len(byte_in) : byte_in[i] = Code(move, i)

\* Bytes that will be a spoilt packet have their fault already.
StepInv ==
  /\ faults \in Nat /\ spoilt \in Nat /\ spoilt <= faults
  /\ hpc \in {"loady", "storey"} \/ Aligned \/ spoilt + 1 <= faults

\* A coordinate that the handler has loaded is stale only when that is on record.
SumInv ==
  /\ 1 \notin off => xpos = truth[1] /\ (hpc = "storex" => reg = xpos)
  /\ 2 \notin off => ypos = truth[2] /\ (hpc = "storey" => reg = ypos)

\* Between two packets the pair is a position of the pointer, and a read that is
\* not torn so far can only go on to copy such a pair.
SeenInv ==
  /\ torn \in BOOLEAN
  /\ upc # "zero" /\ hpc \notin {"loady", "storey"} => <<xpos, ypos>> \in had
  /\ upc = "read" /\ ~torn => user[1] = xpos /\ hpc \notin {"loady", "storey"}
  /\ upc # "read" /\ ~torn => user \in had

ObserverInv == ObserverTypes /\ BytesInv /\ StepInv /\ SumInv /\ SeenInv

\* A sequence that is not empty and its elements
LEMMA SeqElements ==
  ASSUME NEW s \in Seq(Int)
  PROVE  /\ \A i \in 1..Len(s) : s[i] \in Int
         /\ s # <<>> /\ Len(s) <= 3 => Len(s) \in 1..3
<1>1. \A i \in 1..Len(s) : s[i] \in Int
  OBVIOUS
<1>2. Len(s) \in Nat /\ (s # <<>> => Len(s) # 0)
  OBVIOUS
<1>3. \A n \in Nat : n # 0 /\ n <= 3 => n \in 1..3
  OBVIOUS
<1> QED BY <1>1, <1>2, <1>3

\* What the handler adds is the movement of a packet that is whole, as the one is that
\* was received in step.
LEMMA MovementDecoded ==
  ASSUME ObserverTypes, BytesInv, hpc \in {"storex", "storey"}
  PROVE  /\ AnyMouse!Dx \in Int /\ AnyMouse!Dy \in Int
         /\ AnyMouse!Whole => AnyMouse!Dx = move[1] /\ AnyMouse!Dy = move[2]
         /\ Aligned => AnyMouse!Whole
<1>1. Len(byte_in) = 3 /\ byte_in \in Seq(Int)
  <2>1. PICK n \in Nat : n = Len(byte_in)
    BY DEF BytesInv
  <2>2. n <= 3 /\ ~(n < 3)
    BY <2>1 DEF BytesInv
  <2>3. n = 3
    BY <2>2
  <2> QED
    BY <2>1, <2>3 DEF BytesInv
<1>2. AnyMouse!Dx \in Int /\ AnyMouse!Dy \in Int
  <2>1. \A i \in 1..Len(byte_in) : byte_in[i] \in Int
    BY <1>1, SeqElements
  <2>2. 1 \in 1..3 /\ 2 \in 1..3 /\ 3 \in 1..3
    OBVIOUS
  <2>3. byte_in[1] \in Int /\ byte_in[2] \in Int /\ byte_in[3] \in Int
    BY <1>1, <2>1, <2>2
  <2> QED
    BY <2>3 DEF AnyMouse!Dx, AnyMouse!Dy, AnyMouse!Signed
<1>3. ASSUME AnyMouse!Whole PROVE AnyMouse!Dx = move[1] /\ AnyMouse!Dy = move[2]
  <2>1. byte_in[1] = Code(move, 1) /\ byte_in[2] = Code(move, 2) /\ byte_in[3] = Code(move, 3)
    BY <1>3 DEF AnyMouse!Whole, Code
  <2> QED
    BY <2>1, DecodeMove DEF AnyMouse!Dx, AnyMouse!Dy, ObserverTypes
<1>4. ASSUME Aligned PROVE AnyMouse!Whole
  <2>1. /\ Len(AnyMouse!Encode(move)) = 3 /\ AnyMouse!Encode(move) \in Seq(Int)
    BY EncodeBytes DEF ObserverTypes
  <2>2. \A i \in 1..3 : byte_in[i] = AnyMouse!Encode(move)[i]
    BY <1>1, <1>4 DEF Aligned, Code
  <2> QED
    BY <1>1, <2>1, <2>2 DEF AnyMouse!Whole
<1> QED
  BY <1>2, <1>3, <1>4

\* A byte of the line or of another device comes in.
LEMMA ByteReceived ==
  ASSUME ObserverInv, NEW b \in Int, AnyMouse!Receive(b)
  PROVE  /\ ObserverTypes' /\ SumInv' /\ SeenInv'
         /\ byte_in' \in Seq(Int) /\ Len(byte_in') <= 3
         /\ hpc' = "idle" <=> Len(byte_in') < 3
         /\ move' = move /\ spoilt' = spoilt /\ hpc = "idle"
<1>1. /\ UNCHANGED <<move, packets, reg, xpos, ypos, upc, user, truth, off, spoilt, had, torn>>
      /\ byte_in' = IF AnyMouse!Accept(b) THEN Append(byte_in, b) ELSE byte_in
      /\ hpc' = IF Len(byte_in') = 3 THEN "loadx" ELSE "idle"
      /\ hpc = "idle"
  BY DEF AnyMouse!Receive
<1>2. byte_in \in Seq(Int) /\ Len(byte_in) \in Nat /\ Len(byte_in) < 3
  BY <1>1 DEF ObserverInv, BytesInv
<1>3. byte_in' \in Seq(Int) /\ Len(byte_in') \in {Len(byte_in), Len(byte_in) + 1}
  BY <1>1, <1>2
<1>4. Len(byte_in') <= 3 /\ (hpc' = "idle" <=> Len(byte_in') < 3)
  <2>1. PICK n \in Nat : n = Len(byte_in')
    BY <1>3
  <2>2. n <= 3
    BY <1>2, <1>3, <2>1
  <2>3. hpc' = IF n = 3 THEN "loadx" ELSE "idle"
    BY <1>1, <2>1
  <2>4. hpc' = "idle" <=> n < 3
    BY <2>2, <2>3
  <2> QED
    BY <2>1, <2>2, <2>4
<1>5. ObserverTypes' /\ SumInv'
  BY <1>1 DEF ObserverInv, ObserverTypes, SumInv
<1>6. SeenInv'
  BY <1>1 DEF ObserverInv, SeenInv
<1> QED
  BY <1>1, <1>3, <1>4, <1>5, <1>6

\* The line without its first byte still is the rest of the packet.
LEMMA LineShorter ==
  ASSUME BytesInv, line # <<>>, line' = Tail(line), move' = move
  PROVE  /\ line' \in Seq(Int) /\ Len(line') = Len(line) - 1 /\ Len(line) \in 1..3
         /\ Head(line) = Code(move, 4 - Len(line)) /\ Head(line) \in Int
         /\ \A i \in 1..Len(line') : line'[i] = Code(move', 3 - Len(line') + i)
<1>1. line \in Seq(Int) /\ Len(line) \in 1..3 /\ Head(line) = line[1] /\ line[1] \in Int
  <2>1. line \in Seq(Int) /\ Len(line) <= 3
    BY DEF BytesInv
  <2>2. Len(line) \in 1..3
    BY <2>1, SeqElements
  <2>3. 1 \in 1..Len(line)
    BY <2>2
  <2>4. line[1] \in Int
    BY <2>1, <2>3, SeqElements
  <2> QED
    BY <2>1, <2>2, <2>4
<1>2. line' \in Seq(Int) /\ Len(line') = Len(line) - 1
  BY <1>1
<1>3. line[1] = Code(move, 4 - Len(line))
  <2>1. line[1] = Code(move, 3 - Len(line) + 1)
    BY <1>1 DEF BytesInv
  <2>2. 3 - Len(line) + 1 = 4 - Len(line)
    BY <1>1
  <2> QED
    BY <2>1, <2>2
<1>4. ASSUME NEW i \in 1..Len(line') PROVE line'[i] = Code(move', 3 - Len(line') + i)
  <2>1. line'[i] = line[i + 1] /\ i + 1 \in 1..Len(line)
    BY <1>1, <1>2
  <2>2. line[i + 1] = Code(move, 3 - Len(line) + (i + 1))
    BY <2>1 DEF BytesInv
  <2>3. 3 - Len(line) + (i + 1) = 3 - Len(line') + i
    BY <1>1, <1>2
  <2> QED
    BY <2>1, <2>2, <2>3
<1> QED
  BY <1>1, <1>2, <1>3, <1>4

LEMMA ObserverStep == ObserverInv /\ [AnyMouse!Next]_observerVars => ObserverInv'
<1> SUFFICES ASSUME ObserverInv, [AnyMouse!Next]_observerVars PROVE ObserverInv'
  OBVIOUS
<1> USE DEF ObserverInv
<1>0. move[1] \in Int /\ move[2] \in Int
  BY DEF ObserverTypes, AnyMoves
<1>1. CASE AnyMouse!Interrupt
  <2>0. PICK b : b = Head(line)
    OBVIOUS
  <2>1. line # <<>> /\ line' = Tail(line) /\ AnyMouse!Receive(b) /\ faults' = faults
    BY <1>1, <2>0 DEF AnyMouse!Interrupt
  <2>2. move' = move
    BY <2>1 DEF AnyMouse!Receive
  <2>3. /\ line' \in Seq(Int) /\ Len(line') = Len(line) - 1 /\ Len(line) \in 1..3
        /\ b = Code(move, 4 - Len(line)) /\ b \in Int
        /\ \A i \in 1..Len(line') : line'[i] = Code(move', 3 - Len(line') + i)
    BY <2>0, <2>1, <2>2, LineShorter
  <2>4. /\ ObserverTypes' /\ SumInv' /\ SeenInv'
        /\ byte_in' \in Seq(Int) /\ Len(byte_in') <= 3
        /\ hpc' = "idle" <=> Len(byte_in') < 3
        /\ spoilt' = spoilt /\ hpc = "idle"
    BY <2>1, <2>3, ByteReceived
  <2>5. BytesInv'
    BY <2>3, <2>4 DEF BytesInv
  <2>6. ASSUME Aligned PROVE Aligned'
    <3>0. byte_in' = IF AnyMouse!Accept(b) THEN Append(byte_in, b) ELSE byte_in
      BY <2>1 DEF AnyMouse!Receive
    <3>1. CASE Len(byte_in) = 0
      <4>1. byte_in = <<>>
        BY <3>1 DEF BytesInv
      <4>2. CASE Len(line) = 3
        <5>1. AnyMouse!Accept(b) /\ b = Code(move, 1)
          BY <2>3, <4>2, EncodeBytes DEF AnyMouse!Accept, ObserverTypes
        <5>2. Len(byte_in') = 1 /\ byte_in'[1] = b
          BY <2>3, <3>0, <4>1, <5>1
        <5> QED
          BY <2>2, <2>3, <4>2, <5>1, <5>2 DEF Aligned
      <4>3. CASE Len(line) \in {1, 2}
        <5>1. (b \div 64) % 2 = 0
          <6>1. CASE Len(line) = 1
            BY <2>3, <6>1, EncodeBytes DEF ObserverTypes
          <6>2. CASE Len(line) = 2
            BY <2>3, <6>2, EncodeBytes DEF ObserverTypes
          <6> QED
            BY <4>3, <6>1, <6>2
        <5>2. byte_in' = <<>>
          BY <3>0, <4>1, <5>1 DEF AnyMouse!Accept
        <5> QED
          BY <5>2 DEF Aligned
      <4> QED
        BY <2>3, <4>2, <4>3
    <3>2. CASE Len(byte_in) # 0
      <4>1. byte_in' = Append(byte_in, b) /\ byte_in \in Seq(Int) /\ Len(byte_in) \in Nat
        BY <3>0, <3>2 DEF AnyMouse!Accept, BytesInv
      <4>2. Len(byte_in) + Len(line) = 3 /\ b = Code(move, Len(byte_in) + 1)
        <5>1. Len(byte_in) + Len(line) = 3
          BY <2>6, <3>2, <4>1 DEF Aligned
        <5>2. 4 - Len(line) = Len(byte_in) + 1
          BY <2>3, <4>1, <5>1
        <5> QED
          BY <2>3, <5>1, <5>2
      <4>3. /\ Len(byte_in') = Len(byte_in) + 1 /\ byte_in'[Len(byte_in')] = b
            /\ \A i \in 1..Len(byte_in) : byte_in'[i] = byte_in[i]
        BY <2>3, <4>1
      <4>4. ASSUME NEW i \in 1..Len(byte_in') PROVE byte_in'[i] = Code(move', i)
        <5>1. CASE i = Len(byte_in')
          BY <2>2, <4>2, <4>3, <5>1
        <5>2. CASE i # Len(byte_in')
          <6>1. i \in 1..Len(byte_in)
            BY <4>1, <4>3, <5>2
          <6> QED
            BY <2>2, <2>6, <3>2, <4>1, <4>3, <6>1 DEF Aligned
        <5> QED
          BY <5>1, <5>2
      <4> QED
        BY <2>3, <4>1, <4>2, <4>3, <4>4 DEF Aligned
    <3> QED
      BY <3>1, <3>2
  <2>7. StepInv'
    BY <2>1, <2>4, <2>6 DEF StepInv
  <2> QED
    BY <2>4, <2>5, <2>7
<1>11. ASSUME NEW b \in 0..127, AnyMouse!StrayInterrupt(b) PROVE ObserverInv'
  <2>1. AnyMouse!Receive(b) /\ line' = line /\ faults' = faults + 1 /\ b \in Int
    BY <1>11 DEF AnyMouse!StrayInterrupt
  <2>2. /\ ObserverTypes' /\ SumInv' /\ SeenInv'
        /\ byte_in' \in Seq(Int) /\ Len(byte_in') <= 3
        /\ hpc' = "idle" <=> Len(byte_in') < 3
        /\ move' = move /\ spoilt' = spoilt
    BY <2>1, ByteReceived
  <2>3. BytesInv'
    BY <2>1, <2>2 DEF BytesInv
  <2>4. StepInv'
    BY <2>1, <2>2 DEF StepInv
  <2> QED
    BY <2>2, <2>3, <2>4
<1>12. CASE AnyMouse!Lose
  <2>1. /\ line # <<>> /\ line' = Tail(line) /\ faults' = faults + 1
        /\ UNCHANGED <<packets, byte_in, hpc, reg, xpos, ypos, upc, user, move, truth, off,
                       spoilt, had, torn>>
    BY <1>12 DEF AnyMouse!Lose
  <2>2. /\ line' \in Seq(Int) /\ Len(line') = Len(line) - 1 /\ Len(line) \in 1..3
        /\ \A i \in 1..Len(line') : line'[i] = Code(move', 3 - Len(line') + i)
    BY <2>1, LineShorter
  <2>3. BytesInv'
    BY <2>1, <2>2 DEF BytesInv
  <2>4. ObserverTypes' /\ SumInv' /\ StepInv'
    BY <2>1 DEF ObserverTypes, SumInv, StepInv
  <2>5. SeenInv'
    BY <2>1 DEF SeenInv
  <2> QED
    BY <2>3, <2>4, <2>5
<1>2. CASE AnyMouse!LoadX \/ AnyMouse!LoadY
  <2>1. ObserverTypes' /\ BytesInv' /\ StepInv'
    BY <1>2 DEF AnyMouse!LoadX, AnyMouse!LoadY, AnyMouse!Load, ObserverTypes, BytesInv, StepInv,
                Aligned
  <2>2. SumInv'
    BY <1>2 DEF AnyMouse!LoadX, AnyMouse!LoadY, AnyMouse!Load, SumInv
  <2>3. SeenInv'
    BY <1>2 DEF AnyMouse!LoadX, AnyMouse!LoadY, AnyMouse!Load, SeenInv
  <2> QED
    BY <2>1, <2>2, <2>3
<1>3. CASE AnyMouse!StoreX
  <2>1. /\ AnyMouse!Dx \in Int /\ (AnyMouse!Whole => AnyMouse!Dx = move[1])
        /\ Aligned => AnyMouse!Whole
    BY <1>3, MovementDecoded DEF AnyMouse!StoreX
  <2>2. /\ hpc = "storex" /\ hpc' = "loady" /\ xpos' = reg + AnyMouse!Dx
        /\ UNCHANGED <<move, line, packets, byte_in, reg, ypos, upc, user, faults, had>>
    BY <1>3 DEF AnyMouse!StoreX
  <2>3. /\ AnyMouse!Whole => /\ truth' = [truth EXCEPT ![1] = @ + move[1]]
                             /\ off' = off /\ spoilt' = spoilt
        /\ ~AnyMouse!Whole => truth' = truth /\ off' = off \cup {1} /\ spoilt' = spoilt + 1
    BY <1>3 DEF AnyMouse!StoreX, AnyMouse!Account
  <2>4. ObserverTypes'
    BY <1>0, <2>1, <2>2, <2>3 DEF ObserverTypes
  <2>5. BytesInv' /\ StepInv'
    BY <2>1, <2>2, <2>3 DEF BytesInv, StepInv
  <2>6. SumInv'
    BY <1>0, <2>1, <2>2, <2>3 DEF ObserverTypes, SumInv
  <2>7. torn' = (torn \/ upc = "read")
    BY <1>3 DEF AnyMouse!StoreX
  <2>8. SeenInv'
    BY <2>2, <2>7, Zenon DEF SeenInv
  <2> QED
    BY <2>4, <2>5, <2>6, <2>8
<1>4. CASE AnyMouse!StoreY
  <2>1. AnyMouse!Dy \in Int /\ (AnyMouse!Whole => AnyMouse!Dy = move[2])
    BY <1>4, MovementDecoded DEF AnyMouse!StoreY
  <2>2. /\ hpc = "storey" /\ hpc' = "idle" /\ byte_in' = <<>> /\ ypos' = reg + AnyMouse!Dy
        /\ UNCHANGED <<move, line, packets, reg, xpos, upc, user, faults, spoilt>>
    BY <1>4 DEF AnyMouse!StoreY
  <2>3. /\ AnyMouse!Whole => truth' = [truth EXCEPT ![2] = @ + move[2]] /\ off' = off
        /\ ~AnyMouse!Whole => truth' = truth /\ off' = off \cup {2}
    BY <1>4 DEF AnyMouse!StoreY, AnyMouse!Account
  <2>4. ObserverTypes'
    BY <1>0, <2>1, <2>2, <2>3 DEF ObserverTypes
  <2>5. BytesInv' /\ StepInv'
    BY <2>2 DEF BytesInv, StepInv, Aligned
  <2>6. SumInv'
    BY <1>0, <2>1, <2>2, <2>3 DEF ObserverTypes, SumInv
  <2>7. torn' = (torn \/ upc = "read") /\ had' = had \cup {<<xpos, ypos'>>}
    BY <1>4 DEF AnyMouse!StoreY
  <2>8. SeenInv'
    BY <2>2, <2>7, Zenon DEF SeenInv
  <2> QED
    BY <2>4, <2>5, <2>6, <2>8
<1>5. CASE AnyMouse!ReadX
  <2>1. /\ upc = "idle" /\ upc' = "read" /\ user' = [user EXCEPT ![1] = xpos]
        /\ UNCHANGED <<move, line, packets, byte_in, hpc, reg, xpos, ypos, truth, off, faults,
                       spoilt, had>>
    BY <1>5 DEF AnyMouse!ReadX
  <2>2. ObserverTypes' /\ BytesInv' /\ StepInv' /\ SumInv'
    BY <2>1 DEF ObserverTypes, BytesInv, StepInv, Aligned, SumInv
  <2>3. torn' = (hpc \in {"loady", "storey"})
    BY <1>5 DEF AnyMouse!ReadX
  <2>4. user'[1] = xpos
    BY <2>1 DEF ObserverTypes
  <2>5. torn' \in BOOLEAN
    <3>1. CASE hpc \in {"loady", "storey"}
      BY <2>3, <3>1
    <3>2. CASE hpc \notin {"loady", "storey"}
      BY <2>3, <3>2
    <3> QED
      BY <3>1, <3>2
  <2>6. ~torn' => hpc \notin {"loady", "storey"}
    BY <2>3, Zenon
  <2>7. SeenInv'
    BY <2>1, <2>4, <2>5, <2>6 DEF SeenInv
  <2> QED
    BY <2>2, <2>7
<1>6. CASE AnyMouse!ReadY
  <2>1. /\ upc = "read" /\ upc' = "idle" /\ user' = [user EXCEPT ![2] = ypos]
        /\ UNCHANGED <<move, line, packets, byte_in, hpc, reg, xpos, ypos, truth, off, faults,
                       spoilt, had, torn>>
    BY <1>6 DEF AnyMouse!ReadY
  <2>2. ObserverTypes' /\ BytesInv' /\ StepInv' /\ SumInv'
    BY <2>1 DEF ObserverTypes, BytesInv, StepInv, Aligned, SumInv
  <2>3. user' = <<user[1], ypos>>
    BY <2>1 DEF ObserverTypes
  <2>4. SeenInv'
    BY <2>1, <2>3 DEF SeenInv
  <2> QED
    BY <2>2, <2>4
<1>7. CASE AnyMouse!ZeroX
  <2>1. ObserverTypes'
    BY <1>7 DEF AnyMouse!ZeroX, ObserverTypes
  <2>2. BytesInv' /\ StepInv'
    BY <1>7 DEF AnyMouse!ZeroX, BytesInv, StepInv, Aligned
  <2>3. SumInv'
    BY <1>7 DEF AnyMouse!ZeroX, ObserverTypes, SumInv
  <2>4. SeenInv'
    BY <1>7 DEF AnyMouse!ZeroX, SeenInv
  <2> QED
    BY <2>1, <2>2, <2>3, <2>4
<1>8. CASE AnyMouse!ZeroY
  BY <1>8 DEF AnyMouse!ZeroY, ObserverTypes, BytesInv, StepInv, Aligned, SumInv, SeenInv
<1>9. ASSUME NEW m \in AnyMoves, AnyMouse!Send(m) PROVE ObserverInv'
  <2>1. /\ line = <<>> /\ hpc = "idle" /\ line' = AnyMouse!Encode(m) /\ move' = m
        /\ UNCHANGED <<byte_in, hpc, reg, xpos, ypos, upc, user, truth, off, faults, spoilt, had,
                       torn>>
    BY <1>9 DEF AnyMouse!Send
  <2>2. ObserverTypes' /\ SumInv'
    BY <2>1 DEF ObserverTypes, SumInv
  <2>3. SeenInv'
    BY <2>1 DEF SeenInv
  <2>4. BytesInv'
    <3>1. Len(line') = 3 /\ line' \in Seq(Int)
      BY <2>1, EncodeBytes
    <3>2. \A i \in 1..3 : line'[i] = Code(move', 3 - 3 + i)
      BY <2>1 DEF Code
    <3> QED
      BY <2>1, <3>1, <3>2 DEF BytesInv
  <2>5. StepInv'
    <3>1. Aligned => Len(byte_in) = 0
      <4>1. Len(byte_in) < 3 /\ Len(line) = 0 /\ Len(byte_in) \in Nat
        BY <2>1 DEF BytesInv
      <4> QED
        BY <4>1 DEF Aligned
    <3>2. Aligned => Aligned'
      BY <2>1, <3>1 DEF Aligned
    <3> QED
      BY <2>1, <3>2 DEF StepInv
  <2> QED
    BY <2>2, <2>3, <2>4, <2>5
<1>10. CASE UNCHANGED observerVars
  BY <1>10 DEF observerVars, ObserverTypes, BytesInv, StepInv, Aligned, SumInv, SeenInv
<1> QED
  BY <1>1, <1>2, <1>3, <1>4, <1>5, <1>6, <1>7, <1>8, <1>9, <1>10, <1>11, <1>12
  DEF AnyMouse!Next

\* my_interrupt, mymouse_read and the ioctl of lab4_serial.c: for every sequence of
\* movements, whatever bytes are lost and whatever bytes other interrupts bring in, each
\* coordinate is the sum of the packets received since it was set to zero, unless that
\* raced with the handler or bytes that are no packet were added; each lost or foreign
\* byte causes one such addition at most; and a read that nothing cut in two returns a
\* position where the pointer has been.
THEOREM PositionIsTheSum == AnyMouse!Spec => []PositionExact
<1>1. AnyMouse!Init => ObserverInv
  <2> SUFFICES ASSUME AnyMouse!Init PROVE ObserverInv
    OBVIOUS
  <2>1. ObserverTypes
    BY DEF AnyMouse!Init, ObserverTypes, AnyMoves
  <2>2. BytesInv /\ StepInv
    BY DEF AnyMouse!Init, BytesInv, StepInv, Aligned
  <2>3. SumInv
    BY DEF AnyMouse!Init, SumInv
  <2>4. SeenInv
    BY DEF AnyMouse!Init, SeenInv
  <2> QED
    BY <2>1, <2>2, <2>3, <2>4 DEF ObserverInv
<1>2. ObserverInv => PositionExact
  BY DEF ObserverInv, StepInv, SumInv, SeenInv, PositionExact, Position!PositionExact
<1> QED
  BY <1>1, <1>2, ObserverStep, PTL DEF AnyMouse!Spec, AnyMouse!vars, observerVars
=============================================================================
