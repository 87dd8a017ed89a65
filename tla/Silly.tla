------------------------------- MODULE Silly -------------------------------
(***************************************************************************)
(* hardware/lab5_silly.c: read and write of a window of I/O memory, by     *)
(* bytes, by words of two or four bytes or by block, as the minor number   *)
(* says.  Addresses are positions in the window; its base is a multiple of *)
(* four, so alignment is that of the position.  size_t has Word values.    *)
(* A byte of the window is the number of the write that stored it.         *)
(***************************************************************************)
EXTENDS Integers, FiniteSetsExt

CONSTANTS
  Size,        \* ISA_MAX - ISA_BASE
  Positions,   \* positions that a caller seeks to
  MaxCount,    \* bound: bytes asked for
  MaxWrites,   \* bound: writes
  MaxLeaks,    \* bound: buffers leaked
  KmallocMax,  \* what kmalloc can give
  Word, EFAULT

VARIABLES
  f_pos,
  window,    \* the device
  writes,    \* writes done
  result,    \* the bytes that the last call transferred, and the position it began at
  partial,   \* positions where the last write of a word left bytes out
  leaked     \* buffers not freed

vars == <<f_pos, window, writes, result, partial, leaked>>

Modes == {"M_8", "M_16", "M_32", "M_memcpy"}
Bytes == 0..Size - 1
Junk == -1
None == [at |-> 0, bytes |-> <<>>]

Init ==
  /\ f_pos = 0
  /\ window = [i \in Bytes |-> 0]
  /\ writes = 0 /\ result = None /\ partial = {} /\ leaked = 0

-----------------------------------------------------------------------------
Count_Whole(pos, count) == count

\* The end of the window bounds the transfer; the subtraction wraps beyond it, and
\* the test for a negative count never holds.
Count(pos, count) == IF pos + count > Size THEN (Size - pos) % Word ELSE count

\* ioread8, ioread16, ioread32; memcpy_fromio goes by bytes
AccessWidth(mode) == CASE mode = "M_32" -> 4 [] mode = "M_16" -> 2 [] mode \in {"M_8", "M_memcpy"} -> 1

Unit_Asked(mode, pos, count) == AccessWidth(mode)

\* An access is narrower than the mode says when the position or the count is not
\* aligned.
Unit(mode, pos, count) ==
  Max({u \in {1, 2, 4} : u <= AccessWidth(mode) /\ pos % u = 0 /\ count % u = 0})

\* The loop goes on while a unit is left; what it does not reach is what kmalloc gave.
Fetched(mode, pos, count) ==
  LET unit == Unit(mode, pos, count)
  IN  [i \in 1..count |-> IF i <= (count \div unit) * unit THEN window[pos + i - 1] ELSE Junk]

\* Words are written with iowrite8, which stores the lowest byte of each.
Stored(mode, pos, count) ==
  LET unit == Unit(mode, pos, count)
  IN  {i \in pos..pos + count - 1 : (i - pos) % unit = 0}

-----------------------------------------------------------------------------
\* The kernel refuses calls at a negative position.
silly_read(mode, asked, fault) ==
  LET count == Count(f_pos, asked)
  IN  /\ f_pos >= 0 /\ count <= KmallocMax
      /\ fault => count > 0
      /\ result' = IF fault THEN None
                   ELSE [at |-> f_pos, bytes |-> Fetched(mode, f_pos, count)]
      /\ f_pos' = IF fault THEN f_pos - EFAULT ELSE f_pos + count
      /\ UNCHANGED <<window, writes, partial, leaked>>

silly_write(mode, asked) ==
  LET count == Count(f_pos, asked)
  IN  /\ f_pos >= 0 /\ count <= KmallocMax /\ writes < MaxWrites
      /\ writes' = writes + 1
      /\ window' = [i \in Bytes |-> IF i \in Stored(mode, f_pos, count) THEN writes + 1 ELSE window[i]]
      /\ partial' = (f_pos..f_pos + count - 1) \ Stored(mode, f_pos, count)
      /\ result' = [at |-> f_pos, bytes |-> [i \in 1..count |-> writes + 1]]
      /\ f_pos' = f_pos + count
      /\ UNCHANGED leaked

\* No memory for the buffer, the caller may not write, or its buffer is bad.
Refused ==
  /\ f_pos >= 0 /\ result' = None
  /\ UNCHANGED <<f_pos, window, writes, partial, leaked>>

\* A minor number beyond 3 is refused after the buffer was allocated.
BadMinor ==
  /\ f_pos >= 0 /\ leaked < MaxLeaks
  /\ leaked' = leaked + 1 /\ result' = None
  /\ UNCHANGED <<f_pos, window, writes, partial>>

Seek ==
  /\ f_pos' \in Positions
  /\ UNCHANGED <<window, writes, result, partial, leaked>>

Next ==
  \/ \E mode \in Modes, asked \in 0..MaxCount :
       silly_write(mode, asked) \/ \E fault \in BOOLEAN : silly_read(mode, asked, fault)
  \/ Refused \/ BadMinor \/ Seek

Spec == Init /\ [][Next]_vars

-----------------------------------------------------------------------------
(* Properties                                                              *)

\* A call never reaches beyond the window, although the test for a position beyond
\* it is void, and all of the bytes that read returns come from the device, at their
\* places, whatever the alignment; a write stores all of its bytes except those that
\* the write of whole words leaves out.
TransferExact ==
  \A i \in DOMAIN result.bytes :
    LET at == result.at + i - 1
    IN  /\ at \in Bytes
        /\ at \notin partial => result.bytes[i] = window[at]
        /\ result.bytes[i] # Junk
=============================================================================
