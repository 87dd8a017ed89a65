------------------------------ MODULE RamDisk ------------------------------
(***************************************************************************)
(* Reading, writing and seeking in the memory behind the character drivers:*)
(* the generic entry points of src/ioctl/lab_char.h (family = "generic"),  *)
(* which transfer what fits, and those of src/char/lab4_char_seek.c        *)
(* (family = "char"; the same in lab2, lab3, lab5 and lab6), which refuse  *)
(* a transfer that does not fit.                                           *)
(*                                                                         *)
(* Threads share one open file.  The kernel copies f_pos before it calls   *)
(* the driver and stores the driver's position back afterwards, without a  *)
(* lock for a character device, so transfers and seeks interleave.  pread  *)
(* and pwrite name a position of their own, which may lie beyond the end,  *)
(* and leave f_pos alone.                                                  *)
(* loff_t is signed and size_t unsigned, both of the width of a word; a    *)
(* mixed comparison is unsigned.                                           *)
(***************************************************************************)
EXTENDS Integers

CONSTANTS
  Threads,
  Families, \* the families considered: "generic", "char"
  Size,     \* ramdisk_size, membuff_size
  Word,     \* number of values of size_t (2^64)
  MaxArg,   \* bound: largest |offset| and lbuf a caller passes
  Preads    \* the positions given to pread and pwrite: values of loff_t from 0 on

ASSUME RamDiskAssumption ==
  /\ Families \subseteq {"generic", "char"}
  /\ Size \in Nat \ {0} /\ MaxArg \in Nat
  /\ Word \in Nat /\ Word > 2 * (Size + MaxArg)
  /\ \A p \in Preads : p \in Nat /\ 2 * p < Word

VARIABLES
  family,  \* of the driver that is loaded
  pc,      \* "user", "copy", "store"
  f_pos,   \* file->f_pos
  ppos,    \* *ppos, each call's copy of it
  len,     \* the number of bytes the call transfers
  named    \* the threads that are in pread or pwrite

vars == <<family, pc, f_pos, ppos, len, named>>

Init ==
  /\ family \in Families
  /\ pc = [t \in Threads |-> "user"]
  /\ f_pos = 0
  /\ ppos = [t \in Threads |-> 0]
  /\ len = [t \in Threads |-> 0]
  /\ named = {}

-----------------------------------------------------------------------------
(* Arithmetic                                                              *)

\* Conversion of a signed value to size_t.
Unsigned(x) == x % Word

BytesToDo_Unbounded(pos, lbuf) == lbuf

\* mycdrv_generic_read, mycdrv_generic_write: maxbytes > lbuf is unsigned, so that
\* beyond the end, where maxbytes is negative, all of lbuf is to do.  (maxbytes is an
\* int.  Positions so far beyond the end that it is truncated make no difference
\* here: every transfer beyond the end leaves the buffer.)
BytesToDo(pos, lbuf) ==
  LET maxbytes == Size - pos
  IN  IF Unsigned(maxbytes) > lbuf THEN lbuf ELSE maxbytes

\* chardrv_read, chardrv_write: all or nothing.
WholeOrNone_Length(pos, lbuf) == IF lbuf > Size THEN 0 ELSE lbuf

WholeOrNone(pos, lbuf) == IF Unsigned(lbuf + pos) > Size THEN 0 ELSE lbuf

Bytes(pos, lbuf) == IF family = "generic" THEN BytesToDo(pos, lbuf) ELSE WholeOrNone(pos, lbuf)

\* testpos of lseek for SEEK_SET, SEEK_CUR and SEEK_END.
Target(orig, offset) ==
  CASE orig = "SET" -> offset
    [] orig = "CUR" -> f_pos + offset
    [] orig = "END" -> Size + offset

Clamp_Signed(testpos) == IF testpos < Size THEN testpos ELSE Size

\* testpos < ramdisk_size is unsigned, so that a negative position counts as
\* large; the test against 0 comes after it.
Clamp(testpos) ==
  LET low == IF Unsigned(testpos) < Size THEN testpos ELSE Size
  IN  IF low >= 0 THEN low ELSE 0

-----------------------------------------------------------------------------
Transfer(t, pos, lbuf) ==
  /\ pc[t] = "user"
  /\ pc' = [pc EXCEPT ![t] = "copy"]
  /\ ppos' = [ppos EXCEPT ![t] = pos]
  /\ len' = [len EXCEPT ![t] = Bytes(pos, lbuf)]
  /\ UNCHANGED <<family, f_pos>>

\* read, write
Call(t, lbuf) == Transfer(t, f_pos, lbuf) /\ UNCHANGED named

\* pread, pwrite
CallAt(t, pos, lbuf) == Transfer(t, pos, lbuf) /\ named' = named \cup {t}

\* copy_to_user, copy_from_user leave `left' bytes out on a fault; the position
\* moves by the bytes done.
Copy(t) ==
  /\ pc[t] = "copy"
  /\ \E left \in 0..len[t] : ppos' = [ppos EXCEPT ![t] = @ + len[t] - left]
  /\ pc' = [pc EXCEPT ![t] = "store"]
  /\ UNCHANGED <<family, f_pos, len, named>>

Store(t) ==
  /\ pc[t] = "store"
  /\ pc' = [pc EXCEPT ![t] = "user"]
  /\ f_pos' = IF t \in named THEN f_pos ELSE ppos[t]
  /\ named' = named \ {t}
  /\ ppos' = [ppos EXCEPT ![t] = 0] /\ len' = [len EXCEPT ![t] = 0]
  /\ UNCHANGED family

\* mycdrv_generic_lseek, chardrv_lseek
Lseek(t, orig, offset) ==
  /\ pc[t] = "user"
  /\ f_pos' = Clamp(Target(orig, offset))
  /\ UNCHANGED <<family, pc, ppos, len, named>>

Next ==
  \E t \in Threads :
    \/ \E lbuf \in 0..MaxArg : Call(t, lbuf) \/ \E pos \in Preads : CallAt(t, pos, lbuf)
    \/ Copy(t) \/ Store(t)
    \/ \E orig \in {"SET", "CUR", "END"}, offset \in -MaxArg..MaxArg : Lseek(t, orig, offset)

Spec == Init /\ [][Next]_vars

-----------------------------------------------------------------------------
(* Properties                                                              *)

TypeOK ==
  /\ family \in Families
  /\ pc \in [Threads -> {"user", "copy", "store"}]
  /\ f_pos \in Nat
  /\ ppos \in [Threads -> Nat]
  /\ len \in [Threads -> Nat]
  /\ named \subseteq Threads

\* The file position stays inside the device (its end included), whatever seeks
\* and transfers interleave, and so does the position of a read or write; the signed
\* and unsigned arithmetic of read, write and lseek relies on it.
PosInBounds == f_pos \in 0..Size /\ \A t \in Threads \ named : ppos[t] \in 0..Size

\* What is copied lies inside the buffer: at every position with the drivers of
\* char/, whose test is one of the sum, and with the generic entry points at every
\* position up to the end (a pread or pwrite beyond it leaves the buffer).
CopyInBounds ==
  \A t \in Threads :
    pc[t] = "copy" /\ len[t] # 0 /\ (family = "char" \/ ppos[t] <= Size)
      => len[t] > 0 /\ ppos[t] + len[t] <= Size

\* A seek to a position of the device goes there, and any other goes to the end
\* (also one to before the start).
SeekExact ==
  \A orig \in {"SET", "CUR", "END"}, offset \in -MaxArg..MaxArg :
    LET target == Target(orig, offset)
    IN  Clamp(target) = IF target \in 0..Size THEN target ELSE Size
=============================================================================
