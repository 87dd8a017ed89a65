------------------------------- MODULE Block -------------------------------
(***************************************************************************)
(* The request functions of the two RAM disks:                             *)
(*   "lab2"  block/lab2_block.c: my_request and the HDIO_GETGEO of my_ioctl*)
(*   "sbd"   block/sbd.c: sbd_request, sbd_transfer and sbd_getgeo.        *)
(* Sizes and places are in the kernel's sectors of 512 bytes.  A request   *)
(* is a run of sectors in segments; a write stores its name and the number *)
(* of the sector it was sent for.                                          *)
(*                                                                         *)
(* External, from how the code uses it: blk_fetch_request takes a request  *)
(* from the queue, in an order that the elevator chooses;                  *)
(* __blk_end_request_cur ends the current segment and says whether another *)
(* follows; the queue's lock is held while the request function runs, so   *)
(* that nothing is queued meanwhile; the kernel sends nothing beyond the   *)
(* capacity it was told, and nothing that is not aligned to the logical    *)
(* block.                                                                  *)
(***************************************************************************)
EXTENDS Integers, Sequences

CONSTANTS
  Kinds,
  Sizes,       \* logical_block_size of sbd, in sectors; 1 is the default
  Capacity,    \* what set_capacity tells the kernel, in sectors
  Names        \* bound: requests, each of them sent once

VARIABLES
  kind,
  block,     \* logical_block_size, in sectors
  queue,     \* requests that were not fetched
  unsent,    \* requests that were not sent
  req,       \* the request the function works on, NoRequest, or Ended
  disk,      \* ramdisk, Device.data: what each of its sectors holds
  expected,  \* the same by what the kernel asked for
  fetched,   \* what the last segment that was read found
  wanted,    \* what it should have found
  geometry   \* the cylinders that the last HDIO_GETGEO reported

vars == <<kind, block, queue, unsent, req, disk, expected, fetched, wanted, geometry>>

None == "none"

\* No request, and one that was ended and is still in use
NoRequest == [name |-> None, pos |-> 0, segs |-> <<>>, write |-> FALSE, fs |-> TRUE]
Ended == [NoRequest EXCEPT !.name = "ended"]

Working == req \notin {NoRequest, Ended}

Sectors == 0..Capacity - 1

\* disk_size, Device.size
DiskSize == Capacity * block

Blank == <<None, 0>>

\* A segment's buffer, read or written n sectors long
Buffer(n) ==
  [i \in 1..n |-> IF i <= req.segs[1] THEN <<req.name, req.pos + i - 1>> ELSE Blank]

Piece(content, from, n) == [i \in 1..n |-> content[from + i - 1]]

Stored(content, from, buffer) ==
  [s \in DOMAIN content |->
     IF s \in from..from + Len(buffer) - 1 THEN buffer[s - from + 1] ELSE content[s]]

Init ==
  /\ kind \in Kinds
  /\ block \in IF kind = "sbd" THEN Sizes ELSE {1}
  /\ queue = {} /\ unsent = Names /\ req = NoRequest
  /\ disk = [s \in 0..DiskSize - 1 |-> Blank] /\ expected = [s \in Sectors |-> Blank]
  /\ fetched = <<>> /\ wanted = <<>> /\ geometry = 0

-----------------------------------------------------------------------------
(* The kernel                                                              *)

\* Segments of a request: one or two, each of one or two logical blocks
Segments == {<<a>> : a \in {block, 2 * block}} \cup {<<a, block>> : a \in {block, 2 * block}}

Total(segs) == IF Len(segs) = 1 THEN segs[1] ELSE segs[1] + segs[2]

Submit ==
  /\ req = NoRequest
  /\ \E r \in unsent, at \in Sectors, segs \in Segments, write \in BOOLEAN, fs \in BOOLEAN :
       /\ at % block = 0 /\ at + Total(segs) <= Capacity
       /\ queue' = queue \cup {[name |-> r, pos |-> at, segs |-> segs, write |-> write, fs |-> fs]}
       /\ unsent' = unsent \ {r}
  /\ UNCHANGED <<kind, block, req, disk, expected, fetched, wanted, geometry>>

\* blk_fetch_request at the head of my_request and sbd_request
RequestStart ==
  /\ req = NoRequest /\ queue # {}
  /\ \E r \in queue : req' = r /\ queue' = queue \ {r}
  /\ UNCHANGED <<kind, block, unsent, disk, expected, fetched, wanted, geometry>>

-----------------------------------------------------------------------------
(* The loop of the request functions                                       *)

\* __blk_end_request_cur, and the next request when this one is done
EndCur ==
  IF Len(req.segs) > 1
    THEN /\ req' = [req EXCEPT !.pos = @ + req.segs[1], !.segs = Tail(@)]
         /\ UNCHANGED queue
    ELSE \/ queue = {} /\ req' = NoRequest /\ UNCHANGED queue
         \/ \E r \in queue : req' = r /\ queue' = queue \ {r}

\* sector * sector_size, sector * logical_block_size
Offset(n) == n * block

InDisk_LastOut(n) == Offset(req.pos) + n < DiskSize

\* A transfer that would pass the end of the disk is left out, and the segment
\* reported as done all the same.
InDisk(n) == Offset(req.pos) + n <= DiskSize

\* sbd_transfer, and the same lines of my_request
Transfer ==
  /\ Working /\ req.fs
  /\ LET asked == req.segs[1]
         n == Offset(asked)
     IN IF req.write
          THEN /\ disk' = IF InDisk(n) THEN Stored(disk, Offset(req.pos), Buffer(n)) ELSE disk
               /\ expected' = Stored(expected, req.pos, Buffer(asked))
               /\ UNCHANGED <<fetched, wanted>>
          ELSE /\ fetched' = IF InDisk(n) THEN Piece(disk, Offset(req.pos), n) ELSE <<>>
               /\ wanted' = Piece(expected, req.pos, asked)
               /\ UNCHANGED <<disk, expected>>
  /\ EndCur
  /\ UNCHANGED <<kind, block, unsent, geometry>>

\* lab2 skips a request that does not come from a file system, as if it was done.
SkipSegment ==
  /\ kind = "lab2" /\ Working /\ ~req.fs
  /\ EndCur
  /\ UNCHANGED <<kind, block, unsent, disk, expected, fetched, wanted, geometry>>

\* sbd ends it with -EIO and goes round the loop with the request that it has ended,
\* which it ends again: nothing more is said of the system.
SkipAll ==
  /\ kind = "sbd" /\ Working /\ ~req.fs
  /\ req' = Ended
  /\ UNCHANGED <<kind, block, queue, unsent, disk, expected, fetched, wanted, geometry>>

-----------------------------------------------------------------------------
(* HDIO_GETGEO                                                             *)

\* The size in bytes, not sectors, divided by 64, in an unsigned short
Cylinders == (8 * DiskSize * block) % 65536

GetGeo ==
  /\ geometry' = Cylinders
  /\ UNCHANGED <<kind, block, queue, unsent, req, disk, expected, fetched, wanted>>

Next == Submit \/ RequestStart \/ Transfer \/ SkipSegment \/ SkipAll \/ GetGeo

Spec == Init /\ [][Next]_vars

-----------------------------------------------------------------------------
(* Properties                                                              *)

TypeOK ==
  /\ kind \in Kinds /\ block \in Sizes \cup {1}
  /\ unsent \subseteq Names
  /\ disk \in [0..DiskSize - 1 -> (Names \cup {None}) \X Sectors]
  /\ expected \in [Sectors -> (Names \cup {None}) \X Sectors]
  /\ geometry \in 0..65535

\* my_request and sbd_request: whatever the segments and the order in which the
\* requests are fetched, a write changes the sectors it was sent for, the last one
\* of the disk included, and a read finds what was written there.  This needs the
\* logical block to be the kernel's sector: sbd multiplies the kernel's sectors
\* with any other size, too.
SectorsExact == block = 1 => disk = expected /\ fetched = wanted
=============================================================================
