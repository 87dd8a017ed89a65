------------------------------ MODULE CacheDev ------------------------------
(***************************************************************************)
(* The two drivers that allocate their buffer in open() from a slab cache  *)
(* of their own and free it in release():                                  *)
(*   "lab1"  memory/lab1_cache.c (ramdisk, my_cache);                      *)
(*   "lab2"  memory/memory_lab2_cache.c (membuff, ldd_cache), which names  *)
(*           no .owner: the module may be removed while the file is open.  *)
(* The buffer is one variable of the module, whoever opens.                *)
(***************************************************************************)
EXTENDS Integers

CONSTANTS
  Files,         \* open files
  CacheKinds,
  MaxOpens       \* bound: successful calls of open()

VARIABLES
  driver,
  loaded,
  open,      \* the files that are open
  opens,     \* objects that were allocated
  membuff,   \* the object of the last open(), 0 for NULL
  live,      \* objects of the cache that are allocated
  bad,       \* an object was freed that is not allocated, or used after that
  shared     \* open() was called while a file was open

vars == <<driver, loaded, open, opens, membuff, live, bad, shared>>

Init ==
  /\ driver \in CacheKinds /\ loaded = TRUE
  /\ open = {} /\ opens = 0 /\ membuff = 0 /\ live = {} /\ bad = FALSE /\ shared = FALSE

Open(f) ==
  /\ loaded /\ f \notin open /\ opens < MaxOpens
  /\ opens' = opens + 1 /\ membuff' = opens'
  /\ live' = live \cup {opens'}
  /\ open' = open \cup {f} /\ shared' = (shared \/ open # {})
  /\ UNCHANGED <<driver, loaded, bad>>

\* No memory: the variable is NULL now, also for a file that is open already.
OpenFails(f) ==
  /\ loaded /\ f \notin open
  /\ membuff' = 0 /\ shared' = (shared \/ open # {})
  /\ UNCHANGED <<driver, loaded, open, opens, live, bad>>

\* read() and write() inside the buffer (RamDisk has their bounds)
Access(f) ==
  /\ loaded /\ f \in open
  /\ bad' = (bad \/ membuff \notin live)
  /\ UNCHANGED <<driver, loaded, open, opens, membuff, live, shared>>

Release_Kept(f) ==
  /\ loaded /\ f \in open
  /\ open' = open \ {f}
  /\ UNCHANGED <<driver, loaded, opens, membuff, live, bad, shared>>

Release(f) ==
  /\ loaded /\ f \in open
  /\ open' = open \ {f}
  /\ bad' = (bad \/ membuff \notin live)
  /\ live' = live \ {membuff}
  /\ UNCHANGED <<driver, loaded, opens, membuff, shared>>

\* kmem_cache_destroy at the end of my_exit and chardrv_exit
Exit ==
  /\ loaded /\ loaded' = FALSE
  /\ driver = "lab1" => open = {}
  /\ UNCHANGED <<driver, open, opens, membuff, live, bad, shared>>

Next ==
  \/ \E f \in Files : Open(f) \/ OpenFails(f) \/ Access(f) \/ Release(f)
  \/ Exit

Spec == Init /\ [][Next]_vars

-----------------------------------------------------------------------------
(* Properties                                                              *)

TypeOK ==
  /\ driver \in CacheKinds /\ loaded \in BOOLEAN /\ open \subseteq Files
  /\ opens \in 0..MaxOpens /\ membuff \in 0..MaxOpens
  /\ live \subseteq 1..MaxOpens /\ bad \in BOOLEAN /\ shared \in BOOLEAN

\* "Make sure you release them all before destroying the cache": as long as nobody
\* opens the device while it is open, each object is freed once and not used after
\* that, and a cache that is destroyed is empty unless (lab2) a file is open then.
\* With two openers the second object is freed twice and the first one never.
ObjectsBalanced ==
  ~shared => ~bad /\ live = (IF open = {} THEN {} ELSE {membuff})
=============================================================================
