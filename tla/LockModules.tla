---------------------------- MODULE LockModules ----------------------------
(***************************************************************************)
(* Three kernel modules, the first of which exports a lock that the other  *)
(* two take in their init and release in their exit function:              *)
(* src/sync/sync_lab1_mutex{1,2,3}.c (kind = "mutex", mutex_trylock) and   *)
(* src/sync/sync_lab2_sem{1,2,3}.c (kind = "sem", down_interruptible).     *)
(*                                                                         *)
(* A module that uses the exported symbol pins the first one from the      *)
(* start of its load to its removal.                                       *)
(***************************************************************************)
EXTENDS Integers, FiniteSets

CONSTANTS
  Users,     \* the second and third module
  Kinds,     \* the locks considered: "mutex", "sem"
  MaxLoads   \* bound: number of insmod calls

ASSUME LockModulesAssumption ==
  IsFiniteSet(Users) /\ Kinds \subseteq {"mutex", "sem"} /\ MaxLoads \in Nat

VARIABLES
  kind,     \* the lock that the modules share
  base,     \* the first module is loaded
  user,     \* "out", "init", "in" for each of the other two
  count,    \* 1 when the lock is available; the count of the semaphore
  loads     \* number of insmod calls

vars == <<kind, base, user, count, loads>>

Init ==
  /\ kind \in Kinds
  /\ base = FALSE
  /\ user = [u \in Users |-> "out"]
  /\ count = 0
  /\ loads = 0

Goto(u, from, to) == user[u] = from /\ user' = [user EXCEPT ![u] = to]

\* DEFINE_MUTEX, DEFINE_SEMAPHORE: available when the module is loaded.
LoadBase ==
  /\ ~base /\ base' = TRUE
  /\ count' = 1
  /\ UNCHANGED <<kind, user, loads>>

UnloadBase ==
  /\ base /\ base' = FALSE
  /\ \A u \in Users : user[u] = "out"
  /\ count' = 0
  /\ UNCHANGED <<kind, user, loads>>

LoadUser(u) ==
  /\ base
  /\ loads < MaxLoads /\ loads' = loads + 1
  /\ Goto(u, "out", "init")
  /\ UNCHANGED <<kind, base, count>>

InitGot_NoTake(u) ==
  /\ count > 0
  /\ Goto(u, "init", "in")
  /\ UNCHANGED <<kind, base, count, loads>>

\* The lock is taken and the load succeeds.
InitGot(u) ==
  /\ count > 0 /\ count' = count - 1
  /\ Goto(u, "init", "in")
  /\ UNCHANGED <<kind, base, loads>>

\* mutex_trylock fails; -EBUSY.
InitBusy(u) ==
  /\ kind = "mutex" /\ count = 0
  /\ Goto(u, "init", "out")
  /\ UNCHANGED <<kind, base, count, loads>>

\* A signal ends down_interruptible; -EBUSY.
InitSignal(u) ==
  /\ kind = "sem" /\ count = 0
  /\ Goto(u, "init", "out")
  /\ UNCHANGED <<kind, base, count, loads>>

Exit_KeepLock(u) ==
  /\ Goto(u, "in", "out")
  /\ UNCHANGED <<kind, base, count, loads>>

\* mutex_unlock, up
Exit(u) ==
  /\ Goto(u, "in", "out")
  /\ count' = IF kind = "mutex" THEN 1 ELSE count + 1
  /\ UNCHANGED <<kind, base, loads>>

Next ==
  \/ LoadBase \/ UnloadBase
  \/ \E u \in Users : \/ LoadUser(u) \/ InitGot(u) \/ InitBusy(u)
                      \/ InitSignal(u) \/ Exit(u)

Spec == Init /\ [][Next]_vars

-----------------------------------------------------------------------------
(* Properties                                                              *)

TypeOK ==
  /\ kind \in Kinds
  /\ base \in BOOLEAN /\ count \in {0, 1}
  /\ user \in [Users -> {"out", "init", "in"}]
  /\ loads \in 0..MaxLoads

\* "Test by trying to load both modules simultaneously": never both are loaded,
\* and the lock is held exactly while one is, so that the other can be loaded
\* after it was unloaded.
OneHolder ==
  /\ \A u, v \in Users : user[u] = "in" /\ user[v] = "in" => u = v
  /\ base => (count = 1 <=> \A u \in Users : user[u] # "in")
=============================================================================
