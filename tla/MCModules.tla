----------------------------- MODULE MCModules -----------------------------
(***************************************************************************)
(* Model checking of what modules share: a lock that one exports to others *)
(* (LockModules), a thread that serves readers until the module is removed *)
(* (WaitThread), the resources that init obtains and exit gives back       *)
(* (ModuleLife), the objects of a driver's cache (CacheDev), and the task  *)
(* that is named to a driver (SigTask).                                    *)
(* `subject' says which is run; the state of the others stays initial.     *)
(***************************************************************************)
EXTENDS LockModules

CONSTANTS
  Procs, ThreadKinds, MaxReads,   \* of WaitThread
  MaxUsers,                       \* of ModuleLife
  Callers, Others, MaxEnds,       \* of SigTask
  Files, CacheKinds, MaxOpens     \* of CacheDev

\* "none" stands for no pid.
ASSUME MCModulesAssumption == "none" \notin Callers /\ IsFiniteSet(Procs)

VARIABLES
  subject,
  t_kind, mod, tpc, pc, flag, done, reads, read_count,
  driver, phase, step, given, held, missed, extra, l_users,
  s_pc, ended, sig_pid, sig_tsk, cleared, oops, mixed,
  c_driver, loaded, open, opens, membuff, live, bad, shared

serviceVars == <<t_kind, mod, tpc, pc, flag, done, reads, read_count>>
lifeVars == <<driver, phase, step, given, held, missed, extra, l_users>>
signalVars == <<s_pc, ended, sig_pid, sig_tsk, cleared, oops, mixed>>
cacheVars == <<c_driver, loaded, open, opens, membuff, live, bad, shared>>

Service == INSTANCE WaitThread WITH Kinds <- ThreadKinds, kind <- t_kind
Life == INSTANCE ModuleLife WITH users <- l_users
Signals == INSTANCE SigTask WITH pc <- s_pc
Cache == INSTANCE CacheDev WITH driver <- c_driver

MCInit ==
  /\ subject \in {"lock", "service", "life", "signal", "cache"}
  /\ Init /\ Service!Init /\ Life!Init /\ Signals!Init /\ Cache!Init
  /\ subject # "lock" => kind = CHOOSE k \in Kinds : TRUE
  /\ subject # "service" => t_kind = CHOOSE k \in ThreadKinds : TRUE
  /\ subject # "life" => driver = Life!lab_char
  /\ subject # "cache" => c_driver = CHOOSE k \in CacheKinds : TRUE

MCNext ==
  \/ /\ subject = "lock" /\ Next
     /\ UNCHANGED <<serviceVars, lifeVars, signalVars, cacheVars>>
  \/ /\ subject = "service" /\ Service!Next
     /\ UNCHANGED <<vars, lifeVars, signalVars, cacheVars>>
  \/ /\ subject = "life" /\ Life!Next
     /\ UNCHANGED <<vars, serviceVars, signalVars, cacheVars>>
  \/ /\ subject = "signal" /\ Signals!Next
     /\ UNCHANGED <<vars, serviceVars, lifeVars, cacheVars>>
  \/ /\ subject = "cache" /\ Cache!Next
     /\ UNCHANGED <<vars, serviceVars, lifeVars, signalVars>>

\* No action under fairness is enabled in the initial state.
MCSpec ==
  /\ MCInit
  /\ [][MCNext /\ UNCHANGED subject]_<<subject, vars, serviceVars, lifeVars, signalVars, cacheVars>>
  /\ Service!Fairness

\* WaitThread: the thread answers.  It gets every posted read, and removing the module
\* wakes it while it sleeps.
ThreadResponds == Service!ReadNoticed /\ Service!IdleThreadEnds

\* ModuleLife and CacheDev: what init and open() obtain is given back, once.
Balanced == Life!Balanced /\ Cache!ObjectsBalanced

\* ModuleLife: a caller finds what the driver uses.
Served == Life!Served

\* SigTask: signals go to a task of the pid that was named.
PidNamesTask == Signals!PidNamesTask
=============================================================================
