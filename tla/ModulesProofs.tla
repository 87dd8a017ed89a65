---------------------------- MODULE ModulesProofs ----------------------------
(***************************************************************************)
(* What modules share, for any number of modules, processes and files: the *)
(* lock of LockModules, the task of SigTask, the buffer of CacheDev, the   *)
(* thread of WaitThread, and what init and exit do with the resources of   *)
(* ModuleLife.                                                             *)
(***************************************************************************)
EXTENDS MCModules, Sequences, FiniteSetTheorems, TLAPS

-----------------------------------------------------------------------------
(* LockModules                                                             *)

LockTypes ==
  /\ kind \in Kinds /\ base \in BOOLEAN /\ count \in {0, 1}
  /\ user \in [Users -> {"out", "init", "in"}]

\* A user of the lock pins the module that exports it.
Pinned == ~base => \A u \in Users : user[u] = "out"

LockInv == LockTypes /\ Pinned /\ OneHolder

LEMMA LockStep ==
  ASSUME LockInv, Next
  PROVE  LockInv'
<1> USE LockModulesAssumption DEF LockInv, LockTypes, Pinned, OneHolder, Goto
<1>1. CASE LoadBase
  <2>1. base' \in BOOLEAN /\ base'
    BY <1>1, Zenon DEF LoadBase
  <2>2. ~base /\ count' = 1 /\ UNCHANGED <<kind, user>>
    BY <1>1 DEF LoadBase
  <2> QED BY <2>1, <2>2
<1>2. CASE UnloadBase
  <2>1. base' \in BOOLEAN /\ ~base'
    BY <1>2, Zenon DEF UnloadBase
  <2>2. count' = 0 /\ UNCHANGED <<kind, user>> /\ \A u \in Users : user[u] = "out"
    BY <1>2 DEF UnloadBase
  <2> QED BY <2>1, <2>2
<1>3. ASSUME NEW u \in Users, LoadUser(u) PROVE LockInv'
  BY <1>3 DEF LoadUser
<1>4. ASSUME NEW u \in Users, InitGot(u) PROVE LockInv'
  BY <1>4 DEF InitGot
<1>5. ASSUME NEW u \in Users, InitBusy(u) \/ InitSignal(u) PROVE LockInv'
  BY <1>5 DEF InitBusy, InitSignal
<1>6. ASSUME NEW u \in Users, Exit(u) PROVE LockInv'
  BY <1>6 DEF Exit
<1> QED BY <1>1, <1>2, <1>3, <1>4, <1>5, <1>6 DEF Next

\* sync_lab1_mutex and sync_lab2_sem, for any number of modules that take the lock
\* and any number of insmod and rmmod calls: one of them at most is loaded, and the
\* lock is held exactly then.
THEOREM OneModuleHolds == Spec => []OneHolder
<1>1. Init => LockInv
  <2> SUFFICES ASSUME Init PROVE LockInv
    OBVIOUS
  <2>1. base \in BOOLEAN /\ ~base
    BY Zenon DEF Init
  <2>2. count = 0 /\ kind \in Kinds /\ user = [u \in Users |-> "out"]
    BY DEF Init
  <2> QED BY <2>1, <2>2 DEF LockInv, LockTypes, Pinned, OneHolder
<1>2. LockInv /\ [Next]_vars => LockInv'
  <2>1. CASE UNCHANGED vars
    BY <2>1 DEF vars, LockInv, LockTypes, Pinned, OneHolder
  <2> QED BY <2>1, LockStep
<1>3. LockInv => OneHolder
  BY DEF LockInv
<1> QED BY <1>1, <1>2, <1>3, PTL DEF Spec

-----------------------------------------------------------------------------
(* SigTask                                                                 *)

\* A call that makes itself the target has stored its task and will store its pid,
\* and nobody else has stored a task since.
OwnTask == ~mixed => \A p \in Callers : s_pc[p] = "default" => sig_tsk[1] = p

\* Nobody is between the two stores.
Settled == \A p \in Callers : s_pc[p] \notin {"task", "default"}

\* A caller past the test of sig_tsk finds it set unless somebody cleared it.
TestedTask ==
  \A p \in Callers :
    s_pc[p] \in {"default", "deliver"} /\ sig_tsk = Signals!NoTask => p \in cleared

SignalInv ==
  /\ s_pc \in [Callers -> {"user", "task", "send", "default", "deliver"}]
  /\ OwnTask /\ TestedTask
  /\ ~mixed /\ Settled => sig_tsk[1] = sig_pid
  /\ oops \subseteq cleared

LEMMA SignalStep ==
  ASSUME SignalInv, Signals!Next
  PROVE  SignalInv'
<1> USE MCModulesAssumption
    DEF SignalInv, OwnTask, Settled, TestedTask, Signals!NoTask, Signals!NoPid
<1>1. ASSUME NEW p \in Others, Signals!End(p) PROVE SignalInv'
  BY <1>1 DEF Signals!End
<1>2. ASSUME NEW p \in Callers, NEW pid, Signals!SetPid(p, pid) PROVE SignalInv'
  <2>1. s_pc[p] = "user" /\ s_pc' = [s_pc EXCEPT ![p] = "task"] /\ UNCHANGED <<sig_tsk, cleared, oops>>
    BY <1>2 DEF Signals!SetPid
  <2>2. ~mixed' => ~mixed
    BY <1>2 DEF Signals!SetPid
  <2> QED BY <2>1, <2>2
<1>3. ASSUME NEW p \in Callers, Signals!SetTask(p) PROVE SignalInv'
  <2>1. /\ s_pc[p] = "task" /\ s_pc' = [s_pc EXCEPT ![p] = "user"] /\ UNCHANGED <<sig_pid, oops>>
        /\ sig_tsk'[1] = sig_pid /\ cleared \subseteq cleared'
        /\ sig_tsk' = Signals!NoTask => {q \in Callers : s_pc[q] \in {"default", "deliver"}} \subseteq cleared'
    BY <1>3 DEF Signals!SetTask
  <2>2. ~mixed' => ~mixed /\ \A q \in Callers : s_pc[q] # "default"
    BY <1>3 DEF Signals!SetTask, Signals!Defaulting
  <2> QED BY <2>1, <2>2
<1>4. ASSUME NEW p \in Callers, Signals!Start(p) PROVE SignalInv'
  BY <1>4 DEF Signals!Start
<1>5. ASSUME NEW p \in Callers, Signals!SendTest(p) PROVE SignalInv'
  <2>1. s_pc[p] = "send" /\ UNCHANGED <<sig_pid, cleared, oops, mixed>>
    BY <1>5 DEF Signals!SendTest
  <2>2. CASE sig_tsk # Signals!NoTask
    <3>1. s_pc' = [s_pc EXCEPT ![p] = "deliver"] /\ sig_tsk' = sig_tsk
      BY <1>5, <2>2 DEF Signals!SendTest
    <3> QED BY <2>1, <2>2, <3>1
  <2>3. CASE sig_tsk = Signals!NoTask
    <3>1. s_pc' = [s_pc EXCEPT ![p] = "default"] /\ sig_tsk' = <<p, ended[p]>>
      BY <1>5, <2>3 DEF Signals!SendTest
    <3>2. sig_tsk'[1] = p /\ sig_tsk' # Signals!NoTask
      BY <3>1
    <3>3. ~mixed => \A q \in Callers : s_pc[q] # "default"
      BY <2>3
    <3> QED BY <2>1, <3>1, <3>2, <3>3
  <2> QED BY <2>2, <2>3
<1>6. ASSUME NEW p \in Callers, Signals!SendDefault(p) PROVE SignalInv'
  <2>1. /\ s_pc[p] = "default" /\ s_pc' = [s_pc EXCEPT ![p] = "deliver"] /\ sig_pid' = p
        /\ UNCHANGED <<sig_tsk, cleared, oops, mixed>>
    BY <1>6 DEF Signals!SendDefault
  <2> QED BY <2>1
<1>7. ASSUME NEW p \in Callers, Signals!Send(p) PROVE SignalInv'
  <2>1. /\ s_pc[p] = "deliver" /\ s_pc' = [s_pc EXCEPT ![p] = "user"]
        /\ UNCHANGED <<sig_pid, sig_tsk, cleared, mixed>>
        /\ oops' = IF sig_tsk = Signals!NoTask THEN oops \cup {p} ELSE oops
    BY <1>7 DEF Signals!Send
  <2> QED BY <2>1
<1> QED BY <1>1, <1>2, <1>3, <1>4, <1>5, <1>6, <1>7 DEF Signals!Next

\* The drivers that signal a task, for any number of callers and of tasks that end:
\* between calls sig_tsk is a task of sig_pid unless two calls met, and a signal goes
\* to no task only when another call took the task away.
THEOREM TaskOfThePid == Signals!Spec => []PidNamesTask
<1>1. Signals!Init => SignalInv
  BY DEF Signals!Init, SignalInv, OwnTask, Settled, TestedTask, Signals!NoTask, Signals!NoPid
<1>2. SignalInv /\ [Signals!Next]_signalVars => SignalInv'
  <2>1. CASE UNCHANGED signalVars
    BY <2>1 DEF signalVars, SignalInv, OwnTask, Settled, TestedTask
  <2> QED BY <2>1, SignalStep
<1>3. SignalInv => PidNamesTask
  BY DEF SignalInv, Settled, PidNamesTask, Signals!PidNamesTask
<1> QED BY <1>1, <1>2, <1>3, PTL DEF Signals!Spec, Signals!vars, signalVars

-----------------------------------------------------------------------------
(* CacheDev                                                                *)

\* Without two openers there is one open file at most, and its object is the one
\* that membuff names.
OneOpener ==
  /\ \A f, g \in open : f = g
  /\ ~bad
  /\ live = (IF open = {} THEN {} ELSE {membuff})

CacheInv == ~shared => OneOpener

LEMMA CacheStep ==
  ASSUME CacheInv, Cache!Next
  PROVE  CacheInv'
<1> SUFFICES ASSUME ~shared' PROVE OneOpener'
  BY DEF CacheInv
<1> USE DEF CacheInv, OneOpener
<1>1. ASSUME NEW f \in Files, Cache!Open(f) PROVE OneOpener'
  <2>1. ~shared /\ open = {}
    BY <1>1 DEF Cache!Open
  <2>2. open' = {f} /\ live' = {membuff'} /\ bad' = bad
    BY <1>1, <2>1 DEF Cache!Open
  <2> QED BY <2>1, <2>2
<1>2. ASSUME NEW f \in Files, Cache!OpenFails(f) PROVE OneOpener'
  <2>1. ~shared /\ open = {}
    BY <1>2 DEF Cache!OpenFails
  <2> QED BY <1>2, <2>1 DEF Cache!OpenFails
<1>3. ASSUME NEW f \in Files, Cache!Access(f) PROVE OneOpener'
  <2>1. ~shared /\ f \in open /\ UNCHANGED <<open, live, membuff>>
    BY <1>3 DEF Cache!Access
  <2>2. ~bad /\ membuff \in live
    BY <2>1
  <2>3. ~bad'
    BY <1>3, <2>2 DEF Cache!Access
  <2> QED BY <2>1, <2>3
<1>4. ASSUME NEW f \in Files, Cache!Release(f) PROVE OneOpener'
  <2>1. ~shared /\ f \in open /\ open' = open \ {f} /\ live' = live \ {membuff}
    BY <1>4 DEF Cache!Release
  <2>2. ~bad /\ membuff \in live
    BY <2>1
  <2>3. ~bad'
    BY <1>4, <2>2 DEF Cache!Release
  <2>4. open' = {} /\ live' = {}
    BY <2>1
  <2> QED BY <2>3, <2>4
<1>5. CASE Cache!Exit
  BY <1>5 DEF Cache!Exit
<1> QED BY <1>1, <1>2, <1>3, <1>4, <1>5 DEF Cache!Next

\* lab1_cache.c and memory_lab2_cache.c, for any number of files and calls: unless
\* the device is opened while it is open, each object of the cache is freed once,
\* and none is used after that.
THEOREM ObjectsFreedOnce == Cache!Spec => []Cache!ObjectsBalanced
<1>1. Cache!Init => CacheInv
  BY DEF Cache!Init, CacheInv, OneOpener
<1>2. CacheInv /\ [Cache!Next]_cacheVars => CacheInv'
  <2>1. CASE UNCHANGED cacheVars
    BY <2>1 DEF cacheVars, CacheInv, OneOpener
  <2> QED BY <2>1, CacheStep
<1>3. CacheInv => Cache!ObjectsBalanced
  BY DEF CacheInv, OneOpener, Cache!ObjectsBalanced
<1> QED BY <1>1, <1>2, <1>3, PTL DEF Cache!Spec, Cache!vars, cacheVars

-----------------------------------------------------------------------------
(* WaitThread                                                              *)

Posters == {p \in Procs : pc[p] = "post"}

\* A reader that found the completion empty posts once.
PostsBounded ==
  mod = "none" \/ Service!Live => done + Cardinality(Posters) <= Cardinality(Procs)

ServiceInv ==
  /\ done \in Nat /\ pc \in [Procs -> {"user", "flag", "check", "post"}]
  /\ Service!OnQueue => done = 0
  /\ mod = "none" => done = 0 /\ \A p \in Procs : pc[p] = "user"
  /\ Service!WakerComes /\ PostsBounded

\* One process more or less among the posters
LEMMA PostersCounted ==
  ASSUME NEW S \in SUBSET Procs, NEW T \in SUBSET Procs, NEW p \in Procs
  PROVE  /\ Cardinality(S) \in Nat /\ Cardinality(S) <= Cardinality(Procs)
         /\ Cardinality(Procs) \in Nat
         /\ p \in S /\ T = S \ {p} => Cardinality(T) = Cardinality(S) - 1
<1>1. IsFiniteSet(Procs)
  BY MCModulesAssumption
<1>2. IsFiniteSet(S) /\ Cardinality(S) <= Cardinality(Procs)
  BY <1>1, FS_Subset
<1> QED BY <1>1, <1>2, FS_CardinalityType, FS_RemoveElement

LEMMA ServiceStep ==
  ASSUME ServiceInv, Service!Next
  PROVE  ServiceInv'
<1> USE DEF ServiceInv, Service!WakerComes, PostsBounded, Service!Live, Service!OnQueue
<1>0. /\ Posters \in SUBSET Procs /\ Posters' \in SUBSET Procs
      /\ Cardinality(Posters) \in Nat /\ Cardinality(Procs) \in Nat
  BY MCModulesAssumption, FS_Subset, FS_CardinalityType DEF Posters
<1>1. CASE Service!Load \/ Service!Loading
  <2>1. /\ UNCHANGED <<t_kind, pc, flag>> /\ Posters' = Posters /\ done' \in {0, done}
        /\ tpc' = "sleep" => tpc = "sleep"
        /\ mod = "none" \/ Service!Live
        /\ mod' # "none" /\ mod # "post"
    BY <1>1 DEF Service!Load, Service!Loading, Service!InitQueue, Service!StartThread,
                Service!InitCompletion, Posters
  <2>2. Service!WakerComes'
    BY <2>1
  <2>3. PostsBounded'
    BY <1>0, <2>1
  <2> QED BY <2>1, <2>2, <2>3
<1>2. CASE Service!Exit \/ Service!ExitFlag \/ Service!ExitCheck \/ Service!ExitEnd
  <2>1. /\ UNCHANGED <<t_kind, pc, done, tpc>>
        /\ ~Service!Live' /\ mod' # "none"
    BY <1>2 DEF Service!Exit, Service!ExitFlag, Service!ExitCheck, Service!ExitEnd
  <2>2. Service!WakerComes'
    BY <1>2, <2>1 DEF Service!Exit, Service!ExitFlag, Service!ExitCheck, Service!ExitEnd
  <2> QED BY <2>1, <2>2
<1>3. CASE Service!ExitPost
  <2>1. mod' = "posted" /\ tpc' # "sleep" /\ UNCHANGED <<t_kind, pc>>
    BY <1>3 DEF Service!ExitPost, Service!Woken
  <2>2. done' \in Nat /\ (Service!OnQueue => done' = 0)
    BY <1>3 DEF Service!ExitPost
  <2> QED BY <2>1, <2>2
<1>4. CASE Service!Thread
  <2>1. /\ UNCHANGED <<t_kind, pc>> /\ Posters' = Posters /\ done' \in Nat /\ done' <= done
        /\ mod' \in {mod, "broken"}
    BY <1>4 DEF Service!Thread, Service!ThreadWait, Service!ThreadOops, Service!ThreadTest,
                Service!ThreadClear, Posters
  <2>2. Service!WakerComes'
    BY <1>4, <2>1 DEF Service!Thread, Service!ThreadWait, Service!ThreadOops,
                      Service!ThreadTest, Service!ThreadClear
  <2>3. PostsBounded'
    BY <1>0, <2>1
  <2> QED BY <2>1, <2>2, <2>3
<1>5. ASSUME NEW p \in Procs, Service!ReadStart(p) \/ Service!Reading(p) PROVE ServiceInv'
  <2>1. CASE Service!ReadStart(p)
    <3>1. mod # "none" /\ UNCHANGED <<t_kind, mod, tpc, flag, done>> /\ Posters' = Posters
      BY <2>1 DEF Service!ReadStart, Service!Goto, Posters
    <3>2. pc' \in [Procs -> {"user", "flag", "check", "post"}]
      BY <2>1 DEF Service!ReadStart, Service!Goto
    <3>3. Service!WakerComes'
      BY <2>1 DEF Service!ReadStart, Service!Goto
    <3> QED BY <3>1, <3>2, <3>3
  <2>2. CASE Service!ReadFlag(p) \/ Service!ReadCheck(p)
    <3>1. /\ UNCHANGED <<t_kind, mod, tpc, done>>
          /\ pc' \in [Procs -> {"user", "flag", "check", "post"}]
      BY <2>2 DEF Service!ReadFlag, Service!ReadCheck, Service!Goto
    <3>2. /\ Posters \subseteq Posters'
          /\ Posters' = Posters \/ done = 0
      BY <2>2 DEF Service!ReadFlag, Service!ReadCheck, Service!Goto, Posters
    <3>3. mod # "none"
      <4>1. pc[p] \in {"flag", "check"}
        BY <2>2 DEF Service!ReadFlag, Service!ReadCheck, Service!Goto
      <4> QED BY <4>1
    <3>4. Service!WakerComes'
      BY <2>2 DEF Service!ReadFlag, Service!ReadCheck, Service!Goto
    <3>5. PostsBounded'
      BY <1>0, <3>1, <3>2, PostersCounted
    <3> QED BY <3>1, <3>3, <3>4, <3>5
  <2>3. CASE Service!ReadPost(p)
    <3>1. /\ p \in Posters /\ Posters' = Posters \ {p} /\ tpc' # "sleep" /\ pc[p] = "post"
          /\ pc' \in [Procs -> {"user", "flag", "check", "post"}] /\ UNCHANGED <<t_kind, mod>>
      BY <2>3 DEF Service!ReadPost, Service!Goto, Service!Woken, Posters
    <3>2. done' \in Nat /\ done' <= done + 1 /\ (Service!OnQueue => done' = 0)
      BY <2>3 DEF Service!ReadPost
    <3>3. mod # "none"
      BY <3>1
    <3>4. PostsBounded'
      BY <1>0, <3>1, <3>2, PostersCounted
    <3> QED BY <3>1, <3>2, <3>3, <3>4
  <2>4. CASE Service!ReadOops(p)
    BY <2>4 DEF Service!ReadOops, Service!Unset
  <2> QED BY <1>5, <2>1, <2>2, <2>3, <2>4 DEF Service!Reading
<1> QED BY <1>1, <1>2, <1>3, <1>4, <1>5 DEF Service!Next, Service!Exiting

LEMMA ServiceInvariance == Service!Spec => []ServiceInv
<1>1. Service!Init => ServiceInv
  <2> SUFFICES ASSUME Service!Init PROVE ServiceInv
    OBVIOUS
  <2>1. Posters = {} /\ done = 0 /\ tpc # "sleep" /\ mod = "none" /\ pc = [p \in Procs |-> "user"]
    BY DEF Service!Init, Posters
  <2>2. Cardinality(Posters) = 0 /\ Cardinality(Procs) \in Nat
    BY <2>1, MCModulesAssumption, FS_EmptySet, FS_CardinalityType
  <2> QED BY <2>1, <2>2 DEF ServiceInv, Service!WakerComes, PostsBounded, Service!OnQueue
<1>2. ServiceInv /\ [Service!Next]_serviceVars => ServiceInv'
  <2>1. CASE UNCHANGED serviceVars
    BY <2>1 DEF serviceVars, ServiceInv, Service!WakerComes, PostsBounded, Posters, Service!Live,
                Service!OnQueue
  <2> QED BY <2>1, ServiceStep
<1> QED BY <1>1, <1>2, PTL DEF Service!Spec, Service!vars, serviceVars

\* wait_function of the wait queue and completion drivers, for any number of readers: it
\* does not sleep on an event that read() or the exit function posted, unless the wakeup
\* is still to come.
THEOREM ThreadNeverOversleeps == Service!Spec => []Service!WakerComes
<1>1. ServiceInv => Service!WakerComes
  BY DEF ServiceInv
<1> QED BY <1>1, ServiceInvariance, PTL

\* completion_done and complete are two steps, so that readers that come together each
\* post; the completion never counts more than one for each of them.
THEOREM CompletionBounded == Service!Spec => []Service!DoneBounded
<1>1. ServiceInv => Service!DoneBounded
  <2> SUFFICES ASSUME ServiceInv, Service!Live PROVE done <= Cardinality(Procs)
    BY DEF Service!DoneBounded, Service!Cardinality, Service!IsFiniteSet, Cardinality, IsFiniteSet
  <2>1. Cardinality(Posters) \in Nat /\ Cardinality(Procs) \in Nat
    BY MCModulesAssumption, FS_Subset, FS_CardinalityType DEF Posters
  <2> QED BY <2>1 DEF ServiceInv, PostsBounded
<1> QED BY <1>1, ServiceInvariance, PTL

-----------------------------------------------------------------------------
(* DriverTables: what the tables say of each driver                        *)

\* What the first n steps of init obtain, and what a list gives back from a place on
Gets(d, n) == {d.init[j].get : j \in 1..n}
Gives(q, n) == {q[i] : i \in (n + 1)..Len(q)}

Lengths(d) ==
  /\ Len(d.init) \in Nat /\ Len(d.exit) \in Nat
  /\ \A k \in 1..Len(d.init) : Len(d.init[k].undo) \in Nat

\* A list that forgets nothing of what is held
Clears(q, h) == h \subseteq Life!Static \cup Gives(q, 0)

\* Nothing is given back twice, or without being held.
Once(q) == \A i, j \in 1..Len(q) : q[i] = q[j] => i = j
Rightful(q, h) == Once(q) /\ Gives(q, 0) \subseteq h

\* From place n on, the entry is given back before what its functions use.
EntryFirst(d, q, n) ==
  \A i \in (n + 1)..Len(q) : q[i] \in d.uses => \E g \in (n + 1)..(i - 1) : q[g] = d.entry

\* What the init function does when step k fails
Undo(d, k) == d.init[k].undo
Failing(d) == {k \in 1..Len(d.init) : d.init[k].fails = "returns"}

Complete(d) ==
  /\ \A k \in Failing(d) : Clears(Undo(d, k), Gets(d, k - 1))
  /\ d.exit # <<>> => Clears(d.exit, Gets(d, Len(d.init)))

Balance(d) ==
  /\ \A k \in Failing(d) : Rightful(Undo(d, k), Gets(d, k - 1))
  /\ Rightful(d.exit, Gets(d, Len(d.init)))

\* What the entry's functions use is there before the entry.  An entry that is called
\* without an open file is given back first; after any other entry no step fails.
Ready(d) ==
  /\ \A j \in 1..Len(d.init) : d.init[j].get = d.entry => d.uses \subseteq Gets(d, j - 1)
  /\ IF d.entry \in Life!Asynchronous
       THEN /\ EntryFirst(d, d.exit, 0)
            /\ \A k \in Failing(d) : d.entry \in Gets(d, k - 1) => EntryFirst(d, Undo(d, k), 0)
       ELSE \A k \in Failing(d) : d.entry \notin Gets(d, k - 1)

Tidy(d) == Lengths(d) /\ Complete(d) /\ Balance(d) /\ Ready(d)

\* The tables of all drivers, except the drivers that the exceptions name
TablesHold ==
  \A d \in Life!Drivers :
    /\ Lengths(d)
    /\ d \notin Life!Leaky => Complete(d)
    /\ d \notin Life!Twice => Balance(d)
    /\ d \notin Life!Early => Ready(d)

\* Longer tables are evaluated list by list, the others at once.
LEMMA TheTablesHold == TablesHold
<1> USE DEF Life!Driver, Life!Get, Life!Try, Life!Sure, Life!Static, Life!Asynchronous
<1>1. Lengths(Life!memory_lab2_cache) /\ Complete(Life!memory_lab2_cache)
  <2> DEFINE D == Life!memory_lab2_cache
  <2>1. Lengths(D) /\ Failing(D) = {1, 2, 3, 4, 5} /\ Len(D.init) = 5
    BY DEF Lengths, Failing, Life!memory_lab2_cache, Life!chardrvInit, Life!chardrvUndo,
           Life!chardrvExit
  <2>2. /\ Gets(D, 0) = {}
         /\ Gets(D, 1) = {"chrdev"}
         /\ Gets(D, 2) = {"chrdev", "class"}
         /\ Gets(D, 3) = {"chrdev", "class", "device"}
         /\ Gets(D, 4) = {"chrdev", "class", "device", "size_ok"}
         /\ Gets(D, 5) = {"chrdev", "class", "device", "size_ok", "ldd_cache"}
    BY DEF Gets, Life!memory_lab2_cache, Life!chardrvInit, Life!chardrvUndo, Life!chardrvExit
  <2>3. Gives(Undo(D, 1), 0) = {}
    BY DEF Gives, Undo, Life!memory_lab2_cache, Life!chardrvInit, Life!chardrvUndo,
           Life!chardrvExit
  <2>4. Gives(Undo(D, 2), 0) = {"chrdev"}
    BY DEF Gives, Undo, Life!memory_lab2_cache, Life!chardrvInit, Life!chardrvUndo,
           Life!chardrvExit
  <2>5. Gives(Undo(D, 3), 0) = {"class", "chrdev"}
    BY DEF Gives, Undo, Life!memory_lab2_cache, Life!chardrvInit, Life!chardrvUndo,
           Life!chardrvExit
  <2>6. Gives(Undo(D, 4), 0) = {"device", "class", "chrdev"}
    BY DEF Gives, Undo, Life!memory_lab2_cache, Life!chardrvInit, Life!chardrvUndo,
           Life!chardrvExit
  <2>7. Gives(Undo(D, 5), 0) = {"device", "class", "chrdev"}
    BY DEF Gives, Undo, Life!memory_lab2_cache, Life!chardrvInit, Life!chardrvUndo,
           Life!chardrvExit
  <2>8. Gives(D.exit, 0) = {"device", "class", "chrdev", "ldd_cache"}
    BY DEF Gives, Life!memory_lab2_cache, Life!chardrvInit, Life!chardrvUndo, Life!chardrvExit
  <2> QED BY <2>1, <2>2, <2>3, <2>4, <2>5, <2>6, <2>7, <2>8 DEF Complete, Clears
<1>2. Lengths(Life!sync_lab3_spinlock) /\ Complete(Life!sync_lab3_spinlock)
  <2> DEFINE D == Life!sync_lab3_spinlock
  <2>1. Lengths(D) /\ Failing(D) = {1, 2, 3, 4} /\ Len(D.init) = 6
    BY DEF Lengths, Failing, Life!sync_lab3_spinlock, Life!membuffInit, Life!chardrvInit,
           Life!chardrvUndo, Life!chardrvExit
  <2>2. /\ Gets(D, 0) = {}
         /\ Gets(D, 1) = {"chrdev"}
         /\ Gets(D, 2) = {"chrdev", "class"}
         /\ Gets(D, 3) = {"chrdev", "class", "device"}
         /\ Gets(D, 6) = {"chrdev", "class", "device", "membuff", "thread1", "thread2"}
    BY DEF Gets, Life!sync_lab3_spinlock, Life!membuffInit, Life!chardrvInit, Life!chardrvUndo,
           Life!chardrvExit
  <2>3. Gives(Undo(D, 1), 0) = {}
    BY DEF Gives, Undo, Life!sync_lab3_spinlock, Life!membuffInit, Life!chardrvInit,
           Life!chardrvUndo, Life!chardrvExit
  <2>4. Gives(Undo(D, 2), 0) = {"chrdev"}
    BY DEF Gives, Undo, Life!sync_lab3_spinlock, Life!membuffInit, Life!chardrvInit,
           Life!chardrvUndo, Life!chardrvExit
  <2>5. Gives(Undo(D, 3), 0) = {"class", "chrdev"}
    BY DEF Gives, Undo, Life!sync_lab3_spinlock, Life!membuffInit, Life!chardrvInit,
           Life!chardrvUndo, Life!chardrvExit
  <2>6. Gives(Undo(D, 4), 0) = {"device", "class", "chrdev"}
    BY DEF Gives, Undo, Life!sync_lab3_spinlock, Life!membuffInit, Life!chardrvInit,
           Life!chardrvUndo, Life!chardrvExit
  <2>7. Gives(D.exit, 0) = {"membuff", "thread1", "thread2", "device", "class", "chrdev"}
    BY DEF Gives, Life!sync_lab3_spinlock, Life!membuffInit, Life!chardrvInit,
           Life!chardrvUndo, Life!chardrvExit
  <2> QED BY <2>1, <2>2, <2>3, <2>4, <2>5, <2>6, <2>7 DEF Complete, Clears
<1>3. Lengths(Life!defer_lab3_workqueue) /\ Complete(Life!defer_lab3_workqueue) /\ Ready(Life!defer_lab3_workqueue)
  <2> DEFINE D == Life!defer_lab3_workqueue
  <2>1. Lengths(D) /\ Failing(D) = {1, 2, 3, 4} /\ Len(D.init) = 4
    BY DEF Lengths, Failing, Life!defer_lab3_workqueue, Life!chardrvExit
  <2>2. Ready(D)
    BY SMTT(20) DEF Ready, EntryFirst, Failing, Undo, Gets, Life!defer_lab3_workqueue,
           Life!chardrvExit
  <2>3. /\ Gets(D, 0) = {}
         /\ Gets(D, 1) = {"irq"}
         /\ Gets(D, 2) = {"irq", "chrdev"}
         /\ Gets(D, 3) = {"irq", "chrdev", "class"}
         /\ Gets(D, 4) = {"irq", "chrdev", "class", "device"}
    BY DEF Gets, Life!defer_lab3_workqueue, Life!chardrvExit
  <2>4. Gives(Undo(D, 1), 0) = {}
    BY DEF Gives, Undo, Life!defer_lab3_workqueue, Life!chardrvExit
  <2>5. Gives(Undo(D, 2), 0) = {"irq"}
    BY DEF Gives, Undo, Life!defer_lab3_workqueue, Life!chardrvExit
  <2>6. Gives(Undo(D, 3), 0) = {"irq", "chrdev"}
    BY DEF Gives, Undo, Life!defer_lab3_workqueue, Life!chardrvExit
  <2>7. Gives(Undo(D, 4), 0) = {"irq", "class", "chrdev"}
    BY DEF Gives, Undo, Life!defer_lab3_workqueue, Life!chardrvExit
  <2>8. Gives(D.exit, 0) = {"irq", "device", "class", "chrdev"}
    BY DEF Gives, Life!defer_lab3_workqueue, Life!chardrvExit
  <2> QED BY <2>1, <2>2, <2>3, <2>4, <2>5, <2>6, <2>7, <2>8 DEF Complete, Clears
<1>4. Tidy(Life!lab_char)
  <2> DEFINE D == Life!lab_char
  <2>1. Lengths(D) /\ Failing(D) = {1, 2, 4} /\ Len(D.init) = 6
    BY DEF Lengths, Failing, Life!lab_char
  <2>2. Ready(D)
    BY SMTT(20) DEF Ready, EntryFirst, Failing, Undo, Gets, Life!lab_char
  <2>3. /\ Gets(D, 0) = {}
         /\ Gets(D, 1) = {"region"}
         /\ Gets(D, 3) = {"region", "my_cdev", "ramdisk"}
         /\ Gets(D, 6) = {"region", "my_cdev", "ramdisk", "cdev", "class", "device"}
    BY DEF Gets, Life!lab_char
  <2>4. Once(Undo(D, 1)) /\ Gives(Undo(D, 1), 0) = {}
    BY DEF Gives, Once, Undo, Life!lab_char
  <2>5. Once(Undo(D, 2)) /\ Gives(Undo(D, 2), 0) = {"region"}
    BY DEF Gives, Once, Undo, Life!lab_char
  <2>6. Once(Undo(D, 4)) /\ Gives(Undo(D, 4), 0) = {"my_cdev", "region", "ramdisk"}
    BY DEF Gives, Once, Undo, Life!lab_char
  <2>7. Once(D.exit) /\ Gives(D.exit, 0) = {"device", "class", "cdev", "my_cdev", "region", "ramdisk"}
    BY DEF Gives, Once, Life!lab_char
  <2> QED BY <2>1, <2>2, <2>3, <2>4, <2>5, <2>6, <2>7 DEF Tidy, Complete, Clears, Balance, Rightful
<1>5. Tidy(Life!memory_lab1_cache)
  <2> DEFINE D == Life!memory_lab1_cache
  <2>1. Lengths(D) /\ Failing(D) = {1, 2, 3, 4, 5} /\ Len(D.init) = 7
    BY DEF Lengths, Failing, Life!memory_lab1_cache
  <2>2. Ready(D)
    BY SMTT(20) DEF Ready, EntryFirst, Failing, Undo, Gets, Life!memory_lab1_cache
  <2>3. /\ Gets(D, 0) = {}
         /\ Gets(D, 1) = {"size_ok"}
         /\ Gets(D, 2) = {"size_ok", "my_cache"}
         /\ Gets(D, 3) = {"size_ok", "my_cache", "region"}
         /\ Gets(D, 4) = {"size_ok", "my_cache", "region", "my_cdev"}
         /\ Gets(D, 7) = {"size_ok", "my_cache", "region", "my_cdev", "cdev", "class", "device"}
    BY DEF Gets, Life!memory_lab1_cache
  <2>4. Once(Undo(D, 1)) /\ Gives(Undo(D, 1), 0) = {}
    BY DEF Gives, Once, Undo, Life!memory_lab1_cache
  <2>5. Once(Undo(D, 2)) /\ Gives(Undo(D, 2), 0) = {}
    BY DEF Gives, Once, Undo, Life!memory_lab1_cache
  <2>6. Once(Undo(D, 3)) /\ Gives(Undo(D, 3), 0) = {"my_cache"}
    BY DEF Gives, Once, Undo, Life!memory_lab1_cache
  <2>7. Once(Undo(D, 4)) /\ Gives(Undo(D, 4), 0) = {"region", "my_cache"}
    BY DEF Gives, Once, Undo, Life!memory_lab1_cache
  <2>8. Once(Undo(D, 5)) /\ Gives(Undo(D, 5), 0) = {"my_cdev", "region", "my_cache"}
    BY DEF Gives, Once, Undo, Life!memory_lab1_cache
  <2>9. Once(D.exit) /\ Gives(D.exit, 0) = {"device", "class", "cdev", "my_cdev", "region", "my_cache"}
    BY DEF Gives, Once, Life!memory_lab1_cache
  <2> QED BY <2>1, <2>2, <2>3, <2>4, <2>5, <2>6, <2>7, <2>8, <2>9 DEF Tidy, Complete, Clears, Balance, Rightful
<1>6. Lengths(Life!hardware_lab2_memory) /\ Balance(Life!hardware_lab2_memory) /\ Ready(Life!hardware_lab2_memory)
  <2> DEFINE D == Life!hardware_lab2_memory
  <2>1. Lengths(D) /\ Failing(D) = {1, 2, 3, 4, 5} /\ Len(D.init) = 5
    BY DEF Lengths, Failing, Life!hardware_lab2_memory
  <2>2. Ready(D)
    BY SMTT(20) DEF Ready, EntryFirst, Failing, Undo, Gets, Life!hardware_lab2_memory
  <2>3. /\ Gets(D, 0) = {}
         /\ Gets(D, 1) = {"vram"}
         /\ Gets(D, 2) = {"vram", "region"}
         /\ Gets(D, 3) = {"vram", "region", "class"}
         /\ Gets(D, 4) = {"vram", "region", "class", "device"}
         /\ Gets(D, 5) = {"vram", "region", "class", "device", "cdev"}
    BY DEF Gets, Life!hardware_lab2_memory
  <2>4. Once(Undo(D, 1)) /\ Gives(Undo(D, 1), 0) = {}
    BY DEF Gives, Once, Undo, Life!hardware_lab2_memory
  <2>5. Once(Undo(D, 2)) /\ Gives(Undo(D, 2), 0) = {}
    BY DEF Gives, Once, Undo, Life!hardware_lab2_memory
  <2>6. Once(Undo(D, 3)) /\ Gives(Undo(D, 3), 0) = {"region"}
    BY DEF Gives, Once, Undo, Life!hardware_lab2_memory
  <2>7. Once(Undo(D, 4)) /\ Gives(Undo(D, 4), 0) = {"class", "region"}
    BY DEF Gives, Once, Undo, Life!hardware_lab2_memory
  <2>8. Once(Undo(D, 5)) /\ Gives(Undo(D, 5), 0) = {"device", "class", "region"}
    BY DEF Gives, Once, Undo, Life!hardware_lab2_memory
  <2>9. Once(D.exit) /\ Gives(D.exit, 0) = {"cdev", "device", "class", "region", "vram"}
    BY DEF Gives, Once, Life!hardware_lab2_memory
  <2> QED BY <2>1, <2>2, <2>3, <2>4, <2>5, <2>6, <2>7, <2>8, <2>9 DEF Balance, Rightful
<1>7. Tidy(Life!lab10_uio_api)
  <2> DEFINE D == Life!lab10_uio_api
  <2>1. Lengths(D) /\ Failing(D) = {4} /\ Len(D.init) = 4
    BY DEF Lengths, Failing, Life!lab10_uio_api
  <2>2. Ready(D)
    BY SMTT(20) DEF Ready, EntryFirst, Failing, Undo, Gets, Life!lab10_uio_api
  <2>3. /\ Gets(D, 3) = {"dev", "device", "info"}
         /\ Gets(D, 4) = {"dev", "device", "info", "uio"}
    BY DEF Gets, Life!lab10_uio_api
  <2>4. Once(Undo(D, 4)) /\ Gives(Undo(D, 4), 0) = {"device", "dev", "info"}
    BY DEF Gives, Once, Undo, Life!lab10_uio_api
  <2>5. Once(D.exit) /\ Gives(D.exit, 0) = {"uio", "device", "info", "dev"}
    BY DEF Gives, Once, Life!lab10_uio_api
  <2> QED BY <2>1, <2>2, <2>3, <2>4, <2>5 DEF Tidy, Complete, Clears, Balance, Rightful
<1>8. Tidy(Life!timers_lab6_kprobes)
  <2> DEFINE D == Life!timers_lab6_kprobes
  <2>1. Lengths(D) /\ Failing(D) = {1, 2, 3, 4} /\ Len(D.init) = 4
    BY DEF Lengths, Failing, Life!timers_lab6_kprobes
  <2>2. Ready(D)
    BY SMTT(20) DEF Ready, EntryFirst, Failing, Undo, Gets, Life!timers_lab6_kprobes
  <2>3. /\ Gets(D, 0) = {}
         /\ Gets(D, 1) = {"add"}
         /\ Gets(D, 2) = {"add", "mod"}
         /\ Gets(D, 3) = {"add", "mod", "del"}
         /\ Gets(D, 4) = {"add", "mod", "del", "del_sync"}
    BY DEF Gets, Life!timers_lab6_kprobes
  <2>4. Once(Undo(D, 1)) /\ Gives(Undo(D, 1), 0) = {}
    BY DEF Gives, Once, Undo, Life!timers_lab6_kprobes
  <2>5. Once(Undo(D, 2)) /\ Gives(Undo(D, 2), 0) = {"add"}
    BY DEF Gives, Once, Undo, Life!timers_lab6_kprobes
  <2>6. Once(Undo(D, 3)) /\ Gives(Undo(D, 3), 0) = {"add", "mod"}
    BY DEF Gives, Once, Undo, Life!timers_lab6_kprobes
  <2>7. Once(Undo(D, 4)) /\ Gives(Undo(D, 4), 0) = {"add", "mod", "del"}
    BY DEF Gives, Once, Undo, Life!timers_lab6_kprobes
  <2>8. Once(D.exit) /\ Gives(D.exit, 0) = {"mod", "add", "del", "del_sync"}
    BY DEF Gives, Once, Life!timers_lab6_kprobes
  <2> QED BY <2>1, <2>2, <2>3, <2>4, <2>5, <2>6, <2>7, <2>8 DEF Tidy, Complete, Clears, Balance, Rightful
<1>9. Lengths(Life!io_lab6_aio) /\ Complete(Life!io_lab6_aio) /\ Balance(Life!io_lab6_aio)
  <2> DEFINE D == Life!io_lab6_aio
  <2>1. Lengths(D) /\ Failing(D) = {1, 2, 4} /\ Len(D.init) = 4
    BY DEF Lengths, Failing, Life!io_lab6_aio
  <2>2. /\ Gets(D, 0) = {}
         /\ Gets(D, 1) = {"region"}
         /\ Gets(D, 3) = {"region", "devices", "cdevs"}
         /\ Gets(D, 4) = {"region", "devices", "cdevs", "cache"}
    BY DEF Gets, Life!io_lab6_aio
  <2>3. Once(Undo(D, 1)) /\ Gives(Undo(D, 1), 0) = {}
    BY DEF Gives, Once, Undo, Life!io_lab6_aio
  <2>4. Once(Undo(D, 2)) /\ Gives(Undo(D, 2), 0) = {"region"}
    BY DEF Gives, Once, Undo, Life!io_lab6_aio
  <2>5. Once(Undo(D, 4)) /\ Gives(Undo(D, 4), 0) = {"cdevs", "devices", "region"}
    BY DEF Gives, Once, Undo, Life!io_lab6_aio
  <2>6. Once(D.exit) /\ Gives(D.exit, 0) = {"cdevs", "devices", "cache", "region"}
    BY DEF Gives, Once, Life!io_lab6_aio
  <2> QED BY <2>1, <2>2, <2>3, <2>4, <2>5, <2>6 DEF Complete, Clears, Balance, Rightful
<1>10. Lengths(Life!char_lab1) /\ Complete(Life!char_lab1)
  <2> USE DEF Life!char_lab1, Life!chardrvInit, Life!chardrvExit
  <2>1. Lengths(Life!char_lab1)
    BY DEF Lengths
  <2>2. Complete(Life!char_lab1)
    BY DEF Complete, Clears, Failing, Undo, Gets, Gives
  <2> QED BY <2>1, <2>2
<1>11. Lengths(Life!char_lab2) /\ Complete(Life!char_lab2)
  <2> USE DEF Life!char_lab2, Life!membuffInit, Life!chardrvInit, Life!chardrvUndo,
              Life!membuffExit, Life!chardrvExit
  <2>1. Lengths(Life!char_lab2)
    BY DEF Lengths
  <2>2. Complete(Life!char_lab2)
    BY DEF Complete, Clears, Failing, Undo, Gets, Gives
  <2> QED BY <2>1, <2>2
<1>12. Lengths(Life!defer_lab1_timer) /\ Complete(Life!defer_lab1_timer) /\ Ready(Life!defer_lab1_timer)
  <2> USE DEF Life!defer_lab1_timer, Life!chardrvInit, Life!chardrvUndo, Life!chardrvExit
  <2>1. Lengths(Life!defer_lab1_timer)
    BY DEF Lengths
  <2>2. Complete(Life!defer_lab1_timer)
    BY DEF Complete, Clears, Failing, Undo, Gets, Gives
  <2>3. Ready(Life!defer_lab1_timer)
    BY DEF Ready, EntryFirst, Failing, Undo, Gets
  <2> QED BY <2>1, <2>2, <2>3
<1>13. Tidy(Life!misc_wat_queu_stat)
  <2> USE DEF Life!misc_wat_queu_stat, Life!etxInit, Life!etxExit
  <2>1. Lengths(Life!misc_wat_queu_stat)
    BY DEF Lengths
  <2>2. Complete(Life!misc_wat_queu_stat)
    BY DEF Complete, Clears, Failing, Undo, Gets, Gives
  <2>3. Balance(Life!misc_wat_queu_stat)
    BY DEF Balance, Rightful, Once, Failing, Undo, Gets, Gives
  <2>4. Ready(Life!misc_wat_queu_stat)
    BY DEF Ready, EntryFirst, Failing, Undo, Gets
  <2> QED BY <2>1, <2>2, <2>3, <2>4 DEF Tidy
<1>14. Lengths(Life!lab3_workqueue_newapi) /\ Balance(Life!lab3_workqueue_newapi) /\ Ready(Life!lab3_workqueue_newapi)
  <2> USE DEF Life!lab3_workqueue_newapi, Life!miscInit, Life!miscExit
  <2>1. Lengths(Life!lab3_workqueue_newapi)
    BY DEF Lengths
  <2>2. Balance(Life!lab3_workqueue_newapi)
    BY DEF Balance, Rightful, Once, Failing, Undo, Gets, Gives
  <2>3. Ready(Life!lab3_workqueue_newapi)
    BY DEF Ready, EntryFirst, Failing, Undo, Gets
  <2> QED BY <2>1, <2>2, <2>3
<1>15. Lengths(Life!block_lab2) /\ Balance(Life!block_lab2) /\ Ready(Life!block_lab2)
  <2> USE DEF Life!block_lab2
  <2>1. Lengths(Life!block_lab2)
    BY DEF Lengths
  <2>2. Balance(Life!block_lab2)
    BY DEF Balance, Rightful, Once, Failing, Undo, Gets, Gives
  <2>3. Ready(Life!block_lab2)
    BY DEF Ready, EntryFirst, Failing, Undo, Gets
  <2> QED BY <2>1, <2>2, <2>3
<1>16. Lengths(Life!block_sbd) /\ Balance(Life!block_sbd) /\ Ready(Life!block_sbd)
  <2> USE DEF Life!block_sbd
  <2>1. Lengths(Life!block_sbd)
    BY DEF Lengths
  <2>2. Balance(Life!block_sbd)
    BY DEF Balance, Rightful, Once, Failing, Undo, Gets, Gives
  <2>3. Ready(Life!block_sbd)
    BY DEF Ready, EntryFirst, Failing, Undo, Gets
  <2> QED BY <2>1, <2>2, <2>3
<1>17. Lengths(Life!tiny_tty) /\ Balance(Life!tiny_tty) /\ Ready(Life!tiny_tty)
  <2> USE DEF Life!tiny_tty
  <2>1. Lengths(Life!tiny_tty)
    BY DEF Lengths
  <2>2. Balance(Life!tiny_tty)
    BY DEF Balance, Rightful, Once, Failing, Undo, Gets, Gives
  <2>3. Ready(Life!tiny_tty)
    BY DEF Ready, EntryFirst, Failing, Undo, Gets
  <2> QED BY <2>1, <2>2, <2>3
<1>18. Tidy(Life!timers_lab9_jit)
  <2> USE DEF Life!timers_lab9_jit
  <2>1. Lengths(Life!timers_lab9_jit)
    BY DEF Lengths
  <2>2. Complete(Life!timers_lab9_jit)
    BY DEF Complete, Clears, Failing, Undo, Gets, Gives
  <2>3. Balance(Life!timers_lab9_jit)
    BY DEF Balance, Rightful, Once, Failing, Undo, Gets, Gives
  <2>4. Ready(Life!timers_lab9_jit)
    BY DEF Ready, EntryFirst, Failing, Undo, Gets
  <2> QED BY <2>1, <2>2, <2>3, <2>4 DEF Tidy
<1> USE DEF Tidy, Lengths, Complete, Clears, Balance, Rightful, Once, Ready, EntryFirst, Failing,
            Undo, Gets, Gives
<1>19. /\ Tidy(Life!ioctl_lab7_sleepy)
       /\ Lengths(Life!hardware_lab5_silly) /\ Complete(Life!hardware_lab5_silly) /\ Balance(Life!hardware_lab5_silly)
  BY DEF Life!ioctl_lab7_sleepy, Life!hardware_lab5_silly
<1>20. Lengths(Life!misc_completion_dyn) /\ Complete(Life!misc_completion_dyn) /\ Balance(Life!misc_completion_dyn)
  BY DEF Life!misc_completion_dyn, Life!etxInit, Life!etxExit
<1>21. Lengths(Life!misc_wait_queue_dyn) /\ Complete(Life!misc_wait_queue_dyn) /\ Balance(Life!misc_wait_queue_dyn)
  BY DEF Life!misc_wait_queue_dyn, Life!etxInit, Life!etxExit
<1>22. Lengths(Life!misc_interrupt_soft) /\ Ready(Life!misc_interrupt_soft)
  BY DEF Life!misc_interrupt_soft
<1>23. Lengths(Life!hardware_lab4_full_mouse)
  BY DEF Life!hardware_lab4_full_mouse
<1>24. Lengths(Life!hardware_lab4_serial) /\ Balance(Life!hardware_lab4_serial)
  BY DEF Life!hardware_lab4_serial
<1>25. Tidy(Life!lab_miscdev)
  BY DEF Life!lab_miscdev, Life!miscInit, Life!miscExit
<1>26. Lengths(Life!lab9_uio) /\ Balance(Life!lab9_uio) /\ Ready(Life!lab9_uio)
  BY DEF Life!lab9_uio, Life!miscInit, Life!miscExit
<1>27. /\ Tidy(Life!lab1_interrupt)
       /\ Lengths(Life!lab3_workqueue) /\ Complete(Life!lab3_workqueue) /\ Balance(Life!lab3_workqueue)
  BY DEF Life!lab1_interrupt, Life!irqInit, Life!lab3_workqueue
<1>28. Tidy(Life!lab4_one_workqueue)
  BY DEF Life!lab4_one_workqueue, Life!irqInit
<1>29. Lengths(Life!lab4_one_thread) /\ Balance(Life!lab4_one_thread) /\ Ready(Life!lab4_one_thread)
  BY DEF Life!lab4_one_thread, Life!irqInit
<1>30. Lengths(Life!lab_all_interrupt) /\ Balance(Life!lab_all_interrupt) /\ Ready(Life!lab_all_interrupt)
  BY DEF Life!lab_all_interrupt, Life!allInit, Life!allExit
<1>31. Lengths(Life!lab6_all_thread) /\ Balance(Life!lab6_all_thread) /\ Ready(Life!lab6_all_thread)
  BY DEF Life!lab6_all_thread, Life!allInit, Life!allExit
<1>32. Lengths(Life!lab6_all_workqueue) /\ Balance(Life!lab6_all_workqueue) /\ Ready(Life!lab6_all_workqueue)
  BY DEF Life!lab6_all_workqueue, Life!allInit, Life!allExit
<1>33. Tidy(Life!network_lab1)
  BY DEF Life!network_lab1, Life!netInit, Life!netExit
<1>34. Tidy(Life!tiny_serial)
  BY DEF Life!tiny_serial
<1>35. Tidy(Life!debug_lab2_procfs)
  BY DEF Life!debug_lab2_procfs, Life!dirInit
<1>36. Tidy(Life!lab6_proc_solA)
  BY DEF Life!lab6_proc_solA, Life!twoFilesInit, Life!dirInit
<1>37. /\ Tidy(Life!lab5_proc)
       /\ Tidy(Life!lab11_seq)
  BY DEF Life!lab5_proc, Life!lab11_seq
<1>38. Tidy(Life!lab10_procfs)
  BY DEF Life!lab10_procfs, Life!dirInit
<1>39. Tidy(Life!timers_lab8_jiq)
  BY DEF Life!timers_lab8_jiq
<1>40. Tidy(Life!debug_lab4_debugfs)
  BY DEF Life!debug_lab4_debugfs
<1>41. /\ Tidy(Life!debug_lab5_kprobes)
       /\ Tidy(Life!lab3_probe_module)
  BY DEF Life!debug_lab5_kprobes, Life!lab3_probe_module
<1>42. /\ Tidy(Life!debug_lab6_jprobes)
       /\ Tidy(Life!lddbus)
  BY DEF Life!debug_lab6_jprobes, Life!lddbus
<1>43. Lengths(Life!ldddev) /\ Balance(Life!ldddev) /\ Ready(Life!ldddev)
  BY DEF Life!ldddev
<1>44. /\ Tidy(Life!io_lab4_relay)
       /\ Tidy(Life!firmware_lab1)
  BY DEF Life!io_lab4_relay, Life!firmware_lab1, Life!firmwareInit
<1>45. /\ Tidy(Life!hardware_delay_test)
       /\ Tidy(Life!hardware_lab3_map)
  BY DEF Life!hardware_delay_test, Life!hardware_lab3_map
<1>46. /\ Tidy(Life!usb_lab1)
       /\ Tidy(Life!usb_lab2_notifier)
       /\ Tidy(Life!usb_lab3_notifier)
  BY DEF Life!usb_lab1, Life!usb_lab2_notifier, Life!usb_lab3_notifier
<1>47. Tidy(Life!misc_lab1_cpufreq)
  BY DEF Life!misc_lab1_cpufreq
<1>48. Lengths(Life!data_lab3_list) /\ Balance(Life!data_lab3_list) /\ Ready(Life!data_lab3_list)
  BY DEF Life!data_lab3_list, Life!listInit, Life!listExit
<1> HIDE DEF Tidy, Lengths, Complete, Clears, Balance, Rightful, Once, Ready, EntryFirst, Failing,
            Undo, Gets, Gives
<1>49. /\ {Life!char_lab1, Life!defer_lab2_tasklet} = {Life!char_lab1}
       /\ {Life!char_lab2, Life!char_lab3, Life!char_lab4, Life!char_lab5, Life!char_lab6,
          Life!io_lab3_mmap, Life!sync_lab4_completion} = {Life!char_lab2}
       /\ {Life!ioctl_lab7_sleepy, Life!debug_lab12_faulty} = {Life!ioctl_lab7_sleepy}
       /\ {Life!lab_char, Life!timers_lab_char, Life!memory_lab_char, Life!io_lab_char,
          Life!interrupts_lab_char, Life!dma_lab_char} = {Life!lab_char}
       /\ {Life!misc_wat_queu_stat, Life!misc_completion_static} = {Life!misc_wat_queu_stat}
       /\ {Life!lab_miscdev, Life!timers_lab_miscdev, Life!io_lab_miscdev, Life!interrupts_lab_miscdev,
          Life!dma_lab_miscdev, Life!debug_lab_miscdev} = {Life!lab_miscdev}
       /\ {Life!lab3_workqueue_newapi, Life!lab3_workqueue_private} = {Life!lab3_workqueue_newapi}
       /\ {Life!lab1_interrupt, Life!lab2_interrupt, Life!lab3_tasklet, Life!lab_one_interrupt} = {Life!lab1_interrupt}
       /\ {Life!lab4_one_thread, Life!lab5_one_thread_improved} = {Life!lab4_one_thread}
       /\ {Life!network_lab1, Life!network_lab3, Life!network_lab3_simple, Life!network_lab4} = {Life!network_lab1}
       /\ {Life!debug_lab2_procfs, Life!debug_lab3_seqfile} = {Life!debug_lab2_procfs}
       /\ {Life!lab6_proc_solA, Life!lab6_proc_solB, Life!lab7_proc_sig_solA, Life!lab7_proc_sig_solB} = {Life!lab6_proc_solA}
       /\ {Life!lab5_proc, Life!lab8_seqfile} = {Life!lab5_proc}
       /\ {Life!lab11_seq, Life!lab13_busy} = {Life!lab11_seq}
       /\ {Life!debug_lab4_debugfs, Life!lab4_debugfs} = {Life!debug_lab4_debugfs}
       /\ {Life!debug_lab5_kprobes, Life!lab1_kprobes} = {Life!debug_lab5_kprobes}
       /\ {Life!debug_lab6_jprobes, Life!lab2_jprobes} = {Life!debug_lab6_jprobes}
       /\ {Life!io_lab4_relay, Life!dma_lab4_relay} = {Life!io_lab4_relay}
       /\ {Life!firmware_lab1, Life!devmodel_firmware_lab1} = {Life!firmware_lab1}
       /\ {Life!hardware_delay_test, Life!hardware_lab2_region, Life!hardware_lab2_resource} = {Life!hardware_delay_test}
       /\ {Life!data_lab3_list, Life!facilities_lab1_list} = {Life!data_lab3_list}
  BY DEF Life!char_lab1, Life!defer_lab2_tasklet, Life!char_lab2, Life!char_lab3,
         Life!char_lab4, Life!char_lab5, Life!char_lab6, Life!io_lab3_mmap,
         Life!sync_lab4_completion, Life!ioctl_lab7_sleepy, Life!debug_lab12_faulty,
         Life!lab_char, Life!timers_lab_char, Life!memory_lab_char, Life!io_lab_char,
         Life!interrupts_lab_char, Life!dma_lab_char, Life!misc_wat_queu_stat,
         Life!misc_completion_static, Life!lab_miscdev, Life!timers_lab_miscdev,
         Life!io_lab_miscdev, Life!interrupts_lab_miscdev, Life!dma_lab_miscdev,
         Life!debug_lab_miscdev, Life!lab3_workqueue_newapi, Life!lab3_workqueue_private,
         Life!lab1_interrupt, Life!lab2_interrupt, Life!lab3_tasklet, Life!lab_one_interrupt,
         Life!lab4_one_thread, Life!lab5_one_thread_improved, Life!network_lab1,
         Life!network_lab3, Life!network_lab3_simple, Life!network_lab4,
         Life!debug_lab2_procfs, Life!debug_lab3_seqfile, Life!lab6_proc_solA,
         Life!lab6_proc_solB, Life!lab7_proc_sig_solA, Life!lab7_proc_sig_solB, Life!lab5_proc,
         Life!lab8_seqfile, Life!lab11_seq, Life!lab13_busy, Life!debug_lab4_debugfs,
         Life!lab4_debugfs, Life!debug_lab5_kprobes, Life!lab1_kprobes,
         Life!debug_lab6_jprobes, Life!lab2_jprobes, Life!io_lab4_relay, Life!dma_lab4_relay,
         Life!firmware_lab1, Life!devmodel_firmware_lab1, Life!hardware_delay_test,
         Life!hardware_lab2_region, Life!hardware_lab2_resource, Life!data_lab3_list,
         Life!facilities_lab1_list
<1>50. \A d \in Life!Drivers : Lengths(d)
  BY <1>1, <1>2, <1>3, <1>4, <1>5, <1>6, <1>7, <1>8, <1>9, <1>10, <1>11, <1>12, <1>13, <1>14,
     <1>15, <1>16, <1>17, <1>18, <1>19, <1>20, <1>21, <1>22, <1>23, <1>24, <1>25, <1>26, <1>27,
     <1>28, <1>29, <1>30, <1>31, <1>32, <1>33, <1>34, <1>35, <1>36, <1>37, <1>38, <1>39, <1>40,
     <1>41, <1>42, <1>43, <1>44, <1>45, <1>46, <1>47, <1>48, <1>49
     DEF Tidy, Life!Drivers
<1>51. \A d \in Life!Drivers \ Life!Leaky : Complete(d)
  BY <1>1, <1>2, <1>3, <1>4, <1>5, <1>7, <1>8, <1>9, <1>10, <1>11, <1>12, <1>13, <1>18, <1>19,
     <1>20, <1>21, <1>25, <1>27, <1>28, <1>33, <1>34, <1>35, <1>36, <1>37, <1>38, <1>39, <1>40,
     <1>41, <1>42, <1>44, <1>45, <1>46, <1>47, <1>49
     DEF Tidy, Life!Drivers, Life!Leaky
<1>52. \A d \in Life!Drivers \ Life!Twice : Balance(d)
  BY <1>4, <1>5, <1>6, <1>7, <1>8, <1>9, <1>13, <1>14, <1>15, <1>16, <1>17, <1>18, <1>19,
     <1>20, <1>21, <1>24, <1>25, <1>26, <1>27, <1>28, <1>29, <1>30, <1>31, <1>32, <1>33, <1>34,
     <1>35, <1>36, <1>37, <1>38, <1>39, <1>40, <1>41, <1>42, <1>43, <1>44, <1>45, <1>46, <1>47,
     <1>48, <1>49
     DEF Tidy, Life!Drivers, Life!Twice, Life!Unowned
<1>53. \A d \in Life!Drivers \ Life!Early : Ready(d)
  BY <1>3, <1>4, <1>5, <1>6, <1>7, <1>8, <1>12, <1>13, <1>14, <1>15, <1>16, <1>17, <1>18,
     <1>19, <1>22, <1>25, <1>26, <1>27, <1>28, <1>29, <1>30, <1>31, <1>32, <1>33, <1>34, <1>35,
     <1>36, <1>37, <1>38, <1>39, <1>40, <1>41, <1>42, <1>43, <1>44, <1>45, <1>46, <1>47, <1>48,
     <1>49
     DEF Tidy, Life!Drivers, Life!Early, Life!Unowned
<1> QED BY <1>50, <1>51, <1>52, <1>53 DEF TablesHold

\* A file of a driver without an .owner does not keep it loaded; the two such drivers
\* outside Early are called by a timer and an interrupt only.
LEMMA UnownedTimers ==
  \A d \in Life!Unowned \ Life!Early : d.entry \in Life!Asynchronous
<1>1. Life!Unowned \ Life!Early \subseteq {Life!defer_lab1_timer, Life!defer_lab3_workqueue}
  BY DEF Life!Early
<1>2. /\ Life!defer_lab1_timer.entry \in Life!Asynchronous
      /\ Life!defer_lab3_workqueue.entry \in Life!Asynchronous
  BY DEF Life!defer_lab1_timer, Life!defer_lab3_workqueue, Life!Driver, Life!Asynchronous
<1> QED BY <1>1, <1>2

-----------------------------------------------------------------------------
(* ModuleLife                                                              *)

Giving == phase \in {"undo", "exit"}

LifeTypes ==
  /\ driver \in Life!Drivers
  /\ phase \in {"out", "init", "undo", "live", "exit", "gone"}
  /\ step \in 0..Len(driver.init) /\ given \in Nat /\ l_users \in Nat
  /\ phase = "out" => step = 0
  /\ phase \in {"live", "exit"} => step = Len(driver.init)
  /\ phase = "undo" => step + 1 \in Failing(driver)
  /\ phase = "exit" => driver.exit # <<>>
  /\ Giving => given <= Len(Life!Todo)

\* Until something is given back, what is held is what the steps obtained.
Obtained == phase \in {"out", "init", "live"} => held = Gets(driver, step)

\* What is still held is in the rest of the list.
Rest ==
  driver \notin Life!Leaky =>
    /\ Giving => held \subseteq Life!Static \cup Gives(Life!Todo, given)
    /\ phase = "gone" => held \subseteq Life!Static

\* The rest of the list is still held.
Covered ==
  driver \notin Life!Twice =>
    extra = {} /\ (Giving => Gives(Life!Todo, given) \subseteq held)

\* A process has the device open only while the entry stands; an entry that is called
\* without finds what it uses, also while the module gives back.
Callable ==
  driver \notin Life!Early =>
    IF driver.entry \in Life!Asynchronous
      THEN /\ l_users = 0
           /\ driver.entry \in held => driver.uses \subseteq held
           /\ driver.entry \in held /\ Giving => EntryFirst(driver, Life!Todo, given)
      ELSE /\ l_users > 0 => phase \in {"init", "live"} /\ driver.entry \in held
           /\ phase = "undo" => driver.entry \notin held

LifeInv ==
  /\ LifeTypes
  /\ missed = {} => Obtained /\ Rest /\ Covered /\ Callable

LEMMA LifeStep ==
  ASSUME TablesHold, LifeInv, Life!Next
  PROVE  LifeInv'
<1> DEFINE d == driver
           q == Life!Todo
<1>0. /\ driver \in Life!Drivers /\ driver' = driver /\ Lengths(driver)
      /\ missed' = {} => missed = {}
  BY DEF Life!Next, Life!Load, Life!StepGet, Life!StepUnnoticed, Life!StepFail, Life!Loaded,
         Life!ExitStart, Life!Give, Life!Gone, Life!Open, Life!Close, LifeInv, LifeTypes, TablesHold
<1>1. CASE Life!Load
  <2>1. /\ phase = "out" /\ phase' = "init"
        /\ UNCHANGED <<driver, step, given, held, missed, extra, l_users>>
    BY <1>1 DEF Life!Load
  <2> QED BY <2>1 DEF LifeInv, LifeTypes, Obtained, Rest, Covered, Callable, Giving
<1>2. CASE Life!StepGet
  <2>1. /\ phase = "init" /\ step \in 0..(Len(driver.init) - 1) /\ step' = step + 1
        /\ held' = held \cup {driver.init[step + 1].get}
        /\ UNCHANGED <<driver, phase, given, missed, extra, l_users>>
    BY <1>0, <1>2 DEF Life!StepGet, LifeInv, LifeTypes, Lengths
  <2>2. Gets(driver, step + 1) = Gets(driver, step) \cup {driver.init[step + 1].get}
    BY <2>1 DEF Gets
  <2>3. LifeTypes'
    BY <1>0, <2>1 DEF LifeInv, LifeTypes, Giving, Lengths
  <2>4. ASSUME missed = {} PROVE (Obtained /\ Rest /\ Covered)'
    BY <2>1, <2>2, <2>4 DEF LifeInv, Obtained, Rest, Covered, Giving
  <2>5. ASSUME missed = {} PROVE Callable'
    <3>1. ASSUME driver \notin Life!Early, driver.entry \in held' PROVE driver.uses \subseteq held'
      <4>1. Ready(driver) /\ held = Gets(driver, step)
        BY <1>0, <2>1, <2>5, <3>1 DEF LifeInv, Obtained, TablesHold
      <4>2. PICK j \in 1..(step + 1) : driver.init[j].get = driver.entry
        BY <2>1, <2>2, <3>1, <4>1 DEF Gets
      <4>3. driver.uses \subseteq Gets(driver, j - 1)
        BY <2>1, <4>1, <4>2 DEF Ready
      <4>4. Gets(driver, j - 1) \subseteq Gets(driver, step)
        BY <2>1, <4>2 DEF Gets
      <4> QED BY <2>1, <4>1, <4>3, <4>4
    <3> QED BY <2>1, <2>5, <3>1 DEF LifeInv, Callable, Giving
  <2> QED BY <2>1, <2>3, <2>4, <2>5 DEF LifeInv
<1>3. CASE Life!StepUnnoticed
  <2>1. /\ phase = "init" /\ step \in 0..(Len(driver.init) - 1) /\ step' = step + 1
        /\ UNCHANGED <<driver, phase, given, l_users>>
        /\ driver.init[step + 1].get \in missed'
    BY <1>0, <1>3 DEF Life!StepUnnoticed, LifeInv, LifeTypes, Lengths
  <2>2. missed' # {}
    BY <2>1
  <2> QED BY <1>0, <2>1, <2>2 DEF LifeInv, LifeTypes, Giving, Lengths
<1>4. CASE Life!StepFail
  <2>1. /\ phase = "init" /\ step + 1 \in Failing(driver)
        /\ phase' = "undo" /\ given' = 0 /\ Life!Todo' = Undo(driver, step + 1)
        /\ UNCHANGED <<driver, step, held, missed, extra, l_users>>
    BY <1>0, <1>4 DEF Life!StepFail, Life!Todo, Undo, Failing, LifeInv, LifeTypes, Lengths
  <2>2. LifeTypes'
    BY <1>0, <2>1 DEF LifeInv, LifeTypes, Giving, Lengths, Failing, Undo
  <2>3. ASSUME missed = {} PROVE held = Gets(driver, step) /\ (step + 1) - 1 = step
    BY <2>1, <2>3 DEF LifeInv, LifeTypes, Obtained
  <2>4. ASSUME missed = {} PROVE (Obtained /\ Rest)'
    BY <1>0, <2>1, <2>3, <2>4 DEF Obtained, Rest, Giving, TablesHold, Complete, Clears
  <2>5. ASSUME missed = {} PROVE Covered'
    BY <1>0, <2>1, <2>3, <2>5 DEF LifeInv, Covered, Giving, TablesHold, Balance, Rightful
  <2>6. ASSUME missed = {} PROVE Callable'
    BY <1>0, <2>1, <2>3, <2>6 DEF LifeInv, Callable, Giving, TablesHold, Ready, LifeTypes
  <2> QED BY <2>1, <2>2, <2>4, <2>5, <2>6 DEF LifeInv
<1>5. CASE Life!Loaded
  <2>1. /\ phase = "init" /\ step = Len(driver.init) /\ phase' = "live"
        /\ UNCHANGED <<driver, step, given, held, missed, extra, l_users>>
    BY <1>5 DEF Life!Loaded
  <2> QED BY <2>1 DEF LifeInv, LifeTypes, Obtained, Rest, Covered, Callable, Giving
<1>6. CASE Life!ExitStart
  <2>1. /\ phase = "live" /\ driver.exit # <<>> /\ (l_users = 0 \/ driver \in Life!Unowned)
        /\ phase' = "exit" /\ given' = 0 /\ Life!Todo' = driver.exit
        /\ UNCHANGED <<driver, step, held, missed, extra, l_users>>
    BY <1>6 DEF Life!ExitStart, Life!Todo
  <2>2. LifeTypes'
    BY <1>0, <2>1 DEF LifeInv, LifeTypes, Giving, Lengths
  <2>3. ASSUME missed = {} PROVE held = Gets(driver, Len(driver.init))
    BY <2>1, <2>3 DEF LifeInv, LifeTypes, Obtained
  <2>4. ASSUME missed = {} PROVE (Obtained /\ Rest)'
    BY <1>0, <2>1, <2>3, <2>4 DEF Obtained, Rest, Giving, TablesHold, Complete, Clears
  <2>5. ASSUME missed = {} PROVE Covered'
    BY <1>0, <2>1, <2>3, <2>5 DEF LifeInv, Covered, Giving, TablesHold, Balance, Rightful
  <2>6. ASSUME missed = {} PROVE Callable'
    <3>1. driver \notin Life!Early /\ driver.entry \notin Life!Asynchronous => l_users = 0
      BY <2>1, UnownedTimers
    <3> QED BY <1>0, <2>1, <2>6, <3>1 DEF LifeInv, Callable, Giving, TablesHold, Ready, LifeTypes
  <2> QED BY <2>1, <2>2, <2>4, <2>5, <2>6 DEF LifeInv
<1>7. CASE Life!Give
  <2>1. /\ Giving /\ given \in 0..(Len(q) - 1) /\ given' = given + 1
        /\ held' = held \ {q[given + 1]}
        /\ extra' = extra \cup ({q[given + 1]} \ (held \cup missed))
        /\ UNCHANGED <<driver, phase, step, missed, l_users>> /\ q' = q /\ Giving'
    BY <1>7 DEF Life!Give, Giving, LifeInv, LifeTypes, Life!Todo
  <2>2. Len(q) \in Nat
    BY <1>0, <2>1 DEF Life!Todo, Lengths, Giving, LifeInv, LifeTypes, Failing
  <2>3. LifeTypes'
    <3> HIDE DEF q
    <3>1. given + 1 <= Len(q)
      BY <2>1, <2>2
    <3> QED BY <2>1, <3>1 DEF LifeInv, LifeTypes, q
  <2> HIDE DEF q
  <2>4. Gives(q, given) = {q[given + 1]} \cup Gives(q, given + 1)
    BY <2>1, <2>2 DEF Gives
  <2>5. ASSUME missed = {} PROVE (Obtained /\ Rest)'
    <3>1. driver \notin Life!Leaky => held \subseteq Life!Static \cup Gives(q, given)
      BY <2>1, <2>5 DEF LifeInv, Rest, q
    <3>2. driver \notin Life!Leaky => held' \subseteq Life!Static \cup Gives(q, given + 1)
      BY <2>1, <2>4, <3>1
    <3> QED BY <2>1, <3>2 DEF Obtained, Rest, Giving, q
  <2>6. ASSUME missed = {} PROVE Covered'
    <3> SUFFICES ASSUME driver \notin Life!Twice
                 PROVE  extra' = {} /\ Gives(q, given + 1) \subseteq held'
      BY <2>1 DEF Covered, q
    <3>1. extra = {} /\ Gives(q, given) \subseteq held
      BY <2>1, <2>6 DEF LifeInv, Covered, q
    <3>2. q[given + 1] \notin Gives(q, given + 1)
      <4>1. \A i, j \in 1..Len(q) : q[i] = q[j] => i = j
        BY <1>0, <2>1 DEF q, Life!Todo, TablesHold, Balance, Rightful, Once, Giving, LifeInv, LifeTypes, Undo
      <4> QED BY <2>1, <2>2, <4>1 DEF Gives
    <3> QED BY <2>1, <2>4, <3>1, <3>2
  <2>7. ASSUME missed = {} PROVE Callable'
    <3>1. ASSUME EntryFirst(driver, q, given), q[given + 1] # driver.entry
          PROVE  q[given + 1] \notin driver.uses /\ EntryFirst(driver, q, given + 1)
      BY <2>1, <2>2, <3>1 DEF EntryFirst
    <3> QED BY <2>1, <2>7, <3>1 DEF LifeInv, Callable, q, Giving
  <2> QED BY <2>1, <2>3, <2>5, <2>6, <2>7 DEF LifeInv
<1>8. CASE Life!Gone
  <2>1. /\ Giving /\ given = Len(q) /\ phase' = "gone"
        /\ UNCHANGED <<driver, step, given, held, missed, extra, l_users>>
    BY <1>8 DEF Life!Gone, Giving
  <2>2. Len(q) \in Nat
    BY <1>0, <2>1 DEF Life!Todo, Lengths, Giving, LifeInv, LifeTypes, Failing
  <2>3. Gives(q, given) = {}
    BY <2>1, <2>2 DEF Gives
  <2> QED BY <2>1, <2>3 DEF LifeInv, LifeTypes, Obtained, Rest, Covered, Callable, Giving
<1>9. CASE Life!Open
  <2>1. /\ driver.entry \in held \ Life!Asynchronous
        /\ phase \in {"init", "undo", "live"} \/ driver \in Life!Unowned
        /\ l_users' = l_users + 1
        /\ UNCHANGED <<driver, phase, step, given, held, missed, extra>> /\ q' = q
    BY <1>9 DEF Life!Open, Life!Todo
  <2>2. driver \notin Life!Early => driver \notin Life!Unowned
    BY <2>1, UnownedTimers
  <2> QED BY <2>1, <2>2 DEF LifeInv, LifeTypes, Obtained, Rest, Covered, Callable, Giving
<1>10. CASE Life!Close
  <2>1. /\ l_users > 0 /\ l_users' = l_users - 1
        /\ UNCHANGED <<driver, phase, step, given, held, missed, extra>> /\ q' = q
    BY <1>10 DEF Life!Close, Life!Todo
  <2> QED BY <2>1 DEF LifeInv, LifeTypes, Obtained, Rest, Covered, Callable, Giving
<1> QED BY <1>1, <1>2, <1>3, <1>4, <1>5, <1>6, <1>7, <1>8, <1>9, <1>10 DEF Life!Next

LEMMA LifeInvariance == ASSUME TablesHold PROVE Life!Spec => []LifeInv
<1>1. Life!Init => LifeInv
  <2> SUFFICES ASSUME Life!Init PROVE LifeInv
    OBVIOUS
  <2>1. /\ driver \in Life!Drivers /\ phase = "out" /\ step = 0 /\ given = 0
        /\ held = {} /\ missed = {} /\ extra = {} /\ l_users = 0
    BY DEF Life!Init
  <2>2. Lengths(driver)
    BY <2>1 DEF TablesHold
  <2>3. Gets(driver, 0) = {}
    BY DEF Gets
  <2> QED BY <2>1, <2>2, <2>3
          DEF LifeInv, LifeTypes, Obtained, Rest, Covered, Callable, Giving, Lengths
<1>2. LifeInv /\ [Life!Next]_lifeVars => LifeInv'
  <2>1. CASE UNCHANGED lifeVars
    BY <2>1 DEF lifeVars, LifeInv, LifeTypes, Obtained, Rest, Covered, Callable, Giving, Life!Todo
  <2> QED BY <2>1, LifeStep
<1> QED BY <1>1, <1>2, PTL DEF Life!Spec, Life!vars, lifeVars

\* ModuleLife, for any number of open files, whatever step of init fails, and for every
\* driver of the tables but those that Leaky and Twice name; CacheDev for any number of
\* files: what was obtained is given back, once.
THEOREM WhatIsObtainedIsGivenBack == Life!Spec /\ Cache!Spec => []Balanced
<1>1. LifeInv => Life!Balanced
  BY DEF LifeInv, Rest, Covered, Life!Balanced
<1> QED BY <1>1, TheTablesHold, LifeInvariance, ObjectsFreedOnce, PTL DEF Balanced

\* ModuleLife, for any number of open files and every driver of the tables but those that
\* Early names: a process that has the device open keeps the module, and it, an interrupt
\* or a timer finds what the driver's functions use, while init goes on behind the
\* registration, while a failed init gives back and during exit.
THEOREM CallersAreServed == Life!Spec => []Served
<1>1. ASSUME LifeInv PROVE Served
  <2> SUFFICES ASSUME missed = {}, driver \notin Life!Early
               PROVE  /\ l_users > 0 => phase # "gone" /\ driver.uses \subseteq held
                      /\ driver.entry \in held \cap Life!Asynchronous => driver.uses \subseteq held
    BY DEF Served, Life!Served
  <2>1. l_users > 0 => driver.entry \notin Life!Asynchronous /\ phase \in {"init", "live"} /\ driver.entry \in held
    BY <1>1 DEF LifeInv, LifeTypes, Callable
  <2>2. ASSUME phase \in {"init", "live"}, driver.entry \in held PROVE driver.uses \subseteq held
    <3>1. Ready(driver) /\ held = Gets(driver, step) /\ step \in 0..Len(driver.init) /\ Len(driver.init) \in Nat
      BY <1>1, <2>2, TheTablesHold DEF LifeInv, LifeTypes, Obtained, TablesHold, Lengths
    <3>2. PICK j \in 1..step : driver.init[j].get = driver.entry
      BY <2>2, <3>1 DEF Gets
    <3>3. driver.uses \subseteq Gets(driver, j - 1) /\ Gets(driver, j - 1) \subseteq Gets(driver, step)
      BY <3>1, <3>2 DEF Ready, Gets
    <3> QED BY <3>1, <3>3
  <2>3. driver.entry \in held \cap Life!Asynchronous => driver.uses \subseteq held
    BY <1>1 DEF LifeInv, Callable
  <2> QED BY <2>1, <2>2, <2>3
<1> QED BY <1>1, TheTablesHold, LifeInvariance, PTL
=============================================================================
