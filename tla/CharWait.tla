------------------------------ MODULE CharWait ------------------------------
(***************************************************************************)
(* The character drivers whose read() sleeps on a wait queue until a       *)
(* write(): src/ioctl/lab4_wait_event.c, lab4_excl.c, lab5_killable.c,     *)
(* lab6_poll.c, lab7_sleepy.c and src/char/lab5_char_poll.c,               *)
(* lab6_char_fasync.c.  They differ in the order in which write() sets the *)
(* condition and wakes the queue, in the kind of sleep, in who clears the  *)
(* condition, and in the entry points they add.                            *)
(*                                                                         *)
(* A step is one access to the condition, to a counter or to the queue;    *)
(* what read() and write() copy is the subject of module RamDisk.          *)
(***************************************************************************)
EXTENDS Integers, FiniteSets

CONSTANTS
  Procs,      \* processes, each with the device open at most once
  Drivers,    \* the drivers considered
  MaxWrites   \* bound: number of write() calls

AllDrivers == {"lab4_wait_event", "lab4_excl", "lab5_killable", "lab6_poll",
               "lab7_sleepy", "lab5_char_poll", "lab6_char_fasync"}

ASSUME CharWaitAssumption ==
  Drivers \subseteq AllDrivers /\ MaxWrites \in Nat /\ IsFiniteSet(Procs)

VARIABLES
  driver,       \* the driver that is loaded
  pc,           \* where each process is
  data_ready,   \* the condition (flag in lab7_sleepy.c)
  nsleepers,    \* lab4_excl.c only
  async_queue,  \* processes on the fasync list
  sigio,        \* processes with a SIGIO that they have not looked at
  writes        \* write() calls begun

vars == <<driver, pc, data_ready, nsleepers, async_queue, sigio, writes>>

\* write() sets the condition before it wakes the queue.
SetsFirst == driver \in {"lab4_wait_event", "lab5_killable", "lab7_sleepy"}
\* read() sleeps with wait_event_killable, as an exclusive waiter; after the
\* wait it clears the condition.
Killable == driver = "lab5_killable"
Exclusive == driver = "lab4_excl"
Clears == driver \notin {"lab4_wait_event", "lab4_excl"}
HasPoll == driver \in {"lab6_poll", "lab5_char_poll", "lab6_char_fasync"}
HasFasync == driver = "lab6_char_fasync"

Init ==
  /\ driver \in Drivers
  /\ pc = [p \in Procs |-> "closed"]
  /\ data_ready = FALSE
  /\ nsleepers = 0
  /\ async_queue = {} /\ sigio = {}
  /\ writes = 0

Goto(p, from, to) == pc[p] = from /\ pc' = [pc EXCEPT ![p] = to]

-----------------------------------------------------------------------------
(* Wait queues                                                             *)

\* The wait queue holds exactly the processes that sleep.  Whoever waits is put
\* on it before the condition is evaluated, so finding the condition false and
\* falling asleep are one step.
Asleep(p) == pc[p] \in {"r_sleep", "p_sleep"}

\* wake_up_interruptible passes over sleepers in a killable sleep.
Wakeable == {p \in Procs : Asleep(p) /\ ~Killable}

\* The sets of waiters one call may wake: all, or one when they are exclusive.
\* (The queue is in order of arrival; no property depends on which is first.)
Wakes == IF Exclusive /\ Wakeable # {} THEN {{p} : p \in Wakeable} ELSE {Wakeable}

\* A woken process evaluates its condition again.
Awake(p) == IF pc[p] = "p_sleep" THEN "p_check" ELSE "r_check"

-----------------------------------------------------------------------------
(* open and release                                                        *)

Open(p) ==
  /\ Goto(p, "closed", "open")
  /\ UNCHANGED <<driver, data_ready, nsleepers, async_queue, sigio, writes>>

\* chardrv_release takes the file off the fasync list; the process is gone.
Release(p) ==
  /\ Goto(p, "open", "closed")
  /\ async_queue' = async_queue \ {p}
  /\ sigio' = sigio \ {p}
  /\ UNCHANGED <<driver, data_ready, nsleepers, writes>>

-----------------------------------------------------------------------------
(* read                                                                    *)

ReadStart_CountLate(p) ==
  /\ Goto(p, "open", "r_check")
  /\ UNCHANGED <<driver, data_ready, nsleepers, async_queue, sigio, writes>>

ReadStart(p) ==
  /\ Goto(p, "open", "r_check")
  /\ nsleepers' = IF Exclusive THEN nsleepers + 1 ELSE nsleepers
  /\ UNCHANGED <<driver, data_ready, async_queue, sigio, writes>>

\* The condition of wait_event_interruptible and its kin.
ReadCheck(p) ==
  /\ \/ data_ready /\ Goto(p, "r_check", "r_go")
     \/ ~data_ready /\ Goto(p, "r_check", "r_sleep")
  /\ UNCHANGED <<driver, data_ready, nsleepers, async_queue, sigio, writes>>

\* A signal (a fatal one for a killable sleep) ends the wait; read() does not
\* look at what the wait returned and goes on as if the data were there.
ReadSignal(p) ==
  /\ Goto(p, "r_sleep", "r_go")
  /\ UNCHANGED <<driver, data_ready, nsleepers, async_queue, sigio, writes>>

\* Clear the condition and return the data.
ReadClear(p) ==
  /\ ~Exclusive
  /\ Goto(p, "r_go", "open")
  /\ data_ready' = IF Clears THEN FALSE ELSE data_ready
  /\ UNCHANGED <<driver, nsleepers, async_queue, sigio, writes>>

\* lab4_excl: the last reader clears it, in two steps under nsleepers_lock
\* (which readers that only begin do not take).
ReadDec(p) ==
  /\ Exclusive
  /\ \A q \in Procs : pc[q] # "r_last"
  /\ Goto(p, "r_go", IF nsleepers = 1 THEN "r_last" ELSE "open")
  /\ nsleepers' = nsleepers - 1
  /\ UNCHANGED <<driver, data_ready, async_queue, sigio, writes>>

ReadLast(p) ==
  /\ Goto(p, "r_last", "open")
  /\ data_ready' = FALSE
  /\ UNCHANGED <<driver, nsleepers, async_queue, sigio, writes>>

-----------------------------------------------------------------------------
(* write                                                                   *)

\* The data is copied; a write beyond the end changes nothing.
WriteStart(p) ==
  /\ writes < MaxWrites /\ writes' = writes + 1
  /\ Goto(p, "open", IF SetsFirst THEN "w_set" ELSE "w_wake")
  /\ UNCHANGED <<driver, data_ready, nsleepers, async_queue, sigio>>

WriteSet_NoWake(p) ==
  /\ Goto(p, "w_set", "open")
  /\ data_ready' = TRUE
  /\ UNCHANGED <<driver, nsleepers, async_queue, sigio, writes>>

WriteSet(p) ==
  /\ Goto(p, "w_set", IF SetsFirst THEN "w_wake" ELSE IF HasFasync THEN "w_kill" ELSE "open")
  /\ data_ready' = TRUE
  /\ UNCHANGED <<driver, nsleepers, async_queue, sigio, writes>>

WriteWake_One(p) ==
  /\ pc[p] = "w_wake"
  /\ \E woken \in IF Wakeable = {} THEN {{}} ELSE {{q} : q \in Wakeable} :
       pc' = [q \in Procs |-> IF q \in woken THEN Awake(q)
                             ELSE IF q = p THEN (IF SetsFirst THEN "open" ELSE "w_set")
                             ELSE pc[q]]
  /\ UNCHANGED <<driver, data_ready, nsleepers, async_queue, sigio, writes>>

WriteWake(p) ==
  /\ pc[p] = "w_wake"
  /\ \E woken \in Wakes :
       pc' = [q \in Procs |-> IF q \in woken THEN Awake(q)
                             ELSE IF q = p THEN (IF SetsFirst THEN "open" ELSE "w_set")
                             ELSE pc[q]]
  /\ UNCHANGED <<driver, data_ready, nsleepers, async_queue, sigio, writes>>

\* kill_fasync sends SIGIO to everybody on the list.
WriteKill(p) ==
  /\ Goto(p, "w_kill", "open")
  /\ sigio' = sigio \cup async_queue
  /\ UNCHANGED <<driver, data_ready, nsleepers, async_queue, writes>>

-----------------------------------------------------------------------------
(* poll and fasync                                                         *)

PollStart(p) ==
  /\ HasPoll
  /\ Goto(p, "open", "p_check")
  /\ sigio' = sigio \ {p}
  /\ UNCHANGED <<driver, data_ready, nsleepers, async_queue, writes>>

\* chardrv_poll: poll_wait, then the condition.
Poll(p) ==
  /\ \/ data_ready /\ Goto(p, "p_check", "open")
     \/ ~data_ready /\ Goto(p, "p_check", "p_sleep")
  /\ UNCHANGED <<driver, data_ready, nsleepers, async_queue, sigio, writes>>

\* A signal or its timeout ends poll().
PollEnd(p) ==
  /\ Goto(p, "p_sleep", "open")
  /\ UNCHANGED <<driver, data_ready, nsleepers, async_queue, sigio, writes>>

\* fcntl(F_SETFL) with and without FASYNC calls chardrv_fasync.
Fasync(p) ==
  /\ HasFasync
  /\ pc[p] = "open"
  /\ \/ async_queue' = async_queue \cup {p}
     \/ async_queue' = async_queue \ {p}
  /\ UNCHANGED <<driver, pc, data_ready, nsleepers, sigio, writes>>

-----------------------------------------------------------------------------
Reading(p) == ReadCheck(p) \/ ReadClear(p) \/ ReadDec(p) \/ ReadLast(p)
Writing(p) == WriteSet(p) \/ WriteWake(p) \/ WriteKill(p)
Calls(p) == \/ Open(p) \/ Release(p) \/ ReadStart(p) \/ WriteStart(p)
            \/ PollStart(p) \/ Fasync(p) \/ ReadSignal(p) \/ PollEnd(p)

Next == \E p \in Procs : Reading(p) \/ Writing(p) \/ Poll(p) \/ Calls(p)

Spec == Init /\ [][Next]_vars

\* A process inside the driver that does not sleep is run; nobody has to start
\* a call or to send a signal.
Fairness ==
  \A p \in Procs : WF_vars(Reading(p)) /\ WF_vars(Writing(p)) /\ WF_vars(Poll(p))

FairSpec == Spec /\ Fairness

-----------------------------------------------------------------------------
(* Properties                                                              *)

InRead == {"r_check", "r_sleep", "r_go", "r_last"}
PC == {"closed", "open", "w_set", "w_wake", "w_kill", "p_check", "p_sleep"} \cup InRead

TypeOK ==
  /\ driver \in Drivers
  /\ pc \in [Procs -> PC]
  /\ data_ready \in BOOLEAN
  /\ nsleepers \in Nat
  /\ async_queue \subseteq Procs /\ sigio \subseteq Procs
  /\ writes \in 0..MaxWrites

\* Set before wake: a process sleeps on a true condition only while a writer is
\* on its way to wake it.
NoLostWakeup ==
  SetsFirst /\ ~Killable =>
    \A p \in Procs : Asleep(p) /\ data_ready => \E w \in Procs : pc[w] = "w_wake"

\* The same as liveness, for the drivers that set the condition first and wake
\* the kind of sleep their readers are in: nobody sleeps on while the condition
\* stays true.
SleeperWoken ==
  \A p \in Procs :
    (SetsFirst /\ ~Killable /\ Asleep(p) /\ data_ready) ~> (~Asleep(p) \/ ~data_ready)

\* "Have the read() function go to sleep until woken by a write() function": the
\* same for every driver.
WriteWakesReader ==
  \A p \in Procs : (Asleep(p) /\ data_ready) ~> (~Asleep(p) \/ ~data_ready)

\* lab4_excl: nsleepers counts the readers between entering read() and leaving
\* the wait, so it is the last of them that clears the condition.
NsleepersExact ==
  Exclusive => nsleepers = Cardinality({p \in Procs : pc[p] \in {"r_check", "r_sleep", "r_go"}})

\* Whoever is on the fasync list while a write() sets the condition gets a SIGIO
\* (or leaves the list first).
FasyncReached ==
  \A p \in Procs :
    (p \in async_queue /\ \E w \in Procs : pc[w] = "w_set")
      ~> (p \in sigio \/ p \notin async_queue)
=============================================================================
