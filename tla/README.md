# TLA+ models of the ldd-samples drivers

The repository is a collection of Linux kernel modules written as lab solutions: character
devices, interrupt bottom halves, timers, locks shared between modules, a USB skeleton driver,
tiny serial drivers and many small demonstrations. Every module is short; what is hard in them
is not computation but who may run between two of their statements: interrupts, softirqs,
kernel threads, several processes inside one driver, an `rmmod` or a disconnect at any moment,
and a step of an init function that fails.

This directory holds TLA+ modules for those parts, TLC configurations for small instances, and
TLAPS proofs, in eight modules, of nearly every safety property that the runs check, for every value
of the constants. `PROJECT.json` maps each definition to the lines it models.

## 1. Inventory

| Part | State | Operations | What is hard | What makes it correct |
|---|---|---|---|---|
| USB skeleton, `usb/usb-skeleton.c` | kref, `limit_sem`, `io_mutex`, read URB and buffer, submitted URBs, `errors`, interface data | open, release, flush, read, write, URB callbacks, probe, disconnect, suspend, resume, pre/post_reset | callbacks and disconnect against every system call | permits and references balance; no URB after disconnect; nobody uses the freed structure; disconnect ends |
| Thread bottom half, `interrupts/lab4_one_thread.c`, `lab5_one_thread_improved.c` | `nevents`, `cond`, thread state | handler, thread, load, unload | an interrupt between any two statements of the thread | events are conserved; the thread ends with its module |
| Tasklet and work item bottom halves, `lab4_one_*`, `lab5_one_*` | `nevents`, queued items | handler, item | an interrupt while the item runs | each event is consumed once; none stays when the item catches up |
| Threaded handler, `lab9_one_threaded.c` | `nevents`, irq thread | handler, thread, request, free | same, with IRQF_ONESHOT absent | none is left when the thread sleeps |
| Blocking devices, `ioctl/lab4..7`, `char/lab5..6` | condition, sleepers, fasync list | open, read, write, poll, fasync, release, signals | wakeup against condition | no reader sleeps on a true condition; SIGIO reaches the list |
| Completion and semaphore devices, `ioctl/lab4_complete.c`, `lab4_semaphore*.c` | count, waiters | read, write | many readers against many writers | one reader passes for each signal |
| Modules sharing a lock, `sync/sync_lab1_*`, `sync_lab2_*` | lock, which modules are in | load, unload | loads that sleep or fail, module use counts | one holder |
| Service threads, `misc/wait_queue_dyn.c`, `wat_queu_stat.c`, `completion_*.c` | flag or completion, thread state | init, read, thread, exit | flag set and cleared in separate steps; the thread runs before init and after exit have ended | a posted read is noticed; a sleeping thread is woken by the removal |
| RAM-disk files, `ioctl/lab_char.h`, `lab_miscdev.h`, `char/lab2`, `lab4` | buffer, file position | read, write, lseek | signed and unsigned words, two threads on one file, positions that pread and pwrite name | copies inside the buffer |
| Timers, `timers/lab1..5`, `lab7`, `defer/defer_lab1_timer.c` | pending, running, count | load, write, timer functions, unload | a function that re-installs its timer against its deletion | nothing pending or running after unload |
| jiq, jit, `timers/lab8_jiq.c`, `lab9_jit.c` | buffer, work, timer, tasklet, reader | read, work functions | sleep against the run that wakes | the reader returns with what it asked for |
| Tiny serial port, `serial/tiny_tty.c`, `tiny_serial.c` | open count, timer, circular buffer | open, close, timer, the core's writes and x_char | shutdown against the running timer, x_char tested and cleared without a lock | each character of the buffer once, the buffer drains |
| Serial mouse, `hardware/lab4_full_mouse_driver.c` | packet assembly, irq depth, packet | interrupt, tasklet, read, open, release | bytes lost, two readers that disable and enable the irq | in step again after a loss; no copy of a changing packet |
| Observing mouse, `hardware/lab4_serial.c` | bytes, position | interrupt, read, ioctl | signed movements from bit fields; lost bytes and bytes of other interrupts; zeroing against the handler | the position is the sum of the packets; the handler finds back into step |
| Interrupts on all lines, `lab_all_interrupt.h`, `lab6_all_*`, `lab7_all_*` | handlers installed, counters of each line, items, thread | get_irqs, freeup_irqs, handler, bottom halves | a handler that runs before its counter is reset; shared items | every line requested is freed; its counters account for its interrupts |
| Deferral by hand, `lab3_*`, `lab11_mytasklet.c`, `defer/` | a datum, an item | handler or write, item, load, unload | an item scheduled again while it is queued or runs, or before INIT_WORK | the last run has found what was stored before the last schedule |
| UIO by hand, `lab9_uio.c` | event count | handler, read, poll | an interrupt or another reader between load and subtraction, between poll and read | an event is taken once, and what poll announces is there |
| scullc, `io/lab6_aio.c` | list of quantum sets, their sizes, deferred answers | open, read, write, ioctl, trim, asynchronous transfers | sizes that change between calls, trim against transfers, the work item | no quantum is lost; a transfer stays in its quantum; one answer |
| Block, `block/lab2_block.c`, `sbd.c` | disk, request queue | request function, HDIO_GETGEO | sector sizes, segments, the last sector | a write changes its sectors and a read finds them |
| Network, `network/lab1`, `lab3`, `lab4` | queue state, packets, statistics | open, close, transmit, receive | who frees a packet, statistics that others read | each packet is freed once |
| Cache drivers, `memory/lab1_cache.c`, `memory_lab2_cache.c` | one pointer, objects of the cache | open, release, read, write, exit | two openers, removal while open | each object is freed once, before the cache |
| seq files, `debug/lab8`, `lab11`, `debug_lab3_seqfile.c` | position, buffer | start, next, show, stop under seq_read | a read cut into pieces | each record once, in order |
| I/O memory, `hardware/lab5_silly.c` | window, position | read, write in four modes | alignment, end of the window, failed copies | transfers stay in the window and move their bytes |
| Signals to a named task, `ioctl/lab3_ioctl_signal.c`, `debug/lab7_proc_sig_*` | pid, task | ioctl, proc write | a pid stored before its task is found; a task that ends | the task is one of the pid named |
| Init and exit of 98 modules | resources held | each step of init and its failure, exit, open during both | a step that fails after the device is visible | everything given back once; callers find what they use |

The parts interact through the kernel only, with these exceptions, which are in the models:
the lock modules import symbols from each other; the lab files include `lab_char.h`,
`lab_one_interrupt.h`, `lab_miscdev.h` and `lab_all_interrupt.h`, which hold their init, exit
and file functions.

## 2. Modules and how they correspond to the code

Each component module keeps the driver's globals as variables and the program counters of the
processes, handlers and threads that are inside it. A step is one access that another actor
can see in between; statements that touch nothing shared are merged with their neighbours.
What the kernel does (wakeups, mutexes, URB giveback, timer expiry, module use counts) is
modelled from how the drivers use it and marked external in the map.

* **UsbSkel**: system calls of `Procs`, the USB core as one sequential actor (`core`: bind,
  suspend, reset, disconnect), and the host controller. `submitted` counts write URBs in flight,
  `bulk_in_urb` is the length of the read URB in flight or 0. `MaxCount` bounds the length of a
  read; lengths of writes do not matter and are left out.
* **OneThread**, **OneDeferred**, **ThreadedIrq**: the bottom halves. `Wrap` is the width of the
  atomic counters, so that decrementing below zero is visible. **BottomHalf** is the abstract
  specification: events are raised, handled one or several at a time, and never more than were
  raised; OneThread and OneDeferred are shown to implement it (`ImplementBottomHalf`).
* **CharWait** (wait queues; the driver is a variable chosen in `Init`), **CountWait**
  (completion, semaphore, rw_semaphore).
* **LockModules**: load and unload of modules that share a lock.
* **WaitThread**: five drivers with a service thread. `mod` goes through the steps of init: the device
  first, then the queue (`InitQueue`), the thread (`StartThread`), and in `completion_dyn.c` the
  completion only after the thread (`InitCompletion`). Who waits on, or posts to, a queue or a
  completion that is still zero follows a null pointer, and the model stops (`"broken"`), as it does
  when the error pointer of `kthread_create` is woken. After `ExitEnd` (`"gone"`) the thread takes no
  more step: its code is freed, whether it has ended or not.
* **RamDisk**: the arithmetic of read, write and lseek with words of `Word` values, signed and
  unsigned comparisons as C makes them, and a position shared by two threads; `CallAt` is a pread or
  pwrite, at any position of `Preads`.
* **Timers**, **Jiq**, **Jit**, **TinyPort**, **Mouse**: one module for each family. A timer that
  `lab1_timer.c` initialises while it is pending leaves the kernel's lists `"corrupt"`, where the
  model stops; a function that was running then is in slot 2, unknown to `del_timer_sync`. The same
  happens in Jiq when a second reader of `jitimer` sets up or adds the pending `jiq_timer`, and in TinyPort
  when a port is opened, or its function adds the timer, while the timer is pending. In TinyPort the
  test of `x_char` (`TxStart`) and its clearing (`TxXChar`) are two steps, between which the core, which
  always may, stores another; `xset`, `xsent` and `xlost` keep the account.
* **AllIrqs**: `Lines` lines, taken one after the other by `get_irqs` (which goes on when one is
  refused) and freed by `freeup_irqs` unless their counter is negative; counters have `2 * Half`
  values. `early` marks an interrupt before the counter was reset.
* **Deferral**: one item and a datum, for nine drivers; a datum is the number of its stores, and `due`
  what it was at the last schedule that took effect. `lab3_workqueue.c` has its handler installed
  (`mod = "irq"`) before `LoadInitWork`.
* **UioEvents**: `nevents` with the read split at its load and its subtraction; `ready` are the readers
  to whom poll has announced events that no other reader has taken since.
* **Scullc**: one device as a list of quantum sets of at most `MaxObjects` objects, `call` holds the
  sizes each transfer read before it took the mutex, `work` the deferred answers. `stale` marks a
  transfer that used sizes the device no longer had, `beyond` an access past an object.
* **Observer**: the bytes of a packet as numbers with the bit fields of the protocol. A byte may be
  lost to the other driver of the line (`Lose`), and an interrupt of another device makes the handler read
  what the register holds (`StrayInterrupt`, any of `Strays`). `off` marks a coordinate to which something
  else than the mouse's packets was added, `spoilt` counts those additions.
* **Silly**: the window as bytes, written with their place; a mode moves whole units only.
* **NetDev**: four drivers, packets as names, the queue the stack sees.
* **SeqFile**: the protocol of `seq_read` (external) around the three iterators.
* **Block**: sectors hold the name of the write and the sector it was meant for, next to what the
  kernel expects (`expected`), for any `logical_block_size` in `Sizes`.
* **CacheDev**, **SigTask**: one module-wide variable and several callers.
* **DriverTables** and **ModuleLife**: each init function is a sequence of steps, each step with
  the resource it obtains, what happens when it fails (the function returns after undoing
  `undo`, or the failure is not noticed, or it cannot fail), the exit function's sequence, the
  `entry` by which callers reach the driver, and what its functions `uses`. ModuleLife runs any
  of them, with any step failing and files opened meanwhile. Modules whose init and exit are
  the same sequence have equal tables: the 98 modules give 57
  different ones. An open file pins the module unless its operations name no `.owner` (`Unowned`).
* **MCInterrupts**, **MCBlocking**, **MCModules**, **MCTimers**, **MCDevices**: wrappers that run one
  component of a family at a time (the components share no state in the code either), so that
  one run answers one question for the family. **MCUsbSkel** adds symmetry.
* **UsbSkelProofs**, **BlockingProofs**, **OneThreadProofs**, **InterruptsProofs**, **TimersProofs**,
  **ModulesProofs**, **DevicesProofs**, **TransfersProofs**: theorems (section 4). The last five and
  BlockingProofs extend the MC module of their family and prove about the same instances that
  TLC runs, with the constants left open.

## 3. Runs

| Run | Shows |
|---|---|
| `usb_safety` | with two processes, two permits and a read buffer of 2: `PermitsConserved`, `KrefExact`, `NoUseAfterFree`, `QuietAfterDrawDown`, `NoUrbAfterDisconnect`, `ReadUrbOwned`, `BufferBounds` |
| `usb_live` | `DisconnectCompletes`: a disconnect that began ends although a reader sleeps with `io_mutex` held (its wait is released by the unlinked URB) |
| `usb_once` (violation) | an error can be wiped unreported between the two unlocked accesses of `skel_read` |
| `interrupts` | `EventsCounted` (the counters of the thread and of the deferred solutions against what was raised), `NoEventStranded`, `PendingConsumed` (nothing waits when the solution catches up), `ImplementBottomHalf`, `UnloadCompletes`, `LinesAccounted`, `SeesLatest` (what was stored before the last schedule was found), `EventsTakenOnce` (and nothing but a reader takes what poll announced) |
| `onethread_lost` (violation) | `cond` cleared after the last test of `nevents` leaves an event waiting |
| `blocking` | `NoLostWakeup` for the drivers that set the condition first, `NsleepersExact`, `TokensConserved`, and `WriteReaches`: sleepers, the fasync list and the readers of a signal are reached |
| `charwait_lost` (violation) | `lab4_excl` wakes before it sets the condition |
| `devices` | `CopyInBounds`, `Resyncs`, `CopyUntouched`, `PositionExact`, `NoQuantumLost`, `AnsweredOnce`, `TransferExact` (the silly device and the RAM disks), `PacketsAccounted`, `RecordsInOrder` |
| `scullc_quantum` (violation) | after an ioctl has raised the quantum a write passes the end of its object |
| `timers` | `QuietAfterUnload`, `UnloadEnds`, `BufferFull`, `TxConserved`, and `WaitersServed`: jiq readers return, the port drains |
| `tinyport_stop` (violation) | the timer is pending after `tiny_shutdown` |
| `modules` | `OneHolder`, `Balanced` (98 modules and the objects of the cache drivers), `Served`, `PidNamesTask`, and `ThreadResponds`: a read and a removal are noticed |

**Bounds.** Two processes are enough for each race between two system calls; `blocking` has three so
that two readers race for what one writer posts. `WRITES_IN_FLIGHT` is 2 where permits are the
subject, so that one can be taken while the other is in flight, and 1 for liveness. `MaxInts = 4`
with `Wrap = 8` lets the thread, the handler and one more interrupt meet twice. The ring of
TinyPort has 4 places, one of which stays free, and 6 characters pass through it, so that head
and tail wrap. RamDisk has a buffer of 4 and arguments up to 6 on either side of zero, in words
of 1024 values; pread and pwrite name a position inside, one just beyond the end and the largest
(`Preads`). Observer has at most two faults (`MaxFaults`), and strays with and without the mark of a
first byte (`Strays`). Mouse has three packets and two lost bytes. Timers has three slots, so that two
timers run while a third is added. `MaxUsers`, `MaxLoads`, `MaxReads`, `MaxOpens`, `MaxWrites`,
`MaxSignals` only bound repetition. AllIrqs has two lines, four interrupts and counters that turn
negative after 2, so that both the sign and the order of two lines matter. Scullc has quanta of
2 bytes and sets of 1 or 2, so that a position lies in the first or second object of the first or
second set; the violation run lets the quantum grow. Silly has a window of 8 bytes and counts up
to 4, so that each unit fits, is cut by the end, and is missed. Block has 4 sectors, blocks of 1
and 2 and requests of up to two segments, so that some end with the disk. SeqFile has 3
records of 2 bytes and a buffer of 5, which the third does not fit in. NetDev has three packets:
one with the driver, one in the backlog, one freed. CacheDev has two openers and four objects.

**Deadlock.** The wrappers and ModuleLife say `CHECK_DEADLOCK FALSE`, as their bounds end each behaviour
and a driver with all callers asleep really stops. The USB runs check it.

**Fairness.** Weak fairness of what already runs: a process inside the driver that does not
sleep, a handler that entered, a queued tasklet or work item, a pending timer. Strong fairness in
three places: `DisconnectMark` (a sleeper on `io_mutex` gets it when it is released again and again;
kernel mutexes hand over in order), `ReadWait` of CountWait (the queues of semaphores and
completions are first come, first served) and `ExitDelete` of Timers (`del_timer_sync` spins and
the period of a timer is long). Nobody has to start a call, raise an interrupt, send a signal,
unload a module or unplug a device, and a device need not answer.

## 4. Proofs

Each theorem holds for every value of the constants that satisfies the named assumptions, so for
any number of processes, timers, packets, lines, interrupts and calls. The bounds of the runs
(`MaxInts`, `MaxRaised`, `MaxOut` and the like) occur in guards only and no proof uses them.

| Module | Theorem | States |
|---|---|---|
| UsbSkelProofs | `TypeCorrect`, `PermitsNeverLost`, `KrefCorrect`, `NoUseAfterFreeCorrect`, `QuietCorrect`, `DisconnectIsFinal`, `ReadBufferCorrect`, `CopyInsideBuffer` | the eight safety properties of `usb_safety` |
| BlockingProofs | `WakeupNeverLost`, `SleepersCounted`, `TypeCorrect`, `NoTokenLost` | `NoLostWakeup`, `NsleepersExact`, the types of CharWait, `TokensConserved` |
| OneThreadProofs | `TypeCorrect`, `EventsNeverLost`, `StopNeverMissed`, `Refinement` | the types, `EventsConserved`, `StopSeen` (the thread does not sleep while `kthread_stop` waits), and that OneThread implements BottomHalf |
| InterruptsProofs | `EventsAlwaysCounted`, `NoneStranded`, `LatestSeen`, `TakenOnce`, `EveryLineAccounted`, `BottomHalvesImplement`, `EventsNotLeftBehind` | `EventsCounted`, `NoEventStranded`, `SeesLatest`, `EventsTakenOnce`, `LinesAccounted`, `ImplementBottomHalf`, and that an event in `nevents` has an item or a handler that comes for it |
| TimersProofs | `QuietOnceUnloaded`, `ReadsFullBuffer`, `NoCharacterLost`, `NoReaderForgotten` | `QuietAfterUnload`, `BufferFull`, `TxConserved`, `ItemGoesOn` (the item of a jiq reader that sleeps is still to wake it) |
| ModulesProofs | `OneModuleHolds`, `TaskOfThePid`, `ObjectsFreedOnce`, `WhatIsObtainedIsGivenBack`, `CallersAreServed`, `ThreadNeverOversleeps`, `CompletionBounded` | `OneHolder`, `PidNamesTask`, the part of `Balanced` about the cache drivers, `Balanced`, `Served`, `WakerComes` and `DoneBounded` of the service threads |
| DevicesProofs | `TransfersInside`, `SeeksExact`, `MouseResyncs`, `PacketHeldStill`, `PacketsFreedOnce`, `PositionIsTheSum` | `CopyInBounds`, `SeekExact` (lseek against signed positions), `Resyncs`, `CopyUntouched`, `PacketsAccounted`, `PositionExact` for every movement of two signed bytes |
| TransfersProofs | `TransfersAnsweredOnce`, `QuantaNeverLost`, `TransfersExact`, `RecordsReadInOrder` | `AnsweredOnce`, `NoQuantumLost`, `TransferExact`, `RecordsInOrder` |

Every invariant that a passing run checks is stated by one of these theorems. `StopNeverMissed`,
`EventsNotLeftBehind`, `NoReaderForgotten` and `ThreadNeverOversleeps` are the safety halves of the
liveness properties `UnloadCompletes`, `PendingConsumed`, `WaitersServed` and `ThreadResponds`: the
sleeper has a waker on the way; that the waker arrives is what fairness adds, and TLC checks.

Hardly any of the properties is inductive by itself. The invariants that are:

* **UsbSkel** (`IInv`): `MutexInv`, `io_mutex` is held by exactly the process between its lock and
  unlock, or by the USB core between pre_reset and post_reset; everything below relies on nobody
  else being inside. `ReadInv`: `ongoing_read` says whether the read URB is in flight, a reader past
  its wait owns the buffer, and the buffer was empty when the URB was submitted. `QuietInv`: what
  `skel_draw_down` emptied stays empty while its caller holds `io_mutex` (`skel_write` takes it for
  its submission). `GoneInv`: the order in which disconnect closes the ways in: the minor is
  deregistered before the mark, the mark before the URBs are killed, those before the last put; an
  `open` that has found the interface holds off the deregistration. `PermitsConserved` and
  `KrefExact` need finite sets and the cardinality lemma `Counted`. Each part has one step lemma
  and `IInvInductive` combines them.
* **CharWait, CountWait**: `NoLostWakeup` is inductive with the types, because the process that makes
  the condition true is itself on its way to the wakeup. `NsleepersExact` is the cardinality of
  the set of readers between increment and decrement; the range of `nsleepers` follows from it.
* **OneThread** (`IInv`): the conservation of events, that nothing runs before `my_init` has gone far
  enough (`Early`), and that in the solution without `nevents` each run of the thread uses up one
  setting of `cond` (`OneEachTime`). Under
  the refinement mapping the steps that clear counters or set and test `cond` are stutters.
  `StopSeen` is inductive as it stands, because `kthread_stop` sets the flag and wakes in one step.
* **OneDeferred, ThreadedIrq, Deferral, UioEvents**: each event is in the handler, in `nevents`, in an
  item or handled (`DeferredCount`); what was stored before the last schedule was found or a run is to
  come (`FoundDue`), and where the store comes first the item that has to find the last datum is
  queued, runs, or has a producer who will queue it (`FoundLast`); a reader alone between load and
  subtraction has loaded what it subtracts (`UioAlone`), and what poll has announced to a reader
  is there until that reader, or another one, takes it (`UioPolled`). OneDeferred refines BottomHalf with the
  counts of both halves as the mapping, and `DeferredCount` is what keeps the handled below the raised.
* **AllIrqs** (`LinesInv`): for each line, `CountedInv`: before `get_irqs` has installed the handler
  nothing was raised, while it is at the line all interrupts are early, afterwards the counter is
  the number of the others, wrapped; and a line that `freeup_irqs` passed with its handler still
  installed has wrapped. `OneItemInv`: bottom halves counted, due and coming are never more than
  interrupts. The sums over lines are cardinalities of sets of pairs, which grow by one element at
  a time, so that no induction over the lines is needed. `SignedStep` is the arithmetic of a
  counter that wraps.
* **Timers** (`TimersInv`): `SyncInv`, what is pending or runs is not deleted yet; `CountInv`,
  `ntimers` of `lab2_multitimer.c` is the number of timers announced and not yet counted out. **Jit**:
  the lines printed and the runs to come add up (`JitRead`). **Jiq** (`JiqInv`): a reader that sleeps and
  entered the queue first was woken or its item goes on; which way a reader takes is part of the
  types. **TinyPort** (`PortInv`): the function is
  in its loop only while the ring is not empty, and about to clear `x_char` only while one is there, as
  nobody else takes characters out; `RingDistance` is the distance from tail to head modulo the size of
  the ring.
* **LockModules, SigTask, CacheDev**: the base module is pinned while a user is in (`Pinned`); a
  caller past its test finds a task unless somebody cleared it (`TestedTask`); without two openers
  the one object is the one that `membuff` names (`OneOpener`).
* **ModuleLife** (`LifeInv`): `Obtained`, what is held is what the steps of init done so far obtain;
  `Rest`, what is still held while giving back is what the undo list or the exit function has not
  come to yet; `Covered`, nothing was given back that was not held; `Callable`, whoever can call finds
  what the functions use. `LifeStep` reduces all of it to conditions on a driver's table that mention
  no state (`TablesHold`: nothing obtained twice, each undo list gives back what was obtained before
  it, the exit function everything, and what makes the driver visible comes after what its functions
  use and goes before it). `TheTablesHold` verifies those for each of the 98 modules, except the
  parts from which `Leaky`, `Twice` and `Early` exempt a driver.
* **WaitThread** (`ServiceInv`): `WakerComes`, and `PostsBounded`, what the completion counts and the
  readers about to post are together no more than the readers, from the first step of init on.
* **RamDisk** (`DiskInv`): the positions of the file and of the calls under way, where unsigned
  comparison of a signed position is the point (`RamDiskAssumption`: words hold twice the size and the
  argument, and twice any position named). `BytesBeyond` says what a transfer beyond the end
  does. **Mouse**: the driver is in step with the line or a lost byte is on record
  (`ResyncInv`); each reader that copies holds a level of `disable_irq` (`DepthInv`). **NetDev**: where
  a packet is decides whether it was freed (`FreesInv`), and the statistics miss at most the packet
  in `start_xmit`. **Observer**: the line holds the rest of a packet (`BytesInv`);
  what was accepted is the part before it (`Aligned`), or a fault is on record that no spoilt packet
  has used up (`StepInv`): since only the first byte of a packet is marked, one fault spoils no more
  than one. Decoding inverts the encoding for all 65536 movements (`MovementDecoded`).
* **Scullc** (`QuantaInv`): the objects are exactly the entries of the list that point to something, and
  as long as no transfer has used a geometry that was replaced every array is as long as trim goes.
  **Silly, Block**: a unit divides count and position (`UnitDivides`), segments of a request still
  to do stay in the disk (`SegmentsFit`). **SeqFile** (`SeqInv`): the units returned and collected are
  the records in order (`Ordered`), and `PlaceInv` says for each step of `seq_read` which record the
  next one is.

Assumptions, which TLC evaluates for the instances it runs: finite sets of processes, producers and
lines; the named sets of drivers; `UsbAssumption` (at least one permit, a buffer and a length of at
least 1); lines numbered from 0; counters of at least two values (`Half` positive); at least one line for
jit and a ring with at least one place; and, in MCDevices, quanta and sets of at least one (the
ioctls of `lab6_aio.c` do not test for 0, which the proof leaves aside; see section 5), a window and
kmalloc's limit smaller than a word, file positions well below a word, and records that fit in the
buffer of `seq_read`, which the kernel enlarges for one that does not.

Only model-checked:

* liveness: `DisconnectCompletes`, `UnloadCompletes`, `PendingConsumed`, `WriteReaches`, `UnloadEnds`,
  `WaitersServed`, `ThreadResponds`. Fairness and `ENABLED` are out of the prover's reach.

## 5. Where the code and its words disagree

Five disagreements have a run of their own (section 3). The following were met while modelling;
the models contain the behaviour, and the properties are stated for the drivers without it.

* `usb-skeleton.c:177`: both callbacks store the status of an unlinked URB in `errors`, so that the
  next call returns it, although the comment at :168 says that unlink faults are not errors.
* `lab4_one_thread.c:91`: when `request_irq` fails the thread goes on although the module is not
  loaded. `lab9_one_threaded.c:51`: the thread consumes before it tests, so a wakeup whose event
  an earlier run has already consumed takes `nevents` below zero and the loop goes on until the
  counter has wrapped round or interrupts bring it back to zero.
* `lab6_poll.c:52`, `char/lab5_char_poll.c:98`: the wakeup comes before the condition, as in
  `lab4_excl.c`. `lab5_killable.c:51`: `wake_up_interruptible` does not wake a killable sleep.
  `lab4_wait_event.c:61`: a signal ends the wait and `read` goes on as if it had been written.
  `lab4_semaphore.c` starts with a count that lets the first reader pass;
  `lab4_semaphore_rw.c`: shared readers do not wait for each other and nobody takes the semaphore
  exclusively, so a read never sleeps. `sync_lab2_sem2.c`: the load sleeps until the other module is unloaded or a
  signal comes; nothing in the code guarantees either.
* `lab4_periodic_timers_alt.c`, `defer_lab1_timer.c`: `del_timer` followed by `kfree` while the
  function may run.
  `lab1_timer.c:49` initialises a timer that may be pending, and its exit deletes one that no
  write may have initialised, which never returns (kernels whose timers have a base pointer).
  `lab2_multitimer.c`: the function lowers the count before it ends, so it may still run when the
  module's memory goes.
* `lab_char.h:62`: `maxbytes` is negative for a pread or pwrite beyond the end and compared as unsigned,
  so the copy leaves the buffer; the copies of the file in other directories do the same.
  `CopyInBounds` says nothing of those transfers. The drivers of `char/` test the sum and refuse.
* `completion_dyn.c:287`: `init_completion` comes after the thread that waits for it was started, and
  `wait_queue_dyn.c:121`: the queue is initialised when the device can be read already; who comes
  before follows a null pointer. `wait_queue_dyn.c:125`: the error pointer of `kthread_create` passes the
  test for success. No exit function of these drivers waits for the thread, which may still be
  about to run when the module's code is freed. A flag that is set between the thread's test
  and its clearing is overwritten: that read, or the removal, is never noticed.
* `tiny_serial.c:71`: `x_char` is tested and cleared without `port->lock`; a character that the core
  stores in between is lost. `tiny_tty.c:89`, `tiny_serial.c:123`: a port that is closed and opened again
  while the timer's function runs has added the timer, which the function adds once more.
* `lab4_serial.c:154`: the handler on the shared line takes what the register holds for a byte of the
  mouse, and a byte may have been taken by the other driver.
* `lab8_jiq.c:218`, `:224`: two readers of `jitimer` initialise and add the same timer while it is pending.
* `lab8_jiq.c:188` and `:225`: the readers of the tasklet and timer files schedule first and sleep then; the code
  comments the race itself. `lab9_jit.c:146`: the last run wakes the reader through memory the
  reader frees as soon as `loops` is zero.
* `tiny_tty.c:344`: setting DTR sets RTS; its wait queue is never initialised (not modelled).
* `lab6_aio.c:263`: the asynchronous write tests the result of `memcpy`, which is its first
  argument, and so always returns `-EFAULT`; `:258` clears `scullc_quantum` bytes of an object
  that another quantum may have sized; the ioctls accept a quantum of 0, by which the next
  transfer divides; the work item frees its data after it has answered, when nothing pins the
  module any more.
* `lab6_all_thread.c:51` reads the line before it waits, so that the event is counted for the line
  of an earlier interrupt; the static items of `lab6_all_tasklet.c` and `lab6_all_workqueue.c`
  take the line of the last one. Nothing waits for an item when the module goes. A counter that
  has wrapped to a negative value leaves its handler installed.
* `lab9_uio.c:68`: two readers subtract the same events; a copy that fails loses them.
* `lab3_workqueue.c:54` and the shared and private work queues schedule the item before they store
  what it reads, so that the last datum may never be printed. `lab3_workqueue.c:68`: `INIT_WORK` comes
  after `request_irq`; an interrupt in between schedules a work item that is all zeroes, which the
  kernel refuses with a warning.
* `lab5_silly.c:208`, `:217`: `iowrite8` where the comment at :38 says 32 and 16 bits; `count < 0` is
  never true of an unsigned number; a failed copy moves the position by `-EFAULT`; the buffer
  leaks for a minor above 3.
* `sbd.c:58` multiplies the kernel's sectors by `logical_block_size`, which the comment at :31
  keeps apart, so that a size other than 512 copies past the request's buffer; `:81` goes on with
  a request that it has ended. Both disks compute cylinders from bytes and store them in 16 bits.
* `debug_lab3_seqfile.c`: the sequence never ends by itself. `lab1_network.c:68` speaks of a leak
  of every packet, which the code frees.
* `lab1_cache.c:34`, `memory_lab2_cache.c:37`: with two openers the second object is freed twice and
  the first never. `lab3_ioctl_signal.c:77`: the task may be cleared, or have ended, between
  test and use. `lab2_ioctl_vardata.c:75`: an unknown command leaks the buffer.
* Thirteen drivers of `char/`, `defer/`, `io/`, `memory/` and `sync/` (`Unowned`) have file
  operations without an `.owner`: they can be removed while a file is open.
* `lab_one_interrupt.h:65`: no exit function waits for a tasklet or work item that was scheduled.
* `lab4_full_mouse_driver.c:208`: a copy that fails leaves the interrupt disabled; `:170`: an
  interrupt may schedule the tasklet after it was killed.
* Module life. `Leaky`: the request queue of `lab2_block.c` and `sbd.c`; the elements of the two
  lists when an allocation fails; the video memory of `lab2_memory.c`; irq, ports and cdev of
  both mouse and serial drivers; the private work queue of `lab3_workqueue_newapi.c` and
  `_private.c`; the thread of `lab4_one_thread.c`, `lab5_one_thread_improved.c` and
  `lab6_all_thread.c`; the buffer of the drivers on `lab_all_interrupt.h`; the irq of
  `lab9_uio.c`; the driver of `ldddev.c`; the device of `interrupt_soft.c`; the registered
  driver of `tiny_tty.c`. `Twice`: `class_unregister` followed by `class_destroy` in thirteen exit
  functions and two more. `Early`: devices that are visible before what their functions use:
  buffers allocated after registration, the cache of `lab6_aio.c`, `INIT_WORK` after
  `request_irq` in `lab3_workqueue.c`, the queue and the completion of `wait_queue_dyn.c` and
  `completion_dyn.c`, the ports of the mouse driver.
  Failures nobody notices (error pointers compared with NULL, allocations that are not tested)
  are steps of their own and `Balanced` and `Served` say nothing after one.
  `hardware/lab1_port.c` is left out: it releases a region it does not own.

## 6. Plan

Done: all the components of section 1, their runs, and the theorems of section 4.

Left, in this order:

1. lddbus and ldddev: registration of bus, driver and device between two modules.
2. The modem lines and settings of `tiny_tty.c`, the threads of the spinlock driver, `llseek` of
   scullc.

## 7. Not modelled

The introductory modules, modules that only print, probe handlers, modules made to crash or to
spin, the memory eaters, single calls into the memory manager (mmap of user pages, DMA), register
accesses, the tty settings, the ioctls that only copy a value, the work queue solution on all
lines (its steps are the tasklet's), PCI and firmware callbacks that only print, and the user-space test programs, which
were read for what they expect of the drivers. Text, formatting and log messages are left out
everywhere.

Liveness under fairness and `ENABLED` are out of the prover's reach, and so is induction over recursive
definitions; the modules with theorems use none.

## 8. How to run

    tlc -workers 2 -config MCUsbSkel_safety.cfg MCUsbSkel
    tlapm UsbSkelProofs.tla      # and the other *Proofs modules
