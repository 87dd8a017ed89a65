---------------------------- MODULE DriverTables ----------------------------
(***************************************************************************)
(* What the init and exit functions of the drivers obtain and give back.   *)
(*                                                                         *)
(* A driver is a record: `init' is the sequence of its steps, each with    *)
(* the resource it obtains and what the code does when it fails; `exit' is *)
(* the order in which the exit function gives back; `entry' is the         *)
(* resource through which others call the driver: an open file, which pins *)
(* the module unless the driver names no .owner (Unowned), or what calls   *)
(* it without (Asynchronous), or "none" where the functions called use     *)
(* nothing of the module's but its code; `uses' is what the functions so   *)
(* called need.  A loop over devices or lines is one step.                 *)
(***************************************************************************)
EXTENDS Sequences

\* A step whose failure the code notices: it gives `undo' back and returns.
Get(r, undo) == [get |-> r, fails |-> "returns", undo |-> undo]

\* A step whose failure goes unnoticed (no test, or a test for NULL of a function
\* that returns an error pointer).
Try(r) == [get |-> r, fails |-> "unnoticed", undo |-> <<>>]

\* A step that does not fail.
Sure(r) == [get |-> r, fails |-> "never", undo |-> <<>>]

\* Entries that need no open file
Asynchronous == {"irq", "irqs", "timer", "netdev", "file", "jiqwq", "jitimer"}

\* Checks, and data of the module that a step initialises: nothing to give back
Static == {"size_ok", "work", "works", "wait_queue", "data_read_done"}

Driver(init, exit, entry, uses) == [init |-> init, exit |-> exit, entry |-> entry, uses |-> uses]

-----------------------------------------------------------------------------
(* Character devices with a class and a device node (chardrv_init)         *)

\* The steps that these drivers share, and what undoes all of them
chardrvInit == <<Get("chrdev", <<>>), Get("class", <<"chrdev">>),
                 Get("device", <<"class", "chrdev">>)>>

chardrvUndo == <<"device", "class", "chrdev">>

\* class_unregister and then class_destroy, which unregisters it again
chardrvExit == <<"device", "class", "class", "chrdev">>

membuffInit == Append(chardrvInit, Get("membuff", chardrvUndo))

membuffExit == <<"membuff">> \o chardrvExit

char_lab1 == Driver(chardrvInit, chardrvExit, "chrdev", {})
char_lab2 == Driver(membuffInit, membuffExit, "chrdev", {"membuff"})
char_lab3 == Driver(membuffInit, membuffExit, "chrdev", {"membuff"})
char_lab4 == Driver(membuffInit, membuffExit, "chrdev", {"membuff"})
char_lab5 == Driver(membuffInit, membuffExit, "chrdev", {"membuff"})
char_lab6 == Driver(membuffInit, membuffExit, "chrdev", {"membuff"})
io_lab3_mmap == Driver(membuffInit, membuffExit, "chrdev", {"membuff"})

memory_lab2_cache ==
  Driver(chardrvInit \o <<Get("size_ok", chardrvUndo), Get("ldd_cache", chardrvUndo)>>,
         chardrvExit \o <<"ldd_cache">>, "chrdev", {"ldd_cache"})

\* kthread_run returns an error pointer, so the branches for a thread that could
\* not be started are never taken.
sync_lab3_spinlock ==
  Driver(membuffInit \o <<Try("thread1"), Try("thread2")>>,
         <<"membuff", "thread1", "thread2">> \o chardrvExit, "chrdev", {"membuff"})

\* The thread is left to end by itself (WaitThread).
sync_lab4_completion == Driver(membuffInit, membuffExit, "chrdev", {"membuff"})

defer_lab1_timer ==
  Driver(chardrvInit \o <<Get("tmd", chardrvUndo), Sure("timer")>>,
         <<"timer", "tmd">> \o chardrvExit, "timer", {"tmd"})

defer_lab2_tasklet == Driver(chardrvInit, chardrvExit, "chrdev", {})

defer_lab3_workqueue ==
  Driver(<<Get("irq", <<>>), Get("chrdev", <<"irq">>), Get("class", <<"irq", "chrdev">>),
           Get("device", <<"irq", "class", "chrdev">>)>>,
         <<"irq">> \o chardrvExit, "irq", {})

ioctl_lab7_sleepy == Driver(<<Get("chrdev", <<>>)>>, <<"chrdev">>, "chrdev", {})
debug_lab12_faulty == Driver(<<Get("chrdev", <<>>)>>, <<"chrdev">>, "chrdev", {})

hardware_lab5_silly ==
  Driver(<<Get("chrdev", <<>>), Try("io_base")>>, <<"io_base", "chrdev">>, "chrdev", {"io_base"})

-----------------------------------------------------------------------------
(* Character devices with a region of numbers and a cdev                   *)

lab_char_Late ==
  Driver(<<Get("region", <<>>), Get("my_cdev", <<"region">>), Get("cdev", <<"my_cdev", "region">>),
           Try("ramdisk"), Try("class"), Try("device")>>,
         <<"device", "class", "cdev", "my_cdev", "region", "ramdisk">>, "cdev", {"ramdisk"})

lab_char ==
  Driver(<<Get("region", <<>>), Get("my_cdev", <<"region">>), Try("ramdisk"),
           Get("cdev", <<"my_cdev", "region", "ramdisk">>), Try("class"), Try("device")>>,
         <<"device", "class", "cdev", "my_cdev", "region", "ramdisk">>, "cdev", {"ramdisk"})

\* The copies of lab_char.h in the other directories
timers_lab_char == lab_char
memory_lab_char == lab_char
io_lab_char == lab_char
interrupts_lab_char == lab_char
dma_lab_char == lab_char

memory_lab1_cache_Kept ==
  Driver(<<Get("size_ok", <<>>), Get("my_cache", <<>>), Get("region", <<"my_cache">>),
           Get("my_cdev", <<"region", "my_cache">>), Get("cdev", <<"my_cdev", "region">>),
           Try("class"), Try("device")>>,
         <<"device", "class", "cdev", "my_cdev", "region", "my_cache">>, "cdev", {"my_cache"})

memory_lab1_cache ==
  Driver(<<Get("size_ok", <<>>), Get("my_cache", <<>>),
           Get("region", <<"my_cache">>),
           Get("my_cdev", <<"region", "my_cache">>),
           Get("cdev", <<"my_cdev", "region", "my_cache">>), Try("class"), Try("device")>>,
         <<"device", "class", "cdev", "my_cdev", "region", "my_cache">>,
         "cdev", {"my_cache"})

hardware_lab2_memory ==
  Driver(<<Get("vram", <<>>), Get("region", <<>>), Get("class", <<"region">>),
           Get("device", <<"class", "region">>), Get("cdev", <<"device", "class", "region">>)>>,
         <<"cdev", "device", "class", "region", "vram">>, "cdev", {"vram"})

\* class_create and device_create return error pointers and are compared with
\* NULL, so that only cdev_add can fail noticeably.
etxInit == <<Get("region", <<>>), Get("cdev", <<"region">>), Try("class"), Try("device")>>

etxExit == <<"device", "class", "cdev", "region">>

\* init_completion and init_waitqueue_head come after cdev_add.
misc_completion_dyn == Driver(Append(etxInit, Sure("data_read_done")), etxExit, "cdev", {"data_read_done"})
misc_wait_queue_dyn == Driver(Append(etxInit, Sure("wait_queue")), etxExit, "cdev", {"wait_queue"})
misc_wat_queu_stat == Driver(etxInit, etxExit, "cdev", {})
misc_completion_static == Driver(etxInit, etxExit, "cdev", {})


\* The labels below a failed step give back what it should have obtained, too,
\* and none destroys the device.
misc_interrupt_soft ==
  Driver(<<Get("region", <<>>), Get("cdev", <<"region", "cdev">>), Try("class"), Try("device"),
           Try("kobj"), Get("sysfs", <<"kobj", "sysfs", "class", "region", "cdev">>),
           Get("irq", <<"irq", "kobj", "sysfs", "class", "region", "cdev">>)>>,
         <<"irq", "kobj", "sysfs", "device", "class", "cdev", "region">>, "irq", {})

\* The branch of the preprocessor that is compiled allocates a first cdev, which
\* nobody deletes; the exit function does not delete the second one either.
hardware_lab4_full_mouse ==
  Driver(<<Get("irq", <<>>), Try("ports"), Get("cdev0", <<"region">>), Get("region", <<>>),
           Get("cdev", <<"region">>), Get("cdev_add", <<"cdev", "region">>), Try("class"), Try("device")>>,
         <<"device", "class", "region", "ports", "irq">>, "irq", {"ports"})

hardware_lab4_serial ==
  Driver(<<Get("irq", <<>>), Try("ports"), Get("region", <<>>), Get("cdev", <<"region">>)>>,
         <<"region", "ports", "irq">>, "irq", {"ports"})

-----------------------------------------------------------------------------
(* Miscellaneous devices and interrupt handlers                            *)

miscInit == <<Try("ramdisk"), Get("misc", <<"ramdisk">>)>>

miscExit == <<"misc", "ramdisk">>

lab_miscdev == Driver(miscInit, miscExit, "misc", {"ramdisk"})

\* Its copies
timers_lab_miscdev == lab_miscdev
io_lab_miscdev == lab_miscdev
interrupts_lab_miscdev == lab_miscdev
dma_lab_miscdev == lab_miscdev
debug_lab_miscdev == lab_miscdev

\* my_generic_init of lab_miscdev.h or lab_one_interrupt.h comes last, and its
\* failure is returned as it is.
lab3_workqueue_newapi == Driver(<<Try("workq")>> \o miscInit, <<"workq">> \o miscExit, "misc", {"workq"})
lab3_workqueue_private == Driver(<<Try("workq")>> \o miscInit, <<"workq">> \o miscExit, "misc", {"workq"})
lab9_uio == Driver(<<Get("irq", <<>>)>> \o miscInit, <<"irq">> \o miscExit, "irq", {})

lab10_uio_api ==
  Driver(<<Try("dev"), Try("device"), Try("info"), Get("uio", <<"device", "dev", "info">>)>>,
         <<"uio", "device", "info", "dev">>, "uio", {"dev", "info"})

irqInit == <<Get("irq", <<>>)>>

lab1_interrupt == Driver(irqInit, <<"irq">>, "irq", {})
lab2_interrupt == Driver(irqInit, <<"irq">>, "irq", {})
lab3_tasklet == Driver(irqInit, <<"irq">>, "irq", {})
lab_one_interrupt == Driver(irqInit, <<"irq">>, "irq", {})

\* INIT_WORK comes after request_irq.
lab3_workqueue == Driver(irqInit \o <<Sure("work")>>, <<"irq">>, "irq", {"work"})
lab4_one_workqueue == Driver(<<Sure("work")>> \o irqInit, <<"irq">>, "irq", {"work"})

\* The thread started first is left behind when the interrupt is refused.
lab4_one_thread == Driver(<<Try("thread")>> \o irqInit, <<"thread", "irq">>, "irq", {})
lab5_one_thread_improved == Driver(<<Try("thread")>> \o irqInit, <<"thread", "irq">>, "irq", {})

\* get_irqs takes the lines it can get.
allInit == <<Try("ramdisk"), Get("misc", <<>>), Try("nevents"), Try("irqs")>>

allExit == <<"irqs", "misc", "ramdisk", "nevents">>

lab_all_interrupt == Driver(allInit, allExit, "irqs", {"ramdisk", "nevents"})
lab6_all_thread == Driver(<<Try("thread")>> \o allInit, <<"thread">> \o allExit, "irqs", {"ramdisk", "nevents"})
lab6_all_workqueue == Driver(<<Sure("work")>> \o allInit, allExit, "irqs", {"ramdisk", "nevents", "work"})

-----------------------------------------------------------------------------
(* Block, network and serial devices                                       *)

\* The request queue is given back by the exit function only.
block_lab2 ==
  Driver(<<Get("ramdisk", <<>>), Get("queue", <<"ramdisk">>), Get("blkdev", <<"ramdisk">>),
           Get("gd", <<"blkdev", "ramdisk">>), Sure("disk")>>,
         <<"disk", "gd", "blkdev", "queue", "ramdisk">>, "disk", {"ramdisk", "queue"})

block_sbd ==
  Driver(<<Get("data", <<>>), Get("queue", <<"data">>), Get("blkdev", <<"data">>),
           Get("gd", <<"blkdev", "data">>), Sure("disk")>>,
         <<"disk", "gd", "blkdev", "queue", "data">>, "disk", {"data", "queue"})

netInit == <<Try("dev"), Get("netdev", <<"dev">>)>>

netExit == <<"netdev", "dev">>

network_lab1 == Driver(netInit, netExit, "netdev", {"dev"})
network_lab3 == Driver(netInit, netExit, "netdev", {"dev"})
network_lab3_simple == Driver(netInit, netExit, "netdev", {"dev"})
network_lab4 == Driver(netInit, netExit, "netdev", {"dev"})

\* No exit function: the module stays.
tiny_serial == Driver(<<Get("uart", <<>>), Get("port", <<"uart">>)>>, <<>>, "port", {"uart"})

\* When a table entry cannot be allocated the driver stays registered.
tiny_tty ==
  Driver(<<Get("tty", <<>>), Get("registered", <<"tty">>), Get("table", <<"tty">>), Try("devices")>>,
         <<"devices", "registered", "tty", "table">>, "devices", {"table"})

-----------------------------------------------------------------------------
(* Files of proc and debugfs, probes                                       *)

dirInit == <<Get("dir", <<>>), Get("file", <<"dir">>)>>

twoFilesInit == Append(dirInit, Get("file2", <<"file", "dir">>))

debug_lab2_procfs == Driver(dirInit, <<"file", "dir">>, "file", {})
debug_lab3_seqfile == Driver(dirInit, <<"file", "dir">>, "file", {})
lab6_proc_solA == Driver(twoFilesInit, <<"file", "file2", "dir">>, "file", {})
lab6_proc_solB == Driver(twoFilesInit, <<"file", "file2", "dir">>, "file", {})
lab7_proc_sig_solA == Driver(twoFilesInit, <<"file", "file2", "dir">>, "file", {})
lab7_proc_sig_solB == Driver(twoFilesInit, <<"file", "file2", "dir">>, "file", {})
lab5_proc == Driver(<<Get("file", <<>>)>>, <<"file">>, "file", {})
lab8_seqfile == Driver(<<Get("file", <<>>)>>, <<"file">>, "file", {})
lab11_seq == Driver(<<Try("file")>>, <<"file">>, "file", {})
lab13_busy == Driver(<<Try("file")>>, <<"file">>, "file", {})

\* The file can be read once read_proc is set, after its data.
lab10_procfs ==
  Driver(dirInit \o <<Try("data"), Sure("read_proc")>>, <<"data", "read_proc", "file", "dir">>,
         "read_proc", {"data"})

timers_lab8_jiq ==
  Driver(<<Sure("works"), Try("jiqwq"), Try("jiqwqdelay"), Try("jitimer"), Try("jiqtasklet")>>,
         <<"jiqwq", "jiqwqdelay", "jitimer", "jiqtasklet">>, "jiqwq", {"works"})

timers_lab9_jit ==
  Driver(<<Try("currentime"), Try("jitbusy"), Try("jitsched"), Try("jitqueue"), Try("jitschedto"),
           Try("jitimer"), Try("jitasklet"), Try("jitasklethi")>>,
         <<"currentime", "jitbusy", "jitsched", "jitqueue", "jitschedto", "jitimer", "jitasklet",
           "jitasklethi">>, "jitimer", {})

debug_lab4_debugfs == Driver(<<Try("var32"), Try("dir"), Try("file")>>, <<"file", "dir", "var32">>, "file", {})
lab4_debugfs == Driver(<<Try("var32"), Try("dir"), Try("file")>>, <<"file", "dir", "var32">>, "file", {})

debug_lab5_kprobes == Driver(<<Get("kp", <<>>)>>, <<"kp">>, "none", {})
lab1_kprobes == Driver(<<Get("kp", <<>>)>>, <<"kp">>, "none", {})
lab3_probe_module == Driver(<<Get("kp", <<>>), Try("jp")>>, <<"jp", "kp">>, "none", {})
debug_lab6_jprobes == Driver(<<Try("jp")>>, <<"jp">>, "none", {})
lab2_jprobes == Driver(<<Try("jp")>>, <<"jp">>, "none", {})

timers_lab6_kprobes ==
  Driver(<<Get("add", <<>>), Get("mod", <<"add">>), Get("del", <<"add", "mod">>),
           Get("del_sync", <<"add", "mod", "del">>)>>,
         <<"mod", "add", "del", "del_sync">>, "none", {})

-----------------------------------------------------------------------------
(* Buses, firmware, ports, notifiers and lists                             *)

\* A version file that cannot be created is only reported, and goes with the bus.
lddbus == Driver(<<Get("bus", <<>>), Get("ldd0", <<"bus">>)>>, <<"ldd0", "bus">>, "none", {})

\* The driver registered on the bus stays when the devices cannot be allocated.
ldddev ==
  Driver(<<Get("region", <<>>), Try("driver"), Get("devices", <<"region">>), Try("cdevs"), Try("ldevs")>>,
         <<"ldevs", "cdevs", "devices", "driver", "region">>, "cdevs", {"devices"})

\* The cache that write() allocates from is created after the cdevs are added;
\* its failure calls scullc_cleanup.  The proc file is compiled in for debugging only.
io_lab6_aio ==
  Driver(<<Get("region", <<>>), Get("devices", <<"region">>), Try("cdevs"),
           Get("cache", <<"cdevs", "devices", "region">>)>>,
         <<"cdevs", "devices", "cache", "region">>, "cdevs", {"devices", "cache"})

io_lab4_relay == Driver(<<Try("mychan")>>, <<"mychan">>, "none", {})
dma_lab4_relay == Driver(<<Try("mychan")>>, <<"mychan">>, "none", {})

firmwareInit == <<Try("dev"), Get("fw", <<"dev">>)>>

firmware_lab1 == Driver(firmwareInit, <<"fw", "dev">>, "none", {})
devmodel_firmware_lab1 == Driver(firmwareInit, <<"fw", "dev">>, "none", {})

hardware_delay_test == Driver(<<Get("ports", <<>>)>>, <<"ports">>, "none", {})
hardware_lab2_region == Driver(<<Get("ports", <<>>)>>, <<"ports">>, "none", {})
hardware_lab2_resource == Driver(<<Get("ports", <<>>)>>, <<"ports">>, "none", {})
hardware_lab3_map == Driver(<<Get("ports", <<>>), Try("mapped")>>, <<"ports", "mapped">>, "none", {})

usb_lab1 == Driver(<<Get("usb", <<>>)>>, <<"usb">>, "none", {})
usb_lab2_notifier == Driver(<<Sure("notify")>>, <<"notify">>, "none", {})
usb_lab3_notifier == Driver(<<Get("notify", <<>>)>>, <<"notify">>, "none", {})
misc_lab1_cpufreq == Driver(<<Try("transition"), Try("policy")>>, <<"transition", "policy">>, "none", {})

\* An entry that cannot be allocated leaves the earlier ones in the list.
listInit == <<Get("e1", <<>>), Get("e2", <<>>), Get("e3", <<>>), Get("e4", <<>>), Get("e5", <<>>)>>

listExit == <<"e5", "e4", "e3", "e2", "e1">>

data_lab3_list == Driver(listInit, listExit, "none", {})
facilities_lab1_list == Driver(listInit, listExit, "none", {})

-----------------------------------------------------------------------------
\* Drivers that do the same are one element.
Drivers ==
  {char_lab1, char_lab2, char_lab3, char_lab4, char_lab5, char_lab6, io_lab3_mmap,
   memory_lab2_cache, sync_lab3_spinlock, sync_lab4_completion, defer_lab1_timer,
   defer_lab2_tasklet, defer_lab3_workqueue, ioctl_lab7_sleepy, debug_lab12_faulty,
   hardware_lab5_silly, lab_char, memory_lab1_cache, hardware_lab2_memory,
   misc_completion_dyn, misc_wait_queue_dyn, misc_wat_queu_stat, misc_completion_static,
   misc_interrupt_soft, hardware_lab4_full_mouse, hardware_lab4_serial, lab_miscdev,
   lab3_workqueue_newapi, lab3_workqueue_private, lab9_uio, lab10_uio_api, lab1_interrupt,
   lab2_interrupt, lab3_tasklet, lab_one_interrupt, lab3_workqueue, lab4_one_workqueue,
   lab4_one_thread, lab5_one_thread_improved, lab_all_interrupt, lab6_all_thread,
   lab6_all_workqueue, block_lab2, block_sbd, network_lab1, network_lab3,
   network_lab3_simple, network_lab4, tiny_serial, tiny_tty, debug_lab2_procfs,
   debug_lab3_seqfile, lab6_proc_solA, lab6_proc_solB, lab7_proc_sig_solA,
   lab7_proc_sig_solB, lab5_proc, lab8_seqfile, lab11_seq, lab13_busy, lab10_procfs,
   timers_lab8_jiq, timers_lab9_jit, debug_lab4_debugfs, lab4_debugfs, debug_lab5_kprobes,
   lab1_kprobes, lab3_probe_module, debug_lab6_jprobes, lab2_jprobes, timers_lab6_kprobes,
   lddbus, ldddev, io_lab6_aio, io_lab4_relay, firmware_lab1, devmodel_firmware_lab1,
   hardware_delay_test, hardware_lab2_region, hardware_lab2_resource, hardware_lab3_map,
   usb_lab1, usb_lab2_notifier, usb_lab3_notifier, misc_lab1_cpufreq, data_lab3_list,
   facilities_lab1_list, dma_lab4_relay, timers_lab_char, memory_lab_char, io_lab_char,
   interrupts_lab_char, dma_lab_char, timers_lab_miscdev, io_lab_miscdev,
   interrupts_lab_miscdev, dma_lab_miscdev, debug_lab_miscdev}

\* Drivers whose file_operations have no .owner, so that an open file does not keep
\* the module loaded.  Their exit function ends with class_unregister and
\* class_destroy.
Unowned ==
  {char_lab1, char_lab2, char_lab3, char_lab4, char_lab5, char_lab6, io_lab3_mmap,
   memory_lab2_cache, sync_lab3_spinlock, sync_lab4_completion, defer_lab1_timer,
   defer_lab2_tasklet, defer_lab3_workqueue}
=============================================================================
