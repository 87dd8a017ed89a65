-------------------------- MODULE InterruptsProofs --------------------------
(***************************************************************************)
(* The bottom halves other than the thread, for any number of interrupts,  *)
(* lines, readers and producers: tasklets and work items (OneDeferred),    *)
(* the threaded handler (ThreadedIrq), an item that is handed a datum      *)
(* (Deferral), user space (UioEvents) and the handlers on all lines        *)
(* (AllIrqs).  They are the instances that MCInterrupts checks, with the   *)
(* constants left open.                                                    *)
(***************************************************************************)
EXTENDS MCInterrupts, OneThreadProofs, FiniteSetTheorems

-----------------------------------------------------------------------------
(* OneDeferred                                                             *)

DeferredTypes ==
  /\ d_driver \in {"static", "catchup", "dynamic"}
  /\ d_mod \in {"none", "loaded", "failed", "exit", "unloaded"}
  /\ d_hpc \in {"idle", "nevents", "schedule"} /\ d_bpc \in {"idle", "run", "bh", "dec"}
  /\ d_pending \in Nat /\ d_active \in Nat
  /\ d_nevents \in Nat /\ d_th \in Nat /\ d_bh \in Nat

\* Each solution uses its own part of the state only, and my_generic_init clears
\* counters that nobody has touched.
DeferredParts ==
  /\ d_driver = "catchup" => d_active = 0
  /\ d_driver # "catchup" => d_bpc = "idle" /\ d_hpc # "nevents"
  /\ d_mod = "none" => /\ d_hpc = "idle" /\ d_bpc = "idle" /\ d_pending = 0 /\ d_active = 0
                       /\ d_nevents = 0 /\ d_th = 0 /\ d_bh = 0

\* The three alternatives of EventsAccounted.
DeferredCount ==
  /\ d_driver = "catchup" =>
       /\ d_bh + d_nevents + (IF d_hpc = "nevents" THEN 1 ELSE 0)
            = d_th + (IF d_bpc = "dec" THEN 1 ELSE 0)
       /\ d_bpc \in {"bh", "dec"} => d_nevents > 0
  /\ d_driver = "dynamic" => d_bh + d_pending + d_active + Deferred!InHandler = d_th
  /\ d_driver = "static" => d_bh + d_pending + d_active + Deferred!InHandler <= d_th

DeferredInv == DeferredTypes /\ DeferredParts /\ DeferredCount

LEMMA DeferredInvariance == Deferred!Spec => []DeferredInv
<1> USE InterruptsAssumption DEF DeferredInv, DeferredTypes, DeferredParts, DeferredCount,
                                 Deferred!InHandler
<1>1. Deferred!Init => DeferredInv
  BY DEF Deferred!Init
<1>2. DeferredInv /\ [Deferred!Next]_deferredVars => DeferredInv'
  <2> SUFFICES ASSUME DeferredInv, [Deferred!Next]_deferredVars PROVE DeferredInv'
    OBVIOUS
  <2>1. CASE Deferred!Interrupt
    BY <2>1 DEF Deferred!Interrupt
  <2>2. CASE Deferred!InterruptEvent
    BY <2>2 DEF Deferred!InterruptEvent
  <2>3. CASE Deferred!InterruptSchedule
    BY <2>3 DEF Deferred!InterruptSchedule
  <2>4. CASE Deferred!Start
    BY <2>4 DEF Deferred!Start
  <2>5. CASE Deferred!Count
    BY <2>5 DEF Deferred!Count
  <2>6. CASE Deferred!RunCheck \/ Deferred!RunBh
    BY <2>6 DEF Deferred!RunCheck, Deferred!RunBh
  <2>7. CASE Deferred!RunDec
    BY <2>7 DEF Deferred!RunDec
  <2>8. CASE Deferred!Load
    BY <2>8 DEF Deferred!Load
  <2>9. CASE Deferred!Exit \/ Deferred!ExitFree
    BY <2>9 DEF Deferred!Exit, Deferred!ExitFree
  <2>10. CASE UNCHANGED deferredVars
    BY <2>10 DEF deferredVars
  <2> QED BY <2>1, <2>2, <2>3, <2>4, <2>5, <2>6, <2>7, <2>8, <2>9, <2>10
          DEF Deferred!Next, Deferred!Handler, Deferred!Item
<1> QED BY <1>1, <1>2, PTL DEF Deferred!Spec, Deferred!vars, deferredVars

\* t_fun and w_fun: each interrupt of my_interrupt is in nevents, in an item that is
\* queued or runs, or handled once; only the solutions with one item merge events.
LEMMA ItemsAccounted == Deferred!Spec => []Deferred!EventsAccounted
<1>1. DeferredInv => Deferred!EventsAccounted
  BY DEF DeferredInv, DeferredTypes, DeferredCount, Deferred!EventsAccounted, Deferred!InHand
<1> QED BY <1>1, DeferredInvariance, PTL

\* Whoever will look at nevents
SomebodyComes == d_hpc = "schedule" \/ d_pending > 0 \/ d_bpc # "idle"

\* lab5_one_tasklet_improved.c: an event in nevents always has somebody who will come for
\* it, my_interrupt about to schedule the tasklet, the tasklet pending, or t_fun running.
\* An event that arrives after the last atomic_dec_and_test is not left behind.
THEOREM EventsNotLeftBehind == Deferred!Spec => [](d_nevents > 0 => SomebodyComes)
<1> DEFINE Inv == d_nevents > 0 => d_driver = "catchup" /\ SomebodyComes
<1>1. Deferred!Init => Inv
  BY DEF Deferred!Init
<1>2. DeferredInv /\ Inv /\ [Deferred!Next]_deferredVars => Inv'
  <2> SUFFICES ASSUME DeferredInv, Inv, [Deferred!Next]_deferredVars PROVE Inv'
    OBVIOUS
  <2> USE DEF DeferredInv, DeferredTypes, DeferredParts, SomebodyComes
  <2>1. CASE Deferred!Interrupt \/ Deferred!Handler
    BY <2>1 DEF Deferred!Interrupt, Deferred!Handler, Deferred!InterruptEvent,
                Deferred!InterruptSchedule
  <2>2. CASE Deferred!Start
    BY <2>2 DEF Deferred!Start
  <2>3. CASE Deferred!Count
    BY <2>3 DEF Deferred!Count
  <2>4. CASE Deferred!RunCheck \/ Deferred!RunBh \/ Deferred!RunDec
    BY <2>4 DEF Deferred!RunCheck, Deferred!RunBh, Deferred!RunDec
  <2>5. CASE Deferred!Load \/ Deferred!Exit \/ Deferred!ExitFree \/ UNCHANGED deferredVars
    BY <2>5 DEF Deferred!Load, Deferred!Exit, Deferred!ExitFree, deferredVars
  <2> QED BY <2>1, <2>2, <2>3, <2>4, <2>5 DEF Deferred!Next, Deferred!Item
<1> QED BY <1>1, <1>2, DeferredInvariance, PTL DEF Deferred!Spec, Deferred!vars, deferredVars

\* Only my_interrupt raises, and t_fun or w_fun runs for an interrupt that was raised:
\* an item whose function runs stands for one that nobody has handled.
LEMMA DeferredRefinement == Deferred!Spec => DeferredBH!Spec
<1>1. Deferred!Init => DeferredBH!Init
  BY DEF Deferred!Init, DeferredBH!Init
<1>2. DeferredInv /\ [Deferred!Next]_deferredVars => [DeferredBH!Next]_<<d_th, d_bh>>
  <2> SUFFICES ASSUME DeferredInv, [Deferred!Next]_deferredVars
               PROVE  [DeferredBH!Next]_<<d_th, d_bh>>
    OBVIOUS
  <2> USE DEF DeferredInv, DeferredTypes, DeferredParts, DeferredCount, Deferred!InHandler
  <2>1. CASE Deferred!Interrupt
    BY <2>1 DEF Deferred!Interrupt, DeferredBH!Next, DeferredBH!Raise
  <2>2. CASE Deferred!Count
    <3>1. d_bh < d_th /\ d_bh' = d_bh + 1 /\ d_th' = d_th
      BY <2>2 DEF Deferred!Count
    <3> QED BY <3>1 DEF DeferredBH!Next, DeferredBH!Handle
  <2>3. CASE Deferred!RunBh
    <3>1. d_bh < d_th /\ d_bh' = d_bh + 1 /\ d_th' = d_th
      BY <2>3 DEF Deferred!RunBh
    <3> QED BY <3>1 DEF DeferredBH!Next, DeferredBH!Handle
  <2>4. CASE Deferred!Load
    BY <2>4 DEF Deferred!Load
  <2>5. CASE \/ Deferred!Handler \/ Deferred!Start \/ Deferred!RunCheck \/ Deferred!RunDec
             \/ Deferred!Exit \/ Deferred!ExitFree \/ UNCHANGED deferredVars
    <3>1. UNCHANGED <<d_th, d_bh>>
      BY <2>5 DEF Deferred!Handler, Deferred!InterruptEvent, Deferred!InterruptSchedule, Deferred!Start,
                  Deferred!RunCheck, Deferred!RunDec, Deferred!Exit, Deferred!ExitFree, deferredVars
    <3> QED BY <3>1
  <2> QED BY <2>1, <2>2, <2>3, <2>4, <2>5 DEF Deferred!Next, Deferred!Item
<1> QED BY <1>1, <1>2, DeferredInvariance, PTL
        DEF Deferred!Spec, Deferred!vars, deferredVars, DeferredBH!Spec

-----------------------------------------------------------------------------
(* A driver of any kind as MCInterrupts runs it                            *)

\* A step of MCInterrupts is one of the kind that is loaded and none of the others.
LEMMA OneKindSteps ==
  MCSpec => Spec /\ Deferred!Spec
<1>1. MCInit => Init /\ Deferred!Init
  BY DEF MCInit
<1> DEFINE all == <<bottom_half, vars, deferredVars, threadedVars, allVars, itemVars, uioVars>>
<1>2. [MCNext]_all => [Next]_vars /\ [Deferred!Next]_deferredVars
  BY DEF MCNext
<1> QED BY <1>1, <1>2, PTL DEF MCSpec, Spec, Deferred!Spec, Deferred!vars, deferredVars

\* Whichever bottom half is loaded, a thread (lab5), a tasklet or a work item: every
\* interrupt that was counted is still to be handled or has been handled once.
THEOREM EventsAlwaysCounted == MCSpec => []EventsCounted
<1>1. EventsConserved /\ Deferred!EventsAccounted => EventsCounted
  BY DEF EventsCounted
<1> QED BY <1>1, OneKindSteps, EventsNeverLost, ItemsAccounted, PTL

\* The thread solutions, the tasklets and the work items implement the abstract bottom
\* half, for any number of interrupts: each step is a raise, a handling of one raised
\* event, or does not show.
THEOREM BottomHalvesImplement == MCSpec => ImplementBottomHalf
  BY OneKindSteps, Refinement, DeferredRefinement, PTL DEF ImplementBottomHalf

-----------------------------------------------------------------------------
(* ThreadedIrq                                                             *)

\* thread_fun: an event that my_interrupt has put into nevents always has somebody
\* who will take it, also one that arrives while the last atomic_dec_and_test runs.
THEOREM NoneStranded == Threaded!Spec => []NoEventStranded
<1> USE DEF NoEventStranded, Threaded!NoEventStranded
<1>1. Threaded!Init => NoEventStranded
  BY DEF Threaded!Init
<1>2. NoEventStranded /\ [Threaded!Next]_threadedVars => NoEventStranded'
  <2> SUFFICES ASSUME NoEventStranded, [Threaded!Next]_threadedVars PROVE NoEventStranded'
    OBVIOUS
  <2>1. CASE Threaded!Interrupt \/ Threaded!Handler
    BY <2>1 DEF Threaded!Interrupt, Threaded!Handler, Threaded!InterruptEvent,
                Threaded!InterruptWake
  <2>2. CASE Threaded!Thread
    BY <2>2 DEF Threaded!Thread, Threaded!ThreadStart, Threaded!ThreadBh, Threaded!ThreadDec
  <2>3. CASE Threaded!Load \/ Threaded!Exit \/ Threaded!Loader
    BY <2>3 DEF Threaded!Load, Threaded!Exit, Threaded!Loader, Threaded!ExitSync,
                Threaded!ExitFree, Threaded!ExitStop
  <2>4. CASE UNCHANGED threadedVars
    BY <2>4 DEF threadedVars
  <2> QED BY <2>1, <2>2, <2>3, <2>4 DEF Threaded!Next
<1> QED BY <1>1, <1>2, PTL DEF Threaded!Spec, Threaded!vars, threadedVars
-----------------------------------------------------------------------------
(* Deferral                                                                *)

ItemTypes ==
  /\ f_ppc \in [Producers -> {"out", "store", "queue"}]
  /\ f_datum \in Nat /\ f_due \in Nat /\ f_seen \in Nat
  /\ f_pending \in BOOLEAN /\ f_active \in BOOLEAN
  /\ f_due <= f_datum
  /\ f_mod = "irq" => f_kind = "workqueue"

\* What was stored before the last schedule was found, or a run is to come.
FoundDue == ~f_pending /\ ~f_active => f_seen >= f_due

\* Who stores first has still to queue the item, or the item is queued or runs, as
\* long as its last run has not found the last datum.
FoundLast ==
  f_kind \in OneItem!StoresFirst /\ ~f_pending /\ ~f_active
    /\ (\A p \in Producers : f_ppc[p] # "queue") => f_seen = f_datum

ItemInv == ItemTypes /\ FoundDue /\ FoundLast

LEMMA ItemStep ==
  ASSUME ItemInv, OneItem!Next
  PROVE  ItemInv'
<1> USE DEF ItemInv, ItemTypes, FoundDue, FoundLast
<1>1. CASE OneItem!Load
  <2>1. f_pending' \in BOOLEAN
    BY <1>1, Zenon DEF OneItem!Load
  <2>2. CASE f_kind = "load"
    BY <1>1, <2>1, <2>2 DEF OneItem!Load
  <2>3. CASE f_kind # "load"
    BY <1>1, <2>1, <2>3 DEF OneItem!Load
  <2> QED BY <2>2, <2>3
<1>2. CASE OneItem!LoadInitWork \/ OneItem!ExitStart \/ OneItem!ExitEnd
  BY <1>2 DEF OneItem!LoadInitWork, OneItem!ExitStart, OneItem!ExitEnd
<1>3. ASSUME NEW p \in Producers, OneItem!Enter(p) PROVE ItemInv'
  BY <1>3 DEF OneItem!Enter
<1>4. ASSUME NEW p \in Producers, OneItem!Store(p) PROVE ItemInv'
  <2>1. ItemTypes' /\ FoundDue'
    BY <1>4 DEF OneItem!Store
  <2>2. f_kind \in OneItem!StoresFirst => f_ppc'[p] = "queue" /\ f_kind' = f_kind
    BY <1>4 DEF OneItem!Store
  <2> QED BY <1>4, <2>1, <2>2 DEF OneItem!Store
<1>5. ASSUME NEW p \in Producers, OneItem!Queue(p) PROVE ItemInv'
  <2>1. CASE f_mod = "irq"
    BY <1>5, <2>1 DEF OneItem!Queue, OneItem!StoresFirst
  <2>2. CASE f_mod # "irq"
    BY <1>5, <2>2 DEF OneItem!Queue
  <2> QED BY <2>1, <2>2
<1>6. CASE OneItem!ItemStart
  BY <1>6 DEF OneItem!ItemStart
<1>7. CASE OneItem!ItemRun
  BY <1>7 DEF OneItem!ItemRun
<1> QED BY <1>1, <1>2, <1>3, <1>4, <1>5, <1>6, <1>7 DEF OneItem!Next, OneItem!Item

\* The item of a handler or of a write(), for any number of producers: once nothing is
\* under way its last run has found all that was stored before the item was last
\* scheduled, and the last datum where the store comes first.  (A schedule of
\* lab3_workqueue.c that comes before INIT_WORK is refused and asks for no run.)
THEOREM LatestSeen == OneItem!Spec => []SeesLatest
<1>1. OneItem!Init => ItemInv
  <2> SUFFICES ASSUME OneItem!Init PROVE ItemInv
    OBVIOUS
  <2>1. f_pending \in BOOLEAN /\ f_active \in BOOLEAN
    BY Zenon DEF OneItem!Init
  <2> QED BY <2>1 DEF OneItem!Init, ItemInv, ItemTypes, FoundDue, FoundLast
<1>2. ItemInv /\ [OneItem!Next]_itemVars => ItemInv'
  <2>1. CASE UNCHANGED itemVars
    BY <2>1 DEF itemVars, ItemInv, ItemTypes, FoundDue, FoundLast
  <2> QED BY <2>1, ItemStep
<1>3. ItemInv => SeesLatest
  BY DEF ItemInv, ItemTypes, FoundDue, FoundLast, SeesLatest, OneItem!SeesLatest
<1> QED BY <1>1, <1>2, <1>3, PTL DEF OneItem!Spec, OneItem!vars, itemVars
-----------------------------------------------------------------------------
(* UioEvents                                                               *)

ReaderPC == {"closed", "user", "wait", "load", "sub", "copy"}

UioTypes ==
  /\ u_mod \in {"out", "irq", "live", "gone"}
  /\ u_rpc \in [Readers -> ReaderPC] /\ u_nev \in [Readers -> Int]
  /\ u_nevents \in Int /\ u_raised \in Int /\ u_taken \in Int /\ u_given \in Int
  /\ u_shared \in BOOLEAN

\* Nobody can take what was counted before the counter was set to 0.
UioEarly ==
  u_mod \in {"out", "irq"} =>
    u_taken = 0 /\ u_given = 0 /\ \A r \in Readers : u_rpc[r] = "closed"

\* A reader that has loaded the number is alone, and finds at least as many events
\* when it subtracts it.
UioAlone ==
  /\ u_nevents >= 0
  /\ \A r \in Readers : u_rpc[r] = "sub" => u_nev[r] \in 0..u_nevents
  /\ \A r, q \in Readers : u_rpc[r] = "sub" /\ u_rpc[q] = "sub" => r = q

\* Number the events taken: those given to user space, and those that a reader has
\* taken and not yet copied, can be told apart.  (`given' and the numbers of all
\* readers that copy have no more than `taken' as their sum.)
UioOwned(given, own) ==
  /\ given \in SUBSET (1..u_taken) /\ Cardinality(given) = u_given
  /\ own \in [Readers -> SUBSET (1..u_taken)]
  /\ \A r \in Readers :
       u_rpc[r] = "copy" => Cardinality(own[r]) = u_nev[r] /\ own[r] \cap given = {}
  /\ \A r, q \in Readers :
       u_rpc[r] = "copy" /\ u_rpc[q] = "copy" /\ r # q => own[r] \cap own[q] = {}

\* What poll has announced is there until the reader itself, or another one, takes it.
UioPolled ==
  \A r \in Readers : r \in u_ready =>
    u_rpc[r] # "closed" /\ (u_rpc[r] \in {"user", "wait"} => u_nevents > 0)

UioInv ==
  /\ u_ready \subseteq Readers /\ UioTypes /\ UioEarly /\ UioPolled
  /\ u_nevents + u_taken = u_raised
  /\ ~u_shared => /\ UioAlone
                  /\ u_taken \in Nat
                  /\ \E given, own : UioOwned(given, own)

UioMoves(r) == UserSpace!Open(r) \/ UserSpace!Release(r) \/ UserSpace!mycdrv_poll(r)
               \/ UserSpace!ReadStart(r) \/ UserSpace!ReadSignal(r) \/ UserSpace!ReadWoken(r)

LEMMA UioPolledStep ==
  ASSUME UioInv, UserSpace!Next
  PROVE  UioPolled' /\ u_ready' \subseteq Readers
<1> USE DEF UioInv, UioTypes, UioEarly, UioPolled, ReaderPC
<1>1. CASE UserSpace!Load \/ UserSpace!LoadReset \/ UserSpace!Exit \/ UserSpace!Interrupt
  BY <1>1 DEF UserSpace!Load, UserSpace!LoadReset, UserSpace!Exit, UserSpace!Interrupt
<1>2. ASSUME NEW r \in Readers, UioMoves(r) PROVE UioPolled' /\ u_ready' \subseteq Readers
  <2>1. CASE UserSpace!mycdrv_poll(r)
    <3>1. CASE u_nevents > 0
      BY <2>1, <3>1 DEF UserSpace!mycdrv_poll
    <3>2. CASE ~(u_nevents > 0)
      BY <2>1, <3>2 DEF UserSpace!mycdrv_poll
    <3> QED BY <3>1, <3>2
  <2>2. CASE UserSpace!Open(r)
    <3>1. u_ready' = u_ready /\ u_nevents' = u_nevents /\ r \notin u_ready
      BY <2>2 DEF UserSpace!Open
    <3>2. \A q \in Readers \ {r} : u_rpc'[q] = u_rpc[q]
      BY <2>2 DEF UserSpace!Open
    <3> QED BY <3>1, <3>2
  <2>3. CASE UserSpace!Release(r)
    BY <2>3 DEF UserSpace!Release
  <2>4. CASE UserSpace!ReadStart(r) \/ UserSpace!ReadWoken(r)
    BY <2>4 DEF UserSpace!ReadStart, UserSpace!ReadWoken
  <2>5. CASE UserSpace!ReadSignal(r)
    BY <2>5 DEF UserSpace!ReadSignal
  <2> QED BY <1>2, <2>1, <2>2, <2>3, <2>4, <2>5 DEF UioMoves
<1>3. ASSUME NEW r \in Readers,
             UserSpace!ReadLoad(r) \/ UserSpace!ReadSub(r) \/ UserSpace!ReadCopy(r)
      PROVE  UioPolled' /\ u_ready' \subseteq Readers
  BY <1>3 DEF UserSpace!ReadLoad, UserSpace!ReadSub, UserSpace!ReadCopy
<1> QED BY <1>1, <1>2, <1>3 DEF UserSpace!Next, UioMoves

LEMMA UioTypesStep ==
  ASSUME UioInv, UserSpace!Next
  PROVE  UioTypes' /\ UioEarly' /\ u_nevents' + u_taken' = u_raised'
<1> USE DEF UioInv, UioTypes, UioEarly, ReaderPC
<1>1. CASE UserSpace!Load \/ UserSpace!LoadReset \/ UserSpace!Exit \/ UserSpace!Interrupt
  BY <1>1 DEF UserSpace!Load, UserSpace!LoadReset, UserSpace!Exit, UserSpace!Interrupt
<1>2. ASSUME NEW r \in Readers, UioMoves(r)
      PROVE  UioTypes' /\ UioEarly' /\ u_nevents' + u_taken' = u_raised'
  BY <1>2 DEF UioMoves, UserSpace!Open, UserSpace!Release, UserSpace!mycdrv_poll,
              UserSpace!ReadStart, UserSpace!ReadSignal, UserSpace!ReadWoken
<1>3. ASSUME NEW r \in Readers, UserSpace!ReadLoad(r)
      PROVE  UioTypes' /\ UioEarly' /\ u_nevents' + u_taken' = u_raised'
  <2>1. u_shared' \in BOOLEAN
    BY <1>3, Zenon DEF UserSpace!ReadLoad
  <2> QED BY <1>3, <2>1 DEF UserSpace!ReadLoad
<1>4. ASSUME NEW r \in Readers, UserSpace!ReadSub(r) \/ UserSpace!ReadCopy(r)
      PROVE  UioTypes' /\ UioEarly' /\ u_nevents' + u_taken' = u_raised'
  BY <1>4 DEF UserSpace!ReadSub, UserSpace!ReadCopy
<1> QED BY <1>1, <1>2, <1>3, <1>4 DEF UserSpace!Next, UioMoves

\* Steps that do not change what a reader has taken, nor who copies.
LEMMA UioOwnedKept ==
  ASSUME NEW given, NEW own, UioOwned(given, own), u_taken' = u_taken, u_given' = u_given,
         \A r \in Readers : u_rpc'[r] = "copy" => u_rpc[r] = "copy" /\ u_nev'[r] = u_nev[r]
  PROVE  UioOwned(given, own)'
BY DEF UioOwned

\* The n numbers after m.
LEMMA NextNumbers ==
  ASSUME NEW m \in Nat, NEW n \in Nat
  PROVE  Cardinality((m + 1)..(m + n)) = n
<1> DEFINE a == m + 1
           b == m + n
<1>1. a \in Int /\ b \in Int /\ (a > b <=> n = 0) /\ b - a + 1 = n
  OBVIOUS
<1> HIDE DEF a, b
<1>2. Cardinality(a..b) = IF a > b THEN 0 ELSE b - a + 1
  BY <1>1, FS_Interval
<1> QED BY <1>1, <1>2 DEF a, b

LEMMA UioStep ==
  ASSUME UioInv, UserSpace!Next, ~u_shared'
  PROVE  UioAlone' /\ u_taken' \in Nat /\ \E given, own : UioOwned(given, own)'
<1>1. ~u_shared
  BY DEF UserSpace!Next, UserSpace!Load, UserSpace!LoadReset, UserSpace!Exit,
         UserSpace!Interrupt, UserSpace!Open, UserSpace!Release, UserSpace!mycdrv_poll,
         UserSpace!ReadStart, UserSpace!ReadSignal, UserSpace!ReadWoken, UserSpace!ReadLoad,
         UserSpace!ReadSub, UserSpace!ReadCopy
<1>2. PICK given, own : UioOwned(given, own)
  BY <1>1 DEF UioInv
<1> USE <1>1 DEF UioInv, UioTypes, UioEarly, UioAlone, ReaderPC
<1>3. CASE UserSpace!Load \/ UserSpace!LoadReset \/ UserSpace!Exit \/ UserSpace!Interrupt
  <2>1. UioAlone' /\ u_taken' \in Nat
    BY <1>3 DEF UserSpace!Load, UserSpace!LoadReset, UserSpace!Exit, UserSpace!Interrupt
  <2>2. UNCHANGED <<u_taken, u_given, u_rpc, u_nev>>
    BY <1>3 DEF UserSpace!Load, UserSpace!LoadReset, UserSpace!Exit, UserSpace!Interrupt
  <2> QED BY <1>2, <2>1, <2>2, UioOwnedKept
<1>4. ASSUME NEW r \in Readers, UioMoves(r)
      PROVE  UioAlone' /\ u_taken' \in Nat /\ \E g, o : UioOwned(g, o)'
  <2> USE <1>4 DEF UioMoves, UserSpace!Open, UserSpace!Release, UserSpace!mycdrv_poll,
                   UserSpace!ReadStart, UserSpace!ReadSignal, UserSpace!ReadWoken
  <2>1. UioAlone' /\ u_taken' \in Nat
    OBVIOUS
  <2>2. /\ UNCHANGED <<u_taken, u_given, u_nev>>
        /\ \A q \in Readers : u_rpc'[q] = "copy" => u_rpc[q] = "copy"
    OBVIOUS
  <2> QED BY <1>2, <2>1, <2>2, UioOwnedKept
<1>5. ASSUME NEW r \in Readers, UserSpace!ReadLoad(r)
      PROVE  UioAlone' /\ u_taken' \in Nat /\ \E g, o : UioOwned(g, o)'
  <2>1. \A q \in Readers \ {r} : u_rpc[q] # "sub"
    BY <1>5 DEF UserSpace!ReadLoad
  <2>2. UioAlone' /\ u_taken' \in Nat
    BY <1>5, <2>1 DEF UserSpace!ReadLoad
  <2>3. /\ UNCHANGED <<u_taken, u_given>>
        /\ \A q \in Readers : u_rpc'[q] = "copy" => u_rpc[q] = "copy" /\ u_nev'[q] = u_nev[q]
    BY <1>5 DEF UserSpace!ReadLoad
  <2> QED BY <1>2, <2>2, <2>3, UioOwnedKept
<1>6. ASSUME NEW r \in Readers, UserSpace!ReadSub(r)
      PROVE  UioAlone' /\ u_taken' \in Nat /\ \E g, o : UioOwned(g, o)'
  <2> DEFINE n == u_nev[r]
             mine == (u_taken + 1)..(u_taken + n)
  <2>0. PICK newown : newown = [own EXCEPT ![r] = mine]
    OBVIOUS
  <2>1. n \in Nat /\ n <= u_nevents /\ u_taken' = u_taken + n
    BY <1>6 DEF UserSpace!ReadSub
  <2>2. UioAlone' /\ u_taken' \in Nat
    BY <1>6, <2>1 DEF UserSpace!ReadSub
  <2>3. Cardinality(mine) = n
    <3> HIDE DEF n
    <3> QED BY <2>1, NextNumbers
  <2>4. mine \subseteq 1..u_taken' /\ mine \cap (1..u_taken) = {} /\ 1..u_taken \subseteq 1..u_taken'
    BY <2>1
  <2>5. UNCHANGED <<u_given, u_nev>> /\ u_rpc' = [u_rpc EXCEPT ![r] = "copy"]
    BY <1>6 DEF UserSpace!ReadSub
  <2> HIDE DEF mine, n
  <2>6. newown \in [Readers -> SUBSET (1..u_taken')] /\ given \in SUBSET (1..u_taken')
    BY <1>2, <2>0, <2>4 DEF UioOwned
  <2>7. newown[r] = mine /\ \A q \in Readers \ {r} : newown[q] = own[q]
    BY <1>2, <2>0 DEF UioOwned
  <2>8. mine \cap given = {} /\ \A q \in Readers : mine \cap own[q] = {}
    BY <1>2, <2>4 DEF UioOwned
  <2>9. UioOwned(given, newown)'
    <3>1. Cardinality(given) = u_given'
      BY <1>2, <2>5 DEF UioOwned
    <3>2. ASSUME NEW q \in Readers, u_rpc'[q] = "copy"
          PROVE  Cardinality(newown[q]) = u_nev'[q] /\ newown[q] \cap given = {}
      <4>1. CASE q = r
        BY <2>3, <2>5, <2>7, <2>8, <4>1 DEF n
      <4>2. CASE q # r
        BY <1>2, <2>5, <2>7, <3>2, <4>2 DEF UioOwned
      <4> QED BY <4>1, <4>2
    <3>3. ASSUME NEW q \in Readers, NEW s \in Readers,
                 u_rpc'[q] = "copy", u_rpc'[s] = "copy", q # s
          PROVE  newown[q] \cap newown[s] = {}
      BY <1>2, <2>5, <2>7, <2>8, <3>3 DEF UioOwned
    <3>4. \A q \in Readers : u_rpc'[q] = "copy" =>
            Cardinality(newown[q]) = u_nev'[q] /\ newown[q] \cap given = {}
      BY <3>2
    <3>5. \A q, s \in Readers : u_rpc'[q] = "copy" /\ u_rpc'[s] = "copy" /\ q # s
            => newown[q] \cap newown[s] = {}
      BY <3>3
    <3> QED BY <2>6, <3>1, <3>4, <3>5 DEF UioOwned
  <2> QED BY <2>2, <2>9
<1>7. ASSUME NEW r \in Readers, UserSpace!ReadCopy(r)
      PROVE  UioAlone' /\ u_taken' \in Nat /\ \E g, o : UioOwned(g, o)'
  <2>1. UioAlone' /\ u_taken' \in Nat
    BY <1>7 DEF UserSpace!ReadCopy
  <2>2. /\ u_taken' = u_taken /\ u_rpc[r] = "copy" /\ u_rpc' = [u_rpc EXCEPT ![r] = "user"]
        /\ u_nev' = [u_nev EXCEPT ![r] = 0]
    BY <1>7 DEF UserSpace!ReadCopy
  <2>3. CASE u_given' = u_given
    <3>1. \A q \in Readers : u_rpc'[q] = "copy" => u_rpc[q] = "copy" /\ u_nev'[q] = u_nev[q]
      BY <2>2
    <3> QED BY <1>2, <2>1, <2>2, <2>3, <3>1, UioOwnedKept
  <2>4. CASE u_given' = u_given + u_nev[r]
    <3> DEFINE all == given \cup own[r]
    <3>1. given \subseteq 1..u_taken /\ own[r] \subseteq 1..u_taken /\ own[r] \cap given = {}
      BY <1>2, <2>2 DEF UioOwned
    <3>2. IsFiniteSet(given) /\ IsFiniteSet(own[r])
      <4>1. u_taken \in Int /\ 1 \in Int
        OBVIOUS
      <4>2. IsFiniteSet(1..u_taken)
        BY <4>1, FS_Interval, Zenon
      <4> QED BY <3>1, <4>2, FS_Subset, Zenon
    <3>3. Cardinality(all) = Cardinality(given) + Cardinality(own[r])
      <4>1. Cardinality(given \cap own[r]) = 0
        BY <3>1, FS_EmptySet
      <4>2. Cardinality(given) \in Nat /\ Cardinality(own[r]) \in Nat
        BY <3>2, FS_CardinalityType
      <4>3. Cardinality(all) =
              Cardinality(given) + Cardinality(own[r]) - Cardinality(given \cap own[r])
        BY <3>2, FS_Union, Zenon
      <4> QED BY <4>1, <4>2, <4>3
    <3>4. Cardinality(all) = u_given' /\ all \in SUBSET (1..u_taken')
      BY <1>2, <2>2, <2>4, <3>1, <3>3 DEF UioOwned
    <3>5. \A q \in Readers : u_rpc'[q] = "copy" =>
            q # r /\ u_rpc[q] = "copy" /\ u_nev'[q] = u_nev[q] /\ own[q] \cap all = {}
      BY <1>2, <2>2 DEF UioOwned
    <3> HIDE DEF all
    <3>6. UioOwned(all, own)'
      BY <1>2, <2>2, <3>4, <3>5 DEF UioOwned
    <3> QED BY <2>1, <3>6
  <2> QED BY <1>7, <2>3, <2>4 DEF UserSpace!ReadCopy
<1> QED BY <1>3, <1>4, <1>5, <1>6, <1>7 DEF UserSpace!Next, UioMoves

\* mycdrv_read of lab9_uio.c, for any number of readers: every event since the counter
\* was set to 0 is in nevents or was taken; unless a reader has loaded what another
\* had loaded and not yet subtracted none was taken twice, and user space was not told
\* of more events than there were; and only readers take what poll has announced.
THEOREM TakenOnce == UserSpace!Spec => []EventsTakenOnce
<1>1. UserSpace!Init => UioInv
  <2> SUFFICES ASSUME UserSpace!Init PROVE UioInv
    OBVIOUS
  <2>0. u_shared \in BOOLEAN
    BY Zenon DEF UserSpace!Init
  <2>1. UioTypes /\ UioEarly /\ UioPolled /\ u_nevents + u_taken = u_raised /\ u_taken \in Nat
    BY <2>0 DEF UserSpace!Init, UioTypes, UioEarly, UioPolled, ReaderPC
  <2>3. UioAlone
    BY DEF UserSpace!Init, UioAlone
  <2>2. UioOwned({}, [r \in Readers |-> {}])
    BY FS_EmptySet DEF UserSpace!Init, UioOwned
  <2>4. u_ready \subseteq Readers
    BY DEF UserSpace!Init
  <2> QED BY <2>1, <2>2, <2>3, <2>4 DEF UioInv
<1>2. UioInv /\ [UserSpace!Next]_uioVars => UioInv'
  <2>1. UioInv /\ UserSpace!Next => UioInv'
    BY UioTypesStep, UioPolledStep, UioStep DEF UioInv
  <2>2. UioInv /\ UNCHANGED uioVars => UioInv'
    BY DEF uioVars, UioInv, UioTypes, UioEarly, UioPolled, UioAlone, UioOwned
  <2> QED BY <2>1, <2>2
<1>3. UioInv => EventsTakenOnce
  <2> SUFFICES ASSUME UioInv, ~u_shared PROVE u_nevents >= 0 /\ u_given <= u_raised
    BY DEF UioInv, UioPolled, EventsTakenOnce, UserSpace!EventsTakenOnce
  <2>1. PICK given, own : UioOwned(given, own)
    BY DEF UioInv
  <2>2. u_taken \in Nat /\ IsFiniteSet(1..u_taken) /\ Cardinality(1..u_taken) = u_taken
    BY FS_Interval DEF UioInv
  <2>3. u_given <= u_taken
    <3>1. given \in SUBSET (1..u_taken) /\ Cardinality(given) = u_given
      BY <2>1 DEF UioOwned
    <3>2. Cardinality(given) <= Cardinality(1..u_taken)
      BY <2>2, <3>1, FS_Subset, Zenon
    <3> QED BY <2>2, <3>1, <3>2
  <2> QED BY <2>2, <2>3 DEF UioInv, UioTypes, UioAlone
<1> QED BY <1>1, <1>2, <1>3, PTL DEF UserSpace!Spec, UserSpace!vars, uioVars

-----------------------------------------------------------------------------
(* AllIrqs                                                                 *)

LEMMA Division ==
  ASSUME NEW a \in Int, NEW m \in Nat \ {0}
  PROVE  /\ a % m \in 0..(m - 1) /\ a \div m \in Int
         /\ a = m * (a \div m) + (a % m)
<1>1. a \div m \in Int /\ a % m \in Int
  OBVIOUS
<1>2. 0 <= a % m /\ a % m < m
  OBVIOUS
<1>3. a = m * (a \div m) + (a % m)
  OBVIOUS
<1> QED BY <1>1, <1>2, <1>3

\* Signed takes the one of x, x - 2 * Half, ... that atomic_t can hold.
LEMMA SignedStep ==
  ASSUME NEW x \in Int
  PROVE  /\ AllLines!Signed(AllLines!Signed(x) + 1) = AllLines!Signed(x + 1)
         /\ AllLines!Signed(x) \in Int
<1> Half \in Nat \ {0}
  BY InterruptsAssumption
<1> DEFINE m == 2 * Half
<1>0. m \in Nat \ {0} /\ m = Half + Half
  OBVIOUS
<1> HIDE DEF m
<1> DEFINE y == (x + Half) % m
           q == (x + Half) \div m
<1>1. y \in 0..(m - 1) /\ q \in Int /\ x + Half = m * q + y
  <2>1. x + Half \in Int
    OBVIOUS
  <2> QED BY <1>0, <2>1, Division
<1>2. AllLines!Signed(x) = y - Half
  BY DEF AllLines!Signed, m
<1>3. AllLines!Signed(x + 1) = ((x + 1 + Half) % m) - Half
  BY DEF AllLines!Signed, m
<1>4. AllLines!Signed(AllLines!Signed(x) + 1) = ((y + 1) % m) - Half
  <2>1. (y - Half) + 1 + Half = y + 1
    BY <1>0, <1>1
  <2> QED BY <1>2, <2>1 DEF AllLines!Signed, m
<1> HIDE DEF y, q
<1>5. (x + 1 + Half) % m = (y + 1) % m
  <2>1. x + 1 + Half = m * q + (y + 1)
    BY <1>1, <1>0
  <2>2. CASE y + 1 < m
    <3>1. (y + 1) % m = y + 1
      BY <1>0, <1>1, <2>2
    <3>2. (m * q + (y + 1)) % m = y + 1
      BY <1>0, <1>1, <2>2
    <3> QED BY <2>1, <3>1, <3>2
  <2>3. CASE y + 1 = m
    <3>1. (y + 1) % m = 0
      BY <1>0, <2>3
    <3>2. (m * q + (y + 1)) % m = 0
      BY <1>0, <1>1, <2>3
    <3> QED BY <2>1, <3>1, <3>2
  <2> QED BY <1>0, <1>1, <2>2, <2>3
<1> QED BY <1>0, <1>1, <1>2, <1>3, <1>4, <1>5

\* A counter that has gone up from 0 is negative only once it has passed Half.
LEMMA SignedWrapped ==
  ASSUME NEW x \in Nat
  PROVE  AllLines!Signed(0) = 0 /\ (AllLines!Signed(x) < 0 => x >= Half)
<1> Half \in Nat \ {0}
  BY InterruptsAssumption
<1>1. \A z \in 0..(Half - 1) : (z + Half) % (2 * Half) = z + Half
  OBVIOUS
<1>2. \A z \in 0..(Half - 1) : AllLines!Signed(z) = z
  BY <1>1 DEF AllLines!Signed
<1> QED BY <1>2

LEMMA FirstLine == AllLines!First = 0 /\ Lines \subseteq Nat
<1>0. IsFiniteSet(Lines) /\ 0 \in Lines /\ Lines = 0..(Cardinality(Lines) - 1)
  BY InterruptsAssumption
<1>1. Cardinality(Lines) \in Nat
  BY <1>0, FS_CardinalityType
<1> DEFINE n == Cardinality(Lines)
<1>2. n \in Nat /\ Lines = 0..(n - 1)
  BY <1>0, <1>1
<1> HIDE DEF n
<1>3. \A m \in Lines : m \in Nat /\ 0 <= m
  BY <1>2
<1>4. \E l \in Lines : \A m \in Lines : l <= m
  BY <1>0, <1>3
<1>5. AllLines!First \in Lines /\ \A m \in Lines : AllLines!First <= m
  BY <1>4 DEF AllLines!First
<1> QED BY <1>0, <1>3, <1>5

\* The lines come one after the other.
LEMMA LineOrder ==
  ASSUME NEW k \in Lines, k + 1 \notin Lines
  PROVE  \A l \in Lines : l <= k
<1>1. Cardinality(Lines) \in Nat /\ Lines = 0..(Cardinality(Lines) - 1)
  BY InterruptsAssumption, FS_CardinalityType
<1> DEFINE n == Cardinality(Lines)
<1>2. n \in Nat /\ Lines = 0..(n - 1)
  BY <1>1
<1> HIDE DEF n
<1> QED BY <1>2

LineTypes ==
  /\ a_kind \in {"tasklet", "workqueue", "thread", "dynamic"}
  /\ a_at \in Lines /\ (a_phase \in {"live", "stop"} => a_at = 0)
  /\ a_installed \subseteq Lines
  /\ a_hpc \in [Lines -> {"idle", "cond", "count", "schedule"}]
  /\ a_my_irq \in Lines /\ a_t_irq \in Lines
  /\ a_queued \in [Lines -> Nat]
  /\ a_interrupts \in [Lines -> Int] /\ a_bhs \in [Lines -> Nat]
  /\ a_raised \in [Lines -> Nat] /\ a_early \in [Lines -> Int]

\* Each driver uses its own bottom half.
KindInv ==
  /\ a_kind # "thread" => a_tpc = "none" /\ \A l \in Lines : a_hpc[l] # "cond"
  /\ a_kind # "dynamic" => \A l \in Lines : a_queued[l] = 0
  /\ a_item => a_kind \in {"tasklet", "workqueue"}

LEMMA AtNextLine ==
  ASSUME LineTypes, NEW end, AllLines!NextLine(end)
  PROVE  \/ a_at + 1 \in Lines /\ a_at' = a_at + 1 /\ a_phase' = a_phase
         \/ a_at + 1 \notin Lines /\ a_at' = 0 /\ a_phase' = end
BY FirstLine DEF AllLines!NextLine

LEMMA LineTypesStep == LineTypes /\ KindInv /\ [AllLines!Next]_allVars => LineTypes' /\ KindInv'
<1> SUFFICES ASSUME LineTypes, KindInv, [AllLines!Next]_allVars PROVE LineTypes' /\ KindInv'
  OBVIOUS
<1> USE DEF LineTypes, KindInv, AllLines!Static
<1>0. AllLines!First = 0 /\ Lines \subseteq Nat /\ 0 \in Lines
  BY FirstLine, InterruptsAssumption
<1>1. ASSUME NEW l \in Lines, AllLines!Interrupt(l) PROVE LineTypes' /\ KindInv'
  BY <1>1 DEF AllLines!Interrupt
<1>2. ASSUME NEW l \in Lines, AllLines!InterruptCond(l) PROVE LineTypes' /\ KindInv'
  BY <1>2 DEF AllLines!InterruptCond
<1>3. ASSUME NEW l \in Lines, AllLines!InterruptCount(l) PROVE LineTypes' /\ KindInv'
  <2>1. AllLines!Signed(a_interrupts[l] + 1) \in Int
    BY SignedStep
  <2> QED BY <1>3, <2>1 DEF AllLines!InterruptCount
<1>4. ASSUME NEW l \in Lines, AllLines!InterruptSchedule(l) PROVE LineTypes' /\ KindInv'
  <2>1. a_item' => a_kind \in {"tasklet", "workqueue"}
    BY <1>4 DEF AllLines!InterruptSchedule
  <2> QED BY <1>4, <2>1 DEF AllLines!InterruptSchedule
<1>5. CASE AllLines!StaticFun
  BY <1>5 DEF AllLines!StaticFun
<1>6. ASSUME NEW l \in Lines, AllLines!DynamicFun(l) PROVE LineTypes' /\ KindInv'
  <2>1. a_queued[l] - 1 \in Nat /\ a_queued[l] # 0
    BY <1>6 DEF AllLines!DynamicFun
  <2> QED BY <1>6, <2>1 DEF AllLines!DynamicFun
<1>7. CASE AllLines!Thread
  BY <1>7 DEF AllLines!Thread, AllLines!ThreadTop, AllLines!ThreadClear,
              AllLines!ThreadWoken, AllLines!ThreadLoop
<1>8. CASE AllLines!Load
  BY <1>0, <1>8 DEF AllLines!Load
<1>9. CASE AllLines!GetReset
  BY <1>9 DEF AllLines!GetReset
<1>10. CASE AllLines!GetRequested
  BY <1>10 DEF AllLines!GetRequested
<1>11. CASE AllLines!GetRefused
  <2>1. /\ a_phase = "init" /\ AllLines!NextLine("live")
        /\ UNCHANGED <<a_kind, a_installed, a_hpc, a_my_irq, a_queued, a_item, a_tpc, a_t_irq,
                       a_interrupts, a_bhs, a_raised, a_early>>
    BY <1>11 DEF AllLines!GetRefused
  <2>2. a_at' \in Lines /\ (a_phase' \in {"live", "stop"} => a_at' = 0)
    BY <1>0, <2>1, AtNextLine
  <2> QED BY <2>1, <2>2
<1>12. CASE AllLines!GetZero
  <2>1. /\ a_phase = "init" /\ AllLines!NextLine("live")
        /\ UNCHANGED <<a_kind, a_installed, a_hpc, a_my_irq, a_queued, a_item, a_tpc, a_t_irq,
                       a_bhs, a_raised>>
        /\ a_interrupts' \in [Lines -> Int] /\ a_early' \in [Lines -> Int]
    BY <1>12 DEF AllLines!GetZero
  <2>2. a_at' \in Lines /\ (a_phase' \in {"live", "stop"} => a_at' = 0)
    BY <1>0, <2>1, AtNextLine
  <2> QED BY <2>1, <2>2
<1>13. CASE AllLines!ExitStart \/ AllLines!ExitJoin
  BY <1>13 DEF AllLines!ExitStart, AllLines!ExitJoin
<1>14. CASE AllLines!FreeLine
  <2>1. /\ a_phase = "exit" /\ AllLines!NextLine("gone") /\ a_installed' \subseteq Lines
        /\ UNCHANGED <<a_kind, a_hpc, a_my_irq, a_queued, a_item, a_tpc, a_t_irq,
                       a_interrupts, a_bhs, a_raised, a_early>>
    BY <1>14 DEF AllLines!FreeLine
  <2>2. a_at' \in Lines /\ (a_phase' \in {"live", "stop"} => a_at' = 0)
    BY <1>0, <2>1, AtNextLine
  <2> QED BY <2>1, <2>2
<1>15. CASE UNCHANGED allVars
  BY <1>15 DEF allVars
<1> QED
  BY <1>1, <1>2, <1>3, <1>4, <1>5, <1>6, <1>7, <1>8, <1>9, <1>10, <1>11, <1>12, <1>13,
     <1>14, <1>15 DEF AllLines!Next, AllLines!Handler

\* An interrupt of the line that my_interrupt has still to count
Uncounted(l) == IF a_hpc[l] \in {"cond", "count"} THEN 1 ELSE 0

\* get_irqs has not installed the handler yet, or has still to clear its counter.
Fresh(l) ==
  a_phase = "out" \/ (a_phase = "init" /\ (l > a_at \/ (l = a_at /\ a_step # "zero")))

SettingUp(l) == a_phase = "init" /\ l = a_at

\* freeup_irqs has gone past the line.
Passed(l) == a_phase = "gone" \/ (a_phase = "exit" /\ l < a_at)

\* The counter of the top halves.  While get_irqs is at the line every interrupt of
\* it is an early one.
CountedInv(l) ==
  /\ Fresh(l) => l \notin a_installed /\ a_raised[l] = 0 /\ a_early[l] = 0
  /\ SettingUp(l) => a_raised[l] = a_early[l]
  /\ l \in a_installed /\ ~SettingUp(l) =>
       /\ a_interrupts[l] = AllLines!Signed(a_raised[l] - a_early[l] - Uncounted(l))
       /\ a_raised[l] - a_early[l] - Uncounted(l) \in Nat
  /\ l \in a_installed /\ Passed(l) => a_raised[l] - a_early[l] >= Half

LEMMA CountedStep ==
  ASSUME LineTypes, KindInv, AllLines!Next, NEW l \in Lines, \A k \in Lines : CountedInv(k)
  PROVE  CountedInv(l)'
<1> USE DEF LineTypes
<1>0. /\ AllLines!First = 0 /\ Lines \subseteq Nat /\ 0 \in Lines /\ Half \in Nat
      /\ a_at \in Nat /\ l \in Nat /\ CountedInv(l)
  BY FirstLine, InterruptsAssumption
<1> USE DEF CountedInv, Fresh, SettingUp, Passed
<1>1. ASSUME NEW k \in Lines, AllLines!Interrupt(k) PROVE CountedInv(l)'
  <2>1. /\ UNCHANGED <<a_phase, a_at, a_step, a_installed, a_interrupts>>
        /\ k \in a_installed /\ a_hpc[k] = "idle"
    BY <1>1 DEF AllLines!Interrupt
  <2>2. CASE k # l
    <3>1. a_hpc'[l] = a_hpc[l] /\ a_raised'[l] = a_raised[l] /\ a_early'[l] = a_early[l]
      BY <1>1, <2>2 DEF AllLines!Interrupt
    <3>2. Uncounted(l)' = Uncounted(l)
      BY <3>1 DEF Uncounted
    <3> QED BY <1>0, <2>1, <3>1, <3>2
  <2>3. CASE k = l
    <3>1. /\ a_raised'[l] = a_raised[l] + 1
          /\ a_early'[l] = a_early[l] + IF SettingUp(l) THEN 1 ELSE 0
          /\ Uncounted(l) = 0 /\ Uncounted(l)' = 1
      BY <1>1, <2>1, <2>3 DEF AllLines!Interrupt, Uncounted
    <3>2. ~Fresh(l) /\ (Fresh(l)' <=> Fresh(l)) /\ (SettingUp(l)' <=> SettingUp(l))
      BY <1>0, <2>1, <2>3
    <3>3. ~SettingUp(l) => /\ a_raised'[l] - a_early'[l] = a_raised[l] - a_early[l] + 1
                           /\ a_raised'[l] - a_early'[l] - Uncounted(l)'
                                = a_raised[l] - a_early[l] - Uncounted(l)
      BY <3>1
    <3>4. a_raised'[l] - a_early'[l] >= a_raised[l] - a_early[l]
      BY <3>1
    <3> QED BY <1>0, <2>1, <3>1, <3>2, <3>3, <3>4
  <2> QED BY <2>2, <2>3
<1>2. ASSUME NEW k \in Lines, AllLines!InterruptCond(k) PROVE CountedInv(l)'
  <2>1. /\ UNCHANGED <<a_phase, a_at, a_step, a_installed, a_interrupts, a_raised, a_early>>
        /\ Uncounted(l)' = Uncounted(l)
    BY <1>2 DEF AllLines!InterruptCond, Uncounted
  <2> QED BY <1>0, <2>1
<1>3. ASSUME NEW k \in Lines, AllLines!InterruptCount(k) PROVE CountedInv(l)'
  <2>1. UNCHANGED <<a_phase, a_at, a_step, a_installed, a_raised, a_early>>
    BY <1>3 DEF AllLines!InterruptCount
  <2>2. CASE k # l
    <3>1. a_interrupts'[l] = a_interrupts[l] /\ Uncounted(l)' = Uncounted(l)
      BY <1>3, <2>2 DEF AllLines!InterruptCount, Uncounted
    <3> QED BY <1>0, <2>1, <3>1
  <2>3. CASE k = l
    <3> DEFINE x == a_raised[l] - a_early[l] - 1
    <3>1. /\ a_interrupts'[l] = AllLines!Signed(a_interrupts[l] + 1)
          /\ Uncounted(l) = 1 /\ Uncounted(l)' = 0
      BY <1>3, <2>3 DEF AllLines!InterruptCount, Uncounted
    <3>2. x \in Int /\ a_raised[l] - a_early[l] - Uncounted(l)' = x + 1
      BY <3>1
    <3>3. AllLines!Signed(AllLines!Signed(x) + 1) = AllLines!Signed(x + 1)
      BY <3>2, SignedStep
    <3>4. l \in a_installed /\ ~SettingUp(l) =>
            a_interrupts[l] = AllLines!Signed(x) /\ x \in Nat
      BY <1>0, <3>1
    <3> HIDE DEF x
    <3> QED BY <1>0, <2>1, <3>1, <3>2, <3>3, <3>4
  <2> QED BY <2>2, <2>3
<1>4. ASSUME NEW k \in Lines, AllLines!InterruptSchedule(k) PROVE CountedInv(l)'
  <2>1. /\ UNCHANGED <<a_phase, a_at, a_step, a_installed, a_interrupts, a_raised, a_early>>
        /\ Uncounted(l)' = Uncounted(l)
    BY <1>4 DEF AllLines!InterruptSchedule, Uncounted
  <2> QED BY <1>0, <2>1
<1>5. CASE AllLines!StaticFun \/ AllLines!Thread \/ \E k \in Lines : AllLines!DynamicFun(k)
  <2>1. UNCHANGED <<a_phase, a_at, a_step, a_installed, a_hpc, a_interrupts, a_raised, a_early>>
    BY <1>5 DEF AllLines!StaticFun, AllLines!DynamicFun, AllLines!Thread, AllLines!ThreadTop,
                AllLines!ThreadClear, AllLines!ThreadWoken, AllLines!ThreadLoop
  <2> QED BY <1>0, <2>1 DEF Uncounted
<1>6. CASE AllLines!Load
  <2>1. /\ a_phase = "out" /\ a_phase' = "init" /\ a_at' = 0 /\ a_step' = "reset"
        /\ UNCHANGED <<a_installed, a_hpc, a_interrupts, a_raised, a_early>>
    BY <1>0, <1>6 DEF AllLines!Load
  <2> QED BY <1>0, <2>1
<1>7. CASE AllLines!GetReset
  <2>1. /\ a_phase = "init" /\ a_step = "reset" /\ a_step' = "request"
        /\ a_at # l => a_interrupts'[l] = a_interrupts[l]
        /\ UNCHANGED <<a_phase, a_at, a_installed, a_hpc, a_raised, a_early>>
    BY <1>7 DEF AllLines!GetReset
  <2>2. Uncounted(l)' = Uncounted(l)
    BY <2>1 DEF Uncounted
  <2> QED BY <1>0, <2>1, <2>2
<1>8. CASE AllLines!GetRequested
  <2>1. /\ a_phase = "init" /\ a_step = "request" /\ a_step' = "zero"
        /\ a_installed' = a_installed \cup {a_at}
        /\ UNCHANGED <<a_phase, a_at, a_hpc, a_interrupts, a_raised, a_early>>
    BY <1>8 DEF AllLines!GetRequested
  <2>2. Uncounted(l)' = Uncounted(l)
    BY <2>1 DEF Uncounted
  <2> QED BY <1>0, <2>1, <2>2
<1>9. CASE AllLines!GetRefused
  <2>1. /\ a_phase = "init" /\ a_step = "request" /\ a_step' = "reset"
        /\ AllLines!NextLine("live")
        /\ UNCHANGED <<a_installed, a_hpc, a_interrupts, a_raised, a_early>>
    BY <1>9 DEF AllLines!GetRefused
  <2>2. Uncounted(l)' = Uncounted(l)
    BY <2>1 DEF Uncounted
  <2>3. \/ a_at' = a_at + 1 /\ a_phase' = a_phase
        \/ a_at' = 0 /\ a_phase' = "live"
    BY <2>1, AtNextLine
  <2>4. l = a_at => l \notin a_installed
    BY <1>0, <2>1
  <2> QED BY <1>0, <2>1, <2>2, <2>3, <2>4
<1>10. CASE AllLines!GetZero
  <2>1. /\ a_phase = "init" /\ a_step = "zero" /\ a_step' = "reset"
        /\ AllLines!NextLine("live")
        /\ UNCHANGED <<a_installed, a_hpc, a_raised>>
        /\ a_at # l => a_interrupts'[l] = a_interrupts[l] /\ a_early'[l] = a_early[l]
        /\ a_at = l => a_interrupts'[l] = 0 /\ a_early'[l] = a_early[l] - Uncounted(l)
    BY <1>10 DEF AllLines!GetZero, Uncounted
  <2>2. Uncounted(l)' = Uncounted(l) /\ Uncounted(l) \in {0, 1}
    BY <2>1 DEF Uncounted
  <2>3. \/ a_at' = a_at + 1 /\ a_phase' = a_phase
        \/ a_at' = 0 /\ a_phase' = "live"
    BY <2>1, AtNextLine
  <2>4. CASE a_at = l
    <3>1. a_raised'[l] - a_early'[l] - Uncounted(l)' = 0
      BY <1>0, <2>1, <2>2, <2>4
    <3> QED BY <1>0, <2>1, <2>3, <2>4, <3>1, SignedWrapped
  <2>5. CASE a_at # l
    BY <1>0, <2>1, <2>2, <2>3, <2>5
  <2> QED BY <2>4, <2>5
<1>11. CASE AllLines!ExitStart \/ AllLines!ExitJoin
  <2>1. /\ a_phase \in {"live", "stop"} /\ a_phase' \in {"stop", "exit"} /\ a_at = 0
        /\ UNCHANGED <<a_at, a_step, a_installed, a_hpc, a_interrupts, a_raised, a_early>>
    BY <1>11 DEF AllLines!ExitStart, AllLines!ExitJoin
  <2>2. Uncounted(l)' = Uncounted(l)
    BY <2>1 DEF Uncounted
  <2> QED BY <1>0, <2>1, <2>2
<1>12. CASE AllLines!FreeLine
  <2>1. /\ a_phase = "exit" /\ AllLines!NextLine("gone")
        /\ UNCHANGED <<a_step, a_hpc, a_interrupts, a_raised, a_early>>
        /\ IF a_interrupts[a_at] >= 0 THEN a_installed' = a_installed \ {a_at}
                                      ELSE a_installed' = a_installed
    BY <1>12 DEF AllLines!FreeLine
  <2>2. Uncounted(l)' = Uncounted(l) /\ Uncounted(l) \in {0, 1}
    BY <2>1 DEF Uncounted
  <2>3. \/ a_at' = a_at + 1 /\ a_phase' = a_phase
        \/ a_at' = 0 /\ a_phase' = "gone" /\ a_at + 1 \notin Lines
    BY <2>1, AtNextLine
  <2>4. a_at + 1 \notin Lines => l <= a_at
    BY LineOrder
  <2>5. l = a_at /\ l \in a_installed' => a_raised[l] - a_early[l] >= Half
    <3> SUFFICES ASSUME l = a_at, l \in a_installed' PROVE a_raised[l] - a_early[l] >= Half
      OBVIOUS
    <3> DEFINE x == a_raised[l] - a_early[l] - Uncounted(l)
    <3>1. a_interrupts[l] < 0 /\ l \in a_installed
      BY <2>1
    <3>2. a_interrupts[l] = AllLines!Signed(x) /\ x \in Nat
      BY <1>0, <2>1, <3>1
    <3> HIDE DEF x
    <3>3. x >= Half
      BY <3>1, <3>2, SignedWrapped
    <3> QED BY <1>0, <2>2, <3>3 DEF x
  <2>6. l \in a_installed' => l \in a_installed
    BY <2>1
  <2> QED BY <1>0, <2>1, <2>2, <2>3, <2>4, <2>5, <2>6
<1> QED
  BY <1>1, <1>2, <1>3, <1>4, <1>5, <1>6, <1>7, <1>8, <1>9, <1>10, <1>11, <1>12
     DEF AllLines!Next, AllLines!Handler

\* The pairs that Total counts.
Places(f) == UNION {{l} \X (1..f[l]) : l \in Lines}

LEMMA TotalPlaces == \A f : AllLines!Total(f) = Cardinality(Places(f))
  BY DEF AllLines!Total, AllLines!Cardinality, Cardinality, Places

LEMMA InPlaces ==
  ASSUME NEW f, NEW e
  PROVE  e \in Places(f) <=> \E l \in Lines : \E i \in 1..f[l] : e = <<l, i>>
BY DEF Places

\* One more for one line is one more in all, and no more for any line none in all.
LEMMA OneMore ==
  ASSUME NEW f \in [Lines -> Nat], IsFiniteSet(Places(f)), NEW l \in Lines,
         NEW g \in [Lines -> Nat], g[l] = f[l] + 1, \A k \in Lines : k # l => g[k] = f[k]
  PROVE  IsFiniteSet(Places(g)) /\ Cardinality(Places(g)) = Cardinality(Places(f)) + 1
<1> DEFINE e == <<l, f[l] + 1>>
<1>1. e \notin Places(f)
  BY InPlaces
<1>2. Places(g) = Places(f) \cup {e}
  <2>1. ASSUME NEW d \in Places(g) PROVE d \in Places(f) \cup {e}
    <3>1. PICK k \in Lines : \E i \in 1..g[k] : d = <<k, i>>
      BY InPlaces
    <3>2. PICK i \in 1..g[k] : d = <<k, i>>
      BY <3>1
    <3>3. k # l => i \in 1..f[k]
      OBVIOUS
    <3>4. k = l => i \in 1..f[k] \/ i = f[l] + 1
      OBVIOUS
    <3> QED BY <3>2, <3>3, <3>4, InPlaces
  <2>2. ASSUME NEW d \in Places(f) PROVE d \in Places(g)
    <3>1. PICK k \in Lines, i \in Nat : i \in 1..f[k] /\ d = <<k, i>>
      BY InPlaces
    <3>2. i \in 1..g[k]
      BY <3>1
    <3> QED BY <3>1, <3>2, InPlaces
  <2>3. e \in Places(g)
    <3>1. f[l] + 1 \in 1..g[l]
      OBVIOUS
    <3> QED BY <3>1, InPlaces
  <2> QED BY <2>1, <2>2, <2>3
<1> HIDE DEF e
<1>3. /\ IsFiniteSet(Places(f) \cup {e})
      /\ Cardinality(Places(f) \cup {e}) = Cardinality(Places(f)) + 1
  BY <1>1, FS_AddElement, Zenon
<1> QED BY <1>2, <1>3

LEMMA NoMore ==
  ASSUME NEW f \in [Lines -> Nat], IsFiniteSet(Places(f)), NEW g \in [Lines -> Nat],
         \A l \in Lines : g[l] <= f[l]
  PROVE  IsFiniteSet(Places(g)) /\ Cardinality(Places(g)) <= Cardinality(Places(f))
<1>1. ASSUME NEW d \in Places(g) PROVE d \in Places(f)
  <2>1. PICK k \in Lines, i \in Nat : i \in 1..g[k] /\ d = <<k, i>>
    BY InPlaces
  <2>2. i \in 1..f[k]
    BY <2>1
  <2> QED BY <2>1, <2>2, InPlaces
<1>2. Places(g) \in SUBSET Places(f)
  BY <1>1
<1> QED BY <1>2, FS_Subset

\* With an item of its own, each interrupt of a line is in its handler, in an item or
\* counted.
OwnItemInv ==
  a_kind = "dynamic" =>
    \A l \in Lines : a_raised[l] = a_bhs[l] + a_queued[l] + IF a_hpc[l] = "idle" THEN 0 ELSE 1

\* Handlers that have still to queue the one item, or to set cond
Coming ==
  {l \in Lines : \/ a_hpc[l] = "cond"
                 \/ a_kind \in {"tasklet", "workqueue"} /\ a_hpc[l] # "idle"}

\* The item queued, and the thread about to leave its wait
Due == (IF a_item THEN 1 ELSE 0) + IF a_tpc = "wait" /\ a_cond = 1 THEN 1 ELSE 0

\* With one item or one thread, several interrupts become one bottom half but never
\* one several.
OneItemInv ==
  /\ IsFiniteSet(Places(a_raised)) /\ IsFiniteSet(Places(a_bhs))
  /\ a_kind # "dynamic" =>
       Cardinality(Places(a_bhs)) + Due + Cardinality(Coming) <= Cardinality(Places(a_raised))

LEMMA OwnItemStep == LineTypes /\ KindInv /\ OwnItemInv /\ AllLines!Next
                       /\ (\A l \in Lines : CountedInv(l)) => OwnItemInv'
<1> SUFFICES ASSUME LineTypes, KindInv, OwnItemInv, AllLines!Next,
                    \A l \in Lines : CountedInv(l),
                    a_kind' = "dynamic", NEW l \in Lines
             PROVE  a_raised'[l] = a_bhs'[l] + a_queued'[l] + IF a_hpc'[l] = "idle" THEN 0 ELSE 1
  BY DEF OwnItemInv
<1> USE DEF LineTypes
<1>0. /\ a_kind = "dynamic" /\ a_tpc = "none" /\ ~a_item
      /\ a_raised[l] = a_bhs[l] + a_queued[l] + IF a_hpc[l] = "idle" THEN 0 ELSE 1
  <2>1. a_kind' = a_kind
    BY DEF AllLines!Next, AllLines!Load, AllLines!GetReset, AllLines!GetRequested,
           AllLines!GetRefused, AllLines!GetZero, AllLines!ExitStart, AllLines!ExitJoin,
           AllLines!FreeLine, AllLines!Thread, AllLines!ThreadTop, AllLines!ThreadClear,
           AllLines!ThreadWoken, AllLines!ThreadLoop, AllLines!Handler, AllLines!InterruptCond,
           AllLines!InterruptCount, AllLines!InterruptSchedule, AllLines!StaticFun,
           AllLines!Interrupt, AllLines!DynamicFun
  <2> QED BY <2>1 DEF KindInv, OwnItemInv
<1>1. ASSUME NEW k \in Lines, AllLines!Interrupt(k) PROVE OwnItemInv'
  BY <1>0, <1>1 DEF OwnItemInv, AllLines!Interrupt
<1>2. ASSUME NEW k \in Lines, AllLines!InterruptCond(k) \/ AllLines!InterruptCount(k)
      PROVE  OwnItemInv'
  BY <1>0, <1>2 DEF OwnItemInv, AllLines!InterruptCond, AllLines!InterruptCount
<1>3. ASSUME NEW k \in Lines, AllLines!InterruptSchedule(k) PROVE OwnItemInv'
  BY <1>0, <1>3 DEF OwnItemInv, AllLines!InterruptSchedule
<1>4. ASSUME NEW k \in Lines, AllLines!DynamicFun(k) PROVE OwnItemInv'
  BY <1>0, <1>4 DEF OwnItemInv, AllLines!DynamicFun
<1>5. CASE AllLines!StaticFun \/ AllLines!Thread
  BY <1>0, <1>5 DEF AllLines!StaticFun, AllLines!Thread, AllLines!ThreadTop,
     AllLines!ThreadClear, AllLines!ThreadWoken, AllLines!ThreadLoop
<1>6. CASE AllLines!GetReset
  <2>1. a_raised[a_at] = 0
    BY <1>6 DEF AllLines!GetReset, CountedInv, Fresh
  <2>2. /\ a_raised[a_at] = a_bhs[a_at] + a_queued[a_at] + IF a_hpc[a_at] = "idle" THEN 0 ELSE 1
        /\ a_bhs[a_at] \in Nat /\ a_queued[a_at] \in Nat
    BY <1>0 DEF OwnItemInv
  <2>3. a_bhs[a_at] = 0
    BY <2>1, <2>2
  <2> QED BY <1>0, <1>6, <2>3 DEF AllLines!GetReset
<1>7. CASE AllLines!Load \/ AllLines!GetRequested \/ AllLines!GetRefused \/ AllLines!GetZero
           \/ AllLines!ExitStart \/ AllLines!ExitJoin \/ AllLines!FreeLine
  BY <1>0, <1>7 DEF AllLines!Load, AllLines!GetRequested, AllLines!GetRefused,
     AllLines!GetZero, AllLines!ExitStart, AllLines!ExitJoin, AllLines!FreeLine
<1> QED
  BY <1>1, <1>2, <1>3, <1>4, <1>5, <1>6, <1>7 DEF AllLines!Next, AllLines!Handler, OwnItemInv

LEMMA OneItemStep == LineTypes /\ KindInv /\ OneItemInv /\ AllLines!Next => OneItemInv'
<1> SUFFICES ASSUME LineTypes, KindInv, OneItemInv, AllLines!Next PROVE OneItemInv'
  OBVIOUS
<1> USE DEF LineTypes
<1> DEFINE B == Cardinality(Places(a_bhs))
           R == Cardinality(Places(a_raised))
           C == Cardinality(Coming)
<1>0. /\ IsFiniteSet(Places(a_bhs)) /\ IsFiniteSet(Places(a_raised)) /\ IsFiniteSet(Coming)
      /\ B \in Nat /\ R \in Nat /\ C \in Nat /\ Due \in 0..2
      /\ a_kind # "dynamic" => B + Due + C <= R
  <2>1. Coming \in SUBSET Lines /\ IsFiniteSet(Lines)
    BY InterruptsAssumption DEF Coming
  <2>2. IsFiniteSet(Coming)
    BY <2>1, FS_Subset
  <2>3. Due \in 0..2
    BY DEF Due
  <2> QED BY <2>2, <2>3, FS_CardinalityType DEF OneItemInv
<1>1. ASSUME NEW l \in Lines, AllLines!Interrupt(l) PROVE OneItemInv'
  <2>1. /\ a_raised' \in [Lines -> Nat] /\ a_raised'[l] = a_raised[l] + 1
        /\ \A k \in Lines : k # l => a_raised'[k] = a_raised[k]
    BY <1>1 DEF AllLines!Interrupt
  <2>2. IsFiniteSet(Places(a_raised')) /\ Cardinality(Places(a_raised')) = R + 1
    BY <1>0, <2>1, OneMore
  <2>3. UNCHANGED <<a_kind, a_bhs, a_item, a_tpc, a_cond>>
    BY <1>1 DEF AllLines!Interrupt
  <2>4. a_kind # "dynamic" => Coming' = Coming \cup {l} /\ l \notin Coming
    BY <1>1 DEF AllLines!Interrupt, Coming
  <2>5. a_kind # "dynamic" => Cardinality(Coming') = C + 1
    BY <1>0, <2>4, FS_AddElement
  <2>6. Due' = Due
    BY <2>3 DEF Due
  <2> HIDE DEF B, R, C
  <2>7. a_kind # "dynamic" => B + Due + (C + 1) <= R + 1
    BY <1>0
  <2> QED BY <1>0, <2>2, <2>3, <2>5, <2>6, <2>7 DEF OneItemInv, B
<1>2. ASSUME NEW l \in Lines, AllLines!InterruptCond(l) PROVE OneItemInv'
  <2>1. UNCHANGED <<a_kind, a_bhs, a_raised, a_item, a_tpc>> /\ a_hpc[l] = "cond"
    BY <1>2 DEF AllLines!InterruptCond
  <2>2. a_kind = "thread" /\ Coming' = Coming \ {l} /\ l \in Coming
    BY <1>2, <2>1 DEF AllLines!InterruptCond, Coming, KindInv
  <2>3. Cardinality(Coming') = C - 1
    BY <1>0, <2>2, FS_RemoveElement
  <2>4. PICK due \in 0..2 : due = Due' /\ due <= Due + 1
    BY <2>1 DEF Due
  <2> HIDE DEF B, R, C
  <2>5. B + due + (C - 1) <= R
    <3>1. due <= Due + 1
      BY <2>4, Zenon
    <3> QED BY <1>0, <2>2, <3>1
  <2> QED BY <1>0, <2>1, <2>3, <2>4, <2>5 DEF OneItemInv, B, R
<1>3. ASSUME NEW l \in Lines, AllLines!InterruptCount(l) PROVE OneItemInv'
  <2>1. UNCHANGED <<a_kind, a_bhs, a_raised, a_item, a_tpc, a_cond>>
    BY <1>3 DEF AllLines!InterruptCount
  <2>2. Coming' = Coming
    BY <1>3, <2>1 DEF AllLines!InterruptCount, Coming
  <2> QED BY <2>1, <2>2 DEF OneItemInv, Due
<1>4. ASSUME NEW l \in Lines, AllLines!InterruptSchedule(l) PROVE OneItemInv'
  <2>1. UNCHANGED <<a_kind, a_bhs, a_raised, a_tpc, a_cond>> /\ a_hpc[l] = "schedule"
    BY <1>4 DEF AllLines!InterruptSchedule
  <2>2. CASE a_kind \in {"tasklet", "workqueue"}
    <3>1. Coming' = Coming \ {l} /\ l \in Coming
      BY <1>4, <2>1, <2>2 DEF AllLines!InterruptSchedule, Coming
    <3>2. Cardinality(Coming') = C - 1
      BY <1>0, <3>1, FS_RemoveElement
    <3>3. PICK due \in 0..2 : due = Due' /\ due <= Due + 1
      BY <2>1 DEF Due
    <3> HIDE DEF B, R, C
    <3>4. B + due + (C - 1) <= R
      <4>1. due <= Due + 1
        BY <3>3, Zenon
      <4> QED BY <1>0, <2>2, <4>1
    <3> QED BY <1>0, <2>1, <3>2, <3>3, <3>4 DEF OneItemInv, B, R
  <2>3. CASE a_kind = "thread"
    <3>1. Coming' = Coming
      BY <1>4, <2>1, <2>3 DEF AllLines!InterruptSchedule, Coming
    <3>2. a_item' <=> a_item
      BY <1>4, <2>3 DEF AllLines!InterruptSchedule, AllLines!Static
    <3>3. Due' = Due
      BY <2>1, <3>2 DEF Due
    <3> QED BY <1>0, <2>1, <3>1, <3>3 DEF OneItemInv
  <2>4. CASE a_kind = "dynamic"
    BY <1>0, <2>1, <2>4 DEF OneItemInv
  <2> QED BY <2>2, <2>3, <2>4
<1>5. CASE AllLines!StaticFun
  <2>1. /\ a_bhs' \in [Lines -> Nat] /\ a_bhs'[a_my_irq] = a_bhs[a_my_irq] + 1
        /\ \A k \in Lines : k # a_my_irq => a_bhs'[k] = a_bhs[k]
        /\ a_item /\ ~a_item'
        /\ UNCHANGED <<a_kind, a_hpc, a_raised, a_tpc, a_cond>>
    BY <1>5 DEF AllLines!StaticFun
  <2>2. IsFiniteSet(Places(a_bhs')) /\ Cardinality(Places(a_bhs')) = B + 1
    BY <1>0, <2>1, OneMore
  <2>3. Due' = Due - 1 /\ Coming' = Coming
    BY <2>1 DEF Due, Coming
  <2> HIDE DEF B, R, C
  <2>4. a_kind # "dynamic" => (B + 1) + (Due - 1) + C <= R
    BY <1>0
  <2> QED BY <1>0, <2>1, <2>2, <2>3, <2>4 DEF OneItemInv, R, C
<1>6. ASSUME NEW l \in Lines, AllLines!DynamicFun(l) PROVE OneItemInv'
  <2>1. /\ a_bhs' \in [Lines -> Nat] /\ a_bhs'[l] = a_bhs[l] + 1
        /\ \A k \in Lines : k # l => a_bhs'[k] = a_bhs[k]
        /\ a_queued[l] > 0
        /\ UNCHANGED <<a_kind, a_raised>>
    BY <1>6 DEF AllLines!DynamicFun
  <2>2. IsFiniteSet(Places(a_bhs'))
    BY <1>0, <2>1, OneMore
  <2>3. a_kind = "dynamic"
    BY <2>1 DEF KindInv
  <2> QED BY <1>0, <2>1, <2>2, <2>3 DEF OneItemInv
<1>7. CASE AllLines!ThreadWoken /\ a_cond = 1
  <2>1. /\ a_bhs' \in [Lines -> Nat] /\ a_bhs'[a_t_irq] = a_bhs[a_t_irq] + 1
        /\ \A k \in Lines : k # a_t_irq => a_bhs'[k] = a_bhs[k]
        /\ a_tpc = "wait" /\ a_tpc' = "loop"
        /\ UNCHANGED <<a_kind, a_hpc, a_raised, a_item, a_cond>>
    BY <1>7 DEF AllLines!ThreadWoken
  <2>2. IsFiniteSet(Places(a_bhs')) /\ Cardinality(Places(a_bhs')) = B + 1
    BY <1>0, <2>1, OneMore
  <2>3. Due' = Due - 1 /\ Coming' = Coming
    BY <1>7, <2>1 DEF Due, Coming
  <2> HIDE DEF B, R, C
  <2>4. a_kind # "dynamic" => (B + 1) + (Due - 1) + C <= R
    BY <1>0
  <2> QED BY <1>0, <2>1, <2>2, <2>3, <2>4 DEF OneItemInv, R, C
<1>8. CASE \/ AllLines!ThreadTop \/ AllLines!ThreadClear \/ AllLines!ThreadLoop
           \/ AllLines!ThreadWoken /\ a_cond # 1
           \/ AllLines!Load \/ AllLines!GetRequested \/ AllLines!GetRefused
           \/ AllLines!GetZero \/ AllLines!ExitStart \/ AllLines!ExitJoin \/ AllLines!FreeLine
  <2>1. UNCHANGED <<a_kind, a_hpc, a_bhs, a_raised, a_item>>
    BY <1>8 DEF AllLines!ThreadTop, AllLines!ThreadClear, AllLines!ThreadLoop,
       AllLines!ThreadWoken, AllLines!Load, AllLines!GetRequested, AllLines!GetRefused,
       AllLines!GetZero, AllLines!ExitStart, AllLines!ExitJoin, AllLines!FreeLine
  <2>2. a_tpc' = "wait" /\ a_cond' = 1 => a_tpc = "wait" /\ a_cond = 1
    BY <1>8 DEF AllLines!ThreadTop, AllLines!ThreadClear, AllLines!ThreadLoop,
       AllLines!ThreadWoken, AllLines!Load, AllLines!GetRequested, AllLines!GetRefused,
       AllLines!GetZero, AllLines!ExitStart, AllLines!ExitJoin, AllLines!FreeLine
  <2>3. PICK due \in 0..2 : due = Due' /\ due <= Due /\ Coming' = Coming
    BY <2>1, <2>2 DEF Due, Coming
  <2> HIDE DEF B, R, C
  <2>4. a_kind # "dynamic" => B + due + C <= R
    <3>1. due <= Due
      BY <2>3, Zenon
    <3> QED BY <1>0, <3>1
  <2> QED BY <1>0, <2>1, <2>3, <2>4 DEF OneItemInv, B, R, C
<1>9. CASE AllLines!GetReset
  <2>1. /\ a_bhs' = [a_bhs EXCEPT ![a_at] = 0]
        /\ UNCHANGED <<a_kind, a_hpc, a_raised, a_item, a_tpc, a_cond>>
    BY <1>9 DEF AllLines!GetReset
  <2>2. a_bhs' \in [Lines -> Nat] /\ \A l \in Lines : a_bhs'[l] <= a_bhs[l]
    BY <2>1
  <2>3. IsFiniteSet(Places(a_bhs')) /\ Cardinality(Places(a_bhs')) <= B
    BY <1>0, <2>2, NoMore
  <2>4. Cardinality(Places(a_bhs')) \in Nat
    BY <2>3, FS_CardinalityType
  <2>5. Due' = Due /\ Coming' = Coming
    BY <2>1 DEF Due, Coming
  <2> HIDE DEF B, R, C
  <2>6. a_kind # "dynamic" => Cardinality(Places(a_bhs')) + Due + C <= R
    BY <1>0, <2>3, <2>4
  <2> QED BY <1>0, <2>1, <2>3, <2>5, <2>6 DEF OneItemInv, R, C
<1> QED
  BY <1>1, <1>2, <1>3, <1>4, <1>5, <1>6, <1>7, <1>8, <1>9
     DEF AllLines!Next, AllLines!Handler, AllLines!Thread

LinesInv ==
  /\ LineTypes /\ KindInv
  /\ \A l \in Lines : CountedInv(l)
  /\ OwnItemInv /\ OneItemInv

\* lab6_all_*.c and lab7_all_*_dynamic.c with lab_all_interrupt.h, for any number of
\* lines and of interrupts and any width of the counters: with an item per interrupt
\* each is counted on its own line, once in each half, with one item or thread there
\* are never more bottom halves than interrupts, and freeup_irqs takes back every
\* handler whose counter has not wrapped to a negative value.
THEOREM EveryLineAccounted == AllLines!Spec => []LinesAccounted
<1>1. AllLines!Init => LinesInv
  <2> SUFFICES ASSUME AllLines!Init PROVE LinesInv
    OBVIOUS
  <2>0. AllLines!First = 0 /\ 0 \in Lines /\ Lines \subseteq Nat
    BY FirstLine, InterruptsAssumption
  <2>1. LineTypes
    BY <2>0, InterruptsAssumption DEF AllLines!Init, LineTypes
  <2>2. KindInv
    BY DEF AllLines!Init, KindInv
  <2>3. \A l \in Lines : CountedInv(l)
    BY DEF AllLines!Init, CountedInv, Fresh, SettingUp, Passed
  <2>4. OwnItemInv
    BY DEF AllLines!Init, OwnItemInv
  <2>5. Places(a_raised) = {} /\ Places(a_bhs) = {} /\ Coming = {} /\ Due = 0
    BY DEF AllLines!Init, Places, Coming, Due
  <2>6. OneItemInv
    BY <2>5, FS_EmptySet DEF OneItemInv
  <2> QED BY <2>1, <2>2, <2>3, <2>4, <2>6 DEF LinesInv
<1>2. LinesInv /\ [AllLines!Next]_allVars => LinesInv'
  <2> SUFFICES ASSUME LinesInv, [AllLines!Next]_allVars PROVE LinesInv'
    OBVIOUS
  <2>1. CASE AllLines!Next
    <3>1. \A l \in Lines : CountedInv(l)'
      BY <2>1, CountedStep DEF LinesInv
    <3> QED BY <2>1, <3>1, LineTypesStep, OwnItemStep, OneItemStep DEF LinesInv
  <2>2. CASE UNCHANGED allVars
    BY <2>2 DEF allVars, LinesInv, LineTypes, KindInv, CountedInv, Fresh, SettingUp, Passed,
                Uncounted, OwnItemInv, OneItemInv, Due, Coming
  <2> QED BY <2>1, <2>2
<1>3. LinesInv => LinesAccounted
  <2> SUFFICES ASSUME LinesInv PROVE LinesAccounted
    OBVIOUS
  <2> USE DEF LinesInv, LineTypes
  <2>1. ASSUME a_kind = "dynamic", a_phase \in {"live", "exit"}, NEW l \in a_installed
        PROVE  /\ a_interrupts[l] = AllLines!Signed(a_raised[l] - a_early[l]
                                      - IF a_hpc[l] = "count" THEN 1 ELSE 0)
               /\ a_raised[l] = a_bhs[l] + a_queued[l] + IF a_hpc[l] = "idle" THEN 0 ELSE 1
    <3>1. l \in Lines /\ ~SettingUp(l) /\ a_hpc[l] # "cond"
      BY <2>1 DEF SettingUp, KindInv
    <3>2. Uncounted(l) = IF a_hpc[l] = "count" THEN 1 ELSE 0
      BY <3>1 DEF Uncounted
    <3>3. a_interrupts[l] = AllLines!Signed(a_raised[l] - a_early[l] - Uncounted(l))
      BY <3>1 DEF CountedInv
    <3> QED BY <2>1, <3>1, <3>2, <3>3 DEF OwnItemInv
  <2>2. AllLines!Total(a_bhs) <= AllLines!Total(a_raised)
    <3>1. /\ IsFiniteSet(Places(a_bhs)) /\ IsFiniteSet(Places(a_raised))
          /\ Cardinality(Places(a_bhs)) \in Nat /\ Cardinality(Places(a_raised)) \in Nat
      BY FS_CardinalityType DEF OneItemInv
    <3>2. CASE a_kind = "dynamic"
      <4>1. \A l \in Lines : a_bhs[l] <= a_raised[l]
        BY <3>2 DEF OwnItemInv
      <4> QED BY <3>1, <4>1, NoMore, TotalPlaces
    <3>3. CASE a_kind # "dynamic"
      <4>1. Coming \in SUBSET Lines /\ IsFiniteSet(Lines)
        BY InterruptsAssumption DEF Coming
      <4>2. Cardinality(Coming) \in Nat
        BY <4>1, FS_Subset, FS_CardinalityType
      <4>3. Due \in 0..2
        BY DEF Due
      <4>4. Cardinality(Places(a_bhs)) + Due + Cardinality(Coming) <= Cardinality(Places(a_raised))
        BY <3>3 DEF OneItemInv
      <4>5. Cardinality(Places(a_bhs)) <= Cardinality(Places(a_raised))
        BY <3>1, <4>2, <4>3, <4>4
      <4> QED BY <4>5, TotalPlaces
    <3> QED BY <3>2, <3>3
  <2>3. a_phase = "gone" => \A l \in a_installed : a_raised[l] - a_early[l] >= Half
    BY DEF CountedInv, Passed
  <2> QED BY <2>1, <2>2, <2>3 DEF LinesAccounted, AllLines!LinesAccounted
<1> QED BY <1>1, <1>2, <1>3, PTL DEF AllLines!Spec, AllLines!vars, allVars
=============================================================================
