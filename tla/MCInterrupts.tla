---------------------------- MODULE MCInterrupts ----------------------------
(***************************************************************************)
(* Model checking of the interrupt handlers of src/interrupts and of what  *)
(* they leave to others: a thread (OneThread), tasklets and work items     *)
(* (OneDeferred), a threaded handler (ThreadedIrq), the handlers on all    *)
(* lines (AllIrqs), an item that is handed a datum (Deferral), and user    *)
(* space (UioEvents).  One module is loaded at a time: `bottom_half' says  *)
(* of which kind, and the state of the other kinds stays initial.          *)
(***************************************************************************)
EXTENDS OneThread, FiniteSets

CONSTANTS
  DeferredDrivers,   \* the solutions of OneDeferred considered
  Wrap,              \* number of values of an atomic_t
  Lines, AllKinds, MaxRaised, Half,        \* of AllIrqs; MaxRaised of UioEvents too
  Producers, DeferralKinds, MaxStores,     \* of Deferral
  Readers                                  \* of UioEvents

\* The lines are numbered from 0 to nr_irqs - 1.
ASSUME InterruptsAssumption ==
  /\ DeferredDrivers \subseteq {"static", "catchup", "dynamic"}
  /\ IsFiniteSet(Producers)
  /\ IsFiniteSet(Lines) /\ 0 \in Lines /\ Lines = 0..(Cardinality(Lines) - 1)
  /\ AllKinds \subseteq {"tasklet", "workqueue", "thread", "dynamic"}
  /\ Half \in Nat \ {0}

VARIABLES
  bottom_half,
  d_driver, d_mod, d_hpc, d_pending, d_active, d_bpc, d_nevents, d_catchup, d_th, d_bh,
  i_mod, i_hpc, i_runthread, i_tpc, i_nevents, i_th, i_bh,
  a_kind, a_phase, a_at, a_step, a_installed, a_hpc, a_my_irq, a_queued, a_item, a_cond,
  a_tpc, a_t_irq, a_stop, a_interrupts, a_bhs, a_raised, a_early,
  f_kind, f_mod, f_ppc, f_datum, f_due, f_pending, f_active, f_seen,
  u_mod, u_nevents, u_rpc, u_nev, u_ready, u_raised, u_taken, u_given, u_shared

deferredVars == <<d_driver, d_mod, d_hpc, d_pending, d_active, d_bpc, d_nevents,
                  d_catchup, d_th, d_bh>>
threadedVars == <<i_mod, i_hpc, i_runthread, i_tpc, i_nevents, i_th, i_bh>>
allVars == <<a_kind, a_phase, a_at, a_step, a_installed, a_hpc, a_my_irq, a_queued,
             a_item, a_cond, a_tpc, a_t_irq, a_stop, a_interrupts, a_bhs, a_raised, a_early>>
itemVars == <<f_kind, f_mod, f_ppc, f_datum, f_due, f_pending, f_active, f_seen>>
uioVars == <<u_mod, u_nevents, u_rpc, u_nev, u_ready, u_raised, u_taken, u_given, u_shared>>

Deferred == INSTANCE OneDeferred WITH
  Drivers <- DeferredDrivers, driver <- d_driver, mod <- d_mod, hpc <- d_hpc,
  pending <- d_pending, active <- d_active, bpc <- d_bpc, nevents <- d_nevents,
  catchup <- d_catchup, counter_th <- d_th, counter_bh <- d_bh

DeferredBH == INSTANCE BottomHalf WITH raised <- d_th, handled <- d_bh

Threaded == INSTANCE ThreadedIrq WITH
  mod <- i_mod, hpc <- i_hpc, runthread <- i_runthread, tpc <- i_tpc,
  nevents <- i_nevents, counter_th <- i_th, counter_bh <- i_bh

AllLines == INSTANCE AllIrqs WITH
  Kinds <- AllKinds, kind <- a_kind, phase <- a_phase, at <- a_at, step <- a_step,
  installed <- a_installed, hpc <- a_hpc, my_irq <- a_my_irq, queued <- a_queued,
  item <- a_item, cond <- a_cond, tpc <- a_tpc, t_irq <- a_t_irq, stop <- a_stop,
  interrupts <- a_interrupts, bhs <- a_bhs, raised <- a_raised, early <- a_early

OneItem == INSTANCE Deferral WITH
  Kinds <- DeferralKinds, kind <- f_kind, mod <- f_mod, ppc <- f_ppc, datum <- f_datum, due <- f_due,
  pending <- f_pending, active <- f_active, seen <- f_seen

UserSpace == INSTANCE UioEvents WITH
  mod <- u_mod, nevents <- u_nevents, rpc <- u_rpc, nev <- u_nev, ready <- u_ready,
  raised <- u_raised, taken <- u_taken, given <- u_given, shared <- u_shared

MCInit ==
  /\ bottom_half \in {"thread", "deferred", "threaded", "all", "item", "uio"}
  /\ Init /\ Deferred!Init /\ Threaded!Init /\ AllLines!Init /\ OneItem!Init /\ UserSpace!Init
  /\ bottom_half # "thread" => driver = CHOOSE d \in Drivers : TRUE
  /\ bottom_half # "deferred" => d_driver = CHOOSE d \in DeferredDrivers : TRUE
  /\ bottom_half # "all" => a_kind = CHOOSE k \in AllKinds : TRUE
  /\ bottom_half # "item" => f_kind = CHOOSE k \in DeferralKinds : TRUE

MCNext ==
  \/ /\ bottom_half = "thread" /\ Next
     /\ UNCHANGED <<bottom_half, deferredVars, threadedVars, allVars, itemVars, uioVars>>
  \/ /\ bottom_half = "deferred" /\ Deferred!Next
     /\ UNCHANGED <<bottom_half, vars, threadedVars, allVars, itemVars, uioVars>>
  \/ /\ bottom_half = "threaded" /\ Threaded!Next
     /\ UNCHANGED <<bottom_half, vars, deferredVars, allVars, itemVars, uioVars>>
  \/ /\ bottom_half = "all" /\ AllLines!Next
     /\ UNCHANGED <<bottom_half, vars, deferredVars, threadedVars, itemVars, uioVars>>
  \/ /\ bottom_half = "item" /\ OneItem!Next
     /\ UNCHANGED <<bottom_half, vars, deferredVars, threadedVars, allVars, uioVars>>
  \/ /\ bottom_half = "uio" /\ UserSpace!Next
     /\ UNCHANGED <<bottom_half, vars, deferredVars, threadedVars, allVars, itemVars>>

\* No action under fairness is enabled in the initial state of its component, so
\* the fairness of a component that is not loaded asks for nothing.
MCSpec ==
  /\ MCInit
  /\ [][MCNext]_<<bottom_half, vars, deferredVars, threadedVars, allVars, itemVars, uioVars>>
  /\ Fairness /\ Deferred!Fairness /\ Threaded!Fairness

\* OneThread and OneDeferred: each counted interrupt is in nevents, in an item or
\* handled, once.
EventsCounted == EventsConserved /\ Deferred!EventsAccounted

\* OneThread and OneDeferred implement the abstract bottom half: an event is handled
\* after it was raised, and once.
ImplementBottomHalf == ImplementsBottomHalf /\ DeferredBH!Spec

\* OneDeferred: the catching-up tasklet leaves no event behind.
PendingConsumed == Deferred!PendingHandled

\* ThreadedIrq: no event waits without somebody who will take it.
NoEventStranded == Threaded!NoEventStranded

\* AllIrqs: the counters of every line account for its interrupts.
LinesAccounted == AllLines!LinesAccounted

\* Deferral: the item finds what was stored before it was scheduled.
SeesLatest == OneItem!SeesLatest

\* UioEvents: every event is taken, once.
EventsTakenOnce == UserSpace!EventsTakenOnce
=============================================================================
