----------------------------- MODULE BottomHalf -----------------------------
(***************************************************************************)
(* What every top half / bottom half pair under src/interrupts promises:   *)
(* an interrupt raises one event, and the bottom half handles only events  *)
(* that were raised, each at most once.  The solutions that "catch up"     *)
(* promise besides that every raised event is handled.                     *)
(***************************************************************************)
EXTENDS Naturals

VARIABLES raised, handled

TypeOK == raised \in Nat /\ handled \in Nat

Init == raised = 0 /\ handled = 0

Raise == raised' = raised + 1 /\ UNCHANGED handled

Handle == handled < raised /\ handled' = handled + 1 /\ UNCHANGED raised

Next == Raise \/ Handle

Spec == Init /\ [][Next]_<<raised, handled>>

\* No more bottom halves than top halves.
NeverAhead == handled <= raised
=============================================================================
