----------------------------- MODULE MCUsbSkel -----------------------------
(* Model-checking instances of UsbSkel. *)
EXTENDS UsbSkel, TLC

\* Processes are interchangeable (used by the runs without a temporal property).
ProcSymmetry == Permutations(Procs)
=============================================================================
