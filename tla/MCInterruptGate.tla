---------------------------- MODULE MCInterruptGate ----------------------------
(******************************************************************************)
(* Small instances of the interrupt gate for TLC.                             *)
(******************************************************************************)
EXTENDS InterruptGate

================================================================================
