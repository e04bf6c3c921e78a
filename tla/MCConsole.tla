------------------------------- MODULE MCConsole -------------------------------
(******************************************************************************)
(* Small instances of the consoles for TLC.                                   *)
(******************************************************************************)
EXTENDS Console

================================================================================
