--------------------------- MODULE MCProcessCycle ---------------------------
(***************************************************************************)
(* The master of ProcessCycle for TLC.                                     *)
(***************************************************************************)
EXTENDS ProcessCycle
=============================================================================
