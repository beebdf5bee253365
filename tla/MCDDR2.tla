------------------------------- MODULE MCDDR2 -------------------------------
(* Instances of the DRAM channel for TLC.                                  *)
EXTENDS DDR2
=============================================================================
