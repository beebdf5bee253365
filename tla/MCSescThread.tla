---------------------------- MODULE MCSescThread ----------------------------
(* Instances of the native threads for TLC: pids 7 and 14 hash to the same *)
(* slot of a table of 7, and so do 8 and the pid made up for 14.           *)
EXTENDS SescThread

Threads3 == {7, 14, 8}
=============================================================================
