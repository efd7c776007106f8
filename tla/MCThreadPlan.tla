--------------------------- MODULE MCThreadPlan ---------------------------
(***************************************************************************)
(* Instances of ThreadPlan for TLC, with the numbers of the code.          *)
(***************************************************************************)
EXTENDS ThreadPlan

(* From one core to more than it takes to pass ManyThreads. *)
MCMachines == [cores : {1, 8, 20, 21, 32, 700}, mem : {-1, 0, 1, 2, 100, 499, 700, 714, 3000, 60000}]

(* A machine with many cores that is short of memory. *)
BusyMachines == [cores : {21, 32}, mem : {700}]

MCWork == {0, 1, 100, 1999, 2000, 2001, 65535, 16000000}
===========================================================================
