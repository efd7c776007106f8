------------------------------- MODULE MCGui -------------------------------
(***************************************************************************)
(* Instances of Gui for TLC: scans of one item, with the probe and a stop  *)
(* at the first hit, so that every step of ScanStream happens.             *)
(***************************************************************************)
EXTENDS Gui

MCRequests == {[items |-> 1, threads |-> 1, stop |-> TRUE, verify |-> TRUE]}
===========================================================================
