------------------------------ MODULE MCScan ------------------------------
(***************************************************************************)
(* Instances of Scan for TLC: the configurations a run may be given.       *)
(***************************************************************************)
EXTENDS Scan

CONSTANTS MaxItems, MaxThreads

(* Every value of the two switches, on every small size. *)
AllConfigs ==
  [items : 0..MaxItems, threads : 0..MaxThreads, stop : BOOLEAN, verify : BOOLEAN]

(* The same, without the probe only where one worker stops at a hit. *)
LiveConfigs == {c \in AllConfigs : c.verify \/ (c.stop /\ c.threads <= 1)}

(* The largest size only, with the probe. *)
FullConfigs ==
  [items : {MaxItems}, threads : {MaxThreads}, stop : BOOLEAN, verify : {TRUE}]

NoFaults == {}
AllFaults == {"spawn", "panic"}
===========================================================================
