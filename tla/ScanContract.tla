--------------------------- MODULE ScanContract ---------------------------
(***************************************************************************)
(* What `run` (src/src/scan.rs) promises about the items of a scan,        *)
(* without workers, counters, locks or passes: every item is decided       *)
(* exactly once, by an answer to the first connect or, if that timed out,  *)
(* by a second look that comes after every item had its first; an item is  *)
(* given up only once the scan is halted; and the result is the hits.      *)
(***************************************************************************)
EXTENDS Naturals

CONSTANTS
  Sizes,   \* the numbers of items a scan may have
  Lossy    \* a callback may panic, and a hit be lost with it

VARIABLES
  fate,    \* what became of each item
  halted,  \* a stop was requested, or all the workers of a pass were lost
  result   \* the items of the returned hits, {0} until `run` returns

vars == <<fate, halted, result>>

Unreturned == {0}
Final == {"closed", "silent", "hit"} \union (IF Lossy THEN {"lost"} ELSE {})

Init ==
  /\ \E n \in Sizes : fate = [i \in 1..n |-> "todo"]
  /\ halted \in BOOLEAN
  /\ result = Unreturned

Halt ==
  /\ result = Unreturned
  /\ halted' = TRUE
  /\ UNCHANGED <<fate, result>>

Decide(i, outcomes) ==
  /\ result = Unreturned
  /\ fate' \in {[fate EXCEPT ![i] = f] : f \in outcomes}
  /\ UNCHANGED <<halted, result>>

GivenUp == IF halted THEN {"dropped"} ELSE {}

(* The first connect to the item returned. *)
Answer(i) ==
  /\ fate[i] = "todo"
  /\ Decide(i, {"closed", "deferred", "open"} \union GivenUp)

(* The second connect returned. *)
Recheck(i) ==
  /\ fate[i] = "deferred"
  /\ halted \/ \A j \in DOMAIN fate : fate[j] # "todo"
  /\ Decide(i, {"closed", "silent", "open"} \union GivenUp)

(* The port is open: its hit is recorded. *)
Resolve(i) ==
  /\ fate[i] = "open"
  /\ Decide(i, {"hit"} \union (IF Lossy THEN {"lost"} ELSE {}) \union GivenUp)

Return ==
  /\ result = Unreturned
  /\ \A i \in DOMAIN fate : fate[i] # "open"
  /\ halted \/ \A i \in DOMAIN fate : fate[i] \in Final
  /\ result' = {i \in DOMAIN fate : fate[i] = "hit"}
  /\ UNCHANGED <<fate, halted>>

Scanning == Return \/ \E i \in DOMAIN fate : Answer(i) \/ Recheck(i) \/ Resolve(i)

Next == Halt \/ Scanning

(* The scan goes on until it returns. *)
Spec == Init /\ [][Next]_vars /\ WF_vars(Scanning)
===========================================================================
