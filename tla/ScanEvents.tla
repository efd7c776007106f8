---------------------------- MODULE ScanEvents ----------------------------
(***************************************************************************)
(* The kinds of hits and the events a scan streams to its caller           *)
(* (AdbKind of src/src/detect.rs, ScanEvent of src/src/scan.rs).           *)
(***************************************************************************)
EXTENDS Naturals

AdbKinds == {"Plain", "Tls"}
Kinds == AdbKinds \union {"Open"}

PassStarted(p, n) == [type |-> "PassStarted", pass |-> p, items |-> n]
ThreadsSpawned(p, n, m) == [type |-> "ThreadsSpawned", pass |-> p, requested |-> n, actual |-> m]
PassSkipped(n, r) == [type |-> "PassSkipped", pass |-> 2, remaining |-> n, reason |-> r]
Progress(p, n, m) == [type |-> "Progress", pass |-> p, done |-> n, total |-> m]
PortHit(h) == [type |-> "PortHit", hit |-> h]

SkipReasons == {"Cancelled", "HitFound"}

(* Every event of a scan whose hits are in `hits`. *)
EventOf(hits) ==
  [type : {"PassStarted"}, pass : {1, 2}, items : Nat]
    \union [type : {"ThreadsSpawned"}, pass : {1, 2}, requested : Nat, actual : Nat]
    \union [type : {"PassSkipped"}, pass : {2}, remaining : Nat, reason : SkipReasons]
    \union [type : {"Progress"}, pass : {1, 2}, done : Nat, total : Nat]
    \union [type : {"PortHit"}, hit : hits]
===========================================================================
