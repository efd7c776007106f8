---------------------------- MODULE ScanStream ----------------------------
(***************************************************************************)
(* What a caller of `run` (src/src/scan.rs) can rely on in the stream of   *)
(* events it is given and in the result, whatever the workers do: the two  *)
(* passes in order, hits announced once and all of them returned, progress *)
(* that is within bounds but in no order, a skipped pass that is explained *)
(* and ends the stream.  `run` looks at the token before it announces a    *)
(* pass, never as it does: a pass may begin after a cancellation, but only *)
(* one that was decided on before, and no other decision for a pass is     *)
(* taken from then on.                                                     *)
(*                                                                         *)
(* Scan implements it; Gui is a caller that is built on it.                *)
(***************************************************************************)
EXTENDS ScanEvents, SequencesExt

CONSTANTS
  Requests,     \* [items, threads, stop, verify]: the scans a caller may ask for
  Cadence       \* a progress event each so many items

VARIABLES
  request,
  token,   \* the flag of the CancellationToken
  phase,   \* where `run` is, one of Phases
  stream,  \* every event emitted so far
  result   \* the set of the hits returned, {} until then

vars == <<request, token, phase, stream, result>>

(* "ready", "clear": a pass was decided on; "cancelled": none is begun.    *)
Phases == {"new", "ready", "first", "clear", "cancelled", "second", "over", "closed"}

Announced == {stream[i].hit : i \in {j \in DOMAIN stream : stream[j].type = "PortHit"}}
StoppedAtHit == request.stop /\ \E h \in Announced : h.kind \in AdbKinds

Pass == IF phase = "first" THEN 1 ELSE 2
Started(p) == \E n \in 1..request.items : Contains(stream, PassStarted(p, n))
TotalOf(p) == CHOOSE n \in 1..request.items : Contains(stream, PassStarted(p, n))

Init ==
  /\ request \in Requests
  /\ token \in BOOLEAN
  /\ phase = "new"
  /\ stream = <<>>
  /\ result = {}

Emit(e) == stream' = Append(stream, e)

Cancel ==
  /\ phase # "closed" /\ ~token
  /\ token' = TRUE
  /\ UNCHANGED <<request, phase, stream, result>>

ReturnEmpty ==
  /\ phase = "new"
  /\ request.items = 0 \/ token
  /\ phase' = "closed"
  /\ UNCHANGED <<request, token, stream, result>>

Begin ==
  /\ phase = "new"
  /\ request.items > 0 /\ ~token
  /\ phase' = "ready"
  /\ UNCHANGED <<request, token, stream, result>>

FirstPass ==
  /\ phase = "ready"
  /\ phase' = "first"
  /\ Emit(PassStarted(1, request.items))
  /\ UNCHANGED <<request, token, result>>

Scanning == phase = "first" \/ phase = "second"

Announce ==
  /\ Scanning
  /\ \E i \in 1..request.items, k \in IF request.verify THEN Kinds ELSE {"Open"} :
       /\ \A h \in Announced : h.item # i
       /\ Emit(PortHit([item |-> i, kind |-> k]))
  /\ UNCHANGED <<request, token, phase, result>>

(* Each multiple of the cadence at most once, in any order. *)
Report ==
  /\ Scanning
  /\ LET total == TotalOf(Pass)
     IN \E n \in {m \in 1..total : m % Cadence = 0} :
          /\ ~Contains(stream, Progress(Pass, n, total))
          /\ Emit(Progress(Pass, n, total))
  /\ UNCHANGED <<request, token, phase, result>>

(* The threads are not as many as were asked for. *)
Spawned ==
  /\ Scanning
  /\ \E n \in 0..TotalOf(Pass) :
       /\ n # request.threads
       /\ \A i \in DOMAIN stream :
            stream[i].type = "ThreadsSpawned" => stream[i].pass # Pass
       /\ Emit(ThreadsSpawned(Pass, request.threads, n))
  /\ UNCHANGED <<request, token, phase, result>>

Decide ==
  /\ phase = "first"
  /\ phase' = IF token THEN "cancelled" ELSE "clear"
  /\ UNCHANGED <<request, token, stream, result>>

SecondPass ==
  /\ phase = "clear" /\ ~StoppedAtHit
  /\ phase' = "second"
  /\ \E n \in 1..request.items : Emit(PassStarted(2, n))
  /\ UNCHANGED <<request, token, result>>

Skip ==
  /\ phase = "cancelled" \/ (phase = "clear" /\ StoppedAtHit)
  /\ phase' = "over"
  /\ \E n \in 1..request.items :
       Emit(PassSkipped(n, IF phase = "cancelled" THEN "Cancelled" ELSE "HitFound"))
  /\ UNCHANGED <<request, token, result>>

(* There is no second pass to begin or to skip, or it has ended. *)
Finish ==
  /\ phase \in {"clear", "cancelled", "second"}
  /\ phase' = "over"
  /\ UNCHANGED <<request, token, stream, result>>

Return ==
  /\ phase = "over"
  /\ phase' = "closed"
  /\ result' = Announced
  /\ UNCHANGED <<request, token, stream>>

Run ==
  \/ ReturnEmpty \/ Begin \/ FirstPass \/ Announce \/ Report \/ Spawned
  \/ Decide \/ SecondPass \/ Skip \/ Finish \/ Return

Next == Cancel \/ Run

(* The scan goes on until it returns. *)
Spec == Init /\ [][Next]_vars /\ WF_vars(Run)
===========================================================================
