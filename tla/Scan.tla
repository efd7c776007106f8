------------------------------- MODULE Scan -------------------------------
(***************************************************************************)
(* The two-pass scanner of src/src/scan.rs: `run`, the pool of worker      *)
(* threads that `pass` spawns and joins, the shared counters, lists and    *)
(* flags they use, the cancellation token and the event stream.            *)
(*                                                                         *)
(* A step is one access to shared state: an atomic load, store or          *)
(* fetch_add, one locked push, one event emitted.  The work that precedes  *)
(* the access and touches only locals (a connect, a probe) is part of it.  *)
(* The relaxed atomics are interleaved: a store is seen by every later     *)
(* load.                                                                   *)
(***************************************************************************)
EXTENDS ScanEvents, SequencesExt

CONSTANTS
  Configs,         \* the ScanCfg values a caller may pass to `run`
  HardMaxThreads,  \* the largest worker count (HARD_MAX_THREADS)
  ProgressEvery,   \* PROGRESS_EVERY: a progress event each so many items
  Faults           \* subset of {"spawn", "panic"}: what the environment may do

(***************************************************************************)
(* `items` is targets.len() * ports.len(): a work item is its position in  *)
(* the list that `run` flattens.  `threads` may be 0: the fields of        *)
(* ScanCfg are public, and only the builder clamps it.                     *)
(***************************************************************************)
Config == [items : Nat, threads : 0..HardMaxThreads, stop : BOOLEAN, verify : BOOLEAN]

ASSUME ConfigAssumption ==
  /\ HardMaxThreads \in Nat \ {0}
  /\ Configs \subseteq Config
  /\ ProgressEvery \in Nat \ {0}
  /\ Faults \subseteq {"spawn", "panic"}

VARIABLES
  cfg,        \* the configuration of this run; never changes
  token,      \* the flag of the CancellationToken
  main,       \* where `run` is; its local `cancelled` is in the label
  pass,       \* pass_label, 1 or 2
  work,       \* the work list of the current pass
  next,       \* AtomicUsize: index of the next item to claim
  scanned,    \* AtomicUsize: items processed in this pass
  spawned,    \* handles.len()
  pc,         \* where each worker is
  item,       \* the item a worker holds (0: none)
  kind,       \* the AdbKind a worker's probe returned
  done,       \* a worker's `done`, the progress it is about to report
  hits,       \* Mutex<Vec<Hit>>
  pending,    \* Mutex<Vec<Work>>: items that timed out in pass 1
  localStop,  \* local_stop
  events,     \* every event emitted so far, in order
  out         \* what `run` returned

(* History variables: no action's guard reads them. *)
VARIABLES
  fate,       \* what became of each item
  late,       \* items each worker claimed after a stop was requested
  degraded    \* a pass ended without one worker that left its loop normally

shared == <<next, scanned, hits, pending, localStop>>
locals == <<item, kind, done>>
history == <<fate, late, degraded>>
vars == <<cfg, token, main, pass, work, next, scanned, spawned, pc, item, kind,
          done, hits, pending, localStop, events, out, fate, late, degraded>>

Workers == 1..HardMaxThreads
Total == Len(work)

(* cfg.threads.min(total).max(1) *)
Threads ==
  IF cfg.threads = 0 \/ Total = 0 THEN 1
  ELSE IF cfg.threads <= Total THEN cfg.threads ELSE Total

\* Mutant: the workers look at the token only.
ShouldStop_TokenOnly == token
ShouldStop == localStop \/ token

\* Mutant: the last item is never claimed.
Exhausted_OffByOne == next + 1 >= Total
Exhausted == next >= Total

\* Mutant: `join` reports a panic as a thread still running.
Finished_NoPanic == {"exited"}
Finished == {"exited", "panicked"}

\* Mutant: only the last handle is joined.
Joined_LastOnly == spawned = 0 \/ pc[spawned] \in Finished
Joined == \A w \in 1..spawned : pc[w] \in Finished

HasAdb == \E h \in ToSet(hits) : h.kind \in AdbKinds

\* Mutant: the work of pass 2 is the whole list again.
Remaining_All == work
Remaining == pending

(* Where `run` is once it has read the token, with what it read. *)
DecidedOn == {"uncancelled", "cancelled"}

\* Mutant: the token is not looked at between the passes.
GoesOn_DespiteToken == ~(cfg.stop /\ HasAdb)
GoesOn == main = "uncancelled" /\ ~(cfg.stop /\ HasAdb)

\* Mutant: the hit is tested before the token.
SkipReason_HitFirst == IF HasAdb THEN "HitFound" ELSE "Cancelled"
SkipReason == IF main = "cancelled" THEN "Cancelled" ELSE "HitFound"

(***************************************************************************)
(* The order `run` sorts its result in: plaintext ADB, then ADB over TLS,  *)
(* then open ports; ties by target and port, for which the item stands.    *)
(***************************************************************************)
\* Mutant: the ranks of open ports and of plaintext ADB are swapped.
Priority_Swapped(k) == [Plain |-> 2, Tls |-> 1, Open |-> 0][k]
Priority(k) == [Plain |-> 0, Tls |-> 1, Open |-> 2][k]
Before(g, h) ==
  \/ Priority(g.kind) < Priority(h.kind)
  \/ g.kind = h.kind /\ g.item < h.item

(* What sort_by leaves of a list: all of it, and nothing behind what it comes before. *)
Rearranged(s) == {[i \in 1..Len(s) |-> s[p[i]]] : p \in Bijection(1..Len(s), 1..Len(s))}
InOrder(s) == \A i, j \in 1..Len(s) : i < j => ~Before(s[j], s[i])
Sorted(s) == {t \in Rearranged(s) : InOrder(t)}

-----------------------------------------------------------------------------
Init ==
  /\ cfg \in Configs
  /\ token \in BOOLEAN
  /\ main = "start"
  /\ pass = 1
  /\ work = [i \in 1..cfg.items |-> i]
  /\ next = 0
  /\ scanned = 0
  /\ spawned = 0
  /\ pc = [w \in Workers |-> "unborn"]
  /\ item = [w \in Workers |-> 0]
  /\ kind = [w \in Workers |-> "Open"]
  /\ done = [w \in Workers |-> 0]
  /\ hits = <<>>
  /\ pending = <<>>
  /\ localStop = FALSE
  /\ events = <<>>
  /\ out = <<>>
  /\ fate = [i \in 1..cfg.items |-> "todo"]
  /\ late = [w \in Workers |-> 0]
  /\ degraded = FALSE

(* CancellationToken::cancel, from any thread at any time. *)
Cancel ==
  /\ main # "done"
  /\ ~token
  /\ token' = TRUE
  /\ UNCHANGED <<cfg, main, pass, work, shared, spawned, pc, locals, events, out, history>>

-----------------------------------------------------------------------------
(* The thread that called `run`. *)

(* `run` returns at once: there is no work, or the token is already set. *)
ReturnEmpty ==
  /\ main = "start"
  /\ cfg.items = 0 \/ token
  /\ main' = "done"
  /\ out' = <<>>
  /\ UNCHANGED <<cfg, token, pass, work, shared, spawned, pc, locals, events, history>>

(* There is work and the token is not set yet: the scan will begin. *)
Begin ==
  /\ main = "start"
  /\ cfg.items > 0 /\ ~token
  /\ main' = "announce"
  /\ UNCHANGED <<cfg, token, pass, work, shared, spawned, pc, locals, events, out, history>>

FirstPass ==
  /\ main = "announce"
  /\ main' = "spawn"
  /\ events' = Append(events, PassStarted(1, cfg.items))
  /\ UNCHANGED <<cfg, token, pass, work, shared, spawned, pc, locals, out, history>>

(* The workers already spawned run while the loop spawns the others. *)
Spawn ==
  /\ main = "spawn"
  /\ spawned < Threads
  /\ spawned' = spawned + 1
  /\ pc' = [pc EXCEPT ![spawned + 1] = "top"]
  /\ UNCHANGED <<cfg, token, main, pass, work, shared, locals, events, out, history>>

(* The loop is over, or the system refuses a thread and the loop breaks. *)
SpawnEnd ==
  /\ main = "spawn"
  /\ spawned = Threads \/ "spawn" \in Faults
  /\ main' = "join"
  /\ events' = IF spawned = cfg.threads THEN events
               ELSE Append(events, ThreadsSpawned(pass, cfg.threads, spawned))
  /\ UNCHANGED <<cfg, token, pass, work, shared, spawned, pc, locals, out, history>>

(* All handles joined; a worker that panicked is joined like the others. *)
Join ==
  /\ main = "join"
  /\ Joined
  /\ main' = IF pass = 1 THEN "decide" ELSE "collect"
  /\ degraded' = (degraded \/ \A w \in 1..spawned : pc[w] = "panicked")
  /\ UNCHANGED <<cfg, token, pass, work, shared, spawned, pc, locals, events, out, fate, late>>

(* The token is read once; the lists are nobody else's any more. *)
Decide ==
  /\ main = "decide"
  /\ main' = IF token THEN "cancelled" ELSE "uncancelled"
  /\ UNCHANGED <<cfg, token, pass, work, shared, spawned, pc, locals, events, out, history>>

SecondPass ==
  /\ main \in DecidedOn
  /\ pending # <<>> /\ GoesOn
  /\ main' = "spawn"
  /\ pass' = 2
  /\ work' = Remaining
  /\ pending' = <<>>
  /\ next' = 0 /\ scanned' = 0 /\ spawned' = 0
  /\ pc' = [w \in Workers |-> "unborn"]
  /\ events' = Append(events, PassStarted(2, Len(Remaining)))
  /\ UNCHANGED <<cfg, token, locals, hits, localStop, out, history>>

SkipSecondPass ==
  /\ main \in DecidedOn
  /\ pending # <<>> /\ ~GoesOn
  /\ main' = "collect"
  /\ pending' = <<>>
  /\ events' = Append(events, PassSkipped(Len(pending), SkipReason))
  /\ UNCHANGED <<cfg, token, pass, work, next, scanned, hits, localStop, spawned, pc,
                 locals, out, history>>

NothingPending ==
  /\ main \in DecidedOn
  /\ pending = <<>>
  /\ main' = "collect"
  /\ UNCHANGED <<cfg, token, pass, work, shared, spawned, pc, locals, events, out, history>>

Collect ==
  /\ main = "collect"
  /\ main' = "done"
  /\ out' \in Sorted(hits)
  /\ UNCHANGED <<cfg, token, pass, work, shared, spawned, pc, locals, events, history>>

Main ==
  \/ ReturnEmpty \/ Begin \/ FirstPass \/ Spawn \/ SpawnEnd \/ Join
  \/ Decide \/ SecondPass \/ SkipSecondPass \/ NothingPending \/ Collect

-----------------------------------------------------------------------------
(* A worker thread: the loop that `pass` hands to each thread it spawns. *)

Goto(w, label) == pc' = [pc EXCEPT ![w] = label]

Decided(w, f) == fate' = [fate EXCEPT ![item[w]] = f]

(* The iteration is over: its locals go out of scope. *)
DropLocals(w) ==
  /\ item' = [item EXCEPT ![w] = 0]
  /\ kind' = [kind EXCEPT ![w] = "Open"]

CheckStop(w) ==
  /\ pc[w] = "top"
  /\ Goto(w, IF ShouldStop THEN "exited" ELSE "claim")
  /\ UNCHANGED <<cfg, token, main, pass, work, shared, spawned, locals, events, out, history>>

Claim(w) ==
  /\ pc[w] = "claim"
  /\ next' = next + 1
  /\ \/ /\ Exhausted
        /\ Goto(w, "exited")
        /\ UNCHANGED <<item, late>>
     \/ /\ ~Exhausted
        /\ Goto(w, "connect")
        /\ item' = [item EXCEPT ![w] = work[next + 1]]
        /\ late' = IF localStop \/ token THEN [late EXCEPT ![w] = @ + 1] ELSE late
  /\ UNCHANGED <<cfg, token, main, pass, work, scanned, hits, pending, localStop,
                 spawned, kind, done, events, out, fate, degraded>>

(* The connection is refused or fails: nothing is recorded. *)
ConnectClosed(w) ==
  /\ pc[w] = "connect"
  /\ Goto(w, "count")
  /\ Decided(w, "closed")
  /\ DropLocals(w)
  /\ UNCHANGED <<cfg, token, main, pass, work, shared, spawned, done, events, out, late, degraded>>

(* No answer within connect_timeout: deferred to pass 2, and dropped there. *)
ConnectTimeout(w) ==
  /\ pc[w] = "connect"
  /\ Goto(w, "count")
  /\ pending' = IF pass = 1 THEN Append(pending, item[w]) ELSE pending
  /\ Decided(w, IF pass = 1 THEN "deferred" ELSE "silent")
  /\ DropLocals(w)
  /\ UNCHANGED <<cfg, token, main, pass, work, next, scanned, hits, localStop, spawned,
                 done, events, out, late, degraded>>

(* The port is open: go on to the probe unless a stop was requested. *)
ConnectOpen(w) ==
  /\ pc[w] = "connect"
  /\ \/ /\ ~ShouldStop
        /\ Goto(w, "probe")
        /\ Decided(w, "open")
        /\ UNCHANGED <<item, kind>>
     \/ /\ ShouldStop
        /\ Goto(w, "count")
        /\ Decided(w, "dropped")
        /\ DropLocals(w)
  /\ UNCHANGED <<cfg, token, main, pass, work, shared, spawned, done, events, out, late, degraded>>

(* The probe returned: report its kind unless a stop was requested meanwhile. *)
Probe(w) ==
  /\ pc[w] = "probe"
  /\ \/ /\ ~ShouldStop
        /\ \E k \in IF cfg.verify THEN Kinds ELSE {"Open"} :
             kind' = [kind EXCEPT ![w] = k]
        /\ Goto(w, "emit")
        /\ UNCHANGED <<item, fate>>
     \/ /\ ShouldStop
        /\ Goto(w, "count")
        /\ Decided(w, "dropped")
        /\ DropLocals(w)
  /\ UNCHANGED <<cfg, token, main, pass, work, shared, spawned, done, events, out, late, degraded>>

\* Mutant: the hit names the shared counter's index, not the worker's item.
FoundHit_Index(w) == [item |-> next, kind |-> kind[w]]
FoundHit(w) == [item |-> item[w], kind |-> kind[w]]

EmitHit(w) ==
  /\ pc[w] = "emit"
  /\ events' = Append(events, PortHit(FoundHit(w)))
  /\ Goto(w, "push")
  /\ UNCHANGED <<cfg, token, main, pass, work, shared, spawned, locals, out, history>>

\* Mutants: any hit stops the scan; ADB over TLS does not.
StopsScan_AnyRun(w) == kind[w] \in AdbKinds
StopsScan_PlainOnly(w) == cfg.stop /\ kind[w] = "Plain"
StopsScan(w) == cfg.stop /\ kind[w] \in AdbKinds

PushHit(w) ==
  /\ pc[w] = "push"
  /\ hits' = Append(hits, FoundHit(w))
  /\ Goto(w, IF StopsScan(w) THEN "store" ELSE "count")
  /\ Decided(w, "hit")
  /\ DropLocals(w)
  /\ UNCHANGED <<cfg, token, main, pass, work, next, scanned, pending, localStop, spawned,
                 done, events, out, late, degraded>>

StoreStop(w) ==
  /\ pc[w] = "store"
  /\ localStop' = TRUE
  /\ Goto(w, "count")
  /\ UNCHANGED <<cfg, token, main, pass, work, next, scanned, hits, pending, spawned,
                 locals, events, out, history>>

Count(w) ==
  /\ pc[w] = "count"
  /\ scanned' = scanned + 1
  /\ \/ /\ (scanned + 1) % ProgressEvery = 0
        /\ Goto(w, "progress")
        /\ done' = [done EXCEPT ![w] = scanned + 1]
     \/ /\ (scanned + 1) % ProgressEvery # 0
        /\ Goto(w, "top")
        /\ UNCHANGED done
  /\ UNCHANGED <<cfg, token, main, pass, work, next, hits, pending, localStop, spawned,
                 item, kind, events, out, history>>

\* Mutant: the counter is read again instead of the value fetch_add returned.
ReportedDone_Reload(w) == scanned
ReportedDone(w) == done[w]

EmitProgress(w) ==
  /\ pc[w] = "progress"
  /\ events' = Append(events, Progress(pass, ReportedDone(w), Total))
  /\ done' = [done EXCEPT ![w] = 0]
  /\ Goto(w, "top")
  /\ UNCHANGED <<cfg, token, main, pass, work, shared, spawned, item, kind, out, history>>

(***************************************************************************)
(* The caller's on_event callback panics: the worker unwinds.  A hit it    *)
(* was about to record is never pushed.                                    *)
(***************************************************************************)
CallbackPanics(w) ==
  /\ "panic" \in Faults
  /\ pc[w] \in {"emit", "progress"}
  /\ Goto(w, "panicked")
  /\ fate' = IF pc[w] = "emit" THEN [fate EXCEPT ![item[w]] = "lost"] ELSE fate
  /\ DropLocals(w)
  /\ done' = [done EXCEPT ![w] = 0]
  /\ UNCHANGED <<cfg, token, main, pass, work, shared, spawned, events, out, late, degraded>>

Worker(w) ==
  \/ CheckStop(w) \/ Claim(w)
  \/ ConnectClosed(w) \/ ConnectTimeout(w) \/ ConnectOpen(w)
  \/ Probe(w) \/ EmitHit(w) \/ PushHit(w) \/ StoreStop(w)
  \/ Count(w) \/ EmitProgress(w) \/ CallbackPanics(w)

-----------------------------------------------------------------------------
Terminated == main = "done" /\ UNCHANGED vars

Next == Main \/ Cancel \/ (\E w \in Workers : Worker(w)) \/ Terminated

(***************************************************************************)
(* The scheduler runs every thread, and every connect, read and write of a *)
(* worker has a timeout.  Nobody is obliged to cancel.                     *)
(***************************************************************************)
Fairness == WF_vars(Main) /\ \A w \in Workers : WF_vars(Worker(w))

Spec == Init /\ [][Next]_vars /\ Fairness

-----------------------------------------------------------------------------
Hit == [item : 1..cfg.items, kind : Kinds]

Event == EventOf(Hit)

PCs == {"unborn", "top", "claim", "connect", "probe", "emit", "push", "store",
        "count", "progress"} \union Finished

Fates == {"todo", "closed", "deferred", "silent", "open", "dropped", "hit", "lost"}

(* The labels at which a worker has an item in hand. *)
Holding == {"connect", "probe", "emit", "push"}

RunTypeOK ==
  /\ cfg \in Configs
  /\ token \in BOOLEAN
  /\ main \in {"start", "announce", "spawn", "join", "decide", "collect", "done"} \union DecidedOn
  /\ pass \in {1, 2}
  /\ work \in Seq(1..cfg.items)
  /\ next \in Nat
  /\ scanned \in Nat
  /\ spawned \in 0..HardMaxThreads
  /\ hits \in Seq(Hit)
  /\ pending \in Seq(1..cfg.items)
  /\ localStop \in BOOLEAN
  /\ events \in Seq(Event)
  /\ main # "done" => out = <<>>
  /\ fate \in [1..cfg.items -> Fates]
  /\ degraded \in BOOLEAN

WorkerTypeOK ==
  /\ pc \in [Workers -> PCs]
  /\ item \in [Workers -> 0..cfg.items]
  /\ kind \in [Workers -> Kinds]
  /\ done \in [Workers -> Nat]
  /\ late \in [Workers -> Nat]
  /\ \A w \in Workers : pc[w] \in Holding => item[w] \in 1..cfg.items

(***************************************************************************)
(* Every variable has its type; no work list, hit or event ever names an   *)
(* item outside the scan, and a worker has one in hand where it needs one. *)
(***************************************************************************)
TypeOK == RunTypeOK /\ WorkerTypeOK

(* The positions of the events of a type. *)
Places(type) == {i \in 1..Len(events) : events[i].type = type}
Announced == {events[i].hit : i \in Places("PortHit")}
AdbHits == {h \in ToSet(hits) : h.kind \in AdbKinds}
Deferred == {i \in 1..cfg.items : fate[i] = "deferred"}

(***************************************************************************)
(* The event stream and the result agree although a worker announces a hit *)
(* before it records it: nothing is recorded unannounced, no item twice,   *)
(* what is announced and not recorded is in the hands of a worker, and     *)
(* `run` returns exactly the hits it announced.                            *)
(***************************************************************************)
HitsMatchEvents ==
  /\ ToSet(hits) \subseteq Announced
  /\ \A i, j \in 1..Len(hits) : hits[i].item = hits[j].item => i = j
  /\ Cardinality(Announced) - Len(hits) = Cardinality({w \in Workers : pc[w] = "push"})
  /\ main = "done" => ToSet(out) = Announced /\ Len(out) = Len(hits)

(***************************************************************************)
(* The result is ranked: no open port comes before an ADB endpoint, and no *)
(* ADB endpoint over TLS before a plaintext one, whatever order the        *)
(* workers recorded them in.                                               *)
(***************************************************************************)
ResultRanked ==
  main = "done" =>
    \A i, j \in 1..Len(out) :
      i < j =>
        /\ out[i].kind = "Open" => out[j].kind = "Open"
        /\ out[i].kind = "Tls" => out[j].kind # "Plain"

(***************************************************************************)
(* The two stop criteria agree.  `local_stop` is only set in a run with    *)
(* stop_on_first that has recorded an ADB hit; and once the workers of     *)
(* pass 1 are joined, the flag they read and the list `run` inspects to    *)
(* decide on pass 2 say the same.  So pass 2 starts with the flag clear.   *)
(***************************************************************************)
StopFlagSound ==
  /\ localStop => cfg.stop /\ HasAdb
  /\ main \in DecidedOn => (localStop <=> cfg.stop /\ HasAdb)
  /\ main = "spawn" /\ spawned = 0 => ~localStop

(***************************************************************************)
(* A scan that nobody cancelled, that did not stop at a hit and that did   *)
(* not lose all the workers of a pass has decided every item: closed,      *)
(* silent in both passes, a hit, or the hit a panicking callback lost.     *)
(***************************************************************************)
ScanComplete ==
  main = "done" /\ ~token /\ ~localStop /\ ~degraded =>
    \A i \in 1..cfg.items :
      fate[i] \in {"closed", "silent", "hit"} \union (IF "panic" \in Faults THEN {"lost"} ELSE {})

(***************************************************************************)
(* stop_on_first: the run records at most one ADB hit per worker, the one  *)
(* it was already probing when another worker found the first; so `run`    *)
(* never returns an ADB hit of pass 2 beside one of pass 1.                *)
(***************************************************************************)
StopBound == cfg.stop => Cardinality(AdbHits) <= spawned

(***************************************************************************)
(* "return as soon as possible": after a stop is requested, by the token   *)
(* or by a hit, no worker claims more than the one item it was about to    *)
(* claim.                                                                  *)
(***************************************************************************)
LateBound == \A w \in Workers : late[w] <= 1

(***************************************************************************)
(* The protocol of the event stream.  A pass is announced before anything  *)
(* else of it and only once; every event of pass 1 precedes every event of *)
(* pass 2; a skipped pass 2 is the last event, hits included.              *)
(***************************************************************************)
EventOrder ==
  /\ events # <<>> => events[1] = PassStarted(1, cfg.items)
  /\ \A i, j \in 1..Len(events) : i < j =>
       /\ events[i].type # "PassSkipped"
       /\ events[i].type # "PortHit" /\ events[j].type # "PortHit" =>
            /\ events[i].pass <= events[j].pass
            /\ events[j].type = "PassStarted" => events[i].pass < events[j].pass

(***************************************************************************)
(* The relaxed counter never reports a value twice in a pass, and a pass   *)
(* that ran to its end has reported every multiple of PROGRESS_EVERY,      *)
(* though not in order: two workers may report theirs the other way round. *)
(***************************************************************************)
ProgressSound ==
  /\ \A i, j \in Places("Progress") :
       events[i].pass = events[j].pass /\ events[i].done = events[j].done => i = j
  /\ \A i \in Places("Progress") :
       events[i].done \in 1..events[i].total /\ events[i].done % ProgressEvery = 0
  /\ main = "collect" /\ scanned = Total /\ "panic" \notin Faults =>
       \A n \in 1..Total : n % ProgressEvery = 0 =>
         \E i \in Places("Progress") : events[i].pass = pass /\ events[i].done = n

(***************************************************************************)
(* A skipped pass 2 is explained correctly: `remaining` counts the items   *)
(* whose first connect timed out and that nobody looked at again, and the  *)
(* reason is one that holds of the run (PassSkipReason).                   *)
(***************************************************************************)
SkipExplained ==
  \A i \in Places("PassSkipped") :
    /\ events[i].remaining = Cardinality(Deferred) /\ events[i].remaining > 0
    /\ events[i].reason = "Cancelled" => token
    /\ events[i].reason = "HitFound" => cfg.stop /\ HasAdb

(***************************************************************************)
(* `run` returns, whatever the workers find, with or without a panicking   *)
(* callback and a refused thread.                                          *)
(***************************************************************************)
RunReturns == <>(main = "done")

(***************************************************************************)
(* The pool of threads implements the contract of `run`: each step decides *)
(* at most one item, or halts, or returns the items of the hits.           *)
(***************************************************************************)
Contract == INSTANCE ScanContract WITH
  Sizes <- {c.items : c \in Configs},
  Lossy <- "panic" \in Faults,
  halted <- token \/ localStop \/ degraded,
  result <- IF main = "done" THEN {h.item : h \in ToSet(out)} ELSE {0}

ImplementsContract == Contract!Spec

(***************************************************************************)
(* What a caller sees of the pool of threads implements the stream that    *)
(* callers are promised: hits, progress and refused threads only inside a  *)
(* pass, no pass that was not decided on before the cancellation, and a    *)
(* result that is what was announced.                                      *)
(***************************************************************************)
Phase ==
  CASE main = "start" -> "new"
    [] main = "announce" -> "ready"
    [] main = "uncancelled" -> "clear"
    [] main = "cancelled" -> "cancelled"
    [] main = "collect" -> "over"
    [] main = "done" -> "closed"
    [] OTHER -> IF pass = 1 THEN "first" ELSE "second"

Stream == INSTANCE ScanStream WITH
  Requests <- Configs,
  Cadence <- ProgressEvery,
  request <- cfg,
  phase <- Phase,
  stream <- events,
  result <- IF main = "done" THEN ToSet(out) ELSE {}

ImplementsStream == Stream!Spec
===========================================================================
