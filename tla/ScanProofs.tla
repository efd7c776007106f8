---------------------------- MODULE ScanProofs ----------------------------
(***************************************************************************)
(* Theorems about Scan, for every set of configurations, every number of   *)
(* threads, every cadence of progress events and with or without faults.   *)
(* First the types and the pool; then how a scan stops: a worker claims at *)
(* most one item after a stop was requested, and the two stop criteria     *)
(* agree where `run` decides about pass 2; then what becomes of the items. *)
(***************************************************************************)
EXTENDS Scan, SequenceTheorems, TLAPS

LEMMA ThreadsBounded ==
  ASSUME RunTypeOK
  PROVE  Threads \in 1..HardMaxThreads
<1>1. cfg.threads \in 0..HardMaxThreads
  BY ConfigAssumption DEF RunTypeOK, Config
<1>2. Total \in Nat
  BY DEF RunTypeOK, Total
<1> QED
  BY <1>1, <1>2, ConfigAssumption DEF Threads

LEMMA ItemsNat ==
  ASSUME cfg \in Configs
  PROVE  cfg.items \in Nat
  BY ConfigAssumption DEF Config

LEMMA InitType == Init => TypeOK
<1> SUFFICES ASSUME Init PROVE TypeOK
  OBVIOUS
<1> USE ConfigAssumption
<1>1. cfg.items \in Nat
  BY DEF Init, Config
<1>2. work \in Seq(1..cfg.items)
  BY <1>1, IsASeq DEF Init
<1>3. hits \in Seq(Hit) /\ pending \in Seq(1..cfg.items) /\ events \in Seq(Event)
  BY DEF Init
<1>4. fate \in [1..cfg.items -> Fates]
  BY DEF Init, Fates
<1>5. spawned \in 0..HardMaxThreads
  BY DEF Init
<1>6. RunTypeOK
  BY <1>2, <1>3, <1>4, <1>5 DEF Init, RunTypeOK
<1>7. WorkerTypeOK
  BY <1>1 DEF Init, WorkerTypeOK, PCs, Kinds, Holding
<1> QED
  BY <1>6, <1>7 DEF TypeOK

(* A worker whose iteration is over moves on without an item. *)
LEMMA Empty ==
  ASSUME WorkerTypeOK, cfg \in Configs, cfg' = cfg,
         NEW w \in Workers, NEW label \in PCs \ Holding,
         Goto(w, label), DropLocals(w),
         done' \in [Workers -> Nat], late' \in [Workers -> Nat]
  PROVE  WorkerTypeOK'
<1>1. item' \in [Workers -> 0..cfg.items] /\ kind' \in [Workers -> Kinds]
  BY ItemsNat DEF WorkerTypeOK, DropLocals, Kinds
<1> QED
  BY <1>1 DEF WorkerTypeOK, Goto, DropLocals

(* A worker moves on with the item it has, or needs none where it goes. *)
LEMMA Keep ==
  ASSUME WorkerTypeOK, cfg' = cfg, NEW w \in Workers, NEW label \in PCs,
         Goto(w, label), item' = item, label \in Holding => pc[w] \in Holding,
         kind' \in [Workers -> Kinds], done' \in [Workers -> Nat], late' \in [Workers -> Nat]
  PROVE  WorkerTypeOK'
  BY DEF WorkerTypeOK, Goto

(* A step that changes nothing a worker owns leaves its types alone. *)
LEMMA WorkersUnchanged ==
  ASSUME WorkerTypeOK, UNCHANGED <<cfg, pc, item, kind, done, late>>
  PROVE  WorkerTypeOK'
  BY DEF WorkerTypeOK

(* The events are what their type says. *)
LEMMA EventTypes ==
  /\ \A p \in {1, 2}, n \in Nat :
       /\ PassStarted(p, n) \in Event
       /\ \A m \in Nat : ThreadsSpawned(p, n, m) \in Event
       /\ \A m \in Nat : Progress(p, n, m) \in Event
  /\ \A n \in Nat : PassSkipped(n, SkipReason) \in Event
  /\ \A h \in Hit : PortHit(h) \in Event
<1>1. ASSUME NEW p \in {1, 2}, NEW n \in Nat
      PROVE  /\ PassStarted(p, n) \in Event
             /\ \A m \in Nat : ThreadsSpawned(p, n, m) \in Event
             /\ \A m \in Nat : Progress(p, n, m) \in Event
  BY DEF Event, EventOf, PassStarted, ThreadsSpawned, Progress
<1>2. ASSUME NEW n \in Nat PROVE PassSkipped(n, SkipReason) \in Event
  BY DEF Event, EventOf, SkipReasons, PassSkipped, SkipReason
<1>3. ASSUME NEW h \in Hit PROVE PortHit(h) \in Event
  BY DEF Event, EventOf, PortHit
<1> QED
  BY <1>1, <1>2, <1>3

LEMMA SameTypes ==
  ASSUME cfg' = cfg
  PROVE  Hit' = Hit /\ Event' = Event
  BY DEF Hit, Event, EventOf

LEMMA MainType == ASSUME TypeOK, Main PROVE TypeOK'
<1>1. cfg' = cfg /\ cfg.items \in Nat
  BY ItemsNat DEF TypeOK, RunTypeOK, Main, ReturnEmpty, Begin, FirstPass, Spawn, SpawnEnd, Join,
     Decide, SecondPass, SkipSecondPass, NothingPending, Collect
<1>2. Hit' = Hit /\ Event' = Event
  BY <1>1, SameTypes
<1>3. CASE ReturnEmpty
  <2>1. RunTypeOK'
    BY <1>3, <1>2 DEF TypeOK, RunTypeOK, ReturnEmpty, shared, locals, history
  <2> QED
    BY <1>3, <2>1, WorkersUnchanged DEF TypeOK, ReturnEmpty, shared, locals, history
<1>4. CASE FirstPass
  <2>1. PassStarted(1, cfg.items) \in Event
    BY <1>1, EventTypes DEF TypeOK, RunTypeOK
  <2>2. RunTypeOK'
    BY <1>4, <1>2, <2>1 DEF TypeOK, RunTypeOK, FirstPass, shared, locals, history
  <2> QED
    BY <1>4, <2>2, WorkersUnchanged DEF TypeOK, FirstPass, shared, locals, history
<1>5. CASE Spawn
  <2>1. spawned + 1 \in Workers
    BY <1>5, ThreadsBounded, ConfigAssumption DEF Spawn, TypeOK, RunTypeOK, Workers
  <2>2. Goto(spawned + 1, "top") /\ "top" \in PCs \ Holding
    BY <1>5 DEF Spawn, Goto, PCs, Holding
  <2>3. WorkerTypeOK'
    BY <1>5, <2>1, <2>2, Keep DEF TypeOK, WorkerTypeOK, Spawn, shared, locals, history
  <2>4. RunTypeOK'
    BY <1>5, <1>2, <2>1 DEF TypeOK, RunTypeOK, Spawn, shared, locals, history, Workers
  <2> QED
    BY <2>3, <2>4 DEF TypeOK
<1>6. CASE SpawnEnd
  <2>0. cfg.threads \in Nat /\ spawned \in Nat
    BY ConfigAssumption DEF TypeOK, RunTypeOK, Config
  <2>1. ThreadsSpawned(pass, cfg.threads, spawned) \in Event
    BY <1>1, <2>0, EventTypes DEF TypeOK, RunTypeOK
  <2>2. RunTypeOK'
    BY <1>6, <1>2, <2>1 DEF TypeOK, RunTypeOK, SpawnEnd, shared, locals, history
  <2> QED
    BY <1>6, <2>2, WorkersUnchanged DEF TypeOK, SpawnEnd, shared, locals, history
<1>7. CASE Join
  <2>1. RunTypeOK'
    BY <1>7, <1>2 DEF TypeOK, RunTypeOK, Join, shared, locals, history
  <2> QED
    BY <1>7, <2>1, WorkersUnchanged DEF TypeOK, Join, shared, locals, history
<1>8. CASE SecondPass
  <2>1. PassStarted(2, Len(Remaining)) \in Event
    BY <1>1, EventTypes DEF TypeOK, RunTypeOK, Remaining
  <2>2. RunTypeOK'
    BY <1>8, <1>2, <2>1, ConfigAssumption DEF TypeOK, RunTypeOK, SecondPass, shared, locals, history, Remaining, DecidedOn
  <2>3. pc' = [w \in Workers |-> "unborn"] /\ UNCHANGED <<cfg, item, kind, done, late>>
    BY <1>8 DEF SecondPass, locals, history
  <2>4. WorkerTypeOK'
    BY <2>3 DEF TypeOK, WorkerTypeOK, PCs, Holding
  <2> QED
    BY <2>2, <2>4 DEF TypeOK
<1>9. CASE SkipSecondPass
  <2>1. PassSkipped(Len(pending), SkipReason) \in Event
    BY <1>1, EventTypes DEF TypeOK, RunTypeOK
  <2>2. RunTypeOK'
    BY <1>9, <1>2, <2>1 DEF TypeOK, RunTypeOK, SkipSecondPass, DecidedOn, shared, locals, history
  <2> QED
    BY <1>9, <2>2, WorkersUnchanged DEF TypeOK, SkipSecondPass, shared, locals, history
<1>10. CASE NothingPending
  <2>1. RunTypeOK'
    BY <1>10, <1>2 DEF TypeOK, RunTypeOK, NothingPending, DecidedOn, shared, locals, history
  <2> QED
    BY <1>10, <2>1, WorkersUnchanged DEF TypeOK, NothingPending, shared, locals, history
<1>11. CASE Collect
  <2>1. RunTypeOK'
    BY <1>11, <1>2 DEF TypeOK, RunTypeOK, Collect, shared, locals, history
  <2> QED
    BY <1>11, <2>1, WorkersUnchanged DEF TypeOK, Collect, shared, locals, history
<1>12. CASE Begin
  <2>1. RunTypeOK'
    BY <1>12, <1>2 DEF TypeOK, RunTypeOK, Begin, DecidedOn, shared, locals, history
  <2> QED
    BY <1>12, <2>1, WorkersUnchanged DEF TypeOK, Begin, shared, locals, history
<1>13. CASE Decide
  <2>1. RunTypeOK'
    BY <1>13, <1>2 DEF TypeOK, RunTypeOK, Decide, DecidedOn, shared, locals, history
  <2> QED
    BY <1>13, <2>1, WorkersUnchanged DEF TypeOK, Decide, shared, locals, history
<1> QED
  BY <1>3, <1>4, <1>5, <1>6, <1>7, <1>8, <1>9, <1>10, <1>11, <1>12, <1>13 DEF Main

(* A worker's step preserves the types. *)
LEMMA WorkerType == ASSUME TypeOK, NEW w \in Workers, Worker(w) PROVE TypeOK'
<1>1. cfg' = cfg /\ cfg.items \in Nat
  BY ItemsNat DEF TypeOK, RunTypeOK, Worker, CheckStop, Claim, ConnectClosed, ConnectTimeout,
     ConnectOpen, Probe, EmitHit, PushHit, StoreStop, Count, EmitProgress, CallbackPanics
<1>2. Hit' = Hit /\ Event' = Event
  BY <1>1, SameTypes
<1>3. "top" \in PCs \ Holding /\ "claim" \in PCs \ Holding /\ "store" \in PCs \ Holding
      /\ "count" \in PCs \ Holding /\ "progress" \in PCs \ Holding
      /\ Finished \subseteq PCs \ Holding
  BY DEF PCs, Holding, Finished
<1>4. {"connect", "probe", "emit", "push"} \subseteq PCs \intersect Holding
  BY DEF PCs, Holding
<1>5. pc[w] \in Holding => item[w] \in 1..cfg.items
  BY DEF TypeOK, WorkerTypeOK
<1>6. CASE CheckStop(w)
  <2>1. RunTypeOK'
    BY <1>6, <1>1, <1>2, <1>4, <1>5 DEF TypeOK, RunTypeOK, CheckStop, shared, locals, history
  <2>2. WorkerTypeOK'
    BY <1>6, <1>1, <1>3, <1>4, Keep DEF TypeOK, RunTypeOK, WorkerTypeOK, CheckStop, shared, locals, history, Finished
  <2> QED
    BY <2>1, <2>2 DEF TypeOK
<1>7. CASE Claim(w)
  <2>1. RunTypeOK'
    BY <1>7, <1>1, <1>2 DEF TypeOK, RunTypeOK, Claim, shared, locals, history
  <2>2. CASE Exhausted
    <3>1. Goto(w, "exited") /\ "exited" \in PCs \ Holding
      BY <1>7, <2>2, <1>3 DEF Claim, Finished
    <3>2. WorkerTypeOK'
      BY <1>7, <2>2, <3>1, <1>1, Keep DEF TypeOK, WorkerTypeOK, Claim
    <3> QED
      BY <2>1, <3>2 DEF TypeOK
  <2>3. CASE ~Exhausted
    <3>1. work[next + 1] \in 1..cfg.items
      <4>1. work \in Seq(1..cfg.items) /\ next + 1 \in 1..Len(work)
        BY <2>3 DEF TypeOK, RunTypeOK, Exhausted, Total
      <4> QED
        BY <4>1, ElementOfSeq
    <3>2. pc' = [pc EXCEPT ![w] = "connect"] /\ item' = [item EXCEPT ![w] = work[next + 1]]
      BY <1>7, <2>3 DEF Claim, Goto
    <3>3. late' \in [Workers -> Nat] /\ kind' = kind /\ done' = done
      BY <1>7, <2>3 DEF Claim, TypeOK, WorkerTypeOK
    <3>4. WorkerTypeOK'
      <4>1. item' \in [Workers -> 0..cfg.items] /\ pc' \in [Workers -> PCs]
        BY <1>1, <1>4, <3>1, <3>2 DEF TypeOK, WorkerTypeOK
      <4>2. ASSUME NEW v \in Workers, pc'[v] \in Holding PROVE item'[v] \in 1..cfg.items
        BY <4>2, <3>1, <3>2 DEF TypeOK, WorkerTypeOK
      <4> QED
        BY <1>1, <3>3, <4>1, <4>2 DEF TypeOK, WorkerTypeOK
    <3> QED
      BY <2>1, <3>4 DEF TypeOK
  <2> QED
    BY <2>2, <2>3
<1>8. CASE ConnectClosed(w)
  <2>1. RunTypeOK'
    BY <1>8, <1>1, <1>2, <1>4, <1>5 DEF TypeOK, RunTypeOK, ConnectClosed, shared, locals, history, Decided, Fates
  <2>2. WorkerTypeOK'
    BY <1>8, <1>1, <1>3, Empty DEF TypeOK, RunTypeOK, WorkerTypeOK, ConnectClosed, shared, locals, history
  <2> QED
    BY <2>1, <2>2 DEF TypeOK
<1>9. CASE ConnectTimeout(w)
  <2>0. pending' \in Seq(1..cfg.items)
    BY <1>9, <1>4, <1>5, AppendProperties DEF TypeOK, RunTypeOK, ConnectTimeout
  <2>1. RunTypeOK'
    BY <1>9, <1>1, <1>2, <2>0 DEF TypeOK, RunTypeOK, ConnectTimeout, history, Decided, Fates
  <2>2. WorkerTypeOK'
    BY <1>9, <1>1, <1>3, Empty DEF TypeOK, RunTypeOK, WorkerTypeOK, ConnectTimeout, shared, locals, history
  <2> QED
    BY <2>1, <2>2 DEF TypeOK
<1>10. CASE ConnectOpen(w)
  <2>1. RunTypeOK'
    BY <1>10, <1>1, <1>2 DEF TypeOK, RunTypeOK, ConnectOpen, shared, locals, history, Decided, Fates
  <2>2. CASE Goto(w, "probe") /\ UNCHANGED <<item, kind>>
    BY <1>10, <2>1, <2>2, <1>1, <1>4, Keep DEF TypeOK, WorkerTypeOK, ConnectOpen
  <2>3. CASE Goto(w, "count") /\ DropLocals(w)
    BY <1>10, <2>1, <2>3, <1>1, <1>3, Empty DEF TypeOK, RunTypeOK, WorkerTypeOK, ConnectOpen
  <2> QED
    BY <1>10, <2>2, <2>3 DEF ConnectOpen
<1>11. CASE Probe(w)
  <2>1. RunTypeOK'
    BY <1>11, <1>1, <1>2 DEF TypeOK, RunTypeOK, Probe, shared, locals, history, Decided, Fates
  <2>2. CASE ~ShouldStop
    <3>1. kind' \in [Workers -> Kinds] /\ Goto(w, "emit") /\ item' = item
      BY <1>11, <2>2 DEF TypeOK, WorkerTypeOK, Probe, Kinds
    <3> QED
      BY <1>11, <2>1, <3>1, <1>1, <1>4, Keep DEF TypeOK, WorkerTypeOK, Probe
  <2>3. CASE ShouldStop
    BY <1>11, <2>1, <2>3, <1>1, <1>3, Empty DEF TypeOK, RunTypeOK, WorkerTypeOK, Probe
  <2> QED
    BY <2>2, <2>3
<1>12. CASE EmitHit(w)
  <2>0. FoundHit(w) \in Hit
    BY <1>12, <1>4, <1>5 DEF TypeOK, WorkerTypeOK, EmitHit, FoundHit, Hit
  <2>1. RunTypeOK'
    BY <1>12, <1>1, <1>2, <1>4, <1>5, <2>0, EventTypes DEF TypeOK, RunTypeOK, EmitHit, shared, locals, history
  <2>2. WorkerTypeOK'
    BY <1>12, <1>1, <1>3, <1>4, Keep DEF TypeOK, RunTypeOK, WorkerTypeOK, EmitHit, shared, locals, history
  <2> QED
    BY <2>1, <2>2 DEF TypeOK
<1>13. CASE PushHit(w)
  <2>0. FoundHit(w) \in Hit
    BY <1>13, <1>4, <1>5 DEF TypeOK, WorkerTypeOK, PushHit, FoundHit, Hit
  <2>1. RunTypeOK'
    BY <1>13, <1>1, <1>2, <1>4, <1>5, <2>0 DEF TypeOK, RunTypeOK, PushHit, shared, locals, history, Decided, Fates
  <2>2. WorkerTypeOK'
    BY <1>13, <1>1, <1>3, Empty DEF TypeOK, RunTypeOK, WorkerTypeOK, PushHit, shared, locals, history
  <2> QED
    BY <2>1, <2>2 DEF TypeOK
<1>14. CASE StoreStop(w)
  <2>1. RunTypeOK'
    BY <1>14, <1>1, <1>2, <1>4, <1>5 DEF TypeOK, RunTypeOK, StoreStop, shared, locals, history
  <2>2. WorkerTypeOK'
    BY <1>14, <1>1, <1>3, <1>4, Keep DEF TypeOK, RunTypeOK, WorkerTypeOK, StoreStop, shared, locals, history
  <2> QED
    BY <2>1, <2>2 DEF TypeOK
<1>15. CASE Count(w)
  <2>1. RunTypeOK'
    BY <1>15, <1>1, <1>2 DEF TypeOK, RunTypeOK, Count, shared, locals, history
  <2>2. done' \in [Workers -> Nat] /\ UNCHANGED <<item, kind, late>>
    <3>1. done' = done \/ done' = [done EXCEPT ![w] = scanned + 1]
      BY <1>15 DEF Count
    <3> QED
      BY <1>15, <3>1 DEF TypeOK, RunTypeOK, WorkerTypeOK, Count, history
  <2>3. CASE Goto(w, "progress")
    BY <2>1, <2>2, <2>3, <1>1, <1>3, Keep DEF TypeOK, WorkerTypeOK
  <2>4. CASE Goto(w, "top")
    BY <2>1, <2>2, <2>4, <1>1, <1>3, Keep DEF TypeOK, WorkerTypeOK
  <2> QED
    BY <1>15, <2>3, <2>4 DEF Count
<1>16. CASE EmitProgress(w)
  <2>0. ReportedDone(w) \in Nat /\ Total \in Nat
    BY DEF TypeOK, RunTypeOK, WorkerTypeOK, ReportedDone, Total
  <2>1. RunTypeOK'
    BY <1>16, <1>1, <1>2, <1>4, <1>5, <2>0, EventTypes DEF TypeOK, RunTypeOK, EmitProgress, shared, locals, history
  <2>2. WorkerTypeOK'
    BY <1>16, <1>1, <1>3, <1>4, Keep DEF TypeOK, RunTypeOK, WorkerTypeOK, EmitProgress, shared, locals, history
  <2> QED
    BY <2>1, <2>2 DEF TypeOK
<1>17. CASE CallbackPanics(w)
  <2>1. RunTypeOK'
    BY <1>17, <1>1, <1>2, <1>4, <1>5 DEF TypeOK, RunTypeOK, CallbackPanics, shared, locals, history, Fates
  <2>2. WorkerTypeOK'
    BY <1>17, <1>1, <1>3, Empty DEF TypeOK, RunTypeOK, WorkerTypeOK, CallbackPanics, shared, locals, history, Finished
  <2> QED
    BY <2>1, <2>2 DEF TypeOK
<1> QED
  BY <1>6, <1>7, <1>8, <1>9, <1>10, <1>11, <1>12, <1>13, <1>14, <1>15, <1>16, <1>17 DEF Worker

(* A step preserves the types. *)
LEMMA TypeStep == TypeOK /\ [Next]_vars => TypeOK'
<1> SUFFICES ASSUME TypeOK, [Next]_vars PROVE TypeOK'
  OBVIOUS
<1>1. CASE Main
  BY <1>1, MainType
<1>2. CASE Cancel
  <2>1. UNCHANGED <<Hit, Event>>
    BY <1>2, SameTypes DEF Cancel
  <2>2. RunTypeOK'
    BY <1>2, <2>1 DEF TypeOK, RunTypeOK, Cancel, shared, history
  <2> QED
    BY <1>2, <2>2, WorkersUnchanged DEF TypeOK, Cancel, locals, history
<1>3. ASSUME NEW w \in Workers, Worker(w) PROVE TypeOK'
  BY <1>3, WorkerType
<1>4. CASE UNCHANGED vars
  <2>1. UNCHANGED <<Hit, Event>>
    BY <1>4, SameTypes DEF vars
  <2>2. RunTypeOK'
    BY <1>4, <2>1 DEF TypeOK, RunTypeOK, vars
  <2> QED
    BY <1>4, <2>2, WorkersUnchanged DEF TypeOK, vars
<1> QED
  BY <1>1, <1>2, <1>3, <1>4 DEF Next, Terminated

(***************************************************************************)
(* The state of every run is well typed: the work lists, the hits and the  *)
(* events only ever name items of the scan.                                *)
(***************************************************************************)
THEOREM TypeCorrect == Spec => []TypeOK
  BY InitType, TypeStep, PTL DEF Spec

-----------------------------------------------------------------------------
(* How a scan stops. *)

StopRequested == localStop \/ token

(***************************************************************************)
(* A stop is never taken back, and a worker that claimed an item after one *)
(* has not read the flags since: when it does, it exits.                   *)
(***************************************************************************)
LateInv ==
  \A w \in Workers :
    /\ late[w] \in {0, 1}
    /\ late[w] = 1 => StopRequested /\ pc[w] # "claim"

LEMMA LateInit == Init => LateInv
  BY DEF Init, LateInv

LEMMA LateMain == ASSUME TypeOK, LateInv, Main PROVE LateInv'
<1>1. UNCHANGED <<late, localStop, token>>
  BY DEF Main, ReturnEmpty, Begin, FirstPass, Spawn, SpawnEnd, Join, Decide, SecondPass, SkipSecondPass,
     NothingPending, Collect, shared, history
<1>2. \A v \in Workers : pc'[v] = pc[v] \/ pc'[v] \in {"top", "unborn"}
  BY DEF Main, ReturnEmpty, Begin, FirstPass, Spawn, SpawnEnd, Join, Decide, SecondPass, SkipSecondPass,
     NothingPending, Collect, TypeOK, WorkerTypeOK
<1> QED
  BY <1>1, <1>2 DEF LateInv, StopRequested

(* Every step of a worker but two leaves `late` alone and leads elsewhere. *)
LEMMA LateWorker ==
  ASSUME TypeOK, LateInv, NEW w \in Workers, Worker(w)
  PROVE  LateInv'
<1>0. pc \in [Workers -> PCs] /\ late \in [Workers -> Nat]
  BY DEF TypeOK, WorkerTypeOK
<1>1. token' = token /\ (localStop => localStop')
  BY DEF Worker, CheckStop, Claim, ConnectClosed, ConnectTimeout, ConnectOpen, Probe, EmitHit,
     PushHit, StoreStop, Count, EmitProgress, CallbackPanics, shared
<1>2. CASE CheckStop(w)
  <2>1. late' = late
    BY <1>2 DEF CheckStop, history
  <2>2. pc' = [pc EXCEPT ![w] = IF ShouldStop THEN "exited" ELSE "claim"]
    BY <1>2 DEF CheckStop, Goto
  <2>3. ASSUME NEW v \in Workers, late[v] = 1 PROVE pc'[v] # "claim"
    BY <1>0, <2>2, <2>3 DEF LateInv, StopRequested, ShouldStop
  <2> QED
    BY <1>1, <2>1, <2>3 DEF LateInv, StopRequested
<1>3. CASE Claim(w)
  <2>1. late[w] = 0
    BY <1>3 DEF Claim, LateInv
  <2>2. pc' = [pc EXCEPT ![w] = "exited"] \/ pc' = [pc EXCEPT ![w] = "connect"]
    BY <1>3 DEF Claim, Goto
  <2>3. late' = late \/ (StopRequested /\ late' = [late EXCEPT ![w] = @ + 1])
    BY <1>3 DEF Claim, StopRequested
  <2>4. ASSUME NEW v \in Workers PROVE late'[v] \in {0, 1} /\ (late'[v] = 1 => StopRequested')
    BY <1>0, <1>1, <2>1, <2>3 DEF LateInv, StopRequested
  <2>5. ASSUME NEW v \in Workers, late'[v] = 1 PROVE pc'[v] # "claim"
    BY <1>0, <2>1, <2>2, <2>3, <2>5 DEF LateInv
  <2> QED
    BY <2>4, <2>5 DEF LateInv
<1>4. CASE ~CheckStop(w) /\ ~Claim(w)
  <2>1. late' = late
    BY <1>4 DEF Worker, ConnectClosed, ConnectTimeout, ConnectOpen, Probe, EmitHit, PushHit,
       StoreStop, Count, EmitProgress, CallbackPanics, history
  <2>2. \E label \in {"count", "probe", "emit", "push", "store", "progress", "top", "panicked"} : Goto(w, label)
    BY <1>4 DEF Worker, ConnectClosed, ConnectTimeout, ConnectOpen, Probe, EmitHit, PushHit,
       StoreStop, Count, EmitProgress, CallbackPanics
  <2>3. \A v \in Workers : pc'[v] = pc[v] \/ pc'[v] # "claim"
    BY <1>0, <2>2 DEF Goto
  <2> QED
    BY <1>1, <2>1, <2>3 DEF LateInv, StopRequested
<1> QED
  BY <1>2, <1>3, <1>4

LEMMA LateStep == TypeOK /\ LateInv /\ [Next]_vars => LateInv'
<1> SUFFICES ASSUME TypeOK, LateInv, [Next]_vars PROVE LateInv'
  OBVIOUS
<1>1. CASE Main
  BY <1>1, LateMain
<1>2. CASE Cancel
  BY <1>2 DEF Cancel, shared, history, LateInv, StopRequested
<1>3. ASSUME NEW w \in Workers, Worker(w) PROVE LateInv'
  BY <1>3, LateWorker
<1>4. CASE UNCHANGED vars
  BY <1>4 DEF vars, LateInv, StopRequested
<1> QED
  BY <1>1, <1>2, <1>3, <1>4 DEF Next, Terminated

(***************************************************************************)
(* After a stop is requested no worker claims more than the one item it    *)
(* was about to claim, in both passes together.                            *)
(***************************************************************************)
THEOREM LateTheorem == Spec => []LateBound
<1>1. LateInv => LateBound
  BY DEF LateInv, LateBound
<1> QED
  BY <1>1, LateInit, LateStep, TypeCorrect, PTL DEF Spec

-----------------------------------------------------------------------------
(***************************************************************************)
(* The strengthening of StopFlagSound.  Where `run` decides, no worker is  *)
(* between recording an ADB hit and setting the flag; in between, one is.  *)
(***************************************************************************)
Early == {"start", "announce"}              \* where `run` has no worker yet
Between == {"decide"} \union DecidedOn      \* where it decides on pass 2
USE DEF Early, Between, DecidedOn

FlagImpliesHit == localStop => cfg.stop /\ HasAdb
StoreImpliesHit == \A w \in Workers : pc[w] = "store" => cfg.stop /\ HasAdb
HitImpliesFlag == cfg.stop /\ HasAdb => localStop \/ \E w \in Workers : pc[w] = "store"
Resting == Finished \union {"unborn"}
Joinable ==
  main \in Early \union Between \union {"collect", "done"} => \A w \in Workers : pc[w] \in Resting
Unspawned == \A w \in Workers : w > spawned => pc[w] = "unborn"
FreshPass == main \in Early \/ (main = "spawn" /\ spawned = 0) => ~localStop
CancelRead == main = "cancelled" => token

StopInv ==
  /\ FlagImpliesHit /\ StoreImpliesHit /\ HitImpliesFlag
  /\ Joinable /\ Unspawned /\ FreshPass /\ CancelRead

LEMMA StopInvSound == StopInv => StopFlagSound
<1> SUFFICES ASSUME StopInv PROVE StopFlagSound
  OBVIOUS
<1>1. ASSUME main \in DecidedOn PROVE \A w \in Workers : pc[w] # "store"
  BY <1>1 DEF StopInv, Joinable, Resting, Finished
<1> QED
  BY <1>1 DEF StopInv, FlagImpliesHit, HitImpliesFlag, FreshPass, StopFlagSound

LEMMA StopInit == Init => StopInv
<1> SUFFICES ASSUME Init PROVE StopInv
  OBVIOUS
<1>1. ~HasAdb
  BY DEF Init, HasAdb, ToSet
<1> QED
  BY <1>1 DEF Init, StopInv, FlagImpliesHit, StoreImpliesHit, HitImpliesFlag, Joinable, Unspawned,
     FreshPass, CancelRead, Resting

(* What a recorded hit does to the list. *)
LEMMA RecordedHit ==
  ASSUME hits \in Seq(Hit), NEW h, hits' = Append(hits, h), h \in Hit
  PROVE  HasAdb' <=> HasAdb \/ h.kind \in AdbKinds
<1>1. Len(hits') = Len(hits) + 1 /\ Len(hits) \in Nat
  OBVIOUS
<1>2. hits'[Len(hits) + 1] = h /\ \A i \in 1..Len(hits) : hits'[i] = hits[i]
  OBVIOUS
<1>3. ToSet(hits') = ToSet(hits) \union {h}
  BY <1>1, <1>2 DEF ToSet
<1> QED
  BY <1>3 DEF HasAdb

LEMMA StopMain == ASSUME TypeOK, StopInv, Main PROVE StopInv'
<1>0. pc \in [Workers -> PCs] /\ spawned \in 0..HardMaxThreads
  BY DEF TypeOK, RunTypeOK, WorkerTypeOK
<1>1. UNCHANGED <<cfg, hits, localStop>> /\ HasAdb' = HasAdb
  BY DEF Main, ReturnEmpty, Begin, FirstPass, Spawn, SpawnEnd, Join, Decide, SecondPass, SkipSecondPass,
     NothingPending, Collect, shared, HasAdb
<1>2. CASE ReturnEmpty \/ SkipSecondPass \/ NothingPending \/ Collect
  <2>1. UNCHANGED <<pc, spawned>> /\ main' \in {"collect", "done"}
        /\ main \in Early \union Between \union {"collect"}
    BY <1>2 DEF ReturnEmpty, SkipSecondPass, NothingPending, Collect
  <2> QED
    BY <1>1, <2>1 DEF StopInv, FlagImpliesHit, StoreImpliesHit, HitImpliesFlag, Joinable, Unspawned,
                      FreshPass, CancelRead
<1>3. CASE FirstPass
  <2>1. UNCHANGED <<pc, spawned>> /\ main = "announce" /\ main' = "spawn"
    BY <1>3 DEF FirstPass
  <2> QED
    BY <1>1, <2>1 DEF StopInv, FlagImpliesHit, StoreImpliesHit, HitImpliesFlag, Joinable, Unspawned,
                      FreshPass, CancelRead
<1>4. CASE Spawn
  <2>1. main' = "spawn" /\ spawned' = spawned + 1 /\ pc' = [pc EXCEPT ![spawned + 1] = "top"]
    BY <1>4 DEF Spawn
  <2>2. pc[spawned + 1] = "unborn" /\ spawned + 1 \in Workers
    BY <1>0, <1>4, ThreadsBounded, ConfigAssumption DEF StopInv, Unspawned, Spawn, TypeOK, Workers
  <2>3. \A w \in Workers : (pc'[w] = "store") <=> (pc[w] = "store")
    BY <1>0, <2>1, <2>2
  <2>4. Unspawned'
    BY <1>0, <2>1, <2>2 DEF StopInv, Unspawned, Workers
  <2>5. Joinable' /\ FreshPass' /\ CancelRead'
    BY <1>0, <2>1 DEF Joinable, FreshPass, CancelRead
  <2> QED
    BY <1>1, <2>3, <2>4, <2>5 DEF StopInv, FlagImpliesHit, StoreImpliesHit, HitImpliesFlag
<1>5. CASE SpawnEnd
  <2>1. UNCHANGED <<pc, spawned>> /\ main' = "join"
    BY <1>5 DEF SpawnEnd
  <2> QED
    BY <1>1, <2>1 DEF StopInv, FlagImpliesHit, StoreImpliesHit, HitImpliesFlag, Joinable, Unspawned,
                      FreshPass, CancelRead
<1>6. CASE Join
  <2>1. UNCHANGED <<pc, spawned>> /\ main' \in {"decide", "collect"} /\ Joined
    BY <1>6 DEF Join
  <2>2. \A w \in Workers : pc[w] \in Resting
    BY <1>0, <2>1 DEF StopInv, Unspawned, Joined, Resting, Workers
  <2> QED
    BY <1>1, <2>1, <2>2 DEF StopInv, FlagImpliesHit, StoreImpliesHit, HitImpliesFlag, Joinable, Unspawned,
                            FreshPass, CancelRead
<1>7. CASE SecondPass
  <2>1. pc' = [w \in Workers |-> "unborn"] /\ main' = "spawn" /\ main \in DecidedOn
    BY <1>7 DEF SecondPass
  <2>2. ~(cfg.stop /\ HasAdb)
    BY <1>7 DEF SecondPass, GoesOn
  <2> QED
    BY <1>1, <2>1, <2>2 DEF StopInv, FlagImpliesHit, StoreImpliesHit, HitImpliesFlag, Joinable, Unspawned,
                            FreshPass, CancelRead
<1>8. CASE Begin
  <2>1. UNCHANGED <<pc, spawned>> /\ main = "start" /\ main' = "announce"
    BY <1>8 DEF Begin
  <2> QED
    BY <1>1, <2>1 DEF StopInv, FlagImpliesHit, StoreImpliesHit, HitImpliesFlag, Joinable, Unspawned,
                      FreshPass, CancelRead
<1>9. CASE Decide
  <2>1. UNCHANGED <<token, pc, spawned>> /\ main = "decide" /\ main' = IF token THEN "cancelled" ELSE "uncancelled"
    BY <1>9 DEF Decide
  <2> QED
    BY <1>1, <2>1 DEF StopInv, FlagImpliesHit, StoreImpliesHit, HitImpliesFlag, Joinable, Unspawned,
                      FreshPass, CancelRead
<1> QED
  BY <1>2, <1>3, <1>4, <1>5, <1>6, <1>7, <1>8, <1>9 DEF Main

(* A worker that takes a step has been spawned and has not ended, so `run` *)
(* is in a pass that has begun.                                            *)
LEMMA Running ==
  ASSUME TypeOK, StopInv, NEW w \in Workers, Worker(w)
  PROVE  /\ pc[w] \notin Resting
         /\ main \in {"spawn", "join"} /\ spawned # 0
<1>1. pc[w] \notin Resting
  BY DEF Worker, CheckStop, Claim, ConnectClosed, ConnectTimeout, ConnectOpen, Probe, EmitHit,
     PushHit, StoreStop, Count, EmitProgress, CallbackPanics, Resting, Finished
<1>2. main \in {"spawn", "join"}
  BY <1>1 DEF StopInv, Joinable, TypeOK, RunTypeOK
<1>3. spawned # 0
  BY <1>1, ConfigAssumption DEF StopInv, Unspawned, Resting, Workers
<1> QED
  BY <1>1, <1>2, <1>3

LEMMA StopWorker ==
  ASSUME TypeOK, StopInv, NEW w \in Workers, Worker(w)
  PROVE  StopInv'
<1>0. pc \in [Workers -> PCs] /\ hits \in Seq(Hit)
  BY DEF TypeOK, RunTypeOK, WorkerTypeOK
<1>1. UNCHANGED <<cfg, main, spawned>>
  BY DEF Worker, CheckStop, Claim, ConnectClosed, ConnectTimeout, ConnectOpen, Probe, EmitHit,
     PushHit, StoreStop, Count, EmitProgress, CallbackPanics
<1>2. \A v \in Workers \ {w} : pc'[v] = pc[v]
  BY <1>0 DEF Worker, CheckStop, Claim, ConnectClosed, ConnectTimeout, ConnectOpen, Probe, EmitHit,
     PushHit, StoreStop, Count, EmitProgress, CallbackPanics, Goto
<1>3. Joinable' /\ Unspawned' /\ FreshPass' /\ CancelRead'
  BY <1>1, <1>2, Running DEF StopInv, Joinable, Unspawned, FreshPass, CancelRead, Resting
<1>4. CASE PushHit(w)
  <2>1. HasAdb' <=> HasAdb \/ kind[w] \in AdbKinds
    <3>1. hits' = Append(hits, FoundHit(w)) /\ FoundHit(w) \in Hit
      BY <1>4 DEF PushHit, FoundHit, Hit, Holding, TypeOK, WorkerTypeOK
    <3> QED
      BY <1>0, <3>1, RecordedHit DEF FoundHit
  <2>2. localStop' = localStop /\ pc' = [pc EXCEPT ![w] = IF StopsScan(w) THEN "store" ELSE "count"]
    BY <1>4 DEF PushHit, Goto
  <2>3. pc[w] # "store"
    BY <1>4 DEF PushHit
  <2> QED
    BY <1>0, <1>1, <1>3, <2>1, <2>2, <2>3
    DEF StopInv, FlagImpliesHit, StoreImpliesHit, HitImpliesFlag, StopsScan
<1>5. CASE StoreStop(w)
  <2>1. localStop' /\ HasAdb' = HasAdb /\ pc[w] = "store" /\ pc' = [pc EXCEPT ![w] = "count"]
    BY <1>5 DEF StoreStop, Goto, HasAdb
  <2> QED
    BY <1>0, <1>1, <1>3, <2>1 DEF StopInv, FlagImpliesHit, StoreImpliesHit, HitImpliesFlag
<1>6. CASE ~PushHit(w) /\ ~StoreStop(w)
  <2>1. UNCHANGED <<hits, localStop>>
    BY <1>6 DEF Worker, CheckStop, Claim, ConnectClosed, ConnectTimeout, ConnectOpen, Probe,
       EmitHit, Count, EmitProgress, CallbackPanics, shared
  <2>2. pc[w] # "store" /\ pc'[w] # "store"
    BY <1>0, <1>6 DEF Worker, CheckStop, Claim, ConnectClosed, ConnectTimeout, ConnectOpen, Probe,
       EmitHit, Count, EmitProgress, CallbackPanics, Goto
  <2>3. HasAdb' = HasAdb
    BY <2>1 DEF HasAdb
  <2> QED
    BY <1>1, <1>2, <1>3, <2>1, <2>2, <2>3 DEF StopInv, FlagImpliesHit, StoreImpliesHit, HitImpliesFlag
<1> QED
  BY <1>4, <1>5, <1>6

LEMMA StopStep == TypeOK /\ StopInv /\ [Next]_vars => StopInv'
<1> SUFFICES ASSUME TypeOK, StopInv, [Next]_vars PROVE StopInv'
  OBVIOUS
<1>1. CASE Main
  BY <1>1, StopMain
<1>2. CASE Cancel
  BY <1>2 DEF Cancel, shared, StopInv, FlagImpliesHit, StoreImpliesHit, HitImpliesFlag, Joinable,
     Unspawned, FreshPass, CancelRead, HasAdb
<1>3. ASSUME NEW w \in Workers, Worker(w) PROVE StopInv'
  BY <1>3, StopWorker
<1>4. CASE UNCHANGED vars
  BY <1>4 DEF vars, StopInv, FlagImpliesHit, StoreImpliesHit, HitImpliesFlag, Joinable, Unspawned,
     FreshPass, CancelRead, HasAdb
<1> QED
  BY <1>1, <1>2, <1>3, <1>4 DEF Next, Terminated

(***************************************************************************)
(* The flag the workers stop at and the list `run` inspects to decide on   *)
(* pass 2 agree: the flag is only set after an ADB hit of a run that stops *)
(* at one, both say the same once the workers of pass 1 are joined, and a  *)
(* pass never begins with the flag set.                                    *)
(***************************************************************************)
THEOREM StopTheorem == Spec => []StopFlagSound
  BY StopInit, StopStep, StopInvSound, TypeCorrect, PTL DEF Spec

-----------------------------------------------------------------------------
(***************************************************************************)
(* What becomes of the items of a scan: each is looked at by one worker at *)
(* a time, none is forgotten, and the pool of threads takes only the steps *)
(* that ScanContract allows.                                               *)
(***************************************************************************)
(* The fate of an item that nobody has looked at in this pass. *)
Waiting == IF pass = 1 THEN "todo" ELSE "deferred"
Halted == token \/ localStop \/ degraded
Items == 1..cfg.items

(* The labels at which a worker holds an item whose port is open. *)
Opened == {"probe", "emit", "push"}

WorkOnce == \A j, k \in 1..Total : work[j] = work[k] => j = k
FirstIsAll == pass = 1 => work = [i \in Items |-> i]

(* Claims: an item in hand has been claimed, and is in one hand only. *)
InHand == \A w \in Workers : pc[w] \in Holding => \E k \in 1..Total : k <= next /\ work[k] = item[w]
OneHand == \A v, w \in Workers : pc[v] \in Holding /\ pc[w] \in Holding /\ item[v] = item[w] => v = w

(* Fates and hands agree. *)
WaitingFate == \A w \in Workers : pc[w] = "connect" => fate[item[w]] = Waiting
OpenFate == \A w \in Workers : pc[w] \in Opened => fate[item[w]] = "open"
OpenHeld == \A i \in Items : fate[i] = "open" => \E w \in Workers : pc[w] \in Opened /\ item[w] = i
NotYet == \A k \in 1..Total : k > next => fate[work[k]] = Waiting
LookedAt == \A k \in 1..Total : k <= next /\ fate[work[k]] = Waiting =>
              \E w \in Workers : pc[w] = "connect" /\ item[w] = work[k]

ItemInv ==
  /\ WorkOnce /\ FirstIsAll /\ InHand /\ OneHand
  /\ WaitingFate /\ OpenFate /\ OpenHeld /\ NotYet /\ LookedAt

(* What is deferred in pass 1 is pending, once, and is the work of pass 2. *)
PendingOnce == \A j, k \in 1..Len(pending) : pending[j] = pending[k] => j = k
PendingDeferred ==
  pass = 1 /\ main \in Early \union Between \union {"spawn", "join"} =>
    \A i \in Items : fate[i] = "deferred" <=> i \in ToSet(pending)
SecondWork == pass = 2 => pending = <<>> /\ \A i \in Items : fate[i] = "deferred" => i \in ToSet(work)
SecondLast == pass = 2 => Halted \/ \A i \in Items : fate[i] # "todo"

(* Nothing is given up or lost without a reason, and no worker leaves early. *)
GivenUpSound == \A i \in Items : fate[i] = "dropped" => token \/ localStop
LostSound == \A i \in Items : fate[i] = "lost" => "panic" \in Faults
ExitSound == \A w \in Workers : pc[w] = "exited" => token \/ localStop \/ next >= Total

(* Where `run` is. *)
FirstDecides == main \in Early \union Between => pass = 1
PassOver == main \in Between \union {"collect", "done"} => Halted \/ next >= Total
NoneDeferred == main \in {"collect", "done"} => Halted \/ \A i \in Items : fate[i] # "deferred"

PassInv ==
  /\ PendingOnce /\ PendingDeferred /\ SecondWork /\ SecondLast
  /\ GivenUpSound /\ LostSound /\ ExitSound
  /\ FirstDecides /\ PassOver /\ NoneDeferred

(* The recorded hits are the items whose fate is "hit". *)
HitsOnce == \A i, j \in 1..Len(hits) : hits[i].item = hits[j].item => i = j
HitsFate == \A i \in Items : fate[i] = "hit" <=> \E h \in ToSet(hits) : h.item = i
NoneAtStart == main \in Early => hits = <<>>
ReturnsAll == main = "done" =>
  Len(out) = Len(hits) /\ ToSet(out) = ToSet(hits) /\ out \in Seq(Hit) /\ InOrder(out)
HitInv == HitsOnce /\ HitsFate /\ NoneAtStart /\ ReturnsAll

-----------------------------------------------------------------------------
LEMMA ItemTypes ==
  ASSUME TypeOK
  PROVE  /\ pc \in [Workers -> PCs] /\ item \in [Workers -> 0..cfg.items]
         /\ fate \in [Items -> Fates] /\ work \in Seq(Items) /\ next \in Nat
         /\ Total \in Nat /\ cfg.items \in Nat /\ pass \in {1, 2}
         /\ \A k \in 1..Total : work[k] \in Items
         /\ \A w \in Workers : pc[w] \in Holding => item[w] \in Items
  BY ItemsNat DEF TypeOK, RunTypeOK, WorkerTypeOK, Items, Total

(* Steps in which no item changes hands. *)
LEMMA HandsUnchanged ==
  ASSUME ItemInv, UNCHANGED <<cfg, pass, work, next, fate>>,
         \A v \in Workers : /\ pc'[v] \in Holding <=> pc[v] \in Holding
                            /\ pc[v] \in Holding => pc'[v] = pc[v] /\ item'[v] = item[v]
  PROVE  ItemInv'
<1>1. Total' = Total /\ Waiting' = Waiting /\ Items' = Items
  BY DEF Total, Waiting, Items
<1>2. "connect" \in Holding /\ Opened \subseteq Holding
  BY DEF Holding, Opened
<1>3. WorkOnce' /\ FirstIsAll' /\ NotYet'
  BY <1>1 DEF ItemInv, WorkOnce, FirstIsAll, NotYet
<1>4. InHand' /\ OneHand'
  BY <1>1 DEF ItemInv, InHand, OneHand
<1>5. WaitingFate' /\ OpenFate'
  BY <1>1, <1>2 DEF ItemInv, WaitingFate, OpenFate
<1>6. OpenHeld' /\ LookedAt'
  BY <1>1, <1>2 DEF ItemInv, OpenHeld, LookedAt
<1> QED
  BY <1>3, <1>4, <1>5, <1>6 DEF ItemInv

(* A worker is done with its item. *)
LEMMA ItemConcluded ==
  ASSUME TypeOK, ItemInv, NEW w \in Workers, pc[w] \in Holding,
         NEW f \in Fates \ {"open", Waiting}, NEW label \in PCs \ Holding,
         Goto(w, label), item' = [item EXCEPT ![w] = 0], Decided(w, f),
         UNCHANGED <<cfg, pass, work, next>>
  PROVE  ItemInv'
<1>0. Total' = Total /\ Waiting' = Waiting /\ Items' = Items
  BY DEF Total, Waiting, Items
<1>1. "connect" \in Holding /\ Opened \subseteq Holding
  BY DEF Holding, Opened
<1>2. pc'[w] \notin Holding /\ \A v \in Workers \ {w} : pc'[v] = pc[v] /\ item'[v] = item[v]
  BY ItemTypes DEF Goto
<1>3. item[w] \in Items /\ fate'[item[w]] = f /\ \A i \in Items \ {item[w]} : fate'[i] = fate[i]
  BY ItemTypes DEF Decided
<1>4. \A v \in Workers \ {w} : pc[v] \in Holding => item[v] # item[w] /\ item[v] \in Items
  BY ItemTypes DEF ItemInv, OneHand
<1>5. WorkOnce' /\ FirstIsAll'
  BY <1>0 DEF ItemInv, WorkOnce, FirstIsAll
<1>6. InHand' /\ OneHand'
  BY <1>0, <1>2 DEF ItemInv, InHand, OneHand
<1>7. WaitingFate' /\ OpenFate'
  BY <1>0, <1>1, <1>2, <1>3, <1>4 DEF ItemInv, WaitingFate, OpenFate
<1>8. OpenHeld'
  BY <1>0, <1>1, <1>2, <1>3 DEF ItemInv, OpenHeld
<1>9. NotYet'
  <2>1. PICK j \in 1..Total : j <= next /\ work[j] = item[w]
    BY DEF ItemInv, InHand
  <2>2. ASSUME NEW k \in 1..Total, k > next PROVE work[k] \in Items \ {item[w]}
    BY <2>1, <2>2, ItemTypes DEF ItemInv, WorkOnce
  <2> QED
    BY <1>0, <1>3, <2>2 DEF ItemInv, NotYet
<1>10. LookedAt'
  <2> SUFFICES ASSUME NEW k \in 1..Total, k <= next, fate'[work[k]] = Waiting
               PROVE  \E v \in Workers : pc'[v] = "connect" /\ item'[v] = work[k]
    BY <1>0 DEF LookedAt
  <2>1. work[k] \in Items \ {item[w]}
    BY <1>0, <1>3, ItemTypes
  <2>2. PICK v \in Workers : pc[v] = "connect" /\ item[v] = work[k]
    BY <1>3, <2>1 DEF ItemInv, LookedAt
  <2> QED
    BY <1>2, <2>1, <2>2
<1> QED
  BY <1>5, <1>6, <1>7, <1>8, <1>9, <1>10 DEF ItemInv

(* A worker goes on with an item whose port is open. *)
LEMMA ItemOpen ==
  ASSUME TypeOK, ItemInv, NEW w \in Workers, pc[w] \in Holding,
         NEW label \in Opened, Goto(w, label), item' = item, Decided(w, "open"),
         UNCHANGED <<cfg, pass, work, next>>
  PROVE  ItemInv'
<1>0. Total' = Total /\ Waiting' = Waiting /\ Items' = Items /\ Waiting # "open"
  BY DEF Total, Waiting, Items
<1>1. "connect" \in Holding \ Opened /\ Opened \subseteq Holding
  BY DEF Holding, Opened
<1>2. pc'[w] = label /\ \A v \in Workers \ {w} : pc'[v] = pc[v]
  BY ItemTypes DEF Goto
<1>3. item[w] \in Items /\ fate'[item[w]] = "open" /\ \A i \in Items \ {item[w]} : fate'[i] = fate[i]
  BY ItemTypes DEF Decided
<1>4. \A v \in Workers \ {w} : pc[v] \in Holding => item[v] # item[w] /\ item[v] \in Items
  BY ItemTypes DEF ItemInv, OneHand
<1>5. WorkOnce' /\ FirstIsAll'
  BY <1>0 DEF ItemInv, WorkOnce, FirstIsAll
<1>6. InHand' /\ OneHand'
  BY <1>0, <1>1, <1>2 DEF ItemInv, InHand, OneHand
<1>7. WaitingFate' /\ OpenFate'
  BY <1>0, <1>1, <1>2, <1>3, <1>4 DEF ItemInv, WaitingFate, OpenFate
<1>8. OpenHeld'
  BY <1>0, <1>1, <1>2, <1>3 DEF ItemInv, OpenHeld
<1>9. NotYet'
  <2>1. PICK j \in 1..Total : j <= next /\ work[j] = item[w]
    BY DEF ItemInv, InHand
  <2>2. ASSUME NEW k \in 1..Total, k > next PROVE work[k] \in Items \ {item[w]}
    BY <2>1, <2>2, ItemTypes DEF ItemInv, WorkOnce
  <2> QED
    BY <1>0, <1>3, <2>2 DEF ItemInv, NotYet
<1>10. LookedAt'
  <2> SUFFICES ASSUME NEW k \in 1..Total, k <= next, fate'[work[k]] = Waiting
               PROVE  \E v \in Workers : pc'[v] = "connect" /\ item'[v] = work[k]
    BY <1>0 DEF LookedAt
  <2>1. work[k] \in Items \ {item[w]}
    BY <1>0, <1>3, ItemTypes
  <2>2. PICK v \in Workers : pc[v] = "connect" /\ item[v] = work[k]
    BY <1>3, <2>1 DEF ItemInv, LookedAt
  <2> QED
    BY <1>2, <2>1, <2>2
<1> QED
  BY <1>5, <1>6, <1>7, <1>8, <1>9, <1>10 DEF ItemInv

(* A worker claims the next item, and finds it untouched. *)
LEMMA ItemClaimed ==
  ASSUME TypeOK, ItemInv, NEW w \in Workers, Claim(w)
  PROVE  ItemInv'
<1>0. Total' = Total /\ Waiting' = Waiting /\ Items' = Items /\ next' = next + 1 /\ fate' = fate /\ work' = work
      /\ pass' = pass /\ pc[w] \notin Holding
  BY DEF Total, Waiting, Items, Claim, Holding
<1>1. "connect" \in Holding \ Opened /\ Opened \subseteq Holding /\ "exited" \notin Holding
  BY DEF Holding, Opened
<1>2. WorkOnce' /\ FirstIsAll' /\ NotYet'
  BY <1>0, ItemTypes DEF ItemInv, WorkOnce, FirstIsAll, NotYet
<1>3. CASE Exhausted
  <2>1. \A v \in Workers : /\ pc'[v] \in Holding <=> pc[v] \in Holding
                           /\ pc[v] \in Holding => pc'[v] = pc[v] /\ item'[v] = item[v]
    BY <1>0, <1>1, <1>3, ItemTypes DEF Claim, Goto
  <2>2. \A k \in 1..Total : k <= next
    BY <1>3, ItemTypes DEF Exhausted
  <2>3. InHand' /\ OneHand'
    BY <1>0, <2>1, <2>2, ItemTypes DEF ItemInv, InHand, OneHand
  <2>4. WaitingFate' /\ OpenFate' /\ OpenHeld'
    BY <1>0, <1>1, <2>1 DEF ItemInv, WaitingFate, OpenFate, OpenHeld
  <2>5. LookedAt'
    BY <1>0, <1>1, <2>1, <2>2 DEF ItemInv, LookedAt
  <2> QED
    BY <1>2, <2>3, <2>4, <2>5 DEF ItemInv
<1>4. CASE ~Exhausted
  <2>1. next + 1 \in 1..Total /\ work[next + 1] \in Items /\ fate[work[next + 1]] = Waiting
    BY <1>4, ItemTypes DEF Exhausted, ItemInv, NotYet
  <2>2. pc'[w] = "connect" /\ item'[w] = work[next + 1]
    BY <1>4, ItemTypes DEF Claim, Goto
  <2>3. \A v \in Workers \ {w} : pc'[v] = pc[v] /\ item'[v] = item[v]
    BY <1>4, ItemTypes DEF Claim, Goto
  <2>4. \A v \in Workers \ {w} : pc[v] \in Holding => item[v] # work[next + 1]
    BY <2>1, ItemTypes DEF ItemInv, InHand, WorkOnce
  <2>5. InHand'
    <3>1. \A v \in Workers \ {w} : pc'[v] \in Holding => \E k \in 1..Total : k <= next + 1 /\ work[k] = item'[v]
      BY <2>3, ItemTypes DEF ItemInv, InHand
    <3> QED
      BY <1>0, <2>1, <2>2, <3>1 DEF InHand
  <2>6. OneHand'
    BY <2>2, <2>3, <2>4 DEF ItemInv, OneHand
  <2>7. WaitingFate' /\ OpenFate'
    BY <1>0, <1>1, <2>1, <2>2, <2>3 DEF ItemInv, WaitingFate, OpenFate
  <2>8. OpenHeld'
    BY <1>0, <1>1, <2>2, <2>3 DEF ItemInv, OpenHeld
  <2>9. LookedAt'
    <3> SUFFICES ASSUME NEW k \in 1..Total, k <= next + 1, fate[work[k]] = Waiting
                 PROVE  \E v \in Workers : pc'[v] = "connect" /\ item'[v] = work[k]
      BY <1>0 DEF LookedAt
    <3>1. CASE k = next + 1
      BY <2>2, <3>1
    <3>2. CASE k <= next
      BY <1>0, <1>1, <2>3, <3>2 DEF ItemInv, LookedAt
    <3> QED
      BY <3>1, <3>2, ItemTypes
  <2> QED
    BY <1>2, <2>5, <2>6, <2>7, <2>8, <2>9 DEF ItemInv
<1> QED
  BY <1>3, <1>4

-----------------------------------------------------------------------------
(* Whether a worker's step decides an item, and what goes with a decision. *)
Deciding(w) ==
  \/ UNCHANGED <<fate, pending, hits>>
  \/ pc[w] = "connect" /\ Decided(w, "closed") /\ UNCHANGED <<pending, hits>>
  \/ pc[w] = "connect" /\ Decided(w, "open") /\ UNCHANGED <<pending, hits>>
  \/ pc[w] = "connect" /\ pass = 1 /\ Decided(w, "deferred")
       /\ pending' = Append(pending, item[w]) /\ hits' = hits
  \/ pc[w] = "connect" /\ pass = 2 /\ Decided(w, "silent") /\ UNCHANGED <<pending, hits>>
  \/ pc[w] \in Holding /\ ShouldStop /\ Decided(w, "dropped") /\ UNCHANGED <<pending, hits>>
  \/ pc[w] = "push" /\ Decided(w, "hit") /\ hits' = Append(hits, FoundHit(w)) /\ pending' = pending
  \/ pc[w] = "emit" /\ "panic" \in Faults /\ Decided(w, "lost") /\ UNCHANGED <<pending, hits>>

LEMMA WorkerKeeps ==
  ASSUME NEW w \in Workers, Worker(w)
  PROVE  /\ UNCHANGED <<cfg, token, main, pass, work, spawned, out, degraded>>
         /\ localStop => localStop'
         /\ next' = next \/ next' = next + 1
  BY DEF Worker, CheckStop, Claim, ConnectClosed, ConnectTimeout, ConnectOpen, Probe, EmitHit,
     PushHit, StoreStop, Count, EmitProgress, CallbackPanics, shared, history

LEMMA WorkerDecides ==
  ASSUME TypeOK, NEW w \in Workers, Worker(w)
  PROVE  Deciding(w)
<1>1. CASE CheckStop(w) \/ Claim(w) \/ EmitHit(w) \/ StoreStop(w) \/ Count(w) \/ EmitProgress(w)
  BY <1>1 DEF CheckStop, Claim, EmitHit, StoreStop, Count, EmitProgress, shared, history, Deciding
<1>2. CASE ConnectClosed(w)
  BY <1>2 DEF ConnectClosed, shared, Deciding
<1>3. CASE ConnectTimeout(w)
  <2>1. pass \in {1, 2}
    BY DEF TypeOK, RunTypeOK
  <2> QED
    BY <1>3, <2>1 DEF ConnectTimeout, Deciding
<1>4. CASE ConnectOpen(w)
  BY <1>4 DEF ConnectOpen, shared, Deciding, Holding
<1>5. CASE Probe(w)
  BY <1>5 DEF Probe, shared, Deciding, Holding
<1>6. CASE PushHit(w)
  BY <1>6 DEF PushHit, Deciding
<1>7. CASE CallbackPanics(w)
  BY <1>7 DEF CallbackPanics, shared, Deciding, Decided
<1> QED
  BY <1>1, <1>2, <1>3, <1>4, <1>5, <1>6, <1>7 DEF Worker

LEMMA ItemWorker ==
  ASSUME TypeOK, ItemInv, NEW w \in Workers, Worker(w)
  PROVE  ItemInv'
<1>0. UNCHANGED <<cfg, pass, work>>
  BY WorkerKeeps
<1>1. {"top", "exited", "claim", "store", "count", "progress", "panicked"} \subseteq PCs \ Holding
      /\ Opened \subseteq Holding /\ "connect" \in Holding
  BY DEF PCs, Holding, Opened, Finished
<1>2. {"closed", "dropped", "hit", "lost"} \subseteq Fates \ {"open", Waiting}
  BY DEF Fates, Waiting
<1>3. CASE CheckStop(w) \/ StoreStop(w) \/ Count(w) \/ EmitProgress(w)
  <2>1. UNCHANGED <<next, fate, item>> /\ pc[w] \notin Holding
        /\ \E label \in {"exited", "claim", "count", "progress", "top"} : Goto(w, label)
    BY <1>3 DEF CheckStop, StoreStop, Count, EmitProgress, shared, locals, history, Holding
  <2> QED
    BY <1>0, <1>1, <2>1, ItemTypes, HandsUnchanged DEF Goto
<1>4. CASE Claim(w)
  BY <1>4, ItemClaimed
<1>5. CASE ConnectClosed(w)
  <2>1. next' = next /\ pc[w] \in Holding /\ Goto(w, "count") /\ Decided(w, "closed")
        /\ item' = [item EXCEPT ![w] = 0]
    BY <1>5 DEF ConnectClosed, shared, Holding, DropLocals
  <2> QED
    BY <1>0, <1>1, <1>2, <2>1, ItemConcluded
<1>6. CASE ConnectTimeout(w)
  <2>1. next' = next /\ pc[w] \in Holding /\ Goto(w, "count") /\ item' = [item EXCEPT ![w] = 0]
        /\ Decided(w, IF pass = 1 THEN "deferred" ELSE "silent")
    BY <1>6 DEF ConnectTimeout, Holding, DropLocals
  <2>2. (IF pass = 1 THEN "deferred" ELSE "silent") \in Fates \ {"open", Waiting}
    BY DEF Fates, Waiting
  <2> QED
    BY <1>0, <1>1, <2>1, <2>2, ItemConcluded
<1>7. CASE ConnectOpen(w)
  <2>1. next' = next /\ pc[w] \in Holding
    BY <1>7 DEF ConnectOpen, shared, Holding
  <2>2. CASE ~ShouldStop
    <3>1. Goto(w, "probe") /\ Decided(w, "open") /\ item' = item /\ "probe" \in Opened
      BY <1>7, <2>2 DEF ConnectOpen, Opened
    <3> QED
      BY <1>0, <2>1, <3>1, ItemOpen
  <2>3. CASE ShouldStop
    <3>1. Goto(w, "count") /\ Decided(w, "dropped") /\ item' = [item EXCEPT ![w] = 0]
      BY <1>7, <2>3 DEF ConnectOpen, DropLocals
    <3> QED
      BY <1>0, <1>1, <1>2, <2>1, <3>1, ItemConcluded
  <2> QED
    BY <2>2, <2>3
<1>8. CASE Probe(w)
  <2>1. next' = next /\ pc[w] \in Holding /\ pc[w] \in Opened
    BY <1>8 DEF Probe, shared, Holding, Opened
  <2>2. CASE ~ShouldStop
    <3>1. Goto(w, "emit") /\ fate' = fate /\ item' = item /\ "emit" \in Opened
      BY <1>8, <2>2 DEF Probe, Opened
    <3>2. Decided(w, "open")
      BY <2>1, <3>1, ItemTypes DEF Decided, ItemInv, OpenFate
    <3> QED
      BY <1>0, <2>1, <3>1, <3>2, ItemOpen
  <2>3. CASE ShouldStop
    <3>1. Goto(w, "count") /\ Decided(w, "dropped") /\ item' = [item EXCEPT ![w] = 0]
      BY <1>8, <2>3 DEF Probe, DropLocals
    <3> QED
      BY <1>0, <1>1, <1>2, <2>1, <3>1, ItemConcluded
  <2> QED
    BY <2>2, <2>3
<1>9. CASE EmitHit(w)
  <2>1. pc[w] \in Holding /\ pc[w] \in Opened /\ "push" \in Opened
    BY <1>9 DEF EmitHit, Holding, Opened
  <2>2. Goto(w, "push") /\ UNCHANGED <<next, fate, item>>
    BY <1>9 DEF EmitHit, shared, locals, history
  <2>3. Decided(w, "open")
    BY <2>1, <2>2, ItemTypes DEF Decided, ItemInv, OpenFate
  <2> QED
    BY <1>0, <2>1, <2>2, <2>3, ItemOpen
<1>10. CASE PushHit(w)
  <2>1. next' = next /\ pc[w] \in Holding /\ Decided(w, "hit") /\ item' = [item EXCEPT ![w] = 0]
    BY <1>10 DEF PushHit, Holding, DropLocals
  <2>2. Goto(w, "store") \/ Goto(w, "count")
    BY <1>10 DEF PushHit
  <2> QED
    BY <1>0, <1>1, <1>2, <2>1, <2>2, ItemConcluded
<1>11. CASE CallbackPanics(w)
  <2>1. next' = next /\ Goto(w, "panicked") /\ item' = [item EXCEPT ![w] = 0]
    BY <1>11 DEF CallbackPanics, shared, DropLocals
  <2>2. CASE pc[w] = "emit"
    <3>1. Decided(w, "lost") /\ pc[w] \in Holding
      BY <1>11, <2>2 DEF CallbackPanics, Decided, Holding
    <3> QED
      BY <1>0, <1>1, <1>2, <2>1, <3>1, ItemConcluded
  <2>3. CASE pc[w] = "progress"
    <3>1. fate' = fate /\ pc[w] \notin Holding
      BY <1>11, <2>3 DEF CallbackPanics, Holding
    <3> QED
      BY <1>0, <1>1, <2>1, <3>1, ItemTypes, HandsUnchanged DEF Goto
  <2> QED
    BY <1>11, <2>2, <2>3 DEF CallbackPanics
<1> QED
  BY <1>3, <1>4, <1>5, <1>6, <1>7, <1>8, <1>9, <1>10, <1>11 DEF Worker

(* The facts about a decision that its effects on PassInv and HitInv need. *)
LEMMA HandFacts ==
  ASSUME TypeOK, ItemInv, NEW w \in Workers
  PROVE  /\ pc[w] \in Holding => item[w] \in Items
         /\ pc[w] = "connect" => fate[item[w]] = Waiting
         /\ pc[w] \in Holding \ {"connect"} => fate[item[w]] = "open"
<1>1. Holding \ {"connect"} \subseteq Opened
  BY DEF Holding, Opened
<1> QED
  BY <1>1, ItemTypes DEF ItemInv, WaitingFate, OpenFate

LEMMA Appended ==
  ASSUME NEW S, NEW s \in Seq(S), NEW x \in S, NEW t, t = Append(s, x)
  PROVE  /\ Len(t) = Len(s) + 1 /\ Len(s) \in Nat /\ t[Len(s) + 1] = x
         /\ \A k \in 1..Len(s) : t[k] = s[k] /\ s[k] \in ToSet(s)
<1>1. Len(t) = Len(s) + 1 /\ Len(s) \in Nat /\ DOMAIN s = 1..Len(s)
  OBVIOUS
<1>2. t[Len(s) + 1] = x /\ \A k \in 1..Len(s) : t[k] = s[k]
  OBVIOUS
<1> QED
  BY <1>1, <1>2 DEF ToSet

LEMMA AppendedSet ==
  ASSUME NEW S, NEW s \in Seq(S), NEW x \in S
  PROVE  ToSet(Append(s, x)) = ToSet(s) \union {x}
<1> DEFINE t == Append(s, x)
<1>1. Len(t) = Len(s) + 1 /\ Len(s) \in Nat /\ DOMAIN s = 1..Len(s) /\ DOMAIN t = 1..Len(t)
  OBVIOUS
<1>2. t[Len(s) + 1] = x /\ \A k \in 1..Len(s) : t[k] = s[k]
  OBVIOUS
<1> QED
  BY <1>1, <1>2 DEF ToSet

LEMMA PendingWorker ==
  ASSUME TypeOK, StopInv, ItemInv, PassInv, NEW w \in Workers, Worker(w)
  PROVE  PendingOnce' /\ PendingDeferred' /\ SecondWork'
<1>0. UNCHANGED <<cfg, pass, main, work>> /\ Items' = Items /\ main \in {"spawn", "join"}
  BY WorkerKeeps, Running DEF Items
<1>1. pending \in Seq(Items) /\ fate \in [Items -> Fates] /\ pass \in {1, 2}
  BY DEF TypeOK, RunTypeOK, Items
<1>2. CASE pc[w] = "connect" /\ pass = 1 /\ Decided(w, "deferred") /\ pending' = Append(pending, item[w])
  <2>1. item[w] \in Items /\ fate[item[w]] = "todo"
    BY <1>2, HandFacts DEF Waiting, Holding
  <2>2. fate'[item[w]] = "deferred" /\ \A i \in Items \ {item[w]} : fate'[i] = fate[i]
    BY <1>1, <1>2, <2>1 DEF Decided
  <2>3. item[w] \notin ToSet(pending)
    BY <1>0, <1>2, <2>1 DEF PassInv, PendingDeferred
  <2>4. PendingOnce'
    BY <1>1, <1>2, <2>1, <2>3, Appended DEF PassInv, PendingOnce
  <2>5. ToSet(pending') = ToSet(pending) \union {item[w]}
    <3>1. ToSet(Append(pending, item[w])) = ToSet(pending) \union {item[w]}
      BY <1>1, <2>1, AppendedSet
    <3> QED
      BY <1>2, <3>1
  <2>6. PendingDeferred'
    BY <1>0, <1>2, <2>1, <2>2, <2>5 DEF PassInv, PendingDeferred
  <2> QED
    BY <1>0, <1>2, <2>4, <2>6 DEF SecondWork
<1>3. CASE pending' = pending /\ (fate' = fate \/ \E f \in Fates \ {"deferred"} : Decided(w, f) /\ pc[w] \in Holding)
  <2>1. /\ \A i \in Items : fate'[i] = "deferred" => fate[i] = "deferred"
        /\ pass = 1 => \A i \in Items : fate[i] = "deferred" => fate'[i] = "deferred"
    <3>1. CASE fate' = fate
      BY <3>1
    <3>2. ASSUME NEW f \in Fates \ {"deferred"}, Decided(w, f), pc[w] \in Holding
          PROVE  /\ \A i \in Items : fate'[i] = "deferred" => fate[i] = "deferred"
                 /\ pass = 1 => \A i \in Items : fate[i] = "deferred" => fate'[i] = "deferred"
      <4>1. item[w] \in Items /\ (pass = 1 => fate[item[w]] # "deferred")
        BY <3>2, HandFacts DEF Waiting
      <4>2. fate' = [fate EXCEPT ![item[w]] = f]
        BY <3>2 DEF Decided
      <4> QED
        BY <1>1, <3>2, <4>1, <4>2
    <3> QED
      BY <1>3, <3>1, <3>2
  <2> QED
    BY <1>0, <1>3, <2>1 DEF PassInv, PendingOnce, PendingDeferred, SecondWork
<1> QED
  BY <1>2, <1>3, WorkerDecides DEF Deciding, Fates, Holding

LEMMA PassWorker ==
  ASSUME TypeOK, StopInv, ItemInv, PassInv, NEW w \in Workers, Worker(w)
  PROVE  PassInv'
<1>0. UNCHANGED <<cfg, token, pass, main, work, degraded>> /\ Items' = Items /\ Total' = Total
      /\ (localStop => localStop') /\ next \in Nat /\ (next' = next \/ next' = next + 1)
  BY WorkerKeeps, ItemTypes DEF Items, Total
<1>1. fate \in [Items -> Fates]
  BY ItemTypes
<1>2. main \in {"spawn", "join"}
  BY Running
<1>3. PendingOnce' /\ PendingDeferred' /\ SecondWork'
  BY PendingWorker
<1>4. FirstDecides' /\ PassOver' /\ NoneDeferred'
  BY <1>0, <1>2 DEF FirstDecides, PassOver, NoneDeferred
<1>5. \A i \in Items : /\ fate'[i] = "todo" => fate[i] = "todo"
                       /\ fate'[i] = "dropped" => fate[i] = "dropped" \/ ShouldStop
                       /\ fate'[i] = "lost" => fate[i] = "lost" \/ "panic" \in Faults
  BY <1>1, WorkerDecides DEF Deciding, Decided
<1>6. SecondLast' /\ GivenUpSound' /\ LostSound'
  BY <1>0, <1>5 DEF PassInv, SecondLast, GivenUpSound, LostSound, Halted, ShouldStop
<1>7. pc'[w] = "exited" => ShouldStop \/ next' >= Total
  BY <1>0, ItemTypes DEF Worker, CheckStop, Claim, ConnectClosed, ConnectTimeout, ConnectOpen, Probe,
     EmitHit, PushHit, StoreStop, Count, EmitProgress, CallbackPanics, Goto, Exhausted
<1>8. \A v \in Workers \ {w} : pc'[v] = pc[v]
  BY ItemTypes DEF Worker, CheckStop, Claim, ConnectClosed, ConnectTimeout, ConnectOpen, Probe,
     EmitHit, PushHit, StoreStop, Count, EmitProgress, CallbackPanics, Goto
<1>9. ExitSound'
  BY <1>0, <1>7, <1>8, ItemTypes DEF PassInv, ExitSound, ShouldStop
<1> QED
  BY <1>3, <1>4, <1>6, <1>9 DEF PassInv

LEMMA HitWorker ==
  ASSUME TypeOK, StopInv, ItemInv, HitInv, NEW w \in Workers, Worker(w)
  PROVE  HitInv'
<1>0. cfg' = cfg /\ main' = main /\ out' = out /\ Items' = Items /\ main \in {"spawn", "join"}
  BY WorkerKeeps, Running DEF Items
<1>1. fate \in [Items -> Fates] /\ hits \in Seq(Hit)
  BY ItemTypes DEF TypeOK, RunTypeOK
<1>2. CASE pc[w] = "push" /\ Decided(w, "hit") /\ hits' = Append(hits, FoundHit(w))
  <2>1. item[w] \in Items /\ fate[item[w]] = "open" /\ FoundHit(w).item = item[w] /\ FoundHit(w) \in Hit
    BY <1>2, HandFacts DEF Holding, FoundHit, Hit, Items, TypeOK, WorkerTypeOK
  <2>2. \A h \in ToSet(hits) : h.item # item[w]
    BY <2>1 DEF HitInv, HitsFate
  <2>3. HitsOnce'
    <3>1. Len(hits') = Len(hits) + 1 /\ Len(hits) \in Nat /\ hits'[Len(hits) + 1].item = item[w]
      BY <1>1, <1>2, <2>1, Appended
    <3>2. \A k \in 1..Len(hits) : hits'[k] = hits[k] /\ hits'[k].item # item[w]
      BY <1>1, <1>2, <2>1, <2>2, Appended
    <3> QED
      BY <3>1, <3>2 DEF HitInv, HitsOnce
  <2>4. ToSet(hits') = ToSet(hits) \union {FoundHit(w)}
    <3>1. ToSet(Append(hits, FoundHit(w))) = ToSet(hits) \union {FoundHit(w)}
      BY <1>1, <2>1, AppendedSet
    <3> QED
      BY <1>2, <3>1
  <2>5. fate'[item[w]] = "hit" /\ \A i \in Items \ {item[w]} : fate'[i] = fate[i]
    BY <1>1, <1>2, <2>1 DEF Decided
  <2>6. HitsFate'
    BY <1>0, <2>1, <2>2, <2>4, <2>5 DEF HitInv, HitsFate
  <2> QED
    BY <1>0, <2>3, <2>6 DEF HitInv, NoneAtStart, ReturnsAll
<1>3. CASE hits' = hits /\ (fate' = fate \/ \E f \in Fates \ {"hit"} : Decided(w, f) /\ pc[w] \in Holding)
  <2>1. \A i \in Items : fate'[i] = "hit" <=> fate[i] = "hit"
    <3>1. CASE fate' = fate
      BY <3>1
    <3>2. ASSUME NEW f \in Fates \ {"hit"}, Decided(w, f), pc[w] \in Holding
          PROVE  \A i \in Items : fate'[i] = "hit" <=> fate[i] = "hit"
      <4>1. item[w] \in Items /\ fate[item[w]] # "hit"
        BY <3>2, HandFacts DEF Waiting
      <4>2. fate' = [fate EXCEPT ![item[w]] = f]
        BY <3>2 DEF Decided
      <4> QED
        BY <1>1, <3>2, <4>1, <4>2
    <3> QED
      BY <1>3, <3>1, <3>2
  <2> QED
    BY <1>0, <1>3, <2>1 DEF HitInv, HitsOnce, HitsFate, NoneAtStart, ReturnsAll
<1> QED
  BY <1>2, <1>3, WorkerDecides DEF Deciding, Fates, Holding

-----------------------------------------------------------------------------
LEMMA SortedFacts ==
  ASSUME NEW s \in Seq(Hit), NEW t \in Sorted(s)
  PROVE  Len(t) = Len(s) /\ ToSet(t) = ToSet(s) /\ t \in Seq(Hit) /\ InOrder(t)
<1>1. PICK p \in Bijection(1..Len(s), 1..Len(s)) : t = [i \in 1..Len(s) |-> s[p[i]]]
  BY DEF Sorted, Rearranged
<1>2. p \in [1..Len(s) -> 1..Len(s)] /\ \A j \in 1..Len(s) : \E i \in 1..Len(s) : p[i] = j
  BY DEF Bijection, Injection, Surjection
<1>3. t \in Seq(Hit) /\ Len(t) = Len(s)
  <2>1. Len(s) \in Nat /\ \A i \in 1..Len(s) : s[p[i]] \in Hit
    <3>1. \A j \in 1..Len(s) : s[j] \in Hit
      OBVIOUS
    <3>2. \A i \in 1..Len(s) : p[i] \in 1..Len(s)
      BY <1>2
    <3> QED
      BY <3>1, <3>2
  <2> QED
    BY <1>1, <2>1, IsASeq
<1>4. DOMAIN s = 1..Len(s) /\ DOMAIN t = 1..Len(s)
  BY <1>1
<1>5. ToSet(t) = ToSet(s)
  BY <1>1, <1>2, <1>4 DEF ToSet
<1> QED
  BY <1>3, <1>5 DEF Sorted

(* Where nobody is at work, an item that was claimed is not waiting. *)
LEMMA AllSeen ==
  ASSUME TypeOK, ItemInv, \A w \in Workers : pc[w] \in Resting, next >= Total
  PROVE  /\ \A k \in 1..Total : fate[work[k]] # Waiting
         /\ \A i \in Items : fate[i] # "open"
<1>1. \A w \in Workers : pc[w] # "connect" /\ pc[w] \notin Opened
  BY DEF Resting, Finished, Opened
<1>2. \A k \in 1..Total : k <= next
  BY ItemTypes
<1> QED
  BY <1>1, <1>2 DEF ItemInv, LookedAt, OpenHeld

LEMMA NoneOpen ==
  ASSUME ItemInv, \A w \in Workers : pc[w] \in Resting
  PROVE  \A i \in Items : fate[i] # "open"
  BY DEF ItemInv, OpenHeld, Resting, Finished, Opened

LEMMA MainKeeps ==
  ASSUME Main
  PROVE  UNCHANGED <<cfg, token, item, kind, hits, localStop, fate>> /\ (degraded => degraded') /\ Items' = Items
<1>1. UNCHANGED <<cfg, token, item, kind, hits, localStop, fate>>
  BY DEF Main, ReturnEmpty, Begin, FirstPass, Spawn, SpawnEnd, Join, Decide, SecondPass, SkipSecondPass,
     NothingPending, Collect, shared, locals, history
<1>2. CASE Join
  BY <1>1, <1>2 DEF Join, Items
<1>3. CASE ~Join
  <2>1. degraded' = degraded
    BY <1>3 DEF Main, ReturnEmpty, Begin, FirstPass, Spawn, SpawnEnd, Decide, SecondPass, SkipSecondPass,
       NothingPending, Collect, history
  <2> QED
    BY <1>1, <2>1 DEF Items
<1> QED
  BY <1>2, <1>3

LEMMA ItemMain == ASSUME TypeOK, StopInv, ItemInv, PassInv, Main PROVE ItemInv'
<1>0. cfg' = cfg /\ UNCHANGED <<item, fate>>
  BY MainKeeps
<1>1. CASE SecondPass
  <2>1. pass' = 2 /\ work' = pending /\ next' = 0 /\ pc' = [w \in Workers |-> "unborn"]
        /\ main \in DecidedOn /\ pass = 1
    BY <1>1 DEF SecondPass, Remaining, PassInv, FirstDecides
  <2>2. Waiting' = "deferred" /\ Total' = Len(pending) /\ Items' = Items /\ pending \in Seq(Items)
    BY <1>0, <2>1 DEF Waiting, Total, Items, TypeOK, RunTypeOK
  <2>3. \A w \in Workers : pc'[w] \notin Holding /\ pc'[w] # "connect" /\ pc'[w] \notin Opened
    BY <2>1 DEF Holding, Opened
  <2>4. \A k \in 1..Len(pending) : fate[pending[k]] = "deferred"
    <3>1. \A k \in 1..Len(pending) : pending[k] \in ToSet(pending) /\ pending[k] \in Items
      BY <2>2 DEF ToSet
    <3> QED
      BY <2>1, <3>1 DEF PassInv, PendingDeferred
  <2>5. \A i \in Items : fate[i] # "open"
    BY <2>1, NoneOpen DEF StopInv, Joinable
  <2>6. WorkOnce'
    BY <2>1, <2>2 DEF PassInv, PendingOnce, WorkOnce
  <2>7. NotYet' /\ LookedAt'
    BY <1>0, <2>1, <2>2, <2>4 DEF NotYet, LookedAt
  <2>8. FirstIsAll' /\ InHand' /\ OneHand' /\ WaitingFate' /\ OpenFate'
    BY <2>1, <2>3 DEF FirstIsAll, InHand, OneHand, WaitingFate, OpenFate
  <2>9. OpenHeld'
    BY <1>0, <2>2, <2>5 DEF OpenHeld
  <2> QED
    BY <2>6, <2>7, <2>8, <2>9 DEF ItemInv
<1>2. CASE Spawn
  <2>1. spawned + 1 \in Workers /\ pc[spawned + 1] = "unborn"
    BY <1>2, ThreadsBounded, ConfigAssumption DEF StopInv, Unspawned, Spawn, TypeOK, RunTypeOK, Workers
  <2>2. pc' = [pc EXCEPT ![spawned + 1] = "top"] /\ UNCHANGED <<pass, work, next>>
    BY <1>2 DEF Spawn, shared
  <2>3. \A v \in Workers : /\ pc'[v] \in Holding <=> pc[v] \in Holding
                           /\ pc[v] \in Holding => pc'[v] = pc[v] /\ item'[v] = item[v]
    BY <1>0, <2>1, <2>2, ItemTypes DEF Holding
  <2> QED
    BY <1>0, <2>2, <2>3, HandsUnchanged
<1>3. CASE ~SecondPass /\ ~Spawn
  <2>1. UNCHANGED <<pass, work, next, pc>>
    BY <1>3 DEF Main, ReturnEmpty, Begin, FirstPass, SpawnEnd, Join, Decide, SkipSecondPass, NothingPending, Collect, shared
  <2> QED
    BY <1>0, <2>1, HandsUnchanged
<1> QED
  BY <1>1, <1>2, <1>3

LEMMA HitMain == ASSUME TypeOK, HitInv, Main PROVE HitInv'
<1>0. UNCHANGED <<cfg, hits, fate>> /\ Items' = Items /\ Hit' = Hit
  BY MainKeeps, SameTypes
<1>1. HitsOnce' /\ HitsFate'
  BY <1>0 DEF HitInv, HitsOnce, HitsFate
<1>2. NoneAtStart' /\ main # "done"
  BY <1>0 DEF HitInv, NoneAtStart, Main, ReturnEmpty, Begin, FirstPass, Spawn, SpawnEnd, Join, Decide,
     SecondPass, SkipSecondPass, NothingPending, Collect
<1>3. CASE Collect
  <2>1. out' \in Sorted(hits) /\ hits \in Seq(Hit)
    BY <1>3 DEF Collect, TypeOK, RunTypeOK
  <2>2. Len(out') = Len(hits) /\ ToSet(out') = ToSet(hits) /\ out' \in Seq(Hit) /\ InOrder(out')
    BY <2>1, SortedFacts
  <2>3. ReturnsAll'
    BY <1>0, <2>2 DEF ReturnsAll, InOrder, ToSet
  <2> QED
    BY <1>1, <1>2, <2>3 DEF HitInv
<1>4. CASE ReturnEmpty
  <2>1. out' = <<>> /\ hits = <<>>
    BY <1>4 DEF ReturnEmpty, HitInv, NoneAtStart
  <2>2. ReturnsAll'
    BY <1>0, <2>1 DEF ReturnsAll, InOrder
  <2> QED
    BY <1>1, <1>2, <2>2 DEF HitInv
<1>5. CASE ~Collect /\ ~ReturnEmpty
  <2>1. main' # "done"
    BY <1>5 DEF Main, Begin, FirstPass, Spawn, SpawnEnd, Join, Decide, SecondPass, SkipSecondPass, NothingPending
  <2> QED
    BY <1>1, <1>2, <2>1 DEF HitInv, ReturnsAll
<1> QED
  BY <1>3, <1>4, <1>5

(* A pass whose workers were all joined has looked at all its items, but   *)
(* for a stop or the loss of every worker.                                 *)
LEMMA JoinedOver ==
  ASSUME TypeOK, StopInv, ItemInv, PassInv, Join
  PROVE  /\ \A w \in Workers : pc[w] \in Resting
         /\ Halted' \/ next >= Total
<1>0. pc \in [Workers -> PCs] /\ spawned \in 0..HardMaxThreads /\ Joined /\ degraded \in BOOLEAN
  BY DEF TypeOK, RunTypeOK, WorkerTypeOK, Join
<1>1. \A w \in Workers : pc[w] \in Resting
  BY <1>0 DEF StopInv, Unspawned, Joined, Resting, Workers
<1>2. CASE \A w \in 1..spawned : pc[w] = "panicked"
  <2>1. degraded' = (degraded \/ \A w \in 1..spawned : pc[w] = "panicked")
    BY DEF Join
  <2>2. degraded'
    BY <1>2, <2>1, Zenon
  <2> QED
    BY <1>1, <2>2 DEF Halted
<1>3. CASE \E w \in 1..spawned : pc[w] # "panicked"
  <2>1. PICK w \in 1..spawned : pc[w] # "panicked"
    BY <1>3
  <2>2. w \in Workers
    BY <1>0, ConfigAssumption DEF Workers
  <2>3. pc[w] = "exited"
    BY <1>0, <2>1 DEF Joined, Finished
  <2>4. token \/ localStop \/ next >= Total
    BY <2>2, <2>3 DEF PassInv, ExitSound
  <2>5. UNCHANGED <<token, localStop>>
    BY DEF Join, shared
  <2> QED
    BY <1>1, <2>4, <2>5 DEF Halted
<1> QED
  BY <1>2, <1>3

LEMMA PassJoin == ASSUME TypeOK, StopInv, ItemInv, PassInv, Join PROVE PassInv'
<1>1. UNCHANGED <<cfg, token, pass, work, next, pc, pending, localStop, fate>> /\ main = "join"
      /\ (degraded => degraded')
  BY DEF Join, shared
<1>2. main' = IF pass = 1 THEN "decide" ELSE "collect"
  BY DEF Join
<1>3. (Halted => Halted') /\ Items' = Items /\ Total' = Total
  BY <1>1 DEF Halted, Items, Total
<1>4. PendingOnce' /\ PendingDeferred' /\ SecondWork' /\ SecondLast'
  BY <1>1, <1>2, <1>3 DEF PassInv, PendingOnce, PendingDeferred, SecondWork, SecondLast
<1>5. GivenUpSound' /\ LostSound' /\ ExitSound'
  BY <1>1, <1>3 DEF PassInv, GivenUpSound, LostSound, ExitSound
<1>6. PassOver'
  BY <1>1, <1>3, JoinedOver DEF PassOver
<1>7. FirstDecides'
  BY <1>1, <1>2 DEF FirstDecides
<1>8. NoneDeferred'
  <2> SUFFICES ASSUME pass = 2, ~Halted', NEW i \in Items, fate[i] = "deferred" PROVE FALSE
    BY <1>1, <1>2, <1>3, ItemTypes DEF NoneDeferred
  <2>1. PICK k \in 1..Total : work[k] = i
    BY ItemTypes DEF PassInv, SecondWork, ToSet, Total
  <2>2. \A j \in 1..Total : fate[work[j]] # "deferred"
    BY JoinedOver, AllSeen DEF Waiting
  <2> QED
    BY <2>1, <2>2
<1> QED
  BY <1>4, <1>5, <1>6, <1>7, <1>8 DEF PassInv

LEMMA PassSecond == ASSUME TypeOK, StopInv, ItemInv, PassInv, SecondPass PROVE PassInv'
<1>1. UNCHANGED <<cfg, token, localStop, fate, degraded>> /\ main \in DecidedOn /\ main' = "spawn"
      /\ pass' = 2 /\ work' = pending /\ pending' = <<>> /\ next' = 0
      /\ pc' = [w \in Workers |-> "unborn"] /\ pass = 1
  BY DEF SecondPass, history, Remaining, PassInv, FirstDecides
<1>2. Halted' = Halted /\ Items' = Items
  BY <1>1 DEF Halted, Items
<1>3. PendingOnce' /\ PendingDeferred' /\ GivenUpSound' /\ LostSound' /\ ExitSound'
  BY <1>1, <1>2 DEF PassInv, PendingOnce, PendingDeferred, GivenUpSound, LostSound, ExitSound
<1>4. FirstDecides' /\ PassOver' /\ NoneDeferred'
  BY <1>1 DEF FirstDecides, PassOver, NoneDeferred
<1>5. SecondWork'
  BY <1>1, <1>2 DEF PassInv, PendingDeferred, SecondWork
<1>6. SecondLast'
  <2> SUFFICES ASSUME ~Halted, NEW i \in Items, fate[i] = "todo" PROVE FALSE
    BY <1>1, <1>2 DEF SecondLast
  <2>1. next >= Total
    BY <1>1 DEF PassInv, PassOver
  <2>2. \A w \in Workers : pc[w] \in Resting
    BY <1>1 DEF StopInv, Joinable
  <2>3. \A k \in 1..Total : fate[work[k]] # "todo"
    BY <1>1, <2>1, <2>2, AllSeen DEF Waiting
  <2>4. i \in 1..Total /\ work[i] = i
    BY <1>1, ItemTypes DEF ItemInv, FirstIsAll, Items, Total
  <2> QED
    BY <2>3, <2>4
<1> QED
  BY <1>3, <1>4, <1>5, <1>6 DEF PassInv

(* `run` only gives up the pending items after a stop. *)
LEMMA PassSkip == ASSUME TypeOK, StopInv, PassInv, SkipSecondPass PROVE PassInv'
<1>1. UNCHANGED <<cfg, token, pass, work, next, pc, localStop, fate, degraded>> /\ main \in DecidedOn
      /\ main' = "collect" /\ pending' = <<>> /\ pass = 1
  BY DEF SkipSecondPass, locals, history, PassInv, FirstDecides
<1>2. Halted' = Halted /\ Items' = Items /\ Total' = Total
  BY <1>1 DEF Halted, Items, Total
<1>3. Halted
  <2>1. token \/ (cfg.stop /\ HasAdb)
    BY <1>1 DEF SkipSecondPass, GoesOn, StopInv, CancelRead
  <2> QED
    BY <1>1, <2>1, StopInvSound DEF StopFlagSound, Halted
<1>4. PendingOnce' /\ PendingDeferred' /\ SecondWork' /\ SecondLast'
  BY <1>1, <1>2 DEF PassInv, PendingOnce, PendingDeferred, SecondWork, SecondLast
<1>5. GivenUpSound' /\ LostSound' /\ ExitSound' /\ FirstDecides'
  BY <1>1, <1>2 DEF PassInv, GivenUpSound, LostSound, ExitSound, FirstDecides
<1>6. PassOver' /\ NoneDeferred'
  BY <1>2, <1>3 DEF PassOver, NoneDeferred
<1> QED
  BY <1>4, <1>5, <1>6 DEF PassInv

LEMMA PassRest ==
  ASSUME TypeOK, PassInv, ItemInv,
         ReturnEmpty \/ Begin \/ FirstPass \/ Spawn \/ SpawnEnd \/ Decide \/ NothingPending \/ Collect
  PROVE  PassInv'
<1>1. UNCHANGED <<cfg, token, pass, work, next, localStop, fate, degraded, pending>>
  BY DEF ReturnEmpty, Begin, FirstPass, Spawn, SpawnEnd, Decide, NothingPending, Collect, shared, history
<1>2. Halted' = Halted /\ Items' = Items /\ Total' = Total
  BY <1>1 DEF Halted, Items, Total
<1>3. PendingOnce' /\ SecondWork' /\ SecondLast' /\ GivenUpSound' /\ LostSound'
  BY <1>1, <1>2 DEF PassInv, PendingOnce, SecondWork, SecondLast, GivenUpSound, LostSound
<1>4. main' \in Early \union Between \union {"spawn", "join"} => main \in Early \union Between \union {"spawn", "join"}
  BY DEF ReturnEmpty, Begin, FirstPass, Spawn, SpawnEnd, Decide, NothingPending, Collect
<1>5. PendingDeferred'
  BY <1>1, <1>2, <1>4 DEF PassInv, PendingDeferred
<1>6. ExitSound'
  <2>1. \A w \in Workers : pc'[w] = "exited" => pc[w] = "exited"
    BY DEF ReturnEmpty, Begin, FirstPass, Spawn, SpawnEnd, Decide, NothingPending, Collect, TypeOK, WorkerTypeOK
  <2> QED
    BY <1>1, <1>2, <2>1 DEF PassInv, ExitSound
<1>7. FirstDecides'
  BY <1>1 DEF PassInv, FirstDecides, ReturnEmpty, Begin, FirstPass, Spawn, SpawnEnd, Decide, NothingPending, Collect
<1>8. CASE ReturnEmpty
  <2>1. pass = 1 /\ (token \/ cfg.items = 0)
    BY <1>8 DEF ReturnEmpty, PassInv, FirstDecides
  <2>2. cfg.items = 0 => Total = 0 /\ Items = {}
    BY <2>1, ItemTypes DEF ItemInv, FirstIsAll, Items, Total
  <2>3. PassOver' /\ NoneDeferred'
    BY <1>1, <1>2, <2>1, <2>2, ItemTypes DEF PassOver, NoneDeferred, Halted
  <2> QED
    BY <1>3, <1>5, <1>6, <1>7, <2>3 DEF PassInv
<1>9. CASE NothingPending
  <2>1. main \in DecidedOn /\ pass = 1 /\ pending = <<>>
    BY <1>9 DEF NothingPending, PassInv, FirstDecides
  <2>2. \A i \in Items : fate[i] # "deferred"
    BY <2>1 DEF PassInv, PendingDeferred, ToSet
  <2>3. PassOver' /\ NoneDeferred'
    BY <1>1, <1>2, <2>1, <2>2 DEF PassInv, PassOver, NoneDeferred
  <2> QED
    BY <1>3, <1>5, <1>6, <1>7, <2>3 DEF PassInv
<1>10. CASE Begin \/ FirstPass \/ Spawn \/ SpawnEnd \/ Decide \/ Collect
  <2>1. main' \in {"announce", "spawn", "join"} \/ (main = "decide" /\ main' \in DecidedOn)
        \/ (main = "collect" /\ main' = "done")
    BY <1>10 DEF Begin, FirstPass, Spawn, SpawnEnd, Decide, Collect
  <2>2. PassOver' /\ NoneDeferred'
    BY <1>1, <1>2, <2>1 DEF PassInv, PassOver, NoneDeferred
  <2> QED
    BY <1>3, <1>5, <1>6, <1>7, <2>2 DEF PassInv
<1> QED
  BY <1>8, <1>9, <1>10

LEMMA PassMain == ASSUME TypeOK, StopInv, ItemInv, PassInv, Main PROVE PassInv'
  BY PassJoin, PassSecond, PassSkip, PassRest DEF Main

-----------------------------------------------------------------------------
LEMMA ItemInit == Init => ItemInv /\ PassInv /\ HitInv
<1> SUFFICES ASSUME Init PROVE ItemInv /\ PassInv /\ HitInv
  OBVIOUS
<1>1. /\ cfg.items \in Nat /\ Total = cfg.items /\ Items = 1..cfg.items
      /\ \A k \in 1..Total : work[k] = k /\ fate[k] = "todo"
      /\ work = [i \in Items |-> i] /\ next = 0 /\ pass = 1 /\ main = "start"
      /\ \A w \in Workers : pc[w] = "unborn"
      /\ hits = <<>> /\ pending = <<>>
  <2>1. cfg.items \in Nat
    BY ConfigAssumption DEF Init, Config
  <2>2. work = [i \in 1..cfg.items |-> i] /\ fate = [i \in 1..cfg.items |-> "todo"]
    BY DEF Init
  <2>3. Len(work) = cfg.items
    BY <2>1, <2>2
  <2> QED
    BY <2>1, <2>2, <2>3 DEF Init, Total, Items
<1>2. Waiting = "todo" /\ ToSet(pending) = {} /\ ToSet(hits) = {}
  BY <1>1 DEF Waiting, ToSet
<1>4. \A i \in Items : fate[i] = "todo"
  BY <1>1
<1>3. ItemInv
  <2>1. WorkOnce /\ FirstIsAll
    BY <1>1 DEF WorkOnce, FirstIsAll
  <2>2. InHand /\ OneHand
    BY <1>1 DEF InHand, OneHand, Holding, Opened
  <2>3. WaitingFate /\ OpenFate
    BY <1>1 DEF WaitingFate, OpenFate, Opened
  <2>4. OpenHeld
    BY <1>4 DEF OpenHeld
  <2>5. NotYet
    BY <1>1, <1>2 DEF NotYet
  <2>6. LookedAt
    <3>1. \A k \in 1..Total : ~(k <= next)
      BY <1>1
    <3> QED
      BY <3>1 DEF LookedAt
  <2> QED
    BY <2>1, <2>2, <2>3, <2>4, <2>5, <2>6 DEF ItemInv
<1>5. PassInv
  BY <1>1, <1>2, <1>4 DEF PassInv, PendingOnce, PendingDeferred, SecondWork, SecondLast, GivenUpSound,
     LostSound, ExitSound, FirstDecides, PassOver, NoneDeferred
<1>6. HitInv
  BY <1>1, <1>2, <1>4 DEF HitInv, HitsOnce, HitsFate, NoneAtStart, ReturnsAll
<1> QED
  BY <1>3, <1>5, <1>6

LEMMA ItemStill ==
  ASSUME ItemInv, PassInv, HitInv, (token => token'),
         UNCHANGED <<cfg, main, pass, work, next, pc, item, hits, pending, localStop, out, fate, degraded>>
  PROVE  ItemInv' /\ PassInv' /\ HitInv'
<1>1. (Halted => Halted') /\ Items' = Items /\ Total' = Total /\ Waiting' = Waiting /\ Hit' = Hit
  BY SameTypes DEF Halted, Items, Total, Waiting
<1>2. ItemInv'
  BY HandsUnchanged
<1>3. PassInv'
  BY <1>1 DEF PassInv, PendingOnce, PendingDeferred, SecondWork, SecondLast, GivenUpSound,
     LostSound, ExitSound, FirstDecides, PassOver, NoneDeferred
<1>4. HitInv'
  BY <1>1 DEF HitInv, HitsOnce, HitsFate, NoneAtStart, ReturnsAll, InOrder
<1> QED
  BY <1>2, <1>3, <1>4

ScanInv == TypeOK /\ StopInv /\ ItemInv /\ PassInv /\ HitInv

LEMMA ItemStep == TypeOK /\ StopInv /\ ItemInv /\ PassInv /\ HitInv /\ [Next]_vars => ItemInv' /\ PassInv' /\ HitInv'
<1> SUFFICES ASSUME TypeOK, StopInv, ItemInv, PassInv, HitInv, [Next]_vars
             PROVE  ItemInv' /\ PassInv' /\ HitInv'
  OBVIOUS
<1>1. CASE Main
  BY <1>1, ItemMain, PassMain, HitMain
<1>2. CASE Cancel
  <2>1. UNCHANGED <<cfg, main, pass, work, next, pc, item, hits, pending, localStop, out, fate, degraded>> /\ token'
    BY <1>2 DEF Cancel, shared, locals, history
  <2> QED
    BY <2>1, ItemStill
<1>3. ASSUME NEW w \in Workers, Worker(w) PROVE ItemInv' /\ PassInv' /\ HitInv'
  BY <1>3, ItemWorker, PassWorker, HitWorker
<1>4. CASE UNCHANGED vars
  BY <1>4, ItemStill DEF vars
<1> QED
  BY <1>1, <1>2, <1>3, <1>4 DEF Next, Terminated

(***************************************************************************)
(* The inductive invariant of the scan: each item of a pass is looked at   *)
(* by one worker at a time, once, and what is deferred, dropped or lost is *)
(* accounted for.                                                          *)
(***************************************************************************)
THEOREM ScanInvariant == Spec => []ScanInv
<1>1. Spec => []TypeOK
  BY TypeCorrect
<1>2. Spec => []StopInv
  BY <1>1, StopInit, StopStep, PTL DEF Spec
<1>3. Spec => [](ItemInv /\ PassInv /\ HitInv)
  BY <1>1, <1>2, ItemInit, ItemStep, PTL DEF Spec
<1>4. TypeOK /\ StopInv /\ (ItemInv /\ PassInv /\ HitInv) => ScanInv
  BY DEF ScanInv
<1> QED
  BY <1>1, <1>2, <1>3, <1>4, PTL

(* Where `run` has nothing left to do, every item has its last fate. *)
LEMMA AllDecided ==
  ASSUME ScanInv, main \in {"collect", "done"}, ~Halted
  PROVE  \A i \in Items : fate[i] \in {"closed", "silent", "hit"} \union (IF "panic" \in Faults THEN {"lost"} ELSE {})
<1>1. \A w \in Workers : pc[w] \in Resting
  BY DEF ScanInv, StopInv, Joinable
<1>2. TypeOK /\ ItemInv /\ PassInv /\ next >= Total
  BY DEF ScanInv, PassInv, PassOver
<1>3. \A i \in Items : fate[i] # "open" /\ fate[i] # "deferred" /\ fate[i] # "dropped"
  BY <1>1, <1>2, NoneOpen DEF PassInv, NoneDeferred, GivenUpSound, Halted
<1>4. \A i \in Items : fate[i] = "lost" => "panic" \in Faults
  BY <1>2 DEF PassInv, LostSound
<1>5. \A i \in Items : fate[i] # "todo"
  <2>1. CASE pass = 2
    BY <1>2, <2>1 DEF PassInv, SecondLast
  <2>2. CASE pass = 1
    <3>1. \A k \in 1..Total : fate[work[k]] # "todo"
      BY <1>1, <1>2, <2>2, AllSeen DEF Waiting
    <3>2. \A i \in Items : i \in 1..Total /\ work[i] = i
      BY <1>2, <2>2, ItemTypes DEF ItemInv, FirstIsAll, Items, Total
    <3> QED
      BY <3>1, <3>2
  <2> QED
    BY <1>2, <2>1, <2>2, ItemTypes
<1>6. \A i \in Items : fate[i] \in Fates
  BY <1>2, ItemTypes
<1> QED
  BY <1>3, <1>4, <1>5, <1>6 DEF Fates

(***************************************************************************)
(* A scan that was not cancelled, did not stop at a hit and did not lose   *)
(* all the workers of a pass has decided every item.                       *)
(***************************************************************************)
THEOREM CompleteTheorem == Spec => []ScanComplete
<1>1. ScanInv => ScanComplete
  BY AllDecided DEF ScanComplete, Halted, Items
<1> QED
  BY <1>1, ScanInvariant, PTL

(***************************************************************************)
(* The result is ranked, whatever order the workers recorded the hits in.  *)
(***************************************************************************)
THEOREM RankedTheorem == Spec => []ResultRanked
<1>1. ScanInv => ResultRanked
  <2> SUFFICES ASSUME ScanInv, main = "done", NEW i \in 1..Len(out), NEW j \in 1..Len(out), i < j
               PROVE  /\ out[i].kind = "Open" => out[j].kind = "Open"
                      /\ out[i].kind = "Tls" => out[j].kind # "Plain"
    BY DEF ResultRanked
  <2>1. out \in Seq(Hit) /\ ~Before(out[j], out[i])
    BY DEF ScanInv, HitInv, ReturnsAll, InOrder
  <2>2. out[i].kind \in Kinds /\ out[j].kind \in Kinds
    <3>1. out[i] \in Hit /\ out[j] \in Hit
      BY <2>1
    <3> QED
      BY <3>1 DEF Hit
  <2>3. ~(Priority(out[j].kind) < Priority(out[i].kind))
    BY <2>1 DEF Before
  <2>4. Priority("Plain") = 0 /\ Priority("Tls") = 1 /\ Priority("Open") = 2
    BY DEF Priority
  <2> QED
    BY <2>2, <2>3, <2>4 DEF Kinds, AdbKinds
<1> QED
  BY <1>1, ScanInvariant, PTL

-----------------------------------------------------------------------------
(* The pool of threads takes the steps that ScanContract allows. *)
LEMMA ContractInit == Init => Contract!Init
<1> SUFFICES ASSUME Init PROVE Contract!Init
  OBVIOUS
<1>1. cfg.items \in {c.items : c \in Configs} /\ fate = [i \in 1..cfg.items |-> "todo"] /\ main = "start"
  BY DEF Init
<1>2. (token \/ localStop \/ degraded) \in BOOLEAN
  OBVIOUS
<1> QED
  BY <1>1, <1>2 DEF Contract!Init, Contract!Unreturned

(* A step that decides nothing stutters, or halts the scan. *)
LEMMA ContractStill ==
  ASSUME fate' = fate, main' # "done", main # "done", Halted => Halted'
  PROVE  [Contract!Next]_(Contract!vars)
<1>1. CASE Halted' /\ ~Halted
  BY <1>1 DEF Contract!Next, Contract!Halt, Contract!Unreturned, Halted
<1>2. CASE Halted' <=> Halted
  <2>1. (token \/ localStop \/ degraded)' = (token \/ localStop \/ degraded)
    BY <1>2 DEF Halted
  <2> QED
    BY <2>1 DEF Contract!vars
<1> QED
  BY <1>1, <1>2

LEMMA ContractWorker ==
  ASSUME TypeOK, StopInv, ItemInv, PassInv, NEW w \in Workers, Worker(w)
  PROVE  [Contract!Next]_(Contract!vars)
<1>0. UNCHANGED <<token, main, degraded>> /\ (localStop => localStop') /\ main # "done"
  BY WorkerKeeps, Running
<1>1. CASE fate' = fate
  BY <1>0, <1>1, ContractStill DEF Halted
<1>2. CASE fate' # fate
  <2>1. localStop' = localStop
    BY <1>2 DEF Worker, CheckStop, Claim, ConnectClosed, ConnectTimeout, ConnectOpen, Probe, EmitHit,
       PushHit, StoreStop, Count, EmitProgress, CallbackPanics, shared, history
  <2>2. (token \/ localStop \/ degraded)' = (token \/ localStop \/ degraded)
    BY <1>0, <2>1
  <2>3. item[w] \in Items /\ DOMAIN fate = Items /\ pass \in {1, 2} /\ pc[w] \in Holding
    BY <1>2, WorkerDecides, HandFacts, ItemTypes DEF Deciding, Holding
  <2>4. PICK f \in Fates : /\ Decided(w, f)
                           /\ f = "dropped" => token \/ localStop \/ degraded
                           /\ \/ pc[w] = "connect" /\ f \in {"closed", "open", "dropped"}
                              \/ pc[w] = "connect" /\ pass = 1 /\ f = "deferred"
                              \/ pc[w] = "connect" /\ pass = 2 /\ f = "silent"
                              \/ pc[w] # "connect" /\ f \in {"hit", "dropped"}
                              \/ pc[w] # "connect" /\ f = "lost" /\ "panic" \in Faults
    BY <1>2, WorkerDecides DEF Deciding, Fates, ShouldStop
  <2>5. CASE pc[w] = "connect" /\ pass = 1
    <3>1. fate[item[w]] = "todo"
      BY <2>3, <2>5, HandFacts DEF Waiting
    <3>2. Contract!Decide(item[w], {"closed", "deferred", "open"} \union Contract!GivenUp)
      <4>1. f \in {"closed", "deferred", "open"} \union Contract!GivenUp
        BY <2>4, <2>5 DEF Contract!GivenUp
      <4> QED
        BY <1>0, <2>2, <2>4, <4>1 DEF Contract!Decide, Contract!Unreturned, Decided
    <3> QED
      BY <2>3, <3>1, <3>2 DEF Contract!Next, Contract!Scanning, Contract!Answer
  <2>6. CASE pc[w] = "connect" /\ pass = 2
    <3>1. fate[item[w]] = "deferred"
      BY <2>3, <2>6, HandFacts DEF Waiting
    <3>2. Contract!Decide(item[w], {"closed", "silent", "open"} \union Contract!GivenUp)
      <4>1. f \in {"closed", "silent", "open"} \union Contract!GivenUp
        BY <2>4, <2>6 DEF Contract!GivenUp
      <4> QED
        BY <1>0, <2>2, <2>4, <4>1 DEF Contract!Decide, Contract!Unreturned, Decided
    <3>3. (token \/ localStop \/ degraded) \/ \A j \in DOMAIN fate : fate[j] # "todo"
      BY <2>3, <2>6 DEF PassInv, SecondLast, Halted
    <3> QED
      BY <2>3, <3>1, <3>2, <3>3 DEF Contract!Next, Contract!Scanning, Contract!Recheck
  <2>7. CASE pc[w] # "connect"
    <3>1. fate[item[w]] = "open"
      BY <2>3, <2>7, HandFacts
    <3>2. Contract!Decide(item[w], {"hit"} \union (IF "panic" \in Faults THEN {"lost"} ELSE {}) \union Contract!GivenUp)
      BY <1>0, <2>2, <2>4, <2>7 DEF Contract!Decide, Contract!GivenUp, Contract!Unreturned, Decided
    <3> QED
      BY <2>3, <3>1, <3>2 DEF Contract!Next, Contract!Scanning, Contract!Resolve
  <2> QED
    BY <2>3, <2>5, <2>6, <2>7
<1> QED
  BY <1>1, <1>2

(* `run` returns the items of the recorded hits, when nothing is left open. *)
LEMMA ContractReturn ==
  ASSUME ScanInv, ScanInv', ReturnEmpty \/ Collect
  PROVE  [Contract!Next]_(Contract!vars)
<1>1. UNCHANGED <<cfg, token, localStop, degraded, fate, hits>> /\ main # "done" /\ main' = "done"
  BY DEF ReturnEmpty, Collect, shared, history
<1>2. Items' = Items /\ DOMAIN fate = Items
  BY <1>1, ItemTypes DEF ScanInv, Items
<1>3. \A i \in Items : fate[i] # "open"
  BY <1>1, NoneOpen DEF ScanInv, StopInv, Joinable, ReturnEmpty, Collect
<1>4. Halted \/ \A i \in Items : fate[i] \in {"closed", "silent", "hit"} \union (IF "panic" \in Faults THEN {"lost"} ELSE {})
  <2>1. CASE Collect
    BY <2>1, AllDecided DEF Collect
  <2>2. CASE ReturnEmpty
    <3>1. cfg.items = 0 => Items = {}
      BY DEF Items
    <3> QED
      BY <2>2, <3>1 DEF ReturnEmpty, Halted
  <2> QED
    BY <2>1, <2>2
<1>5. ToSet(out') = ToSet(hits) /\ hits \in Seq(Hit)
  BY <1>1 DEF ScanInv, TypeOK, RunTypeOK, HitInv, ReturnsAll
<1>6. {h.item : h \in ToSet(out')} = {i \in Items : fate[i] = "hit"}
  <2>1. \A h \in ToSet(hits) : h.item \in Items
    <3>1. \A i \in DOMAIN hits : hits[i] \in Hit
      BY <1>5
    <3> QED
      BY <3>1 DEF ToSet, Hit, Items
  <2>2. \A i \in Items : fate[i] = "hit" <=> \E h \in ToSet(hits) : h.item = i
    BY DEF ScanInv, HitInv, HitsFate
  <2> QED
    BY <1>5, <2>1, <2>2
<1>7. (token \/ localStop \/ degraded)' = (token \/ localStop \/ degraded)
  BY <1>1
<1>8. Contract!Return
  BY <1>1, <1>2, <1>3, <1>4, <1>6, <1>7 DEF Contract!Return, Contract!Unreturned, Contract!Final, Halted
<1> QED
  BY <1>8 DEF Contract!Next, Contract!Scanning

LEMMA ContractStep == ScanInv /\ ScanInv' /\ [Next]_vars => [Contract!Next]_(Contract!vars)
<1> SUFFICES ASSUME ScanInv, ScanInv', [Next]_vars PROVE [Contract!Next]_(Contract!vars)
  OBVIOUS
<1>1. CASE ReturnEmpty \/ Collect
  BY <1>1, ContractReturn
<1>2. CASE Main /\ ~(ReturnEmpty \/ Collect)
  <2>1. main # "done" /\ main' # "done"
    BY <1>2 DEF Main, Begin, FirstPass, Spawn, SpawnEnd, Join, Decide, SecondPass, SkipSecondPass, NothingPending
  <2>2. fate' = fate /\ (Halted => Halted')
    BY <1>2, MainKeeps DEF Halted
  <2> QED
    BY <2>1, <2>2, ContractStill
<1>3. CASE Cancel
  BY <1>3, ContractStill DEF Cancel, history, Halted
<1>4. ASSUME NEW w \in Workers, Worker(w) PROVE [Contract!Next]_(Contract!vars)
  BY <1>4, ContractWorker DEF ScanInv
<1>5. CASE UNCHANGED vars
  BY <1>5 DEF vars, Contract!vars
<1> QED
  BY <1>1, <1>2, <1>3, <1>4, <1>5 DEF Next, Main, Terminated

(***************************************************************************)
(* The pool of threads implements the contract of `run`, but for its       *)
(* liveness: every item is decided once, and only rechecked when all were  *)
(* looked at; none is given up before the scan is halted; and the result   *)
(* is the items of the recorded hits.                                      *)
(***************************************************************************)
THEOREM ContractTheorem == Spec => Contract!Init /\ [][Contract!Next]_(Contract!vars)
  BY ContractInit, ContractStep, ScanInvariant, PTL DEF Spec
=============================================================================
