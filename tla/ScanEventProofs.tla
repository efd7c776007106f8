-------------------------- MODULE ScanEventProofs --------------------------
(***************************************************************************)
(* What the caller of a scan is told, proved for every set of              *)
(* configurations, every number of threads and with or without faults: the *)
(* hits announced and the hits returned, the order of the events, the      *)
(* progress reports, and the bound on the hits of a scan that stops at     *)
(* one.                                                                    *)
(***************************************************************************)
EXTENDS ScanProofs, FiniteSetTheorems

USE DEF Early, Between, DecidedOn

Pushers == {w \in Workers : pc[w] = "push"}

(* What is announced is recorded, or in the hands of a worker about to. *)
AnnouncedSplit == Announced = ToSet(hits) \union {FoundHit(w) : w \in Pushers}
Unverified == ~cfg.verify => \A w \in Workers : kind[w] = "Open"
AnnouncedInv == AnnouncedSplit /\ Unverified

-----------------------------------------------------------------------------
LEMMA WorkersFinite == IsFiniteSet(Workers) /\ \A S \in SUBSET Workers : IsFiniteSet(S) /\ Cardinality(S) \in Nat
<1>1. IsFiniteSet(Workers)
  BY FS_Interval, ConfigAssumption DEF Workers
<1> QED
  BY <1>1, FS_Subset, FS_CardinalityType

LEMMA IntervalSize ==
  ASSUME NEW n \in Nat
  PROVE  IsFiniteSet(1..n) /\ Cardinality(1..n) = n
<1>1. 1 \in Int /\ n \in Int /\ (1 > n => n = 0) /\ n - 1 + 1 = n
  OBVIOUS
<1> QED
  BY <1>1, FS_Interval

(* A sequence without repetitions has as many elements as its range. *)
LEMMA DistinctLen ==
  ASSUME NEW S, NEW s \in Seq(S), \A i, j \in 1..Len(s) : s[i] = s[j] => i = j
  PROVE  IsFiniteSet(ToSet(s)) /\ Cardinality(ToSet(s)) = Len(s)
<1>1. Len(s) \in Nat /\ DOMAIN s = 1..Len(s)
  OBVIOUS
<1> DEFINE f == [i \in 1..Len(s) |-> s[i]]
<1>2. f \in [1..Len(s) -> ToSet(s)]
  BY <1>1 DEF ToSet
<1>3. f \in Bijection(1..Len(s), ToSet(s))
  BY <1>1, <1>2 DEF Bijection, Injection, IsInjective, Surjection, ToSet
<1>4. ExistsBijection(1..Len(s), ToSet(s))
  BY <1>3 DEF ExistsBijection
<1>5. IsFiniteSet(1..Len(s)) /\ Cardinality(1..Len(s)) = Len(s)
  BY <1>1, FS_Interval
<1> QED
  BY <1>4, <1>5, FS_Bijection

LEMMA EventKinds ==
  /\ \A p, n : PassStarted(p, n).type = "PassStarted" /\ PassStarted(p, n).pass = p /\ PassStarted(p, n).items = n
  /\ \A p, n, m : ThreadsSpawned(p, n, m).type = "ThreadsSpawned" /\ ThreadsSpawned(p, n, m).pass = p
  /\ \A n, r : /\ PassSkipped(n, r).type = "PassSkipped" /\ PassSkipped(n, r).pass = 2
               /\ PassSkipped(n, r).remaining = n /\ PassSkipped(n, r).reason = r
  /\ \A p, n, m : /\ Progress(p, n, m).type = "Progress" /\ Progress(p, n, m).pass = p
                  /\ Progress(p, n, m).done = n /\ Progress(p, n, m).total = m
  /\ \A h : PortHit(h).type = "PortHit" /\ PortHit(h).hit = h
  BY DEF PassStarted, ThreadsSpawned, PassSkipped, Progress, PortHit

(* What an event that is not a hit does to the announced hits: nothing. *)
LEMMA AnnouncedGrows ==
  ASSUME events \in Seq(Event), NEW e, e \in Event, events' = Append(events, e)
  PROVE  Announced' = Announced \union (IF e.type = "PortHit" THEN {e.hit} ELSE {})
<1>1. /\ Len(events') = Len(events) + 1 /\ Len(events) \in Nat /\ events'[Len(events) + 1] = e
      /\ \A k \in 1..Len(events) : events'[k] = events[k]
  BY Appended
<1>2. CASE e.type = "PortHit"
  <2>1. Places("PortHit")' = Places("PortHit") \union {Len(events) + 1}
    BY <1>1, <1>2 DEF Places
  <2>2. \A i \in Places("PortHit") : events'[i] = events[i]
    BY <1>1 DEF Places
  <2>3. Announced' = {events'[i].hit : i \in Places("PortHit")} \union {events'[Len(events) + 1].hit}
    BY <2>1 DEF Announced
  <2>4. {events'[i].hit : i \in Places("PortHit")} = Announced
    BY <2>2 DEF Announced
  <2> QED
    BY <1>1, <1>2, <2>3, <2>4
<1>3. CASE e.type # "PortHit"
  <2>1. Places("PortHit")' = Places("PortHit")
    BY <1>1, <1>3 DEF Places
  <2>2. \A i \in Places("PortHit") : events'[i] = events[i]
    BY <1>1 DEF Places
  <2> QED
    BY <1>3, <2>1, <2>2 DEF Announced
<1> QED
  BY <1>2, <1>3

(* The events a worker emits. *)
LEMMA WorkerEmits ==
  ASSUME TypeOK, NEW w \in Workers, Worker(w)
  PROVE  \/ events' = events
         \/ EmitHit(w) /\ FoundHit(w) \in Hit /\ PortHit(FoundHit(w)) \in Event
         \/ EmitProgress(w) /\ Progress(pass, done[w], Total) \in Event
<1>1. CASE EmitHit(w)
  <2>1. FoundHit(w) \in Hit
    BY <1>1 DEF TypeOK, WorkerTypeOK, EmitHit, FoundHit, Hit, Holding
  <2> QED
    BY <1>1, <2>1, EventTypes
<1>2. CASE EmitProgress(w)
  <2>1. done[w] \in Nat /\ Total \in Nat /\ pass \in {1, 2}
    BY ItemTypes DEF TypeOK, WorkerTypeOK
  <2> QED
    BY <1>2, <2>1, EventTypes
<1>3. CASE ~EmitHit(w) /\ ~EmitProgress(w)
  BY <1>3 DEF Worker, CheckStop, Claim, ConnectClosed, ConnectTimeout, ConnectOpen, Probe,
     PushHit, StoreStop, Count, CallbackPanics
<1> QED
  BY <1>1, <1>2, <1>3

(* The events the thread that called `run` emits. *)
LEMMA MainEmits ==
  ASSUME TypeOK, Main
  PROVE  \/ events' = events
         \/ \E e \in Event : events' = Append(events, e) /\ e.type # "PortHit"
<1>0. cfg.items \in Nat /\ cfg.threads \in Nat /\ spawned \in Nat /\ pass \in {1, 2} /\ Len(pending) \in Nat
  BY ItemsNat, ConfigAssumption DEF TypeOK, RunTypeOK, Config
<1>1. /\ PassStarted(1, cfg.items) \in Event /\ PassStarted(2, Len(pending)) \in Event
      /\ ThreadsSpawned(pass, cfg.threads, spawned) \in Event
      /\ PassSkipped(Len(pending), SkipReason) \in Event
  BY <1>0, EventTypes
<1>2. CASE FirstPass
  BY <1>1, <1>2, EventKinds DEF FirstPass
<1>3. CASE SpawnEnd
  BY <1>1, <1>3, EventKinds DEF SpawnEnd
<1>4. CASE SecondPass
  BY <1>1, <1>4, EventKinds DEF SecondPass, Remaining
<1>5. CASE SkipSecondPass
  BY <1>1, <1>5, EventKinds DEF SkipSecondPass
<1>6. CASE ReturnEmpty \/ Begin \/ Spawn \/ Join \/ Decide \/ NothingPending \/ Collect
  BY <1>6 DEF ReturnEmpty, Begin, Spawn, Join, Decide, NothingPending, Collect
<1> QED
  BY <1>2, <1>3, <1>4, <1>5, <1>6 DEF Main

-----------------------------------------------------------------------------
LEMMA AnnouncedInit == Init => AnnouncedInv
<1> SUFFICES ASSUME Init PROVE AnnouncedInv
  OBVIOUS
<1>1. events = <<>> /\ hits = <<>> /\ Pushers = {} /\ Places("PortHit") = {}
  BY DEF Init, Pushers, Places
<1>2. Announced = {} /\ ToSet(hits) = {}
  BY <1>1 DEF Announced, ToSet
<1> QED
  BY <1>1, <1>2 DEF Init, AnnouncedInv, AnnouncedSplit, Unverified

(* Hits are moved by nothing but the two steps that announce and record. *)
LEMMA AnnouncedStill ==
  ASSUME AnnouncedInv, Announced' = Announced, UNCHANGED <<cfg, hits>>, Pushers' = Pushers,
         \A w \in Pushers : item'[w] = item[w] /\ kind'[w] = kind[w],
         \A w \in Workers : kind'[w] = "Open" \/ kind'[w] = kind[w] \/ cfg.verify
  PROVE  AnnouncedInv'
<1>1. \A w \in Pushers : FoundHit(w)' = FoundHit(w)
  BY DEF FoundHit
<1>2. {FoundHit(w) : w \in Pushers}' = {FoundHit(w) : w \in Pushers}
  BY <1>1
<1>3. AnnouncedSplit'
  BY <1>2 DEF AnnouncedInv, AnnouncedSplit
<1> QED
  BY <1>3 DEF AnnouncedInv, Unverified

LEMMA AnnouncedMain == ASSUME TypeOK, StopInv, AnnouncedInv, Main PROVE AnnouncedInv'
<1>1. UNCHANGED <<cfg, hits, item, kind>>
  BY MainKeeps
<1>2. Announced' = Announced
  <2>1. CASE events' = events
    BY <2>1 DEF Announced, Places
  <2>2. CASE \E e \in Event : events' = Append(events, e) /\ e.type # "PortHit"
    BY <2>2, AnnouncedGrows DEF TypeOK, RunTypeOK
  <2> QED
    BY <2>1, <2>2, MainEmits
<1>3. Pushers' = Pushers
  <2>1. CASE SecondPass
    <3>1. \A w \in Workers : pc[w] # "push"
      BY <2>1 DEF SecondPass, StopInv, Joinable, Resting, Finished
    <3> QED
      BY <2>1, <3>1 DEF SecondPass, Pushers
  <2>2. CASE Spawn
    <3>1. spawned + 1 \in Workers /\ pc[spawned + 1] = "unborn"
      BY <2>2, ThreadsBounded, ConfigAssumption DEF StopInv, Unspawned, Spawn, TypeOK, RunTypeOK, Workers
    <3>2. pc' = [pc EXCEPT ![spawned + 1] = "top"]
      BY <2>2 DEF Spawn
    <3> QED
      BY <3>1, <3>2, ItemTypes DEF Pushers
  <2>3. CASE ~SecondPass /\ ~Spawn
    <3>1. pc' = pc
      BY <2>3 DEF Main, ReturnEmpty, Begin, FirstPass, SpawnEnd, Join, Decide, SkipSecondPass, NothingPending, Collect
    <3> QED
      BY <3>1 DEF Pushers
  <2> QED
    BY <2>1, <2>2, <2>3
<1> QED
  BY <1>1, <1>2, <1>3, AnnouncedStill

LEMMA AnnouncedWorker ==
  ASSUME TypeOK, AnnouncedInv, NEW w \in Workers, Worker(w)
  PROVE  AnnouncedInv'
<1>0. pc \in [Workers -> PCs] /\ item \in [Workers -> 0..cfg.items] /\ kind \in [Workers -> Kinds]
      /\ hits \in Seq(Hit) /\ events \in Seq(Event) /\ cfg' = cfg
  BY WorkerKeeps DEF TypeOK, RunTypeOK, WorkerTypeOK
<1>1. CASE EmitHit(w)
  <2>1. pc' = [pc EXCEPT ![w] = "push"] /\ UNCHANGED <<item, kind, hits>>
        /\ events' = Append(events, PortHit(FoundHit(w)))
    BY <1>1 DEF EmitHit, Goto, shared, locals
  <2>2. PortHit(FoundHit(w)) \in Event
    BY <1>0, <1>1, EventTypes DEF TypeOK, WorkerTypeOK, EmitHit, FoundHit, Hit, Holding
  <2>3. Announced' = Announced \union {FoundHit(w)}
    BY <1>0, <2>1, <2>2, EventKinds, AnnouncedGrows
  <2>4. Pushers' = Pushers \union {w}
    BY <1>0, <2>1 DEF Pushers
  <2>5. \A v : FoundHit(v)' = FoundHit(v)
    BY <2>1 DEF FoundHit
  <2>6. AnnouncedSplit'
    BY <2>1, <2>3, <2>4, <2>5 DEF AnnouncedInv, AnnouncedSplit
  <2> QED
    BY <1>0, <2>1, <2>6 DEF AnnouncedInv, Unverified
<1>2. CASE PushHit(w)
  <2>1. hits' = Append(hits, FoundHit(w)) /\ events' = events /\ pc[w] = "push"
        /\ item' = [item EXCEPT ![w] = 0] /\ kind' = [kind EXCEPT ![w] = "Open"]
        /\ (Goto(w, "store") \/ Goto(w, "count"))
    BY <1>2 DEF PushHit, DropLocals
  <2>2. FoundHit(w) \in Hit
    BY <1>0, <2>1 DEF TypeOK, WorkerTypeOK, FoundHit, Hit, Holding
  <2>3. ToSet(hits') = ToSet(hits) \union {FoundHit(w)}
    <3>1. ToSet(Append(hits, FoundHit(w))) = ToSet(hits) \union {FoundHit(w)}
      BY <1>0, <2>2, AppendedSet
    <3> QED
      BY <2>1, <3>1
  <2>4. Pushers' = Pushers \ {w} /\ w \in Pushers
    BY <1>0, <2>1 DEF Pushers, Goto
  <2>5. \A v \in Workers \ {w} : FoundHit(v)' = FoundHit(v)
    BY <1>0, <2>1 DEF FoundHit
  <2>6. Announced' = Announced
    BY <2>1 DEF Announced, Places
  <2>7. {FoundHit(v) : v \in Pushers} = {FoundHit(v) : v \in Pushers}' \union {FoundHit(w)}
    BY <2>4, <2>5 DEF Pushers
  <2>8. AnnouncedSplit'
    <3>1. Announced = ToSet(hits) \union {FoundHit(v) : v \in Pushers}
      BY DEF AnnouncedInv, AnnouncedSplit
    <3>2. Announced' = ToSet(hits') \union {FoundHit(v) : v \in Pushers}'
      BY <2>3, <2>6, <2>7, <3>1
    <3> QED
      BY <3>2 DEF AnnouncedSplit
  <2> QED
    BY <1>0, <2>1, <2>8 DEF AnnouncedInv, Unverified
<1>3. CASE ~EmitHit(w) /\ ~PushHit(w)
  <2>1. Announced' = Announced
    <3>1. CASE events' = events
      BY <3>1 DEF Announced, Places
    <3>2. CASE EmitProgress(w)
      <4>1. Progress(pass, done[w], Total) \in Event
        BY ItemTypes, EventTypes DEF TypeOK, WorkerTypeOK
      <4>2. events' = Append(events, Progress(pass, done[w], Total))
        BY <3>2 DEF EmitProgress, ReportedDone
      <4>3. Progress(pass, done[w], Total).type # "PortHit"
        BY EventKinds
      <4> QED
        BY <1>0, <4>1, <4>2, <4>3, AnnouncedGrows
    <3> QED
      BY <1>3, <3>1, <3>2, WorkerEmits
  <2>2. pc[w] # "push" /\ pc'[w] # "push"
    BY <1>0, <1>3 DEF Worker, CheckStop, Claim, ConnectClosed, ConnectTimeout, ConnectOpen, Probe,
       StoreStop, Count, EmitProgress, CallbackPanics, Goto
  <2>3. \A v \in Workers \ {w} : pc'[v] = pc[v]
    BY <1>0, <1>3 DEF Worker, CheckStop, Claim, ConnectClosed, ConnectTimeout, ConnectOpen, Probe,
       StoreStop, Count, EmitProgress, CallbackPanics, Goto
  <2>4. hits' = hits
    BY <1>3 DEF Worker, CheckStop, Claim, ConnectClosed, ConnectTimeout, ConnectOpen, Probe,
       StoreStop, Count, EmitProgress, CallbackPanics, shared
  <2>5. \A v \in Workers \ {w} : item'[v] = item[v] /\ kind'[v] = kind[v]
    BY <1>0, <1>3 DEF Worker, CheckStop, Claim, ConnectClosed, ConnectTimeout, ConnectOpen, Probe,
       StoreStop, Count, EmitProgress, CallbackPanics, DropLocals, locals
  <2>6. kind'[w] = "Open" \/ kind'[w] = kind[w] \/ cfg.verify
    BY <1>0, <1>3 DEF Worker, CheckStop, Claim, ConnectClosed, ConnectTimeout, ConnectOpen, Probe,
       StoreStop, Count, EmitProgress, CallbackPanics, DropLocals, locals
  <2>7. Pushers' = Pushers
    BY <2>2, <2>3 DEF Pushers
  <2> QED
    BY <1>0, <2>1, <2>2, <2>4, <2>5, <2>6, <2>7, AnnouncedStill DEF Pushers
<1> QED
  BY <1>1, <1>2, <1>3

LEMMA AnnouncedStep == TypeOK /\ StopInv /\ AnnouncedInv /\ [Next]_vars => AnnouncedInv'
<1> SUFFICES ASSUME TypeOK, StopInv, AnnouncedInv, [Next]_vars PROVE AnnouncedInv'
  OBVIOUS
<1>1. CASE Main
  BY <1>1, AnnouncedMain
<1>2. CASE Cancel \/ UNCHANGED vars
  <2>1. UNCHANGED <<cfg, hits, events, pc, item, kind>>
    BY <1>2 DEF Cancel, vars, shared, locals
  <2> QED
    BY <2>1, AnnouncedStill DEF Announced, Places, Pushers
<1>3. ASSUME NEW w \in Workers, Worker(w) PROVE AnnouncedInv'
  BY <1>3, AnnouncedWorker
<1> QED
  BY <1>1, <1>2, <1>3 DEF Next, Terminated

(* Recorded hits and hits in hand are of different items. *)
LEMMA HitsMatch == ASSUME ScanInv, AnnouncedInv PROVE HitsMatchEvents
<1> DEFINE InHands == {FoundHit(w) : w \in Pushers}
<1>0. TypeOK /\ ItemInv /\ HitInv /\ StopInv /\ hits \in Seq(Hit)
  BY DEF ScanInv, TypeOK, RunTypeOK
<1>1. \A i, j \in 1..Len(hits) : hits[i] = hits[j] => i = j
  BY <1>0 DEF HitInv, HitsOnce
<1>2. IsFiniteSet(ToSet(hits)) /\ Cardinality(ToSet(hits)) = Len(hits)
  BY <1>0, <1>1, DistinctLen
<1>3. IsFiniteSet(Pushers) /\ Cardinality(Pushers) \in Nat
  BY WorkersFinite DEF Pushers
<1>4. \A w \in Pushers : FoundHit(w).item = item[w] /\ item[w] \in Items /\ fate[item[w]] = "open"
  BY <1>0, HandFacts DEF Pushers, Holding, FoundHit
<1>5. IsFiniteSet(InHands) /\ Cardinality(InHands) = Cardinality(Pushers)
  <2> DEFINE f == [w \in Pushers |-> FoundHit(w)]
  <2>1. f \in [Pushers -> InHands] /\ \A h \in InHands : \E w \in Pushers : f[w] = h
    OBVIOUS
  <2>2. \A v, w \in Pushers : f[v] = f[w] => v = w
    BY <1>0, <1>4 DEF ItemInv, OneHand, Pushers, Holding
  <2>3. f \in Bijection(Pushers, InHands)
    BY <2>1, <2>2 DEF Bijection, Injection, IsInjective, Surjection
  <2>4. ExistsBijection(Pushers, InHands)
    BY <2>3 DEF ExistsBijection
  <2> QED
    BY <1>3, <2>4, FS_Bijection
<1>6. ToSet(hits) \intersect InHands = {}
  <2>1. \A h \in ToSet(hits) : h.item \in Items => fate[h.item] = "hit"
    BY <1>0 DEF HitInv, HitsFate
  <2> QED
    BY <1>4, <2>1
<1>7. Announced = ToSet(hits) \union InHands
  BY DEF AnnouncedInv, AnnouncedSplit
<1>8. Cardinality(Announced) = Len(hits) + Cardinality(Pushers)
  <2>1. Cardinality(ToSet(hits) \union InHands)
          = Cardinality(ToSet(hits)) + Cardinality(InHands) - Cardinality(ToSet(hits) \intersect InHands)
    BY <1>2, <1>5, FS_Union
  <2>2. Cardinality(ToSet(hits) \intersect InHands) = 0
    BY <1>6, FS_EmptySet
  <2> HIDE DEF InHands
  <2>3. Len(hits) \in Nat
    BY <1>0
  <2> QED
    BY <1>2, <1>3, <1>5, <1>7, <2>1, <2>2, <2>3
<1>9. main = "done" => Pushers = {} /\ ToSet(out) = ToSet(hits) /\ Len(out) = Len(hits)
  BY <1>0 DEF StopInv, Joinable, Resting, Finished, Pushers, HitInv, ReturnsAll
<1>10. Cardinality(Announced) - Len(hits) = Cardinality(Pushers)
  <2>1. Len(hits) \in Nat
    BY <1>0
  <2> QED
    BY <1>3, <1>8, <2>1
<1> QED
  BY <1>0, <1>7, <1>9, <1>10 DEF HitsMatchEvents, Pushers, HitInv, HitsOnce

(***************************************************************************)
(* The event stream and the result agree: nothing is recorded unannounced, *)
(* no item twice, what is announced and not recorded is in the hands of a  *)
(* worker, and `run` returns exactly the hits it announced.                *)
(***************************************************************************)
THEOREM HitsTheorem == Spec => []HitsMatchEvents
<1>1. ScanInv => TypeOK /\ StopInv
  BY DEF ScanInv
<1>2. Spec => []AnnouncedInv
  BY <1>1, AnnouncedInit, AnnouncedStep, ScanInvariant, PTL DEF Spec
<1> QED
  BY <1>2, HitsMatch, ScanInvariant, PTL

-----------------------------------------------------------------------------
(***************************************************************************)
(* The workers of the pass that can record no further ADB hit of a scan    *)
(* that stops at one: they are about to set the flag, or will see it set   *)
(* before they probe.  There are as many as there are ADB hits.            *)
(***************************************************************************)
Spent == {w \in 1..spawned : pc[w] = "store" \/ (localStop /\ pc[w] \notin {"emit", "push"})}
SpentInv == cfg.stop => Cardinality(AdbHits) <= Cardinality(Spent)

LEMMA SpentFinite ==
  ASSUME TypeOK
  PROVE  /\ 1..spawned \subseteq Workers /\ Spent \in SUBSET Workers /\ IsFiniteSet(1..spawned)
         /\ Cardinality(1..spawned) = spawned
<1>1. spawned \in Nat /\ 1..spawned \subseteq Workers
  BY ConfigAssumption DEF TypeOK, RunTypeOK, Workers
<1> QED
  BY <1>1, FS_Interval DEF Spent

LEMMA AdbFinite ==
  ASSUME TypeOK, HitInv
  PROVE  IsFiniteSet(AdbHits) /\ Cardinality(AdbHits) \in Nat
<1>1. hits \in Seq(Hit) /\ \A i, j \in 1..Len(hits) : hits[i] = hits[j] => i = j
  BY DEF TypeOK, RunTypeOK, HitInv, HitsOnce
<1>2. IsFiniteSet(ToSet(hits))
  BY <1>1, DistinctLen
<1> QED
  BY <1>2, FS_Subset, FS_CardinalityType DEF AdbHits

LEMMA SpentGrows ==
  ASSUME TypeOK, TypeOK', SpentInv, cfg' = cfg, AdbHits' = AdbHits, Spent \subseteq Spent',
         Cardinality(AdbHits) \in Nat
  PROVE  SpentInv'
<1>1. IsFiniteSet(Spent')
  <2>1. IsFiniteSet((1..spawned)') /\ Spent' \subseteq (1..spawned)'
    BY SpentFinite, FS_Interval DEF TypeOK, RunTypeOK, Spent
  <2> QED
    BY <2>1, FS_Subset
<1>2. Cardinality(Spent) <= Cardinality(Spent') /\ Cardinality(Spent) \in Nat /\ Cardinality(Spent') \in Nat
  BY <1>1, FS_Subset, FS_CardinalityType
<1> QED
  BY <1>2 DEF SpentInv

LEMMA SpentMain == ASSUME TypeOK, TypeOK', StopInv, HitInv, SpentInv, Main PROVE SpentInv'
<1>0. UNCHANGED <<cfg, hits, localStop>> /\ AdbHits' = AdbHits /\ Cardinality(AdbHits) \in Nat
  BY MainKeeps, AdbFinite DEF AdbHits
<1>1. CASE SecondPass
  <2>1. cfg.stop => AdbHits = {}
    BY <1>1 DEF SecondPass, GoesOn, HasAdb, AdbHits
  <2>2. Spent' = {}
    BY <1>1 DEF SecondPass, Spent
  <2> QED
    BY <1>0, <2>1, <2>2, FS_EmptySet DEF SpentInv
<1>2. CASE Spawn
  <2>1. spawned' = spawned + 1 /\ pc' = [pc EXCEPT ![spawned + 1] = "top"] /\ spawned \in Nat
    BY <1>2 DEF Spawn, TypeOK, RunTypeOK
  <2>2. Spent \subseteq Spent'
    BY <1>0, <2>1, ItemTypes, SpentFinite DEF Spent
  <2> QED
    BY <1>0, <2>2, SpentGrows
<1>3. CASE ~SecondPass /\ ~Spawn
  <2>1. UNCHANGED <<spawned, pc>>
    BY <1>3 DEF Main, ReturnEmpty, Begin, FirstPass, SpawnEnd, Join, Decide, SkipSecondPass, NothingPending, Collect
  <2> QED
    BY <1>0, <2>1, SpentGrows DEF Spent
<1> QED
  BY <1>1, <1>2, <1>3

LEMMA SpentWorker ==
  ASSUME TypeOK, TypeOK', StopInv, HitInv, SpentInv, NEW w \in Workers, Worker(w)
  PROVE  SpentInv'
<1>0. UNCHANGED <<cfg, spawned>> /\ (localStop => localStop') /\ Cardinality(AdbHits) \in Nat
      /\ IsFiniteSet(AdbHits)
  BY WorkerKeeps, AdbFinite
<1>1. pc \in [Workers -> PCs] /\ hits \in Seq(Hit) /\ spawned \in Nat /\ 1..spawned \subseteq Workers
  BY ItemTypes, SpentFinite DEF TypeOK, RunTypeOK
<1>2. \A v \in Workers \ {w} : pc'[v] = pc[v]
  BY <1>1 DEF Worker, CheckStop, Claim, ConnectClosed, ConnectTimeout, ConnectOpen, Probe,
     EmitHit, PushHit, StoreStop, Count, EmitProgress, CallbackPanics, Goto
<1>3. /\ pc'[w] = "emit" => ~localStop /\ pc[w] # "store"
      /\ pc'[w] = "push" => pc[w] = "emit"
      /\ pc[w] = "store" => localStop' /\ pc'[w] = "count"
  BY <1>1 DEF Worker, CheckStop, Claim, ConnectClosed, ConnectTimeout, ConnectOpen, Probe,
     EmitHit, PushHit, StoreStop, Count, EmitProgress, CallbackPanics, Goto, ShouldStop
<1>4. Spent \subseteq Spent'
  BY <1>0, <1>1, <1>2, <1>3 DEF Spent
<1>5. CASE PushHit(w) /\ StopsScan(w)
  <2>1. pc[w] = "push" /\ pc'[w] = "store" /\ hits' = Append(hits, FoundHit(w))
    BY <1>1, <1>5 DEF PushHit, Goto
  <2>2. FoundHit(w) \in Hit
    BY <2>1 DEF TypeOK, WorkerTypeOK, FoundHit, Hit, Holding
  <2>3. AdbHits' \subseteq AdbHits \union {FoundHit(w)}
    <3>1. ToSet(Append(hits, FoundHit(w))) = ToSet(hits) \union {FoundHit(w)}
      BY <1>1, <2>2, AppendedSet
    <3> QED
      BY <2>1, <3>1 DEF AdbHits
  <2>4. w \in Spent' /\ w \notin Spent
    <3>1. w <= spawned
      BY <1>1, <2>1 DEF StopInv, Unspawned, Workers
    <3>2. w \in 1..spawned
      BY <1>1, <3>1, ConfigAssumption DEF Workers
    <3> QED
      BY <1>0, <2>1, <3>2 DEF Spent
  <2>5. Cardinality(AdbHits') <= Cardinality(AdbHits) + 1 /\ Cardinality(AdbHits') \in Nat
    <3>1. IsFiniteSet(AdbHits \union {FoundHit(w)})
          /\ Cardinality(AdbHits \union {FoundHit(w)}) <= Cardinality(AdbHits) + 1
      BY <1>0, FS_AddElement
    <3>2. IsFiniteSet(AdbHits') /\ Cardinality(AdbHits') <= Cardinality(AdbHits \union {FoundHit(w)})
      BY <2>3, <3>1, FS_Subset
    <3>3. Cardinality(AdbHits') \in Nat /\ Cardinality(AdbHits \union {FoundHit(w)}) \in Nat
      BY <3>1, <3>2, FS_CardinalityType
    <3> QED
      BY <1>0, <3>1, <3>2, <3>3
  <2>6. Cardinality(Spent) + 1 <= Cardinality(Spent') /\ Cardinality(Spent) \in Nat /\ Cardinality(Spent') \in Nat
    <3>1. IsFiniteSet(Spent) /\ IsFiniteSet(Spent')
      <4>1. IsFiniteSet(1..spawned) /\ Spent \subseteq 1..spawned /\ Spent' \subseteq 1..spawned
        BY <1>0, SpentFinite DEF Spent
      <4> QED
        BY <4>1, FS_Subset
    <3>2. Cardinality(Spent \union {w}) = Cardinality(Spent) + 1
      BY <2>4, <3>1, FS_AddElement
    <3>3. Cardinality(Spent \union {w}) <= Cardinality(Spent')
      BY <1>4, <2>4, <3>1, FS_Subset
    <3>4. Cardinality(Spent) \in Nat /\ Cardinality(Spent') \in Nat
      BY <3>1, FS_CardinalityType
    <3> QED
      BY <3>2, <3>3, <3>4
  <2> QED
    BY <1>0, <2>5, <2>6 DEF SpentInv
<1>6. CASE ~(PushHit(w) /\ StopsScan(w))
  <2>1. CASE ~cfg.stop
    BY <1>0, <2>1 DEF SpentInv
  <2>2. CASE PushHit(w) /\ cfg.stop
    <3>1. hits' = Append(hits, FoundHit(w)) /\ kind[w] \notin AdbKinds /\ pc[w] = "push"
      BY <1>6, <2>2 DEF PushHit, StopsScan
    <3>2. FoundHit(w) \in Hit /\ FoundHit(w).kind = kind[w]
      BY <3>1 DEF TypeOK, WorkerTypeOK, FoundHit, Hit, Holding
    <3>3. ToSet(Append(hits, FoundHit(w))) = ToSet(hits) \union {FoundHit(w)}
      BY <1>1, <3>2, AppendedSet
    <3>4. AdbHits' = AdbHits
      BY <3>1, <3>2, <3>3 DEF AdbHits
    <3> QED
      BY <1>0, <1>4, <3>4, SpentGrows
  <2>3. CASE ~PushHit(w)
    <3>1. hits' = hits
      BY <2>3 DEF Worker, CheckStop, Claim, ConnectClosed, ConnectTimeout, ConnectOpen, Probe,
         EmitHit, StoreStop, Count, EmitProgress, CallbackPanics, shared
    <3> QED
      BY <1>0, <1>4, <3>1, SpentGrows DEF AdbHits
  <2> QED
    BY <2>1, <2>2, <2>3
<1> QED
  BY <1>5, <1>6

LEMMA SpentInit == Init => SpentInv
<1> SUFFICES ASSUME Init PROVE SpentInv
  OBVIOUS
<1>1. AdbHits = {} /\ Spent = {}
  BY DEF Init, AdbHits, ToSet, Spent
<1> QED
  BY <1>1, FS_EmptySet DEF SpentInv

LEMMA SpentStep == ScanInv /\ ScanInv' /\ SpentInv /\ [Next]_vars => SpentInv'
<1> SUFFICES ASSUME ScanInv, ScanInv', SpentInv, [Next]_vars PROVE SpentInv'
  OBVIOUS
<1>0. TypeOK /\ TypeOK' /\ StopInv /\ HitInv
  BY DEF ScanInv
<1>1. CASE Main
  BY <1>0, <1>1, SpentMain
<1>2. CASE Cancel \/ UNCHANGED vars
  <2>1. UNCHANGED <<cfg, hits, spawned, pc, localStop>>
    BY <1>2 DEF Cancel, vars, shared
  <2> QED
    BY <1>0, <2>1, AdbFinite, SpentGrows DEF AdbHits, Spent
<1>3. ASSUME NEW w \in Workers, Worker(w) PROVE SpentInv'
  BY <1>0, <1>3, SpentWorker
<1> QED
  BY <1>1, <1>2, <1>3 DEF Next, Terminated

(***************************************************************************)
(* A scan that stops at an ADB hit records at most one per worker, in both *)
(* passes together.                                                        *)
(***************************************************************************)
THEOREM BoundTheorem == Spec => []StopBound
<1>1. ScanInv /\ SpentInv => StopBound
  <2> SUFFICES ASSUME ScanInv, SpentInv, cfg.stop PROVE Cardinality(AdbHits) <= spawned
    BY DEF StopBound
  <2>1. TypeOK /\ HitInv
    BY DEF ScanInv
  <2>2. spawned \in Nat /\ IsFiniteSet(1..spawned) /\ Cardinality(1..spawned) = spawned
    BY <2>1, SpentFinite DEF TypeOK, RunTypeOK
  <2>3. Spent \in SUBSET (1..spawned)
    BY DEF Spent
  <2>4. IsFiniteSet(Spent) /\ Cardinality(Spent) <= Cardinality(1..spawned)
    BY <2>2, <2>3, FS_Subset
  <2>5. Cardinality(Spent) \in Nat /\ Cardinality(AdbHits) \in Nat
    BY <2>1, <2>4, FS_CardinalityType, AdbFinite
  <2> QED
    BY <2>2, <2>4, <2>5 DEF SpentInv
<1> QED
  BY <1>1, SpentInit, SpentStep, ScanInvariant, PTL DEF Spec

-----------------------------------------------------------------------------
(***************************************************************************)
(* The stream: where the events of a pass are, and what is said of a       *)
(* skipped one.                                                            *)
(***************************************************************************)
Unbegun == main \in Early => events = <<>> /\ (main = "announce" => cfg.items > 0)
StartFirst == events # <<>> => events[1] = PassStarted(1, cfg.items)
StartedNow == main \in Between \union {"spawn", "join", "collect"} =>
  Total # 0 /\ \E i \in 1..Len(events) : events[i] = PassStarted(pass, Total)
OneTotal == \A i \in Places("PassStarted") : events[i].pass = pass => events[i].items = Total
SoFar == \A i \in 1..Len(events) : events[i].type \notin {"PortHit", "PassSkipped"} => events[i].pass <= pass
SkipLast == \A i \in Places("PassSkipped") : i = Len(events) /\ main \in {"collect", "done"} /\ pass = 1
SpawnedOnce == main = "spawn" => \A i \in Places("ThreadsSpawned") : events[i].pass # pass
Ordered == \A i, j \in 1..Len(events) :
  i < j /\ events[i].type # "PortHit" /\ events[j].type # "PortHit" =>
    /\ events[i].pass <= events[j].pass
    /\ events[j].type = "PassStarted" => events[i].pass < events[j].pass

StreamInv ==
  /\ Unbegun /\ StartFirst /\ StartedNow /\ OneTotal
  /\ SoFar /\ SkipLast /\ SpawnedOnce /\ Ordered

LEMMA EventFields ==
  ASSUME NEW e \in Event
  PROVE  /\ e.type \in {"PassStarted", "ThreadsSpawned", "PassSkipped", "Progress", "PortHit"}
         /\ e.type # "PortHit" => e.pass \in {1, 2}
         /\ e.type = "PassSkipped" => e.pass = 2 /\ e.remaining \in Nat
         /\ e.type = "Progress" => e.done \in Nat /\ e.total \in Nat
  BY DEF Event, EventOf

(* The positions after an event was emitted. *)
LEMMA Grown ==
  ASSUME events \in Seq(Event), NEW e, e \in Event, events' = Append(events, e)
  PROVE  /\ Len(events') = Len(events) + 1 /\ Len(events) \in Nat /\ events'[Len(events) + 1] = e
         /\ \A k \in 1..Len(events) : events'[k] = events[k] /\ events[k] \in Event
         /\ events' # <<>> /\ (events # <<>> => events'[1] = events[1])
         /\ \A type : Places(type)' = Places(type) \union (IF e.type = type THEN {Len(events) + 1} ELSE {})
         /\ \A type : \A i \in Places(type) : i \in 1..Len(events)
<1>1. /\ Len(events') = Len(events) + 1 /\ Len(events) \in Nat /\ events'[Len(events) + 1] = e
      /\ \A k \in 1..Len(events) : events'[k] = events[k] /\ events[k] \in Event
  BY Appended, ElementOfSeq
<1>2. events' # <<>> /\ (events # <<>> => 1 \in 1..Len(events))
  BY <1>1
<1>3. \A type : Places(type)' = Places(type) \union (IF e.type = type THEN {Len(events) + 1} ELSE {})
  <2> SUFFICES ASSUME NEW type
               PROVE  Places(type)' = Places(type) \union (IF e.type = type THEN {Len(events) + 1} ELSE {})
    OBVIOUS
  <2>1. 1..Len(events') = 1..Len(events) \union {Len(events) + 1}
    BY <1>1
  <2>2. CASE e.type = type
    BY <1>1, <2>1, <2>2 DEF Places
  <2>3. CASE e.type # type
    BY <1>1, <2>1, <2>3 DEF Places
  <2> QED
    BY <2>2, <2>3
<1> QED
  BY <1>1, <1>2, <1>3 DEF Places

(* An event of the current pass or a later one keeps the order. *)
LEMMA OrderedGrows ==
  ASSUME TypeOK, Ordered, SoFar, Places("PassSkipped") = {}, NEW e, e \in Event, events' = Append(events, e),
         e.type # "PortHit" => pass <= e.pass,
         e.type = "PassStarted" => events = <<>> \/ pass < e.pass
  PROVE  Ordered'
<1>1. events \in Seq(Event) /\ pass \in {1, 2}
  BY DEF TypeOK, RunTypeOK
<1> DEFINE n == Len(events)
<1>2. /\ Len(events') = n + 1 /\ n \in Nat /\ events'[n + 1] = e
      /\ \A k \in 1..n : events'[k] = events[k] /\ events[k] \in Event
  BY <1>1, Grown
<1>3. \A i \in 1..n : events[i].type # "PortHit" => events[i].pass <= pass /\ events[i].pass \in {1, 2}
  BY <1>2, EventFields DEF SoFar, Places
<1>4. e.type # "PortHit" => e.pass \in {1, 2}
  BY EventFields
<1>5. events = <<>> => n = 0
  OBVIOUS
<1> SUFFICES ASSUME NEW i \in 1..(n + 1), NEW j \in 1..(n + 1), i < j,
                    events'[i].type # "PortHit", events'[j].type # "PortHit"
             PROVE  /\ events'[i].pass <= events'[j].pass
                    /\ events'[j].type = "PassStarted" => events'[i].pass < events'[j].pass
  BY <1>2 DEF Ordered
<1>6. i \in 1..n /\ events'[i] = events[i]
  BY <1>2
<1>7. CASE j \in 1..n
  BY <1>2, <1>6, <1>7 DEF Ordered
<1>8. CASE j = n + 1
  BY <1>1, <1>2, <1>3, <1>4, <1>5, <1>6, <1>8
<1> QED
  BY <1>2, <1>7, <1>8

(* Nothing that StreamInv speaks of changes, or the phase moves within a pass. *)
LEMMA StreamStill ==
  ASSUME StreamInv, UNCHANGED <<cfg, pass, work, events>>,
         main' \in Early => main \in Early /\ (main' = "announce" => main = "announce" \/ cfg.items > 0),
         main' \in Between \union {"spawn", "join", "collect"} => main \in Between \union {"spawn", "join", "collect"},
         main \in {"collect", "done"} => main' \in {"collect", "done"},
         main' = "spawn" => main = "spawn"
  PROVE  StreamInv'
<1>1. Total' = Total /\ \A type : Places(type)' = Places(type)
  BY DEF Total, Places
<1> QED
  BY <1>1 DEF StreamInv, Unbegun, StartFirst, StartedNow, OneTotal, SoFar, SkipLast, SpawnedOnce, Ordered

(* An event within a pass. *)
LEMMA StreamWithin ==
  ASSUME TypeOK, StreamInv, UNCHANGED <<cfg, pass, work>>,
         main \in {"spawn", "join"}, main' \in {"spawn", "join"}, main' = "spawn" => main = "spawn",
         NEW e, e \in Event, events' = Append(events, e),
         e.type \in {"PortHit", "Progress", "ThreadsSpawned"},
         e.type # "PortHit" => e.pass = pass,
         e.type = "ThreadsSpawned" => main' = "join"
  PROVE  StreamInv'
<1>1. events \in Seq(Event) /\ pass \in {1, 2}
  BY DEF TypeOK, RunTypeOK
<1> DEFINE n == Len(events)
<1>2. /\ Len(events') = n + 1 /\ n \in Nat /\ events'[n + 1] = e
      /\ \A k \in 1..n : events'[k] = events[k] /\ events[k] \in Event
      /\ events' # <<>> /\ (events # <<>> => events'[1] = events[1])
      /\ \A type : Places(type)' = Places(type) \union (IF e.type = type THEN {n + 1} ELSE {})
      /\ \A type : \A i \in Places(type) : i \in 1..n
  BY <1>1, Grown
<1>3. Places("PassSkipped") = {} /\ Places("PassSkipped")' = {} /\ Places("PassStarted")' = Places("PassStarted")
  BY <1>2 DEF StreamInv, SkipLast
<1>4. Total' = Total /\ events # <<>>
  BY <1>1, <1>2 DEF StreamInv, StartedNow, Total
<1>5. Ordered'
  BY <1>1, <1>3, OrderedGrows DEF StreamInv
<1>6. Unbegun' /\ StartFirst' /\ SkipLast'
  BY <1>2, <1>3, <1>4 DEF StreamInv, Unbegun, StartFirst, SkipLast
<1>7. StartedNow'
  BY <1>2, <1>4 DEF StreamInv, StartedNow
<1>8. OneTotal'
  BY <1>2, <1>3, <1>4 DEF StreamInv, OneTotal
<1>9. SoFar'
  BY <1>1, <1>2 DEF StreamInv, SoFar
<1>10. SpawnedOnce'
  <2>1. main' = "spawn" => Places("ThreadsSpawned")' = Places("ThreadsSpawned")
    BY <1>2
  <2> QED
    BY <1>2, <2>1 DEF StreamInv, SpawnedOnce
<1> QED
  BY <1>5, <1>6, <1>7, <1>8, <1>9, <1>10 DEF StreamInv

LEMMA StreamFirst == ASSUME TypeOK, ItemInv, PassInv, StreamInv, FirstPass PROVE StreamInv'
<1>1. main = "announce" /\ main' = "spawn" /\ UNCHANGED <<cfg, pass, work>> /\ events = <<>>
      /\ events' = Append(events, PassStarted(1, cfg.items)) /\ cfg.items > 0 /\ pass = 1
  BY DEF FirstPass, StreamInv, Unbegun, PassInv, FirstDecides
<1>2. Total = cfg.items /\ Total' = Total /\ Total # 0
  BY <1>1, ItemTypes DEF ItemInv, FirstIsAll, Total, Items
<1>3. events' = <<PassStarted(1, cfg.items)>>
  BY <1>1
<1>4. Len(events') = 1 /\ events'[1] = PassStarted(1, cfg.items) /\ events' # <<>>
  BY <1>3
<1>5. \A i \in 1..Len(events') : i = 1
  BY <1>4
<1>6. PassStarted(1, cfg.items).type = "PassStarted" /\ PassStarted(1, cfg.items).pass = 1
      /\ PassStarted(1, cfg.items).items = cfg.items
  BY EventKinds
<1> QED
  BY <1>1, <1>2, <1>4, <1>5, <1>6 DEF StreamInv, Unbegun, StartFirst, StartedNow, OneTotal, SoFar, SkipLast,
     SpawnedOnce, Ordered, Places

LEMMA StreamSecond == ASSUME TypeOK, PassInv, StreamInv, SecondPass PROVE StreamInv'
<1>1. main \in DecidedOn /\ main' = "spawn" /\ pass = 1 /\ pass' = 2 /\ work' = pending /\ cfg' = cfg
      /\ events' = Append(events, PassStarted(2, Len(pending))) /\ pending # <<>>
  BY DEF SecondPass, Remaining, PassInv, FirstDecides
<1>2. events \in Seq(Event) /\ pending \in Seq(Items)
  BY DEF TypeOK, RunTypeOK, Items
<1>3. Total' = Len(pending) /\ Len(pending) \in Nat /\ Len(pending) # 0
  BY <1>1, <1>2 DEF Total
<1> DEFINE e == PassStarted(2, Len(pending))
<1> DEFINE n == Len(events)
<1>4. e \in Event /\ e.type = "PassStarted" /\ e.pass = 2 /\ e.items = Len(pending)
  BY <1>3, EventTypes, EventKinds
<1> HIDE DEF e
<1>5. /\ Len(events') = n + 1 /\ n \in Nat /\ events'[n + 1] = e
      /\ \A k \in 1..n : events'[k] = events[k] /\ events[k] \in Event
      /\ events' # <<>> /\ (events # <<>> => events'[1] = events[1])
      /\ \A type : Places(type)' = Places(type) \union (IF e.type = type THEN {n + 1} ELSE {})
      /\ \A type : \A i \in Places(type) : i \in 1..n
  BY <1>1, <1>2, <1>4, Grown DEF e
<1>6. Places("PassSkipped") = {} /\ Places("PassSkipped")' = {} /\ events # <<>>
  BY <1>1, <1>2, <1>4, <1>5 DEF StreamInv, SkipLast, StartedNow
<1>7. Ordered'
  BY <1>1, <1>4, <1>6, OrderedGrows DEF StreamInv, e
<1>8. Unbegun' /\ StartFirst' /\ SkipLast' /\ SpawnedOnce'
  <2>1. \A i \in Places("ThreadsSpawned")' : events'[i].pass # 2
    <3>1. Places("ThreadsSpawned")' = Places("ThreadsSpawned")
      BY <1>4, <1>5
    <3>2. \A i \in Places("ThreadsSpawned") : events'[i] = events[i] /\ events[i].pass <= 1
      BY <1>1, <1>5 DEF Places, StreamInv, SoFar
    <3>3. \A i \in Places("ThreadsSpawned") : events[i] \in Event
      BY <1>5
    <3> QED
      BY <3>1, <3>2
  <2> QED
    BY <1>1, <1>5, <1>6, <2>1 DEF StreamInv, Unbegun, StartFirst, SkipLast, SpawnedOnce
<1>9. StartedNow'
  BY <1>1, <1>3, <1>5 DEF StartedNow, e
<1>10. \A i \in 1..n : events[i].type \notin {"PortHit", "PassSkipped"} => events'[i] = events[i] /\ events[i].pass <= 1
  BY <1>1, <1>5 DEF StreamInv, SoFar
<1>11. OneTotal'
  <2> SUFFICES ASSUME NEW i \in Places("PassStarted")', events'[i].pass = 2 PROVE events'[i].items = Len(pending)
    BY <1>1, <1>3 DEF OneTotal
  <2>1. CASE i = n + 1
    BY <1>4, <1>5, <2>1
  <2>2. CASE i \in Places("PassStarted")
    BY <1>5, <1>10, <2>2 DEF Places
  <2> QED
    BY <1>5, <2>1, <2>2
<1>12. SoFar'
  <2> SUFFICES ASSUME NEW i \in 1..(n + 1), events'[i].type \notin {"PortHit", "PassSkipped"}
               PROVE  events'[i].pass <= 2
    BY <1>1, <1>5 DEF SoFar
  <2>1. events'[i] \in Event
    BY <1>4, <1>5
  <2> QED
    BY <2>1, EventFields
<1> QED
  BY <1>7, <1>8, <1>9, <1>11, <1>12 DEF StreamInv

LEMMA StreamSkip == ASSUME TypeOK, PassInv, StreamInv, SkipSecondPass PROVE StreamInv'
<1>1. main \in DecidedOn /\ main' = "collect" /\ pass = 1 /\ UNCHANGED <<cfg, pass, work>>
      /\ events' = Append(events, PassSkipped(Len(pending), SkipReason))
  BY DEF SkipSecondPass, PassInv, FirstDecides
<1>2. events \in Seq(Event) /\ Total' = Total /\ Len(pending) \in Nat
  BY <1>1 DEF TypeOK, RunTypeOK, Total
<1> DEFINE e == PassSkipped(Len(pending), SkipReason)
<1> DEFINE n == Len(events)
<1>3. e \in Event /\ e.type = "PassSkipped" /\ e.pass = 2
  BY <1>2, EventTypes, EventKinds
<1> HIDE DEF e
<1>4. /\ Len(events') = n + 1 /\ n \in Nat /\ events'[n + 1] = e
      /\ \A k \in 1..n : events'[k] = events[k] /\ events[k] \in Event
      /\ events' # <<>> /\ (events # <<>> => events'[1] = events[1])
      /\ \A type : Places(type)' = Places(type) \union (IF e.type = type THEN {n + 1} ELSE {})
      /\ \A type : \A i \in Places(type) : i \in 1..n
  BY <1>1, <1>2, <1>3, Grown DEF e
<1>5. Places("PassSkipped") = {} /\ Places("PassSkipped")' = {n + 1} /\ events # <<>>
      /\ Places("PassStarted")' = Places("PassStarted")
  <2>1. Places("PassSkipped") = {}
    BY <1>1 DEF StreamInv, SkipLast
  <2>2. n # 0
    BY <1>1, <1>4 DEF StreamInv, StartedNow
  <2>3. Places("PassSkipped")' = {n + 1} /\ Places("PassStarted")' = Places("PassStarted")
    BY <1>3, <1>4, <2>1
  <2> QED
    BY <2>1, <2>2, <2>3
<1>6. Ordered'
  BY <1>1, <1>3, <1>5, OrderedGrows DEF StreamInv, e
<1>7. Unbegun' /\ StartFirst' /\ SkipLast' /\ SpawnedOnce'
  BY <1>1, <1>4, <1>5 DEF StreamInv, Unbegun, StartFirst, SkipLast, SpawnedOnce
<1>8. StartedNow' /\ OneTotal'
  BY <1>1, <1>2, <1>4, <1>5 DEF StreamInv, StartedNow, OneTotal
<1>9. SoFar'
  BY <1>1, <1>3, <1>4 DEF StreamInv, SoFar
<1> QED
  BY <1>6, <1>7, <1>8, <1>9 DEF StreamInv

LEMMA StreamMain == ASSUME TypeOK, ItemInv, PassInv, StreamInv, Main PROVE StreamInv'
<1>1. CASE ReturnEmpty
  <2>1. UNCHANGED <<cfg, pass, work, events>> /\ main = "start" /\ main' = "done"
    BY <1>1 DEF ReturnEmpty
  <2> QED
    BY <2>1, StreamStill
<1>2. CASE Spawn \/ Join \/ Decide \/ NothingPending \/ Collect
  <2>1. UNCHANGED <<cfg, pass, work, events>> /\ main \in Between \union {"spawn", "join", "collect"}
        /\ main' \in Between \union {"spawn", "join", "collect", "done"}
        /\ (main' = "spawn" => main = "spawn") /\ (main = "collect" => main' = "done") /\ main # "done"
    BY <1>2 DEF Spawn, Join, Decide, NothingPending, Collect
  <2> QED
    BY <2>1, StreamStill
<1>4. CASE Begin
  <2>1. UNCHANGED <<cfg, pass, work, events>> /\ main = "start" /\ main' = "announce" /\ cfg.items > 0
    BY <1>4 DEF Begin
  <2> QED
    BY <2>1, StreamStill
<1>3. CASE SpawnEnd
  <2>1. UNCHANGED <<cfg, pass, work>> /\ main = "spawn" /\ main' = "join"
    BY <1>3 DEF SpawnEnd
  <2>2. CASE events' = events
    BY <2>1, <2>2, StreamStill
  <2>3. CASE events' = Append(events, ThreadsSpawned(pass, cfg.threads, spawned))
    <3>1. cfg.threads \in Nat /\ spawned \in Nat /\ pass \in {1, 2}
      BY ConfigAssumption DEF TypeOK, RunTypeOK, Config
    <3>2. ThreadsSpawned(pass, cfg.threads, spawned) \in Event
      BY <3>1, EventTypes
    <3>3. ThreadsSpawned(pass, cfg.threads, spawned).type = "ThreadsSpawned"
          /\ ThreadsSpawned(pass, cfg.threads, spawned).pass = pass
      BY EventKinds
    <3> QED
      BY <2>1, <2>3, <3>2, <3>3, StreamWithin
  <2> QED
    BY <1>3, <2>2, <2>3 DEF SpawnEnd
<1> QED
  BY <1>1, <1>2, <1>3, <1>4, StreamFirst, StreamSecond, StreamSkip DEF Main

LEMMA StreamWorker ==
  ASSUME TypeOK, StopInv, StreamInv, NEW w \in Workers, Worker(w)
  PROVE  StreamInv'
<1>1. UNCHANGED <<cfg, main, pass, work>> /\ main \in {"spawn", "join"}
  BY WorkerKeeps, Running
<1>2. CASE events' = events
  BY <1>1, <1>2, StreamStill
<1>3. CASE EmitHit(w) /\ PortHit(FoundHit(w)) \in Event
  <2>1. events' = Append(events, PortHit(FoundHit(w))) /\ PortHit(FoundHit(w)).type = "PortHit"
    BY <1>3, EventKinds DEF EmitHit
  <2> QED
    BY <1>1, <1>3, <2>1, StreamWithin
<1>4. CASE EmitProgress(w) /\ Progress(pass, done[w], Total) \in Event
  <2>1. events' = Append(events, Progress(pass, done[w], Total))
        /\ Progress(pass, done[w], Total).type = "Progress" /\ Progress(pass, done[w], Total).pass = pass
    BY <1>4, EventKinds DEF EmitProgress, ReportedDone
  <2> QED
    BY <1>1, <1>4, <2>1, StreamWithin
<1> QED
  BY <1>2, <1>3, <1>4, WorkerEmits

LEMMA StreamInit == Init => StreamInv
<1> SUFFICES ASSUME Init PROVE StreamInv
  OBVIOUS
<1>1. events = <<>> /\ main = "start" /\ Len(events) = 0 /\ \A type : Places(type) = {}
  BY DEF Init, Places
<1> QED
  BY <1>1 DEF StreamInv, Unbegun, StartFirst, StartedNow, OneTotal, SoFar, SkipLast, SpawnedOnce, Ordered

LEMMA StreamStep == ScanInv /\ StreamInv /\ [Next]_vars => StreamInv'
<1> SUFFICES ASSUME ScanInv, StreamInv, [Next]_vars PROVE StreamInv'
  OBVIOUS
<1>0. TypeOK /\ StopInv /\ ItemInv /\ PassInv
  BY DEF ScanInv
<1>1. CASE Main
  BY <1>0, <1>1, StreamMain
<1>2. CASE Cancel \/ UNCHANGED vars
  <2>1. UNCHANGED <<cfg, main, pass, work, events>>
    BY <1>2 DEF Cancel, vars
  <2> QED
    BY <2>1, StreamStill
<1>3. ASSUME NEW w \in Workers, Worker(w) PROVE StreamInv'
  BY <1>0, <1>3, StreamWorker
<1> QED
  BY <1>1, <1>2, <1>3 DEF Next, Terminated

LEMMA StreamInvariant == Spec => []StreamInv
  BY StreamInit, StreamStep, ScanInvariant, PTL DEF Spec

(***************************************************************************)
(* The protocol of the event stream: a pass is announced before anything   *)
(* else of it and once, the events of pass 1 come before those of pass 2,  *)
(* and a skipped pass 2 is the last event.                                 *)
(***************************************************************************)
THEOREM OrderTheorem == Spec => []EventOrder
<1>1. TypeOK /\ StreamInv => EventOrder
  <2> SUFFICES ASSUME TypeOK, StreamInv PROVE EventOrder
    OBVIOUS
  <2>1. \A i, j \in 1..Len(events) : i < j => events[i].type # "PassSkipped"
    BY DEF StreamInv, SkipLast, Places, TypeOK, RunTypeOK
  <2> QED
    BY <2>1 DEF EventOrder, StreamInv, StartFirst, Ordered
<1> QED
  BY <1>1, StreamInvariant, TypeCorrect, PTL

-----------------------------------------------------------------------------
(* The items `run` gives up are those whose fate is "deferred". *)
LEMMA PendingCount ==
  ASSUME ScanInv, main \in Between
  PROVE  Len(pending) = Cardinality(Deferred) /\ Len(pending) \in Nat /\ ToSet(pending) = Deferred
<1>1. pending \in Seq(Items) /\ pass = 1
  BY DEF ScanInv, TypeOK, RunTypeOK, Items, PassInv, FirstDecides
<1>2. \A i, j \in 1..Len(pending) : pending[i] = pending[j] => i = j
  BY DEF ScanInv, PassInv, PendingOnce
<1>3. Cardinality(ToSet(pending)) = Len(pending)
  BY <1>1, <1>2, DistinctLen
<1>4. ToSet(pending) \subseteq Items
  BY <1>1 DEF ToSet
<1>5. \A i \in Items : fate[i] = "deferred" <=> i \in ToSet(pending)
  BY <1>1 DEF ScanInv, PassInv, PendingDeferred
<1>6. ToSet(pending) = Deferred
  BY <1>4, <1>5 DEF Deferred, Items
<1> QED
  BY <1>1, <1>3, <1>6

LEMMA SkipStep == ScanInv /\ StreamInv /\ StreamInv' /\ SkipExplained /\ [Next]_vars => SkipExplained'
<1> SUFFICES ASSUME ScanInv, StreamInv, StreamInv', SkipExplained, [Next]_vars PROVE SkipExplained'
  OBVIOUS
<1>1. CASE Places("PassSkipped")' = {}
  BY <1>1 DEF SkipExplained
<1>2. CASE SkipSecondPass
  <2> DEFINE e == PassSkipped(Len(pending), SkipReason)
  <2>1. events \in Seq(Event) /\ events' = Append(events, e) /\ main \in DecidedOn
        /\ UNCHANGED <<cfg, token, fate, hits>> /\ pending # <<>> /\ ~GoesOn
    BY <1>2 DEF ScanInv, TypeOK, RunTypeOK, SkipSecondPass, history
  <2>2. Len(pending) = Cardinality(Deferred) /\ Len(pending) \in Nat /\ Len(pending) > 0
    BY <2>1, PendingCount DEF ScanInv, TypeOK, RunTypeOK
  <2>3. e \in Event /\ e.type = "PassSkipped" /\ e.remaining = Len(pending) /\ e.reason = SkipReason
    BY <2>2, EventTypes, EventKinds
  <2>4. Deferred' = Deferred /\ HasAdb' = HasAdb
    BY <2>1 DEF Deferred, HasAdb
  <2> HIDE DEF e
  <2>5. \A i \in Places("PassSkipped")' : events'[i] = e
    <3>1. Places("PassSkipped") = {}
      BY <2>1 DEF StreamInv, SkipLast
    <3>2. Places("PassSkipped")' = {Len(events) + 1} /\ events'[Len(events) + 1] = e
      BY <2>1, <2>3, <3>1, Grown
    <3> QED
      BY <3>2
  <2>6. SkipReason = "Cancelled" => token
    BY DEF SkipReason, ScanInv, StopInv, CancelRead
  <2>7. SkipReason = "HitFound" => cfg.stop /\ HasAdb
    BY <2>1 DEF SkipReason, GoesOn
  <2> QED
    BY <2>1, <2>2, <2>3, <2>4, <2>5, <2>6, <2>7 DEF SkipExplained
<1>3. CASE Collect \/ Cancel \/ UNCHANGED vars
  <2>1. UNCHANGED <<cfg, fate, hits, events>> /\ (token => token')
    BY <1>3 DEF Collect, Cancel, vars, shared, history
  <2>2. Deferred' = Deferred /\ HasAdb' = HasAdb /\ Places("PassSkipped")' = Places("PassSkipped")
    BY <2>1 DEF Deferred, HasAdb, Places
  <2> QED
    BY <2>1, <2>2 DEF SkipExplained
<1>4. CASE ReturnEmpty \/ NothingPending
  <2>1. events' = events /\ main \in Early \union Between
    BY <1>4 DEF ReturnEmpty, NothingPending
  <2>2. Places("PassSkipped")' = {}
    BY <2>1 DEF Places, StreamInv, SkipLast
  <2> QED
    BY <1>1, <2>2
<1>5. CASE main' \notin {"collect", "done"} \/ pass' = 2
  <2>1. Places("PassSkipped")' = {}
    BY <1>5 DEF StreamInv, SkipLast
  <2> QED
    BY <1>1, <2>1
<1>6. CASE Begin \/ FirstPass \/ Spawn \/ SpawnEnd \/ Join \/ Decide \/ SecondPass
  <2>1. pass \in {1, 2}
    BY DEF ScanInv, TypeOK, RunTypeOK
  <2>2. main' \notin {"collect", "done"} \/ pass' = 2
    BY <1>6, <2>1 DEF Begin, FirstPass, Spawn, SpawnEnd, Join, Decide, SecondPass
  <2> QED
    BY <1>5, <2>2
<1>7. ASSUME NEW w \in Workers, Worker(w) PROVE SkipExplained'
  <2>1. main' \notin {"collect", "done"}
    BY <1>7, WorkerKeeps, Running DEF ScanInv
  <2> QED
    BY <1>5, <2>1
<1> QED
  BY <1>2, <1>3, <1>4, <1>6, <1>7 DEF Next, Main, Terminated

(***************************************************************************)
(* A skipped pass 2 is explained correctly: the remaining items are those  *)
(* that timed out and that nobody looked at again, and the reason holds.   *)
(***************************************************************************)
THEOREM SkipTheorem == Spec => []SkipExplained
<1>1. Init => SkipExplained
  BY DEF Init, SkipExplained, Places
<1> QED
  BY <1>1, SkipStep, StreamInvariant, ScanInvariant, PTL DEF Spec

-----------------------------------------------------------------------------
(***************************************************************************)
(* The counter of processed items never overtakes the claims: each worker  *)
(* that is busy with an item has yet to count it.                          *)
(***************************************************************************)
Busy == {w \in Workers : pc[w] \in Holding \union {"store", "count"}}
CountInv ==
  /\ scanned + Cardinality(Busy) <= next
  /\ scanned + Cardinality(Busy) <= Total

LEMMA CountStill ==
  ASSUME TypeOK, CountInv, UNCHANGED <<work, scanned>>, next' \in Nat, next <= next', Busy' \subseteq Busy
  PROVE  CountInv'
<1>1. Cardinality(Busy) \in Nat /\ Cardinality(Busy') \in Nat /\ Cardinality(Busy') <= Cardinality(Busy)
  <2>1. IsFiniteSet(Busy) /\ IsFiniteSet(Busy')
    BY WorkersFinite DEF Busy
  <2> QED
    BY <2>1, FS_Subset, FS_CardinalityType
<1>2. scanned \in Nat /\ next \in Nat /\ Total \in Nat /\ Total' = Total
  BY ItemTypes DEF TypeOK, RunTypeOK, Total
<1>3. scanned' = scanned /\ next <= next' /\ next' \in Nat
  OBVIOUS
<1> QED
  BY <1>1, <1>2, <1>3 DEF CountInv

LEMMA CountMain == ASSUME TypeOK, StopInv, CountInv, Main PROVE CountInv'
<1>1. CASE SecondPass
  <2>1. Busy' = {} /\ next' = 0 /\ scanned' = 0 /\ work' = pending
    BY <1>1 DEF SecondPass, Busy, Holding, Remaining
  <2>2. Total' \in Nat
    BY <2>1 DEF TypeOK, RunTypeOK, Total
  <2>3. Cardinality(Busy') = 0
    BY <2>1, FS_EmptySet
  <2> QED
    BY <2>1, <2>2, <2>3 DEF CountInv
<1>2. CASE Spawn
  <2>1. spawned + 1 \in Workers /\ pc[spawned + 1] = "unborn"
    BY <1>2, ThreadsBounded, ConfigAssumption DEF StopInv, Unspawned, Spawn, TypeOK, RunTypeOK, Workers
  <2>2. pc' = [pc EXCEPT ![spawned + 1] = "top"] /\ UNCHANGED <<work, scanned, next>> /\ next \in Nat
    BY <1>2 DEF Spawn, shared, TypeOK, RunTypeOK
  <2>3. Busy' = Busy
    BY <2>1, <2>2, ItemTypes DEF Busy, Holding
  <2> QED
    BY <2>2, <2>3, CountStill
<1>3. CASE ~SecondPass /\ ~Spawn
  <2>1. UNCHANGED <<work, scanned, next, pc>>
    BY <1>3 DEF Main, ReturnEmpty, Begin, FirstPass, SpawnEnd, Join, Decide, SkipSecondPass, NothingPending, Collect, shared
  <2> QED
    BY <2>1, CountStill DEF Busy, TypeOK, RunTypeOK
<1> QED
  BY <1>1, <1>2, <1>3

LEMMA CountWorker ==
  ASSUME TypeOK, CountInv, NEW w \in Workers, Worker(w)
  PROVE  CountInv'
<1>0. pc \in [Workers -> PCs] /\ scanned \in Nat /\ next \in Nat /\ Total \in Nat /\ work' = work
      /\ (next' = next \/ next' = next + 1)
  BY WorkerKeeps, ItemTypes DEF TypeOK, RunTypeOK
<1>1. Total' = Total
  BY <1>0 DEF Total
<1>2. IsFiniteSet(Busy) /\ Cardinality(Busy) \in Nat
  BY WorkersFinite DEF Busy
<1>3. CASE Claim(w) /\ ~Exhausted
  <2>1. next' = next + 1 /\ next + 1 <= Total /\ scanned' = scanned
        /\ pc[w] = "claim" /\ pc' = [pc EXCEPT ![w] = "connect"]
    BY <1>0, <1>3 DEF Claim, Exhausted, Goto
  <2>2. Busy' = Busy \union {w} /\ w \notin Busy
    BY <1>0, <2>1 DEF Busy, Holding
  <2>3. Cardinality(Busy') = Cardinality(Busy) + 1
    BY <1>2, <2>2, FS_AddElement
  <2> QED
    BY <1>0, <1>1, <1>2, <2>1, <2>3 DEF CountInv
<1>4. CASE Count(w)
  <2>1. scanned' = scanned + 1 /\ next' = next /\ pc[w] = "count" /\ (Goto(w, "progress") \/ Goto(w, "top"))
    BY <1>4 DEF Count
  <2>2. Busy' = Busy \ {w} /\ w \in Busy
    BY <1>0, <2>1 DEF Busy, Holding, Goto
  <2>3. Cardinality(Busy') = Cardinality(Busy) - 1
    BY <1>2, <2>2, FS_RemoveElement
  <2> QED
    BY <1>0, <1>1, <1>2, <2>1, <2>3 DEF CountInv
<1>5. CASE ~(Claim(w) /\ ~Exhausted) /\ ~Count(w)
  <2>1. scanned' = scanned
    BY <1>5 DEF Worker, CheckStop, Claim, ConnectClosed, ConnectTimeout, ConnectOpen, Probe,
       EmitHit, PushHit, StoreStop, EmitProgress, CallbackPanics, shared
  <2>2. \A v \in Workers \ {w} : pc'[v] = pc[v]
    BY <1>0, <1>5 DEF Worker, CheckStop, Claim, ConnectClosed, ConnectTimeout, ConnectOpen, Probe,
       EmitHit, PushHit, StoreStop, EmitProgress, CallbackPanics, Goto
  <2>3. pc'[w] \in Holding \union {"store", "count"} => pc[w] \in Holding \union {"store", "count"}
    BY <1>0, <1>5 DEF Worker, CheckStop, Claim, ConnectClosed, ConnectTimeout, ConnectOpen, Probe,
       EmitHit, PushHit, StoreStop, EmitProgress, CallbackPanics, Goto, Holding
  <2>4. Busy' \subseteq Busy
    BY <2>2, <2>3 DEF Busy
  <2>5. next' \in Nat /\ next <= next'
    BY <1>0
  <2> QED
    BY <1>0, <2>1, <2>4, <2>5, CountStill
<1> QED
  BY <1>3, <1>4, <1>5

LEMMA CountInit == Init => CountInv
<1> SUFFICES ASSUME Init PROVE CountInv
  OBVIOUS
<1>1. Busy = {} /\ scanned = 0 /\ next = 0
  BY DEF Init, Busy, Holding
<1>2. Total \in Nat
  BY InitType, ItemTypes
<1>3. Cardinality(Busy) = 0
  BY <1>1, FS_EmptySet
<1> QED
  BY <1>1, <1>2, <1>3 DEF CountInv

LEMMA CountStep == TypeOK /\ StopInv /\ CountInv /\ [Next]_vars => CountInv'
<1> SUFFICES ASSUME TypeOK, StopInv, CountInv, [Next]_vars PROVE CountInv'
  OBVIOUS
<1>1. CASE Main
  BY <1>1, CountMain
<1>2. CASE Cancel \/ UNCHANGED vars
  <2>1. UNCHANGED <<work, scanned, next, pc>>
    BY <1>2 DEF Cancel, vars, shared
  <2> QED
    BY <2>1, CountStill DEF Busy, TypeOK, RunTypeOK
<1>3. ASSUME NEW w \in Workers, Worker(w) PROVE CountInv'
  BY <1>3, CountWorker
<1> QED
  BY <1>1, <1>2, <1>3 DEF Next, Terminated

-----------------------------------------------------------------------------
(***************************************************************************)
(* Each value the counter takes is in one place: counted, in the hands of  *)
(* the worker about to report it, or reported.                             *)
(***************************************************************************)
Reports == Places("Progress")
Reporters == {w \in Workers : pc[w] = "progress"}
Reported(n) == \E i \in Reports : events[i].pass = pass /\ events[i].done = n

ReportsOnce == \A i, j \in Reports :
  events[i].pass = events[j].pass /\ events[i].done = events[j].done => i = j
ReportsBounded == \A i \in Reports :
  /\ events[i].done \in 1..events[i].total /\ events[i].done % ProgressEvery = 0
  /\ events[i].pass = pass => events[i].done <= scanned
ReportersBounded == \A w \in Reporters :
  done[w] \in 1..scanned /\ done[w] % ProgressEvery = 0 /\ ~Reported(done[w])
ReportersApart == \A v, w \in Reporters : done[v] = done[w] => v = w
AllReported == "panic" \notin Faults =>
  \A n \in 1..scanned : n % ProgressEvery = 0 => Reported(n) \/ \E w \in Reporters : done[w] = n

ReportInv == ReportsOnce /\ ReportsBounded /\ ReportersBounded /\ ReportersApart /\ AllReported

LEMMA ReportsStill ==
  ASSUME ReportInv, Reports' = Reports, \A i \in Reports : events'[i] = events[i], UNCHANGED <<pass, scanned>>,
         Reporters' = Reporters, \A w \in Reporters : done'[w] = done[w]
  PROVE  ReportInv'
<1>1. \A n : Reported(n)' <=> Reported(n)
  BY DEF Reported
<1>2. ReportsOnce' /\ ReportsBounded'
  BY DEF ReportInv, ReportsOnce, ReportsBounded
<1>3. ReportersBounded' /\ ReportersApart'
  BY <1>1 DEF ReportInv, ReportersBounded, ReportersApart
<1>4. AllReported'
  BY <1>1 DEF ReportInv, AllReported
<1> QED
  BY <1>2, <1>3, <1>4 DEF ReportInv

(* An event of another type leaves the reports where they are. *)
LEMMA ReportsKept ==
  ASSUME events \in Seq(Event), events' = events \/ \E e \in Event : events' = Append(events, e) /\ e.type # "Progress"
  PROVE  Reports' = Reports /\ \A i \in Reports : events'[i] = events[i] /\ events[i] \in Event
<1>0. \A i \in Reports : events[i] \in Event
  BY ElementOfSeq DEF Reports, Places
<1>1. CASE events' = events
  BY <1>0, <1>1 DEF Reports, Places
<1>2. ASSUME NEW e \in Event, events' = Append(events, e), e.type # "Progress"
      PROVE  Reports' = Reports /\ \A i \in Reports : events'[i] = events[i]
  <2>0. \A type : Places(type)' = Places(type) \union (IF e.type = type THEN {Len(events) + 1} ELSE {})
    BY <1>2, Grown
  <2>1. Places("Progress")' = Places("Progress")
    BY <1>2, <2>0
  <2>2. \A i \in Places("Progress") : i \in 1..Len(events)
    BY DEF Places
  <2>3. \A i \in 1..Len(events) : events'[i] = events[i]
    BY <1>2, Grown
  <2> QED
    BY <2>1, <2>2, <2>3 DEF Reports
<1> QED
  BY <1>0, <1>1, <1>2

LEMMA ReportsMain == ASSUME TypeOK, StopInv, StreamInv, PassInv, ReportInv, Main PROVE ReportInv'
<1>1. events \in Seq(Event) /\ pass \in {1, 2}
  BY DEF TypeOK, RunTypeOK
<1>2. events' = events \/ \E e \in Event : events' = Append(events, e) /\ e.type # "Progress"
  <2>1. CASE FirstPass
    <3>1. cfg.items \in Nat /\ (events' = events \/ events' = Append(events, PassStarted(1, cfg.items)))
      BY <2>1, ItemTypes DEF FirstPass
    <3> QED
      BY <3>1, EventTypes, EventKinds
  <2>2. CASE SecondPass
    <3>1. Len(pending) \in Nat /\ events' = Append(events, PassStarted(2, Len(pending)))
      BY <2>2 DEF SecondPass, Remaining, TypeOK, RunTypeOK
    <3> QED
      BY <3>1, EventTypes, EventKinds
  <2>3. CASE SkipSecondPass
    <3>1. Len(pending) \in Nat /\ events' = Append(events, PassSkipped(Len(pending), SkipReason))
      BY <2>3 DEF SkipSecondPass, TypeOK, RunTypeOK
    <3> QED
      BY <3>1, EventTypes, EventKinds
  <2>4. CASE SpawnEnd
    <3>1. cfg.threads \in Nat /\ spawned \in Nat /\ pass \in {1, 2}
      BY ConfigAssumption DEF TypeOK, RunTypeOK, Config
    <3>2. ThreadsSpawned(pass, cfg.threads, spawned) \in Event
          /\ ThreadsSpawned(pass, cfg.threads, spawned).type = "ThreadsSpawned"
      BY <3>1, EventTypes, EventKinds
    <3> QED
      BY <2>4, <3>2 DEF SpawnEnd
  <2>5. CASE ReturnEmpty \/ Begin \/ Spawn \/ Join \/ Decide \/ NothingPending \/ Collect
    BY <2>5 DEF ReturnEmpty, Begin, Spawn, Join, Decide, NothingPending, Collect
  <2> QED
    BY <2>1, <2>2, <2>3, <2>4, <2>5 DEF Main
<1>3. Reports' = Reports /\ \A i \in Reports : events'[i] = events[i] /\ events[i] \in Event
  BY <1>1, <1>2, ReportsKept
<1>4. CASE SecondPass
  <2>1. pass = 1 /\ pass' = 2 /\ scanned' = 0 /\ Reporters' = {}
    BY <1>4 DEF SecondPass, PassInv, FirstDecides, Reporters
  <2>2. \A i \in Reports : events[i].pass # 2
    <3>1. \A i \in Reports : events[i].pass <= 1
      BY <2>1 DEF StreamInv, SoFar, Reports, Places
    <3> QED
      BY <3>1
  <2>3. ReportsOnce' /\ ReportsBounded'
    BY <1>3, <2>1, <2>2 DEF ReportInv, ReportsOnce, ReportsBounded
  <2>4. ReportersBounded' /\ ReportersApart' /\ AllReported'
    BY <2>1 DEF ReportersBounded, ReportersApart, AllReported
  <2> QED
    BY <2>3, <2>4 DEF ReportInv
<1>5. CASE Spawn
  <2>1. spawned + 1 \in Workers /\ pc[spawned + 1] = "unborn"
    BY <1>5, ThreadsBounded, ConfigAssumption DEF StopInv, Unspawned, Spawn, TypeOK, RunTypeOK, Workers
  <2>2. pc' = [pc EXCEPT ![spawned + 1] = "top"] /\ UNCHANGED <<pass, scanned, done>>
    BY <1>5 DEF Spawn, shared, locals
  <2>3. Reporters' = Reporters
    BY <2>1, <2>2, ItemTypes DEF Reporters
  <2> QED
    BY <1>3, <2>2, <2>3, ReportsStill
<1>6. CASE ~SecondPass /\ ~Spawn
  <2>1. UNCHANGED <<pass, scanned, pc, done>>
    BY <1>6 DEF Main, ReturnEmpty, Begin, FirstPass, SpawnEnd, Join, Decide, SkipSecondPass, NothingPending, Collect,
       shared, locals
  <2> QED
    BY <1>3, <2>1, ReportsStill DEF Reporters
<1> QED
  BY <1>4, <1>5, <1>6

(* The counter takes a value no one has: it is reported where it should be. *)
LEMMA ReportsCount ==
  ASSUME TypeOK, ReportInv, NEW w \in Workers, Count(w)
  PROVE  ReportInv'
<1> DEFINE n == scanned + 1
<1>0. pc \in [Workers -> PCs] /\ done \in [Workers -> Nat] /\ scanned \in Nat /\ events \in Seq(Event)
  BY DEF TypeOK, RunTypeOK, WorkerTypeOK
<1>1. scanned' = n /\ UNCHANGED <<events, pass>> /\ pc[w] = "count"
  BY DEF Count
<1>2. Reports' = Reports /\ \A m : Reported(m)' <=> Reported(m)
  BY <1>1 DEF Reports, Places, Reported
<1>3. ReportsOnce'
  BY <1>1, <1>2 DEF ReportInv, ReportsOnce
<1>4. \A i \in Reports : events[i] \in Event /\ events[i].type = "Progress"
  BY <1>0, ElementOfSeq DEF Reports, Places
<1>5. \A i \in Reports : events[i].done \in Nat
  BY <1>4, EventFields
<1>6. ReportsBounded'
  BY <1>0, <1>1, <1>2, <1>5 DEF ReportInv, ReportsBounded
<1>7. ~Reported(n)
  BY <1>0, <1>5 DEF ReportInv, ReportsBounded, Reported
<1>8. \A v \in Reporters : done[v] \in 1..scanned /\ v # w
  BY <1>1 DEF ReportInv, ReportersBounded, Reporters
<1>9. CASE n % ProgressEvery = 0
  <2>1. pc' = [pc EXCEPT ![w] = "progress"] /\ done' = [done EXCEPT ![w] = n]
    BY <1>9 DEF Count, Goto
  <2>2. Reporters' = Reporters \union {w} /\ done'[w] = n /\ \A v \in Reporters : done'[v] = done[v]
    BY <1>0, <1>8, <2>1 DEF Reporters
  <2>3. ReportersBounded'
    BY <1>0, <1>1, <1>2, <1>7, <1>8, <1>9, <2>2 DEF ReportInv, ReportersBounded
  <2>4. ReportersApart'
    BY <1>0, <1>8, <2>2 DEF ReportInv, ReportersApart
  <2>5. AllReported'
    <3> SUFFICES ASSUME "panic" \notin Faults, NEW m \in 1..n, m % ProgressEvery = 0
                 PROVE  Reported(m) \/ \E v \in Reporters' : done'[v] = m
      BY <1>1, <1>2 DEF AllReported
    <3>1. CASE m = n
      BY <2>2, <3>1
    <3>2. CASE m # n
      <4>1. m \in 1..scanned
        BY <1>0, <3>2
      <4> QED
        BY <2>2, <4>1 DEF ReportInv, AllReported
    <3> QED
      BY <3>1, <3>2
  <2> QED
    BY <1>3, <1>6, <2>3, <2>4, <2>5 DEF ReportInv
<1>10. CASE n % ProgressEvery # 0
  <2>1. pc' = [pc EXCEPT ![w] = "top"] /\ done' = done
    BY <1>10 DEF Count, Goto
  <2>2. Reporters' = Reporters
    BY <1>0, <1>1, <2>1 DEF Reporters
  <2>3. ReportersBounded' /\ ReportersApart'
    BY <1>0, <1>1, <1>2, <2>1, <2>2 DEF ReportInv, ReportersBounded, ReportersApart
  <2>4. AllReported'
    <3> SUFFICES ASSUME "panic" \notin Faults, NEW m \in 1..n, m % ProgressEvery = 0
                 PROVE  Reported(m) \/ \E v \in Reporters : done[v] = m
      BY <1>1, <1>2, <2>1, <2>2 DEF AllReported
    <3>1. m \in 1..scanned
      <4>1. m # n
        BY <1>10
      <4> QED
        BY <1>0, <4>1
    <3> QED
      BY <3>1 DEF ReportInv, AllReported
  <2> QED
    BY <1>3, <1>6, <2>3, <2>4 DEF ReportInv
<1> QED
  BY <1>9, <1>10

(* A report is made of a value that is not reported yet. *)
LEMMA ReportsEmit ==
  ASSUME TypeOK, CountInv, ReportInv, NEW w \in Workers, EmitProgress(w)
  PROVE  ReportInv'
<1> DEFINE e == Progress(pass, done[w], Total)
<1> DEFINE p == Len(events) + 1
<1>0. pc \in [Workers -> PCs] /\ done \in [Workers -> Nat] /\ scanned \in Nat /\ events \in Seq(Event)
      /\ Total \in Nat /\ pass \in {1, 2}
  BY ItemTypes DEF TypeOK, RunTypeOK, WorkerTypeOK
<1>1. UNCHANGED <<scanned, pass>> /\ pc[w] = "progress" /\ events' = Append(events, e)
      /\ pc' = [pc EXCEPT ![w] = "top"] /\ done' = [done EXCEPT ![w] = 0]
  BY DEF EmitProgress, ReportedDone, Goto, shared
<1>2. e \in Event /\ e.type = "Progress" /\ e.pass = pass /\ e.done = done[w] /\ e.total = Total
  BY <1>0, EventTypes, EventKinds
<1> HIDE DEF e
<1>3. /\ events'[p] = e /\ \A i \in 1..Len(events) : events'[i] = events[i]
      /\ Len(events) \in Nat
      /\ \A type : Places(type)' = Places(type) \union (IF e.type = type THEN {p} ELSE {})
  BY <1>0, <1>1, <1>2, Grown
<1>4. Reports' = Reports \union {p}
  BY <1>2, <1>3 DEF Reports
<1>5. p \notin Reports /\ \A i \in Reports : events'[i] = events[i]
  BY <1>3 DEF Reports, Places
<1>6. done[w] \in 1..scanned /\ done[w] % ProgressEvery = 0 /\ ~Reported(done[w]) /\ w \in Reporters
  BY <1>1 DEF ReportInv, ReportersBounded, Reporters
<1>7. scanned <= Total
  <2>1. Cardinality(Busy) \in Nat
    BY WorkersFinite DEF Busy
  <2> QED
    BY <1>0, <2>1 DEF CountInv
<1>8. ReportsOnce'
  <2> SUFFICES ASSUME NEW i \in Reports', NEW j \in Reports', i # j,
                      events'[i].pass = events'[j].pass, events'[i].done = events'[j].done
               PROVE  FALSE
    BY DEF ReportsOnce
  <2>1. \A k \in Reports : ~(events[k].pass = pass /\ events[k].done = done[w])
    BY <1>6 DEF Reported
  <2>2. i \in Reports /\ j \in Reports
    BY <1>2, <1>3, <1>4, <1>5, <2>1
  <2> QED
    BY <1>5, <2>2 DEF ReportInv, ReportsOnce
<1>9. ReportsBounded'
  <2>1. e.done \in 1..e.total /\ e.done % ProgressEvery = 0 /\ e.done <= scanned
    BY <1>0, <1>2, <1>6, <1>7
  <2> QED
    BY <1>1, <1>3, <1>4, <1>5, <2>1 DEF ReportInv, ReportsBounded
<1>10. Reporters' = Reporters \ {w} /\ \A v \in Reporters \ {w} : done'[v] = done[v]
  BY <1>0, <1>1 DEF Reporters
<1>11. \A n : Reported(n)' <=> Reported(n) \/ n = done[w]
  BY <1>1, <1>2, <1>3, <1>4, <1>5 DEF Reported
<1>12. \A v \in Reporters \ {w} : done[v] # done[w]
  BY <1>6 DEF ReportInv, ReportersApart
<1>13. ReportersBounded' /\ ReportersApart'
  BY <1>1, <1>10, <1>11, <1>12 DEF ReportInv, ReportersBounded, ReportersApart
<1>14. AllReported'
  BY <1>1, <1>10, <1>11 DEF ReportInv, AllReported
<1> QED
  BY <1>8, <1>9, <1>13, <1>14 DEF ReportInv

LEMMA ReportsWorker ==
  ASSUME TypeOK, CountInv, ReportInv, NEW w \in Workers, Worker(w)
  PROVE  ReportInv'
<1>0. pc \in [Workers -> PCs] /\ done \in [Workers -> Nat] /\ events \in Seq(Event)
  BY DEF TypeOK, RunTypeOK, WorkerTypeOK
<1>1. CASE CallbackPanics(w)
  <2>1. UNCHANGED <<events, pass, scanned>> /\ "panic" \in Faults /\ pc' = [pc EXCEPT ![w] = "panicked"]
        /\ done' = [done EXCEPT ![w] = 0]
    BY <1>1 DEF CallbackPanics, Goto, shared
  <2>2. Reports' = Reports /\ \A n : Reported(n)' <=> Reported(n)
    BY <2>1 DEF Reports, Places, Reported
  <2>3. Reporters' = Reporters \ {w} /\ \A v \in Reporters \ {w} : done'[v] = done[v]
    BY <1>0, <2>1 DEF Reporters
  <2>4. ReportsOnce' /\ ReportsBounded'
    BY <2>1, <2>2 DEF ReportInv, ReportsOnce, ReportsBounded
  <2>5. ReportersBounded' /\ ReportersApart' /\ AllReported'
    BY <2>1, <2>2, <2>3 DEF ReportInv, ReportersBounded, ReportersApart, AllReported
  <2> QED
    BY <2>4, <2>5 DEF ReportInv
<1>2. CASE ~Count(w) /\ ~EmitProgress(w) /\ ~CallbackPanics(w)
  <2>1. UNCHANGED <<pass, scanned, done>>
    BY <1>2 DEF Worker, CheckStop, Claim, ConnectClosed, ConnectTimeout, ConnectOpen, Probe,
       EmitHit, PushHit, StoreStop, shared, locals
  <2>2. pc[w] # "progress" /\ pc'[w] # "progress" /\ \A v \in Workers \ {w} : pc'[v] = pc[v]
    BY <1>0, <1>2 DEF Worker, CheckStop, Claim, ConnectClosed, ConnectTimeout, ConnectOpen, Probe,
       EmitHit, PushHit, StoreStop, Goto
  <2>3. Reporters' = Reporters
    BY <2>2 DEF Reporters
  <2>4. events' = events \/ \E e \in Event : events' = Append(events, e) /\ e.type # "Progress"
    <3>1. CASE EmitHit(w) /\ PortHit(FoundHit(w)) \in Event
      <4>1. events' = Append(events, PortHit(FoundHit(w))) /\ PortHit(FoundHit(w)).type # "Progress"
        BY <3>1, EventKinds DEF EmitHit
      <4> QED
        BY <3>1, <4>1
    <3> QED
      BY <1>2, <3>1, WorkerEmits
  <2>5. Reports' = Reports /\ \A i \in Reports : events'[i] = events[i]
    BY <1>0, <2>4, ReportsKept
  <2> QED
    BY <2>1, <2>3, <2>5, ReportsStill
<1> QED
  BY <1>1, <1>2, ReportsCount, ReportsEmit

LEMMA ReportsInit == Init => ReportInv
<1> SUFFICES ASSUME Init PROVE ReportInv
  OBVIOUS
<1>1. Reports = {} /\ Reporters = {} /\ scanned = 0
  BY DEF Init, Reports, Places, Reporters
<1> QED
  BY <1>1 DEF ReportInv, ReportsOnce, ReportsBounded, ReportersBounded, ReportersApart, AllReported

LEMMA ReportsStep == ScanInv /\ StreamInv /\ CountInv /\ ReportInv /\ [Next]_vars => ReportInv'
<1> SUFFICES ASSUME ScanInv, StreamInv, CountInv, ReportInv, [Next]_vars PROVE ReportInv'
  OBVIOUS
<1>0. TypeOK /\ StopInv /\ PassInv
  BY DEF ScanInv
<1>1. CASE Main
  BY <1>0, <1>1, ReportsMain
<1>2. CASE Cancel \/ UNCHANGED vars
  <2>1. UNCHANGED <<events, pass, scanned, pc, done>>
    BY <1>2 DEF Cancel, vars, shared, locals
  <2> QED
    BY <2>1, ReportsStill DEF Reports, Places, Reporters
<1>3. ASSUME NEW w \in Workers, Worker(w) PROVE ReportInv'
  BY <1>0, <1>3, ReportsWorker
<1> QED
  BY <1>1, <1>2, <1>3 DEF Next, Terminated

LEMMA ReportInvariant == Spec => [](CountInv /\ ReportInv)
<1>1. ScanInv => TypeOK /\ StopInv
  BY DEF ScanInv
<1>2. Spec => []CountInv
  BY <1>1, CountInit, CountStep, ScanInvariant, PTL DEF Spec
<1>3. Spec => []ReportInv
  BY <1>2, ReportsInit, ReportsStep, ScanInvariant, StreamInvariant, PTL DEF Spec
<1> QED
  BY <1>2, <1>3, PTL

(***************************************************************************)
(* The relaxed counter never reports a value twice in a pass nor one out   *)
(* of bounds, and a pass that ran to its end has reported every multiple.  *)
(***************************************************************************)
THEOREM ProgressTheorem == Spec => []ProgressSound
<1>1. ScanInv /\ ReportInv => ProgressSound
  <2> SUFFICES ASSUME ScanInv, ReportInv PROVE ProgressSound
    OBVIOUS
  <2>1. main = "collect" => Reporters = {}
    BY DEF ScanInv, StopInv, Joinable, Resting, Finished, Reporters
  <2>2. main = "collect" /\ scanned = Total /\ "panic" \notin Faults =>
          \A n \in 1..Total : n % ProgressEvery = 0 => Reported(n)
    BY <2>1 DEF ReportInv, AllReported
  <2> QED
    BY <2>2 DEF ProgressSound, ReportInv, ReportsOnce, ReportsBounded, Reports, Reported
<1> QED
  BY <1>1, ReportInvariant, ScanInvariant, PTL

-----------------------------------------------------------------------------
(***************************************************************************)
(* The pool of threads implements the stream that callers are promised.    *)
(***************************************************************************)
Enough == spawned <= Threads
StreamsInv == ScanInv /\ AnnouncedInv /\ StreamInv /\ CountInv /\ ReportInv /\ Enough

LEMMA EnoughInit == Init => Enough
<1> SUFFICES ASSUME Init PROVE Enough
  OBVIOUS
<1>1. Threads \in Nat /\ spawned = 0
  BY InitType, ThreadsBounded, ConfigAssumption DEF Init, TypeOK
<1> QED
  BY <1>1 DEF Enough

LEMMA EnoughStep == TypeOK /\ TypeOK' /\ Enough /\ [Next]_vars => Enough'
<1> SUFFICES ASSUME TypeOK, TypeOK', Enough, [Next]_vars PROVE Enough'
  OBVIOUS
<1>1. spawned \in Nat /\ Threads \in Nat
  BY ThreadsBounded, ConfigAssumption DEF TypeOK, RunTypeOK
<1>2. Threads' \in Nat
  <2>1. cfg'.threads \in 0..HardMaxThreads /\ Total' \in Nat
    BY ConfigAssumption DEF TypeOK, RunTypeOK, Config, Total
  <2> QED
    BY <2>1, ConfigAssumption DEF Threads
<1>3. CASE SecondPass
  BY <1>2, <1>3 DEF SecondPass, Enough
<1>4. CASE UNCHANGED <<cfg, work>> /\ (spawned' = spawned \/ Spawn)
  <2>1. Threads' = Threads
    BY <1>4 DEF Threads, Total
  <2> QED
    BY <1>1, <1>4, <2>1 DEF Enough, Spawn
<1>5. CASE Main /\ ~SecondPass
  BY <1>4, <1>5 DEF Main, ReturnEmpty, Begin, FirstPass, Spawn, SpawnEnd, Join, Decide, SkipSecondPass, NothingPending, Collect
<1>6. CASE Cancel \/ UNCHANGED vars
  BY <1>4, <1>6 DEF Cancel, vars
<1>7. ASSUME NEW w \in Workers, Worker(w) PROVE Enough'
  BY <1>4, <1>7, WorkerKeeps
<1> QED
  BY <1>3, <1>5, <1>6, <1>7 DEF Next, Terminated

LEMMA StreamsInvariant == Spec => []StreamsInv
<1>1. ScanInv => TypeOK /\ StopInv
  BY DEF ScanInv
<1>2. Spec => []AnnouncedInv
  BY <1>1, AnnouncedInit, AnnouncedStep, ScanInvariant, PTL DEF Spec
<1>3. Spec => []Enough
  BY EnoughInit, EnoughStep, TypeCorrect, PTL DEF Spec
<1>4. ScanInv /\ AnnouncedInv /\ StreamInv /\ CountInv /\ ReportInv /\ Enough => StreamsInv
  BY DEF StreamsInv
<1> QED
  BY <1>2, <1>3, <1>4, ScanInvariant, StreamInvariant, ReportInvariant, PTL

(* A pass never has more items than the scan. *)
LEMMA TotalBounded ==
  ASSUME TypeOK, ItemInv
  PROVE  Total \in Nat /\ Total <= cfg.items
<1>1. work \in Seq(Items) /\ \A j, k \in 1..Len(work) : work[j] = work[k] => j = k
  BY ItemTypes DEF ItemInv, WorkOnce, Total
<1>2. IsFiniteSet(ToSet(work)) /\ Cardinality(ToSet(work)) = Total
  BY <1>1, DistinctLen DEF Total
<1>3. IsFiniteSet(Items) /\ Cardinality(Items) = cfg.items
  <2>1. cfg.items \in Nat
    BY ItemTypes
  <2> QED
    BY <2>1, IntervalSize DEF Items
<1>4. ToSet(work) \subseteq Items
  BY <1>1 DEF ToSet
<1>5. Cardinality(ToSet(work)) <= Cardinality(Items)
  BY <1>3, <1>4, FS_Subset
<1> QED
  BY <1>2, <1>3, <1>5, ItemTypes

LEMMA PhaseWithin ==
  ASSUME TypeOK, StreamInv, main \in {"spawn", "join"}
  PROVE  /\ Phase = IF pass = 1 THEN "first" ELSE "second"
         /\ Stream!Pass = pass /\ Stream!Scanning
<1>1. Phase = IF pass = 1 THEN "first" ELSE "second"
  BY DEF Phase
<1>2. pass \in {1, 2}
  BY DEF TypeOK, RunTypeOK
<1>3. Stream!Pass = IF Phase = "first" THEN 1 ELSE 2
  BY DEF Stream!Pass
<1>4. Stream!Scanning <=> Phase = "first" \/ Phase = "second"
  BY DEF Stream!Scanning
<1> QED
  BY <1>1, <1>2, <1>3, <1>4

(* ScanStream speaks of hits and events in the words of ScanEvents. *)
LEMMA StreamWords ==
  /\ Stream!AdbKinds = AdbKinds /\ Stream!Kinds = Kinds /\ Stream!SkipReasons = SkipReasons
  /\ \A p, n : Stream!PassStarted(p, n) = PassStarted(p, n)
  /\ \A p, n, m : Stream!ThreadsSpawned(p, n, m) = ThreadsSpawned(p, n, m)
  /\ \A n, r : Stream!PassSkipped(n, r) = PassSkipped(n, r)
  /\ \A p, n, m : Stream!Progress(p, n, m) = Progress(p, n, m)
  /\ \A h : Stream!PortHit(h) = PortHit(h)
  /\ \A s, e : Stream!Contains(s, e) <=> Contains(s, e)
  BY DEF Stream!AdbKinds, AdbKinds, Stream!Kinds, Kinds, Stream!SkipReasons, SkipReasons,
     Stream!PassStarted, PassStarted, Stream!ThreadsSpawned, ThreadsSpawned, Stream!PassSkipped, PassSkipped,
     Stream!Progress, Progress, Stream!PortHit, PortHit, Stream!Contains, Contains

LEMMA TotalOfPass ==
  ASSUME TypeOK, ItemInv, StreamInv, main \in {"spawn", "join"}
  PROVE  Stream!TotalOf(pass) = Total /\ Total \in 1..cfg.items
<1>1. Total \in 1..cfg.items
  BY TotalBounded, ItemTypes DEF StreamInv, StartedNow
<1>2. Contains(events, PassStarted(pass, Total))
  BY DEF StreamInv, StartedNow, Contains
<1>3. ASSUME NEW n \in 1..cfg.items, Contains(events, PassStarted(pass, n)) PROVE n = Total
  <2>1. PICK i \in 1..Len(events) : events[i] = PassStarted(pass, n)
    BY <1>3 DEF Contains
  <2>2. events[i].type = "PassStarted" /\ events[i].pass = pass /\ events[i].items = n
    BY <2>1, EventKinds
  <2> QED
    BY <2>2 DEF StreamInv, OneTotal, Places
<1>4. \A n \in 1..cfg.items : Stream!Contains(events, Stream!PassStarted(pass, n)) <=> n = Total
  BY <1>2, <1>3, StreamWords
<1> QED
  BY <1>1, <1>4 DEF Stream!TotalOf

LEMMA StreamAnnounced ==
  ASSUME events \in Seq(Event)
  PROVE  Stream!Announced = Announced
<1>1. DOMAIN events = 1..Len(events)
  OBVIOUS
<1> QED
  BY <1>1 DEF Stream!Announced, Announced, Places

(* A step that emits nothing and does not end a phase stutters. *)
LEMMA StreamStutters ==
  ASSUME UNCHANGED <<cfg, token, events>>, Phase' = Phase,
         (main' # "done" /\ main # "done") \/ UNCHANGED <<main, out>>
  PROVE  UNCHANGED Stream!vars
<1>1. (IF main = "done" THEN ToSet(out) ELSE {})' = (IF main = "done" THEN ToSet(out) ELSE {})
  OBVIOUS
<1> QED
  BY <1>1 DEF Stream!vars

LEMMA StreamsWorker ==
  ASSUME StreamsInv, NEW w \in Workers, Worker(w)
  PROVE  [Stream!Next]_(Stream!vars)
<1>0. TypeOK /\ StopInv /\ ItemInv /\ HitInv /\ StreamInv /\ ReportInv /\ CountInv
  BY DEF StreamsInv, ScanInv
<1>1. UNCHANGED <<cfg, token, main, pass, work, out>> /\ main \in {"spawn", "join"} /\ events \in Seq(Event)
  BY <1>0, WorkerKeeps, Running DEF TypeOK, RunTypeOK
<1>2. Phase' = Phase
  BY <1>1 DEF Phase
<1>3. (IF main = "done" THEN ToSet(out) ELSE {})' = (IF main = "done" THEN ToSet(out) ELSE {})
  BY <1>1
<1>4. Stream!Scanning /\ Stream!Pass = pass /\ Stream!TotalOf(pass) = Total
  BY <1>0, <1>1, PhaseWithin, TotalOfPass
<1>5. CASE events' = events
  BY <1>1, <1>2, <1>5, StreamStutters
<1>6. CASE EmitHit(w) /\ FoundHit(w) \in Hit
  <2>1. pc[w] = "emit" /\ events' = Append(events, PortHit([item |-> item[w], kind |-> kind[w]]))
    BY <1>6 DEF EmitHit, FoundHit
  <2>2. item[w] \in 1..cfg.items /\ kind[w] \in (IF cfg.verify THEN Kinds ELSE {"Open"})
    BY <1>6 DEF FoundHit, Hit, StreamsInv, AnnouncedInv, Unverified
  <2>3. fate[item[w]] = "open"
    BY <1>0, <2>1, HandFacts DEF Holding
  <2>4. \A h \in ToSet(hits) : h.item # item[w]
    BY <1>0, <2>2, <2>3 DEF HitInv, HitsFate, Items
  <2>5. \A v \in Pushers : FoundHit(v).item # item[w]
    BY <1>0, <2>1 DEF ItemInv, OneHand, Pushers, Holding, FoundHit
  <2>6. \A h \in Stream!Announced : h.item # item[w]
    BY <1>1, <2>4, <2>5, StreamAnnounced DEF StreamsInv, AnnouncedInv, AnnouncedSplit
  <2>7. Stream!Emit(PortHit([item |-> item[w], kind |-> kind[w]]))
    BY <2>1 DEF Stream!Emit
  <2>8. Stream!Announce
    BY <1>1, <1>2, <1>3, <1>4, <2>2, <2>6, <2>7, StreamWords DEF Stream!Announce
  <2> QED
    BY <2>8 DEF Stream!Next, Stream!Run
<1>7. CASE EmitProgress(w)
  <2>1. pc[w] = "progress" /\ events' = Append(events, Progress(pass, done[w], Total)) /\ w \in Reporters
    BY <1>7 DEF EmitProgress, ReportedDone, Reporters
  <2>2. done[w] \in 1..scanned /\ done[w] % ProgressEvery = 0 /\ ~Reported(done[w])
    BY <1>0, <2>1 DEF ReportInv, ReportersBounded
  <2>3. scanned \in Nat /\ Total \in Nat /\ Cardinality(Busy) \in Nat
    BY <1>0, ItemTypes, WorkersFinite DEF TypeOK, RunTypeOK, Busy
  <2>4. done[w] \in 1..Total
    BY <1>0, <2>2, <2>3 DEF CountInv
  <2>5. ~Contains(events, Progress(pass, done[w], Total))
    <3> SUFFICES ASSUME NEW i \in 1..Len(events), events[i] = Progress(pass, done[w], Total) PROVE FALSE
      BY DEF Contains
    <3>1. events[i].type = "Progress" /\ events[i].pass = pass /\ events[i].done = done[w]
      BY EventKinds
    <3> QED
      BY <2>2, <3>1 DEF Reported, Reports, Places
  <2>6. done[w] \in {m \in 1..Total : m % ProgressEvery = 0}
    BY <2>2, <2>4
  <2>7. Stream!Emit(Progress(pass, done[w], Total))
    BY <2>1 DEF Stream!Emit
  <2>8. Stream!Report
    BY <1>1, <1>2, <1>3, <1>4, <2>5, <2>6, <2>7, StreamWords DEF Stream!Report
  <2> QED
    BY <2>8 DEF Stream!Next, Stream!Run
<1> QED
  BY <1>0, <1>5, <1>6, <1>7, WorkerEmits

(* Once the workers are joined, what was announced is what was recorded. *)
LEMMA JoinedAnnounced ==
  ASSUME ScanInv, AnnouncedInv, main \in Early \union Between \union {"collect", "done"}
  PROVE  Announced = ToSet(hits)
<1>1. Pushers = {}
  BY DEF ScanInv, StopInv, Joinable, Resting, Finished, Pushers
<1> QED
  BY <1>1 DEF AnnouncedInv, AnnouncedSplit

LEMMA StreamsSpawned == ASSUME StreamsInv, SpawnEnd PROVE [Stream!Next]_(Stream!vars)
<1>0. TypeOK /\ ItemInv /\ StreamInv /\ Enough
  BY DEF StreamsInv, ScanInv
<1>1. UNCHANGED <<cfg, token, pass, out>> /\ main = "spawn" /\ main' = "join"
  BY DEF SpawnEnd
<1>2. Phase' = Phase
  BY <1>1 DEF Phase
<1>3. CASE events' = events
  BY <1>1, <1>2, <1>3, StreamStutters
<1>4. CASE spawned # cfg.threads /\ events' = Append(events, ThreadsSpawned(pass, cfg.threads, spawned))
  <2>1. Stream!Scanning /\ Stream!Pass = pass /\ Stream!TotalOf(pass) = Total /\ Total \in 1..cfg.items
    BY <1>0, <1>1, PhaseWithin, TotalOfPass
  <2>2. spawned \in 0..Total
    <3>1. cfg.threads \in Nat /\ spawned \in Nat
      BY <1>0, ConfigAssumption DEF TypeOK, RunTypeOK, Config
    <3>2. cfg.items \in Nat /\ Total \in Nat /\ Total # 0
      BY <1>0, <2>1, ItemTypes
    <3>3. Threads <= Total
      BY <3>1, <3>2 DEF Threads
    <3>4. Threads \in Nat
      BY <3>1, <3>2 DEF Threads
    <3> QED
      BY <1>0, <3>1, <3>2, <3>3, <3>4 DEF Enough
  <2>3. \A i \in DOMAIN events : events[i].type = "ThreadsSpawned" => events[i].pass # pass
    <3>1. DOMAIN events = 1..Len(events)
      BY <1>0 DEF TypeOK, RunTypeOK
    <3> QED
      BY <1>0, <1>1, <3>1 DEF StreamInv, SpawnedOnce, Places
  <2>4. Stream!Emit(ThreadsSpawned(pass, cfg.threads, spawned))
    BY <1>4 DEF Stream!Emit
  <2>5. (IF main = "done" THEN ToSet(out) ELSE {})' = (IF main = "done" THEN ToSet(out) ELSE {})
    BY <1>1
  <2>6. Stream!Spawned
    BY <1>1, <1>2, <1>4, <2>1, <2>2, <2>3, <2>4, <2>5, StreamWords DEF Stream!Spawned
  <2> QED
    BY <2>6 DEF Stream!Next, Stream!Run
<1> QED
  BY <1>3, <1>4 DEF SpawnEnd

(* How many items pass 2 has, or would have had. *)
LEMMA PendingBounded ==
  ASSUME ScanInv, main \in DecidedOn, pending # <<>>
  PROVE  Len(pending) \in 1..cfg.items
<1>1. Len(pending) = Cardinality(Deferred) /\ Len(pending) \in Nat /\ cfg.items \in Nat
  BY PendingCount, ItemTypes DEF ScanInv
<1>2. Len(pending) # 0
  BY DEF ScanInv, TypeOK, RunTypeOK
<1>3. IsFiniteSet(1..cfg.items) /\ Cardinality(1..cfg.items) = cfg.items
  <2>1. cfg.items \in Nat
    BY <1>1
  <2> QED
    BY <2>1, IntervalSize
<1>4. Cardinality(Deferred) <= cfg.items
  <2>1. Deferred \in SUBSET (1..cfg.items)
    BY DEF Deferred
  <2> QED
    BY <1>3, <2>1, FS_Subset
<1> QED
  BY <1>1, <1>2, <1>4

LEMMA StreamsDecide == ASSUME StreamsInv, SecondPass \/ SkipSecondPass PROVE [Stream!Next]_(Stream!vars)
<1>0. TypeOK /\ PassInv /\ StreamInv /\ ScanInv /\ AnnouncedInv /\ events \in Seq(Event)
  BY DEF StreamsInv, ScanInv, TypeOK, RunTypeOK
<1>1. main \in DecidedOn /\ pass = 1 /\ UNCHANGED <<cfg, token, out>> /\ pending # <<>> /\ main' \in {"spawn", "collect"}
  BY <1>0 DEF SecondPass, SkipSecondPass, PassInv, FirstDecides
<1>2. Phase = IF main = "cancelled" THEN "cancelled" ELSE "clear"
  BY <1>1 DEF Phase
<1>3. Stream!StoppedAtHit <=> cfg.stop /\ HasAdb
  <2>1. Stream!Announced = ToSet(hits)
    BY <1>0, <1>1, StreamAnnounced, JoinedAnnounced
  <2> QED
    BY <2>1, StreamWords DEF Stream!StoppedAtHit, HasAdb
<1>4. Len(pending) \in 1..cfg.items
  BY <1>0, <1>1, PendingBounded
<1>5. (IF main = "done" THEN ToSet(out) ELSE {})' = (IF main = "done" THEN ToSet(out) ELSE {})
  BY <1>1
<1>6. CASE SecondPass
  <2>1. Phase' = "second"
    BY <1>6 DEF SecondPass, Phase
  <2>2. Stream!Emit(PassStarted(2, Len(pending))) /\ main = "uncancelled" /\ ~(cfg.stop /\ HasAdb)
    BY <1>6 DEF SecondPass, Remaining, Stream!Emit, GoesOn
  <2>3. Stream!SecondPass
    BY <1>1, <1>2, <1>3, <1>4, <1>5, <2>1, <2>2, StreamWords DEF Stream!SecondPass
  <2> QED
    BY <2>3 DEF Stream!Next, Stream!Run
<1>7. CASE SkipSecondPass
  <2> DEFINE e == PassSkipped(Len(pending), SkipReason)
  <2>1. main' = "collect" /\ Stream!Emit(e) /\ ~GoesOn
    BY <1>7 DEF SkipSecondPass, Stream!Emit
  <2>2. Phase' = "over"
    BY <2>1 DEF Phase
  <2>3. SkipReason = IF Phase = "cancelled" THEN "Cancelled" ELSE "HitFound"
    BY <1>1, <1>2 DEF SkipReason
  <2>4. Phase = "cancelled" \/ (Phase = "clear" /\ Stream!StoppedAtHit)
    BY <1>1, <1>2, <1>3, <2>1 DEF GoesOn
  <2>5. Stream!Skip
    BY <1>1, <1>4, <1>5, <2>1, <2>2, <2>3, <2>4, StreamWords DEF Stream!Skip
  <2> QED
    BY <2>5 DEF Stream!Next, Stream!Run
<1> QED
  BY <1>6, <1>7

LEMMA StreamsMain == ASSUME StreamsInv, StreamsInv', Main PROVE [Stream!Next]_(Stream!vars)
<1>0. TypeOK /\ PassInv /\ StreamInv /\ ScanInv /\ AnnouncedInv /\ events \in Seq(Event) /\ pass \in {1, 2}
  BY DEF StreamsInv, ScanInv, TypeOK, RunTypeOK
<1>1. UNCHANGED <<cfg, token>>
  BY MainKeeps
<1>2. CASE ReturnEmpty
  <2>1. main = "start" /\ main' = "done" /\ out' = <<>> /\ events' = events /\ (cfg.items = 0 \/ token)
    BY <1>2 DEF ReturnEmpty
  <2>2. Phase = "new" /\ Phase' = "closed"
    BY <2>1 DEF Phase
  <2>3. (IF main = "done" THEN ToSet(out) ELSE {})' = (IF main = "done" THEN ToSet(out) ELSE {})
    <3>1. ToSet(out') = {}
      BY <2>1 DEF ToSet
    <3> QED
      BY <2>1, <3>1 DEF ToSet
  <2>4. Stream!ReturnEmpty
    BY <1>1, <2>1, <2>2, <2>3 DEF Stream!ReturnEmpty
  <2> QED
    BY <2>4 DEF Stream!Next, Stream!Run
<1>3. CASE FirstPass
  <2>1. main = "announce" /\ main' = "spawn" /\ pass' = 1 /\ events' = Append(events, PassStarted(1, cfg.items))
    BY <1>0, <1>3 DEF FirstPass, PassInv, FirstDecides
  <2>2. Phase = "ready" /\ Phase' = "first"
    BY <2>1 DEF Phase
  <2>3. (IF main = "done" THEN ToSet(out) ELSE {})' = (IF main = "done" THEN ToSet(out) ELSE {})
    BY <2>1
  <2>4. Stream!FirstPass
    BY <1>1, <2>1, <2>2, <2>3, StreamWords DEF Stream!FirstPass, Stream!Emit
  <2> QED
    BY <2>4 DEF Stream!Next, Stream!Run
<1>4. CASE Spawn
  <2>1. main = "spawn" /\ main' = "spawn" /\ pass' = pass /\ events' = events
    BY <1>4 DEF Spawn
  <2>2. Phase' = Phase
    BY <2>1 DEF Phase
  <2> QED
    BY <1>1, <2>1, <2>2, StreamStutters
<1>5. CASE Join /\ pass = 1
  <2>1. main = "join" /\ main' = "decide" /\ pass' = 1 /\ events' = events
    BY <1>5 DEF Join
  <2>2. Phase' = Phase
    BY <1>5, <2>1 DEF Phase
  <2> QED
    BY <1>1, <2>1, <2>2, StreamStutters
<1>7. CASE (Join /\ pass = 2) \/ NothingPending
  <2>1. main \in {"join", "uncancelled", "cancelled"} /\ main' = "collect" /\ events' = events
    BY <1>7 DEF Join, NothingPending
  <2>2. Phase \in {"clear", "cancelled", "second"} /\ Phase' = "over"
    BY <1>7, <2>1 DEF Phase, NothingPending
  <2>3. (IF main = "done" THEN ToSet(out) ELSE {})' = (IF main = "done" THEN ToSet(out) ELSE {})
    BY <2>1
  <2>4. Stream!Finish
    BY <1>1, <2>1, <2>2, <2>3 DEF Stream!Finish
  <2> QED
    BY <2>4 DEF Stream!Next, Stream!Run
<1>8. CASE Begin
  <2>1. main = "start" /\ main' = "announce" /\ events' = events /\ cfg.items > 0 /\ ~token
    BY <1>8 DEF Begin
  <2>2. Phase = "new" /\ Phase' = "ready"
    BY <2>1 DEF Phase
  <2>3. (IF main = "done" THEN ToSet(out) ELSE {})' = (IF main = "done" THEN ToSet(out) ELSE {})
    BY <2>1
  <2>4. Stream!Begin
    BY <1>1, <2>1, <2>2, <2>3 DEF Stream!Begin
  <2> QED
    BY <2>4 DEF Stream!Next, Stream!Run
<1>9. CASE Decide
  <2>1. main = "decide" /\ main' = (IF token THEN "cancelled" ELSE "uncancelled") /\ events' = events
    BY <1>9 DEF Decide
  <2>2. Phase = "first" /\ Phase' = IF token THEN "cancelled" ELSE "clear"
    BY <1>0, <2>1 DEF Phase, PassInv, FirstDecides
  <2>3. (IF main = "done" THEN ToSet(out) ELSE {})' = (IF main = "done" THEN ToSet(out) ELSE {})
    BY <2>1
  <2>4. Stream!Decide
    BY <1>1, <2>1, <2>2, <2>3 DEF Stream!Decide
  <2> QED
    BY <2>4 DEF Stream!Next, Stream!Run
<1>6. CASE Collect
  <2>1. main = "collect" /\ main' = "done" /\ UNCHANGED <<events, hits>>
    BY <1>6 DEF Collect, shared
  <2>2. Phase = "over" /\ Phase' = "closed"
    BY <2>1 DEF Phase
  <2>3. ToSet(out') = ToSet(hits)
    BY <2>1 DEF StreamsInv, ScanInv, HitInv, ReturnsAll
  <2>4. Stream!Announced = ToSet(hits)
    BY <1>0, <2>1, StreamAnnounced, JoinedAnnounced
  <2>5. (IF main = "done" THEN ToSet(out) ELSE {})' = Stream!Announced
    BY <2>1, <2>3, <2>4
  <2>6. Stream!Return
    BY <1>1, <2>1, <2>2, <2>5 DEF Stream!Return
  <2> QED
    BY <2>6 DEF Stream!Next, Stream!Run
<1> QED
  BY <1>0, <1>2, <1>3, <1>4, <1>5, <1>6, <1>7, <1>8, <1>9, StreamsSpawned, StreamsDecide DEF Main

LEMMA StreamsStep == StreamsInv /\ StreamsInv' /\ [Next]_vars => [Stream!Next]_(Stream!vars)
<1> SUFFICES ASSUME StreamsInv, StreamsInv', [Next]_vars PROVE [Stream!Next]_(Stream!vars)
  OBVIOUS
<1>1. CASE Main
  BY <1>1, StreamsMain
<1>2. CASE Cancel
  <2>1. UNCHANGED <<cfg, main, pass, events, out>> /\ main # "done" /\ ~token /\ token'
    BY <1>2 DEF Cancel
  <2>2. Phase' = Phase /\ Phase # "closed"
    BY <2>1 DEF Phase
  <2>3. (IF main = "done" THEN ToSet(out) ELSE {})' = (IF main = "done" THEN ToSet(out) ELSE {})
    BY <2>1
  <2>4. token' = TRUE
    BY <1>2 DEF Cancel
  <2>5. Stream!Cancel
    BY <2>1, <2>2, <2>3, <2>4 DEF Stream!Cancel
  <2> QED
    BY <2>5 DEF Stream!Next
<1>3. ASSUME NEW w \in Workers, Worker(w) PROVE [Stream!Next]_(Stream!vars)
  BY <1>3, StreamsWorker
<1>4. CASE UNCHANGED vars
  <2>1. UNCHANGED <<cfg, token, events, main, pass, out>>
    BY <1>4 DEF vars
  <2>2. Phase' = Phase
    BY <2>1 DEF Phase
  <2> QED
    BY <2>1, <2>2, StreamStutters
<1> QED
  BY <1>1, <1>2, <1>3, <1>4 DEF Next, Terminated

(***************************************************************************)
(* The pool of threads implements the stream that callers are promised,    *)
(* but for its liveness: hits, progress and refused threads only inside a  *)
(* pass, no hit or progress twice, no pass that was not decided on before  *)
(* a cancellation, no second pass after a stop at a hit, a skipped pass    *)
(* that is explained, and a result that is what was announced.             *)
(***************************************************************************)
THEOREM StreamTheorem == Spec => Stream!Init /\ [][Stream!Next]_(Stream!vars)
<1>1. Init => Stream!Init
  BY DEF Init, Stream!Init, Phase
<1> QED
  BY <1>1, StreamsStep, StreamsInvariant, PTL DEF Spec
=============================================================================
