----------------------------- MODULE GuiProofs -----------------------------
(***************************************************************************)
(* Theorems about Gui, for every set of requests, every size of the log    *)
(* and any number of jobs: the status is that of the threads, and the stop *)
(* button has the token of the scan that runs.                             *)
(***************************************************************************)
EXTENDS Gui, TLAPS

IsSeq(s) == \E S : s \in Seq(S)

LEMMA NoElements ==
  ASSUME NEW s, s = <<>>
  PROVE  IsSeq(s) /\ DOMAIN s = {} /\ Len(s) = 0
<1>1. s \in Seq({}) /\ Len(s) = 0
  OBVIOUS
<1>2. DOMAIN s = {}
  OBVIOUS
<1>3. IsSeq(s)
  BY <1>1 DEF IsSeq
<1> QED
  BY <1>1, <1>2, <1>3

LEMMA AppendFacts ==
  ASSUME NEW s, IsSeq(s), NEW m
  PROVE  /\ IsSeq(Append(s, m))
         /\ Len(s) \in Nat /\ DOMAIN s = 1..Len(s)
         /\ DOMAIN Append(s, m) = 1..(Len(s) + 1)
         /\ \A i \in 1..Len(s) : Append(s, m)[i] = s[i]
         /\ Append(s, m)[Len(s) + 1] = m
<1>1. PICK S : s \in Seq(S)
  BY DEF IsSeq
<1>2. s \in Seq(S \union {m}) /\ m \in S \union {m}
  BY <1>1
<1>3. Append(s, m) \in Seq(S \union {m})
  BY <1>2
<1> QED
  BY <1>2, <1>3 DEF IsSeq

LEMMA TailFacts ==
  ASSUME NEW s, IsSeq(s), s # <<>>
  PROVE  /\ IsSeq(Tail(s))
         /\ Len(s) \in Nat /\ Len(s) >= 1 /\ DOMAIN s = 1..Len(s)
         /\ Head(s) = s[1]
         /\ DOMAIN Tail(s) = 1..(Len(s) - 1)
         /\ \A i \in 1..(Len(s) - 1) : Tail(s)[i] = s[i + 1]
<1>1. PICK S : s \in Seq(S)
  BY DEF IsSeq
<1>2. Len(s) \in Nat /\ Len(s) >= 1
  BY <1>1
<1> QED
  BY <1>1, <1>2 DEF IsSeq

-----------------------------------------------------------------------------
(***************************************************************************)
(* The strengthening: what the channel holds.  A job's last message comes  *)
(* once, after its thread is gone, and nothing of a scan comes after it.   *)
(***************************************************************************)
Statuses == status \in {"Idle", "MdnsBusy", "PortBusy"} /\ discovering \in BOOLEAN

LastOnce ==
  /\ discovering => Sent("MdnsDone") = {}
  /\ \A i, j \in Sent("MdnsDone") : i = j
  /\ forwarder # "none" => Sent("ScanDone") = {}
  /\ \A i \in Sent("ScanDone"), j \in DOMAIN channel :
       channel[j].type \in {"ScanEvt", "ScanDone"} => j <= i

GuiInv == IsSeq(channel) /\ Statuses /\ LastOnce /\ StatusSound /\ CancelSound

LEMMA InitGui == Init => GuiInv
<1> SUFFICES ASSUME Init PROVE GuiInv
  OBVIOUS
<1>1. channel = <<>> /\ IsSeq(channel) /\ DOMAIN channel = {}
  <2>1. <<>> \in Seq({})
    OBVIOUS
  <2> QED
    BY <2>1 DEF Init, IsSeq
<1>2. \A type : Sent(type) = {}
  BY <1>1 DEF Sent
<1> QED
  BY <1>1, <1>2 DEF Init, GuiInv, Statuses, LastOnce, StatusSound, CancelSound

(* The clicks, and the steps that send nothing. *)
LEMMA QuietStep ==
  ASSUME GuiInv,
         \/ StartMdnsScan \/ (\E r \in Requests : StartPortScan(r)) \/ StopClick \/ ConnectClick
         \/ Launch \/ RunStep \/ UNCHANGED vars
  PROVE  GuiInv'
<1>1. channel' = channel /\ \A type : Sent(type)' = Sent(type)
  BY DEF StartMdnsScan, StartPortScan, StopClick, ConnectClick, Launch, RunStep, vars, Sent
<1>2. CASE StartMdnsScan
  BY <1>1, <1>2 DEF StartMdnsScan, Busy, GuiInv, Statuses, LastOnce, StatusSound, CancelSound
<1>3. CASE \E r \in Requests : StartPortScan(r)
  <2>1. /\ status = "Idle" /\ status' = "PortBusy" /\ forwarder' = "launching"
        /\ cancel' = jobs + 1 /\ jobs' = jobs + 1 /\ discovering' = discovering
    BY <1>3 DEF StartPortScan, CanScan, Busy, GuiInv, Statuses
  <2> QED
    BY <1>1, <2>1 DEF GuiInv, Statuses, LastOnce, StatusSound, CancelSound
<1>4. CASE StopClick \/ ConnectClick \/ RunStep \/ UNCHANGED vars
  <2>1. UNCHANGED <<status, cancel, discovering, forwarder, jobs>>
    BY <1>4 DEF StopClick, ConnectClick, RunStep, vars, ui
  <2> QED
    BY <1>1, <2>1 DEF GuiInv, Statuses, LastOnce, StatusSound, CancelSound
<1>5. CASE Launch
  <2>1. /\ UNCHANGED <<status, cancel, discovering, jobs>>
        /\ forwarder # "none" /\ forwarder' # "none"
    BY <1>5 DEF Launch, ui
  <2> QED
    BY <1>1, <2>1 DEF GuiInv, Statuses, LastOnce, StatusSound, CancelSound
<1> QED
  BY <1>2, <1>3, <1>4, <1>5

(* What a message sent does to the sets Sent. *)
LEMMA SendFacts ==
  ASSUME IsSeq(channel), NEW m, Send(m)
  PROVE  /\ IsSeq(channel')
         /\ Len(channel) \in Nat /\ DOMAIN channel = 1..Len(channel)
         /\ DOMAIN channel' = 1..(Len(channel) + 1)
         /\ \A i \in DOMAIN channel : channel'[i] = channel[i]
         /\ channel'[Len(channel) + 1] = m
         /\ \A type : Sent(type)' =
              Sent(type) \union (IF m.type = type THEN {Len(channel) + 1} ELSE {})
<1>1. channel' = Append(channel, m)
  BY DEF Send
<1>2. /\ IsSeq(channel')
      /\ Len(channel) \in Nat /\ DOMAIN channel = 1..Len(channel)
      /\ DOMAIN channel' = 1..(Len(channel) + 1)
      /\ \A i \in DOMAIN channel : channel'[i] = channel[i]
      /\ channel'[Len(channel) + 1] = m
  BY <1>1, AppendFacts
<1> QED
  BY <1>2 DEF Sent

LEMMA SendingStep ==
  ASSUME GuiInv, DiscoverReturns \/ ConnectReturns \/ Forward \/ ForwardResult
  PROVE  GuiInv'
<1>1. IsSeq(channel)
  BY DEF GuiInv
<1>2. CASE DiscoverReturns
  <2>1. PICK n \in {0, 1} : Send(MdnsDone(n))
    BY <1>2 DEF DiscoverReturns
  <2>2. MdnsDone(n).type = "MdnsDone"
    BY DEF MdnsDone
  <2>3. UNCHANGED <<status, cancel, forwarder, jobs>> /\ discovering /\ ~discovering'
        /\ discovering' = FALSE
    BY <1>2 DEF DiscoverReturns, ui
  <2>4. /\ Sent("MdnsDone") = {} /\ status = "MdnsBusy"
        /\ Sent("ScanDone") = {} /\ forwarder = "none"
    BY <2>3 DEF GuiInv, LastOnce, StatusSound
  <2>5. /\ IsSeq(channel') /\ Len(channel) \in Nat
        /\ Sent("MdnsDone")' = {Len(channel) + 1} /\ Sent("ScanDone")' = {}
    BY <1>1, <2>1, <2>2, <2>4, SendFacts
  <2>6. \A i \in DOMAIN channel' : channel'[i].type \notin {"ScanEvt", "ScanDone"}
    BY <1>1, <2>1, <2>2, <2>4, SendFacts DEF GuiInv, StatusSound
  <2>7. LastOnce'
    BY <2>3, <2>5 DEF LastOnce
  <2>8. StatusSound'
    BY <2>3, <2>4, <2>5, <2>6 DEF StatusSound
  <2> QED
    BY <2>3, <2>4, <2>5, <2>7, <2>8 DEF GuiInv, Statuses, CancelSound
<1>3. CASE ConnectReturns
  <2>1. Send(Toast) /\ UNCHANGED <<status, cancel, forwarder, jobs, discovering>>
    BY <1>3 DEF ConnectReturns, ui
  <2>2. Toast.type = "Toast"
    BY DEF Toast
  <2> QED
    BY <1>1, <2>1, <2>2, SendFacts
    DEF GuiInv, Statuses, LastOnce, StatusSound, CancelSound, Sent
<1>4. CASE Forward
  <2> DEFINE m == ScanEvt(stream[read + 1])
  <2>1. Send(m) /\ forwarder # "none" /\ UNCHANGED <<status, cancel, forwarder, jobs, discovering>>
    BY <1>4 DEF Forward, ui
  <2>2. m.type = "ScanEvt" /\ m.job = jobs
    BY DEF ScanEvt
  <2> HIDE DEF m
  <2> QED
    BY <1>1, <2>1, <2>2, SendFacts
    DEF GuiInv, Statuses, LastOnce, StatusSound, CancelSound, Sent
<1>5. CASE ForwardResult
  <2>1. /\ Send(ScanDone(result)) /\ forwarder # "none" /\ forwarder' = "none"
        /\ UNCHANGED <<status, cancel, jobs, discovering>>
    BY <1>5 DEF ForwardResult, ui
  <2>2. ScanDone(result).type = "ScanDone" /\ ScanDone(result).job = jobs
    BY DEF ScanDone
  <2> QED
    BY <1>1, <2>1, <2>2, SendFacts
    DEF GuiInv, Statuses, LastOnce, StatusSound, CancelSound, Sent
<1> QED
  BY <1>2, <1>3, <1>4, <1>5

LEMMA PollStep == ASSUME GuiInv, PollMessages PROVE GuiInv'
<1> DEFINE m == channel[1]
<1>1. channel # <<>> /\ channel' = Tail(channel) /\ UNCHANGED <<discovering, forwarder, jobs>>
  BY DEF PollMessages
<1>2. /\ IsSeq(channel')
      /\ Len(channel) \in Nat /\ Len(channel) >= 1 /\ DOMAIN channel = 1..Len(channel)
      /\ Head(channel) = m
      /\ DOMAIN channel' = 1..(Len(channel) - 1)
      /\ \A i \in DOMAIN channel' : channel'[i] = channel[i + 1]
  BY <1>1, TailFacts DEF GuiInv
<1>3. \A type : \A i : i \in Sent(type)' <=> i \in 1..(Len(channel) - 1) /\ i + 1 \in Sent(type)
  BY <1>2 DEF Sent
<1>4. m.type # "MdnsDone" => Sent("MdnsDone")' # {} \/ Sent("MdnsDone") = {}
  <2> SUFFICES ASSUME m.type # "MdnsDone", NEW i \in Sent("MdnsDone")
               PROVE  i - 1 \in Sent("MdnsDone")'
    OBVIOUS
  <2>1. i \in 2..Len(channel)
    BY <1>2 DEF Sent
  <2> QED
    BY <1>2, <1>3, <2>1
<1>5. m.type # "ScanDone" => Sent("ScanDone")' # {} \/ Sent("ScanDone") = {}
  <2> SUFFICES ASSUME m.type # "ScanDone", NEW i \in Sent("ScanDone")
               PROVE  i - 1 \in Sent("ScanDone")'
    OBVIOUS
  <2>1. i \in 2..Len(channel)
    BY <1>2 DEF Sent
  <2> QED
    BY <1>2, <1>3, <2>1
<1>6. (Sent("MdnsDone") = {} => Sent("MdnsDone")' = {}) /\ (Sent("ScanDone") = {} => Sent("ScanDone")' = {})
  BY <1>3
<1>7. LastOnce'
  <2>1. \A i, j \in Sent("MdnsDone")' : i = j
    <3> SUFFICES ASSUME NEW i \in Sent("MdnsDone")', NEW j \in Sent("MdnsDone")'
                 PROVE  i = j
      OBVIOUS
    <3>1. i \in Nat /\ j \in Nat /\ i + 1 = j + 1
      BY <1>2, <1>3 DEF GuiInv, LastOnce
    <3> QED
      BY <3>1
  <2>2. \A i \in Sent("ScanDone")', j \in DOMAIN channel' :
          channel'[j].type \in {"ScanEvt", "ScanDone"} => j <= i
    <3> SUFFICES ASSUME NEW i \in Sent("ScanDone")', NEW j \in DOMAIN channel',
                        channel'[j].type \in {"ScanEvt", "ScanDone"}
                 PROVE  j <= i
      OBVIOUS
    <3>1. i \in Nat /\ j \in Nat /\ j + 1 \in DOMAIN channel /\ channel'[j] = channel[j + 1]
      BY <1>2, <1>3
    <3>2. j + 1 <= i + 1
      BY <1>3, <3>1 DEF GuiInv, LastOnce
    <3> QED
      BY <3>1, <3>2
  <2> QED
    BY <1>1, <1>6, <2>1, <2>2 DEF GuiInv, LastOnce
<1>8. \A i \in DOMAIN channel' : channel'[i].type \in {"ScanEvt", "ScanDone"} =>
          status = "PortBusy" /\ channel'[i].job = jobs
  BY <1>2 DEF GuiInv, StatusSound
<1>9. CASE HandleMdnsDone(m)
  <2>1. m.type = "MdnsDone" /\ status' = "Idle" /\ cancel' = cancel
    BY <1>9 DEF HandleMdnsDone, StatusAfterMdns
  <2>2. 1 \in Sent("MdnsDone")
    BY <1>2, <2>1 DEF Sent
  <2>3. Sent("MdnsDone")' = {} /\ ~discovering /\ status = "MdnsBusy"
    BY <1>3, <2>2 DEF GuiInv, LastOnce, StatusSound, Statuses
  <2>4. forwarder = "none" /\ Sent("ScanDone") = {} /\ cancel = NoToken
    BY <2>3 DEF GuiInv, StatusSound, CancelSound
  <2> QED
    BY <1>1, <1>2, <1>6, <1>7, <1>8, <2>1, <2>3, <2>4
    DEF GuiInv, Statuses, StatusSound, CancelSound
<1>10. CASE HandleScanEvt(m) \/ HandleToast(m)
  <2>1. m.type \notin {"MdnsDone", "ScanDone"} /\ UNCHANGED <<status, cancel>>
    BY <1>10 DEF HandleScanEvt, HandleToast, ui
  <2> QED
    BY <1>1, <1>2, <1>4, <1>5, <1>6, <1>7, <1>8, <2>1
    DEF GuiInv, Statuses, StatusSound, CancelSound
<1>11. CASE HandleScanDone(m)
  <2>1. m.type = "ScanDone" /\ status' = "Idle" /\ cancel' = NoToken
    BY <1>11 DEF HandleScanDone, TokenAfterScan
  <2>2. 1 \in Sent("ScanDone")
    BY <1>2, <2>1 DEF Sent
  <2>3. forwarder = "none" /\ status = "PortBusy" /\ ~discovering /\ Sent("MdnsDone") = {}
    BY <2>2 DEF GuiInv, LastOnce, StatusSound, Statuses
  <2>4. \A i \in DOMAIN channel' : channel'[i].type \notin {"ScanEvt", "ScanDone"}
    <3> SUFFICES ASSUME NEW i \in DOMAIN channel', channel'[i].type \in {"ScanEvt", "ScanDone"}
                 PROVE  FALSE
      OBVIOUS
    <3>1. i \in Nat /\ i >= 1 /\ i + 1 \in DOMAIN channel /\ channel'[i] = channel[i + 1]
      BY <1>2
    <3>2. i + 1 <= 1
      BY <2>2, <3>1 DEF GuiInv, LastOnce
    <3> QED
      BY <3>1, <3>2
  <2>5. Sent("ScanDone")' = {}
    BY <2>4 DEF Sent
  <2> QED
    BY <1>1, <1>2, <1>6, <1>7, <2>1, <2>3, <2>4, <2>5
    DEF GuiInv, Statuses, StatusSound, CancelSound
<1> QED
  BY <1>2, <1>9, <1>10, <1>11 DEF PollMessages

LEMMA GuiStep == GuiInv /\ [Next]_vars => GuiInv'
  BY QuietStep, SendingStep, PollStep DEF Next, Click

(***************************************************************************)
(* The status is busy with a job exactly while the job's thread runs or    *)
(* its last message is on its way: however clicks, messages and threads    *)
(* interleave there are never two jobs, and no message of an earlier scan  *)
(* reaches a later one.                                                    *)
(***************************************************************************)
THEOREM StatusTheorem == Spec => []StatusSound
<1>1. GuiInv => StatusSound
  BY DEF GuiInv
<1> QED
  BY InitGui, GuiStep, <1>1, PTL DEF Spec

(***************************************************************************)
(* The stop button has the token of the scan that runs, and of no other.   *)
(***************************************************************************)
THEOREM CancelTheorem == Spec => []CancelSound
<1>1. GuiInv => CancelSound
  BY DEF GuiInv
<1> QED
  BY InitGui, GuiStep, <1>1, PTL DEF Spec
-----------------------------------------------------------------------------
(***************************************************************************)
(* What is shown.  The strengthening says what the messages carry, and     *)
(* where the hits of a scan are on their way to the window: announced is   *)
(* what is logged, what is in the channel and what is not forwarded yet.   *)
(***************************************************************************)

(* An event and a message the window can be sent. *)
EventOK(e) ==
  /\ e.type = "Progress" => e.done \in Nat /\ e.total \in Nat /\ e.done \in 1..e.total
  /\ e.type = "PortHit" => e.hit.kind \in Kinds

MessageOK(m) ==
  /\ m.type = "MdnsDone" => m.services \in {0, 1}
  /\ m.type = "ScanEvt" => EventOK(m.event)
  /\ m.type = "ScanDone" => \A h \in m.hits : h.kind \in Kinds

Announcing(m) == m.type = "ScanEvt" /\ m.event.type = "PortHit"
ChannelHits == {channel[i].event.hit : i \in {j \in DOMAIN channel : Announcing(channel[j])}}
Unread == {stream[i].hit : i \in {j \in DOMAIN stream : j > read /\ stream[j].type = "PortHit"}}
HitOf(e) == IF e.type = "PortHit" THEN {e.hit} ELSE {}
HitsIn(m) == IF Announcing(m) THEN {m.event.hit} ELSE {}

CountersOK == connects \in Nat /\ stopped \in 0..jobs

MessagesOK == \A i \in DOMAIN channel : MessageOK(channel[i])

ScanOK ==
  /\ request \in Requests
  /\ IsSeq(stream)
  /\ \A i \in DOMAIN stream : EventOK(stream[i])
  /\ \A h \in result : h.kind \in Kinds
  /\ phase = "ready" => request.items > 0
  /\ Scan!Scanning =>
       \E n \in 1..request.items : Contains(stream, Scan!PassStarted(Scan!Pass, n))

HitsInv ==
  /\ phase = "new" => stream = <<>> /\ result = {}
  /\ forwarder = "launching" => phase = "new"
  /\ forwarder # "none" => Scan!Announced = heard \union ChannelHits \union Unread
  /\ forwarder # "none" /\ phase = "closed" => result = Scan!Announced
  /\ \A i \in Sent("ScanDone") : channel[i].hits = heard \union ChannelHits

TokenInv == stopped = jobs /\ status = "PortBusy" /\ forwarder # "none" => token

WindowInv ==
  /\ GuiInv /\ TypeOK /\ CountersOK /\ MessagesOK /\ ScanOK
  /\ HitsInv /\ ShownSound /\ TokenInv

(* What the steps do to the sets of hits on their way. *)
LEMMA SendHits ==
  ASSUME IsSeq(channel), NEW m, Send(m)
  PROVE  ChannelHits' = ChannelHits \union HitsIn(m)
<1>0. /\ Len(channel) \in Nat /\ DOMAIN channel = 1..Len(channel)
      /\ DOMAIN channel' = 1..(Len(channel) + 1)
  BY SendFacts
<1>1. /\ DOMAIN channel' = DOMAIN channel \union {Len(channel) + 1}
      /\ \A i \in DOMAIN channel : channel'[i] = channel[i]
      /\ channel'[Len(channel) + 1] = m
  <2>1. DOMAIN channel' = DOMAIN channel \union {Len(channel) + 1}
    BY <1>0
  <2> QED
    BY <2>1, SendFacts
<1>2. ASSUME NEW h PROVE h \in ChannelHits' <=> h \in ChannelHits \union HitsIn(m)
  <2>1. h \in ChannelHits' <=>
          \E i \in DOMAIN channel' : Announcing(channel'[i]) /\ h = channel'[i].event.hit
    BY DEF ChannelHits
  <2>2. h \in ChannelHits <=>
          \E i \in DOMAIN channel : Announcing(channel[i]) /\ h = channel[i].event.hit
    BY DEF ChannelHits
  <2>3. h \in HitsIn(m) <=> Announcing(m) /\ h = m.event.hit
    BY DEF HitsIn
  <2> QED
    BY <1>1, <2>1, <2>2, <2>3
<1> QED
  BY <1>2

LEMMA TailHits ==
  ASSUME IsSeq(channel), channel # <<>>, channel' = Tail(channel)
  PROVE  ChannelHits = ChannelHits' \union HitsIn(channel[1])
<1>1. /\ Len(channel) \in Nat /\ Len(channel) >= 1
      /\ DOMAIN channel = 1..Len(channel) /\ DOMAIN channel' = 1..(Len(channel) - 1)
      /\ \A i \in DOMAIN channel' : channel'[i] = channel[i + 1]
  BY TailFacts
<1>2. ASSUME NEW h PROVE h \in ChannelHits <=> h \in ChannelHits' \union HitsIn(channel[1])
  <2>1. h \in ChannelHits' <=>
          \E i \in DOMAIN channel' : Announcing(channel'[i]) /\ h = channel'[i].event.hit
    BY DEF ChannelHits
  <2>2. h \in ChannelHits <=>
          \E i \in DOMAIN channel : Announcing(channel[i]) /\ h = channel[i].event.hit
    BY DEF ChannelHits
  <2>3. h \in HitsIn(channel[1]) <=> Announcing(channel[1]) /\ h = channel[1].event.hit
    BY DEF HitsIn
  <2>4. ASSUME NEW i \in DOMAIN channel, Announcing(channel[i]), h = channel[i].event.hit
        PROVE  h \in ChannelHits' \union HitsIn(channel[1])
    <3>1. CASE i = 1
      BY <2>3, <2>4, <3>1
    <3>2. CASE i # 1
      <4>1. i - 1 \in DOMAIN channel' /\ (i - 1) + 1 = i
        BY <1>1, <3>2
      <4>2. channel'[i - 1] = channel[i]
        BY <1>1, <4>1
      <4> QED
        BY <2>1, <2>4, <4>1, <4>2
    <3> QED
      BY <3>1, <3>2
  <2>5. ASSUME NEW i \in DOMAIN channel', Announcing(channel'[i]), h = channel'[i].event.hit
        PROVE  h \in ChannelHits
    <3>1. i + 1 \in DOMAIN channel /\ channel'[i] = channel[i + 1]
      BY <1>1
    <3> QED
      BY <2>2, <2>5, <3>1
  <2>6. 1 \in DOMAIN channel
    BY <1>1
  <2> QED
    BY <2>1, <2>2, <2>3, <2>4, <2>5, <2>6
<1> QED
  BY <1>2

LEMMA EmitHits ==
  ASSUME IsSeq(stream), read \in 0..Len(stream), NEW e,
         stream' = Append(stream, e), read' = read
  PROVE  /\ Scan!Announced' = Scan!Announced \union HitOf(e)
         /\ Unread' = Unread \union HitOf(e)
<1>1. /\ Len(stream) \in Nat /\ DOMAIN stream = 1..Len(stream)
      /\ DOMAIN stream' = DOMAIN stream \union {Len(stream) + 1}
      /\ \A i \in DOMAIN stream : stream'[i] = stream[i]
      /\ stream'[Len(stream) + 1] = e
      /\ Len(stream) + 1 > read'
  BY AppendFacts
<1>2. ASSUME NEW h PROVE h \in Scan!Announced' <=> h \in Scan!Announced \union HitOf(e)
  <2>1. h \in Scan!Announced' <=>
          \E i \in DOMAIN stream' : stream'[i].type = "PortHit" /\ h = stream'[i].hit
    BY DEF Scan!Announced
  <2>2. h \in Scan!Announced <=>
          \E i \in DOMAIN stream : stream[i].type = "PortHit" /\ h = stream[i].hit
    BY DEF Scan!Announced
  <2>3. h \in HitOf(e) <=> e.type = "PortHit" /\ h = e.hit
    BY DEF HitOf
  <2> QED
    BY <1>1, <2>1, <2>2, <2>3
<1>3. ASSUME NEW h PROVE h \in Unread' <=> h \in Unread \union HitOf(e)
  <2>1. h \in Unread' <=>
          \E i \in DOMAIN stream' : i > read' /\ stream'[i].type = "PortHit" /\ h = stream'[i].hit
    BY DEF Unread
  <2>2. h \in Unread <=>
          \E i \in DOMAIN stream : i > read /\ stream[i].type = "PortHit" /\ h = stream[i].hit
    BY DEF Unread
  <2>3. h \in HitOf(e) <=> e.type = "PortHit" /\ h = e.hit
    BY DEF HitOf
  <2> QED
    BY <1>1, <2>1, <2>2, <2>3
<1> QED
  BY <1>2, <1>3

LEMMA ForwardHits ==
  ASSUME IsSeq(stream), read \in 0..Len(stream), read < Len(stream),
         stream' = stream, read' = read + 1
  PROVE  Unread = Unread' \union HitOf(stream[read + 1])
<1>1. Len(stream) \in Nat /\ DOMAIN stream = 1..Len(stream) /\ read \in Nat
  BY AppendFacts
<1>2. read + 1 \in DOMAIN stream /\ read + 1 > read
  BY <1>1
<1>3. \A i \in DOMAIN stream : i > read <=> i > read' \/ i = read + 1
  BY <1>1
<1>4. ASSUME NEW h PROVE h \in Unread <=> h \in Unread' \union HitOf(stream[read + 1])
  <2>1. h \in Unread' <=>
          \E i \in DOMAIN stream : i > read' /\ stream[i].type = "PortHit" /\ h = stream[i].hit
    BY DEF Unread
  <2>2. h \in Unread <=>
          \E i \in DOMAIN stream : i > read /\ stream[i].type = "PortHit" /\ h = stream[i].hit
    BY DEF Unread
  <2>3. h \in HitOf(stream[read + 1]) <=>
          stream[read + 1].type = "PortHit" /\ h = stream[read + 1].hit
    BY DEF HitOf
  <2> QED
    BY <1>2, <1>3, <2>1, <2>2, <2>3
<1> QED
  BY <1>4

(* Nothing of a scan is in the channel, or unread, when there is no scan. *)
LEMMA NoHits ==
  /\ (\A i \in DOMAIN channel : channel[i].type # "ScanEvt") => ChannelHits = {}
  /\ DOMAIN stream = {} => Unread = {} /\ Scan!Announced = {}
  /\ IsSeq(stream) /\ read = Len(stream) => Unread = {}
<1>1. (\A i \in DOMAIN channel : channel[i].type # "ScanEvt") => ChannelHits = {}
  BY DEF ChannelHits, Announcing
<1>2. DOMAIN stream = {} => Unread = {} /\ Scan!Announced = {}
  BY DEF Unread, Scan!Announced
<1>3. ASSUME IsSeq(stream), read = Len(stream) PROVE Unread = {}
  <2>1. Len(stream) \in Nat /\ DOMAIN stream = 1..Len(stream)
    BY <1>3, AppendFacts
  <2>2. \A i \in DOMAIN stream : ~(i > read)
    BY <1>3, <2>1
  <2> QED
    BY <2>2 DEF Unread
<1> QED
  BY <1>1, <1>2, <1>3

LEMMA LogStays == ASSUME log \in 0..LogMax, NEW n \in Nat, Log(n) PROVE log' \in 0..LogMax
  BY GuiAssumption DEF Log, Keep

LEMMA InitWindow == Init => WindowInv
<1> SUFFICES ASSUME Init PROVE WindowInv
  OBVIOUS
<1>1. /\ IsSeq(channel) /\ DOMAIN channel = {} /\ IsSeq(stream) /\ DOMAIN stream = {}
      /\ Len(stream) = 0
  BY NoElements DEF Init
<1>2. GuiInv
  BY InitGui
<1>3. TypeOK
  BY <1>1, GuiAssumption DEF Init, TypeOK, NoProgress, NoToken, Scan!Phases
<1>4. CountersOK
  BY DEF Init, CountersOK
<1>5. MessagesOK
  BY <1>1 DEF MessagesOK
<1>6. ScanOK
  <2>1. request \in Requests
    BY GuiAssumption DEF Init
  <2>2. ~Scan!Scanning /\ phase # "ready" /\ result = {}
    BY DEF Init, Scan!Scanning
  <2> QED
    BY <1>1, <2>1, <2>2 DEF ScanOK
<1>7. HitsInv
  BY <1>1 DEF Init, HitsInv, Sent
<1>8. ShownSound /\ TokenInv
  BY DEF Init, ShownSound, TokenInv
<1> QED
  BY <1>2, <1>3, <1>4, <1>5, <1>6, <1>7, <1>8 DEF WindowInv

(* What the invariants say is kept when what they speak of is. *)
LEMMA ScanKept == ASSUME ScanOK, UNCHANGED <<request, phase, stream, result>> PROVE ScanOK'
  BY DEF ScanOK, Scan!Scanning, Scan!Pass, Scan!PassStarted, Contains

LEMMA HitsKept ==
  ASSUME HitsInv, UNCHANGED <<channel, phase, stream, result, read, heard>>,
         forwarder' = forwarder \/ (forwarder = "launching" /\ forwarder' # "none" /\ forwarder' # "launching")
  PROVE  HitsInv'
<1>1. ChannelHits' = ChannelHits /\ Unread' = Unread /\ Scan!Announced' = Scan!Announced
      /\ Sent("ScanDone")' = Sent("ScanDone")
  BY DEF ChannelHits, Unread, Scan!Announced, Sent
<1> QED
  BY <1>1 DEF HitsInv

(* The clicks but the start of a scan, the launch, and no step at all. *)
LEMMA QuietWindow ==
  ASSUME WindowInv, StartMdnsScan \/ StopClick \/ ConnectClick \/ Launch \/ UNCHANGED vars
  PROVE  WindowInv'
<1>1. GuiInv'
  BY QuietStep DEF WindowInv
<1>2. /\ UNCHANGED <<channel, request, phase, stream, result, read, heard, hits, progress>>
      /\ forwarder' = forwarder
           \/ (forwarder = "launching" /\ forwarder' # "none" /\ forwarder' # "launching")
  BY DEF StartMdnsScan, StopClick, ConnectClick, Launch, vars, ui, scan
<1>3. ScanOK'
  BY <1>2, ScanKept DEF WindowInv
<1>4. MessagesOK'
  BY <1>2 DEF WindowInv, MessagesOK
<1>5. HitsInv'
  BY <1>2, HitsKept DEF WindowInv
<1>6. TypeOK /\ CountersOK /\ ShownSound /\ TokenInv /\ StatusSound /\ CancelSound
  BY DEF WindowInv, GuiInv
<1>7. jobs \in Nat /\ jobs >= 1 /\ connects \in Nat /\ MaxJobs \in Nat
  BY <1>6, GuiAssumption DEF TypeOK, CountersOK
<1>8. CASE StartMdnsScan
  <2>1. /\ status = "Idle" /\ status' = "MdnsBusy" /\ services' = 0 /\ discovering' = TRUE
        /\ jobs' = jobs + 1 /\ jobs + connects < MaxJobs
        /\ UNCHANGED <<cancel, log, connecting, connects, forwarder, stopped, token>>
    BY <1>8, <1>6 DEF StartMdnsScan, Busy, TypeOK, connection, scan
  <2>2. jobs' \in 1..MaxJobs
    BY <1>7, <2>1
  <2>3. TypeOK'
    BY <1>2, <1>6, <2>1, <2>2 DEF TypeOK
  <2>4. CountersOK'
    BY <1>6, <1>7, <2>1 DEF CountersOK
  <2>5. ShownSound' /\ TokenInv'
    BY <1>2, <1>6, <2>1 DEF ShownSound, TokenInv
  <2> QED
    BY <1>1, <1>3, <1>4, <1>5, <2>3, <2>4, <2>5 DEF WindowInv
<1>9. CASE StopClick
  <2>1. /\ UNCHANGED <<status, services, cancel, log, discovering, connecting, connects, forwarder, jobs>>
        /\ stopped' = jobs /\ token' = (token \/ cancel # NoToken)
    BY <1>9 DEF StopClick, ui, connection
  <2>2. status = "PortBusy" => token'
    <3>1. status = "PortBusy" => cancel # NoToken
      BY <1>6, <1>7 DEF CancelSound, NoToken
    <3> QED
      BY <2>1, <3>1, Zenon
  <2>3. CountersOK'
    BY <1>6, <1>7, <2>1 DEF CountersOK
  <2>4. TypeOK' /\ ShownSound'
    BY <1>2, <1>6, <2>1 DEF TypeOK, ShownSound
  <2>5. TokenInv'
    BY <2>1, <2>2 DEF TokenInv
  <2> QED
    BY <1>1, <1>3, <1>4, <1>5, <2>3, <2>4, <2>5 DEF WindowInv
<1>10. CASE ConnectClick
  <2>1. /\ UNCHANGED <<status, services, cancel, discovering, forwarder, jobs, token, stopped>>
        /\ Log(1) /\ connecting' = connecting + 1 /\ connects' = connects + 1
    BY <1>10 DEF ConnectClick, scan
  <2>2. log' \in 0..LogMax
    BY <1>6, <2>1, LogStays DEF TypeOK
  <2>3. connecting' \in 0..connects' /\ connects' \in Nat
    BY <1>6, <1>7, <2>1 DEF TypeOK
  <2>4. TypeOK'
    BY <1>2, <1>6, <2>1, <2>2, <2>3 DEF TypeOK
  <2>5. CountersOK' /\ ShownSound' /\ TokenInv'
    BY <1>2, <1>6, <2>1, <2>3 DEF CountersOK, ShownSound, TokenInv
  <2> QED
    BY <1>1, <1>3, <1>4, <1>5, <2>4, <2>5 DEF WindowInv
<1>11. CASE Launch
  <2>1. /\ UNCHANGED <<status, services, cancel, log, discovering, connecting, connects, jobs,
                       stopped, token>>
        /\ forwarder = "launching" /\ forwarder' \in {"forwarding", "dead"}
    BY <1>11 DEF Launch, AttachToken, ui, connection
  <2>2. TypeOK' /\ CountersOK' /\ ShownSound' /\ TokenInv'
    BY <1>2, <1>6, <2>1 DEF TypeOK, CountersOK, ShownSound, TokenInv
  <2> QED
    BY <1>1, <1>3, <1>4, <1>5, <2>2 DEF WindowInv
<1>12. CASE UNCHANGED vars
  <2>1. UNCHANGED <<status, services, cancel, log, discovering, connecting, connects, jobs,
                    stopped, token, forwarder>>
    BY <1>12 DEF vars, ui, connection, scan
  <2>2. TypeOK' /\ CountersOK' /\ ShownSound' /\ TokenInv'
    BY <1>2, <1>6, <2>1 DEF TypeOK, CountersOK, ShownSound, TokenInv
  <2> QED
    BY <1>1, <1>3, <1>4, <1>5, <2>2 DEF WindowInv
<1> QED
  BY <1>8, <1>9, <1>10, <1>11, <1>12

LEMMA StartWindow ==
  ASSUME WindowInv, NEW r \in Requests, StartPortScan(r) PROVE WindowInv'
<1>1. GuiInv' /\ GuiInv
  BY QuietStep DEF WindowInv
<1>2. TypeOK /\ CountersOK /\ MessagesOK /\ StatusSound /\ ShownSound /\ HitsInv
  BY DEF WindowInv, GuiInv
<1>3. /\ status = "Idle" /\ status' = "PortBusy" /\ jobs + connects < MaxJobs
      /\ hits' = {} /\ progress' = NoProgress /\ cancel' = jobs + 1 /\ heard' = {}
      /\ forwarder' = "launching" /\ request' = r /\ token' = FALSE /\ phase' = "new"
      /\ stream' = <<>> /\ result' = {} /\ read' = 0 /\ jobs' = jobs + 1 /\ Log(1)
      /\ UNCHANGED <<services, channel, discovering, stopped, connecting, connects>>
  BY <1>2 DEF StartPortScan, CanScan, Busy, TypeOK, connection
<1>4. IsSeq(stream') /\ DOMAIN stream' = {} /\ Len(stream') = 0
  BY <1>3, NoElements
<1>5. ChannelHits' = {}
  <2>1. \A i \in DOMAIN channel : channel[i].type # "ScanEvt"
    BY <1>2, <1>3 DEF StatusSound
  <2>2. ChannelHits = {}
    BY <2>1, NoHits
  <2> QED
    BY <1>3, <2>2 DEF ChannelHits
<1>6. Unread' = {} /\ Scan!Announced' = {}
  BY <1>4 DEF Unread, Scan!Announced
<1>7. Sent("ScanDone")' = {}
  <2>1. Sent("ScanDone") = {}
    BY <1>2, <1>3 DEF StatusSound
  <2> QED
    BY <1>3, <2>1 DEF Sent
<1>8. HitsInv'
  BY <1>3, <1>5, <1>6, <1>7 DEF HitsInv
<1>9. jobs \in Nat /\ jobs >= 1 /\ connects \in Nat /\ MaxJobs \in Nat
  BY <1>2, GuiAssumption DEF TypeOK, CountersOK
<1>10. jobs' \in 1..MaxJobs /\ cancel' \in 0..MaxJobs
  BY <1>3, <1>9
<1>11. log' \in 0..LogMax
  BY <1>2, <1>3, LogStays DEF TypeOK
<1>12. TypeOK'
  BY <1>2, <1>3, <1>4, <1>10, <1>11 DEF TypeOK, NoProgress, Scan!Phases
<1>13. CountersOK' /\ TokenInv'
  BY <1>2, <1>3, <1>9 DEF CountersOK, TokenInv
<1>14. MessagesOK' /\ ShownSound'
  BY <1>2, <1>3 DEF MessagesOK, ShownSound
<1>15. ScanOK'
  BY <1>3, <1>4 DEF ScanOK, Scan!Scanning
<1> QED
  BY <1>1, <1>8, <1>12, <1>13, <1>14, <1>15 DEF WindowInv
(* A step of the scan that emits an event, or one that emits none. *)
LEMMA EmitStep ==
  ASSUME WindowInv, forwarder = "forwarding", NEW e, EventOK(e), Scan!Emit(e),
         UNCHANGED <<request, result, channel, read, heard, forwarder>>,
         phase # "closed" /\ phase' \notin {"new", "ready", "closed"},
         Scan!Scanning' =>
           \E n \in 1..request.items : Contains(stream', Scan!PassStarted(Scan!Pass', n))
  PROVE  ScanOK' /\ HitsInv' /\ read' \in 0..Len(stream')
<1>1. ScanOK /\ HitsInv /\ TypeOK
  BY DEF WindowInv
<1>2. stream' = Append(stream, e) /\ IsSeq(stream) /\ read \in 0..Len(stream)
  BY <1>1 DEF Scan!Emit, ScanOK, TypeOK
<1>3. /\ IsSeq(stream') /\ Len(stream) \in Nat /\ DOMAIN stream = 1..Len(stream)
      /\ DOMAIN stream' = 1..(Len(stream) + 1)
      /\ \A i \in 1..Len(stream) : stream'[i] = stream[i]
      /\ stream'[Len(stream) + 1] = e
  BY <1>2, AppendFacts
<1>4. Len(stream') = Len(stream) + 1
  BY <1>3, AppendFacts
<1>5. \A i \in DOMAIN stream' : EventOK(stream'[i])
  BY <1>1, <1>3 DEF ScanOK
<1>6. ScanOK'
  BY <1>1, <1>3, <1>5 DEF ScanOK
<1>7. /\ Scan!Announced' = Scan!Announced \union HitOf(e)
      /\ Unread' = Unread \union HitOf(e)
  BY <1>2, EmitHits
<1>8. ChannelHits' = ChannelHits /\ Sent("ScanDone")' = Sent("ScanDone")
  BY DEF ChannelHits, Sent
<1>9. Scan!Announced' = heard' \union ChannelHits' \union Unread'
  BY <1>1, <1>7, <1>8 DEF HitsInv
<1>10. HitsInv'
  BY <1>1, <1>8, <1>9 DEF HitsInv
<1> QED
  BY <1>2, <1>3, <1>4, <1>6, <1>10

LEMMA StartedStays ==
  ASSUME ScanOK, Scan!Scanning, NEW e, Scan!Emit(e), UNCHANGED <<request, phase>>
  PROVE  \E n \in 1..request.items : Contains(stream', Scan!PassStarted(Scan!Pass', n))
<1>1. PICK n \in 1..request.items : Contains(stream, Scan!PassStarted(Scan!Pass, n))
  BY DEF ScanOK
<1>2. Scan!PassStarted(Scan!Pass', n) = Scan!PassStarted(Scan!Pass, n)
  BY DEF Scan!Pass
<1>3. Len(stream) \in Nat /\ (\A i \in 1..Len(stream) : stream'[i] = stream[i])
      /\ Len(stream') = Len(stream) + 1
  <2>1. stream' = Append(stream, e) /\ IsSeq(stream)
    BY DEF Scan!Emit, ScanOK
  <2>2. /\ Len(stream) \in Nat /\ \A i \in 1..Len(stream) : stream'[i] = stream[i]
        /\ IsSeq(stream') /\ DOMAIN stream' = 1..(Len(stream) + 1)
    BY <2>1, AppendFacts
  <2>3. Len(stream') \in Nat /\ DOMAIN stream' = 1..Len(stream')
    BY <2>2, AppendFacts
  <2> QED
    BY <2>2, <2>3
<1>4. Contains(stream', Scan!PassStarted(Scan!Pass, n))
  <2> DEFINE b == Scan!PassStarted(Scan!Pass, n)
  <2>1. PICK i \in 1..Len(stream) : stream[i] = b
    BY <1>1 DEF Contains
  <2> HIDE DEF b
  <2>2. i \in 1..Len(stream') /\ stream'[i] = b
    BY <1>3, <2>1
  <2>3. Contains(stream', b)
    BY <2>2 DEF Contains
  <2> QED
    BY <2>3 DEF b
<1> QED
  BY <1>1, <1>2, <1>4

LEMMA PassBegins ==
  ASSUME ScanOK, NEW n \in 1..request.items,
         Scan!Emit(Scan!PassStarted(Scan!Pass', n))
  PROVE  \E k \in 1..request.items : Contains(stream', Scan!PassStarted(Scan!Pass', k))
<1> DEFINE b == Scan!PassStarted(Scan!Pass', n)
<1>1. stream' = Append(stream, b) /\ IsSeq(stream)
  BY DEF Scan!Emit, ScanOK
<1> HIDE DEF b
<1>2. /\ IsSeq(stream') /\ Len(stream) \in Nat /\ stream'[Len(stream) + 1] = b
      /\ DOMAIN stream' = 1..(Len(stream) + 1)
  BY <1>1, AppendFacts
<1>3. Len(stream') \in Nat /\ DOMAIN stream' = 1..Len(stream')
  BY <1>2, AppendFacts
<1>4. Len(stream) + 1 \in 1..Len(stream')
  BY <1>2, <1>3
<1>5. Contains(stream', b)
  BY <1>2, <1>4 DEF Contains
<1> QED
  BY <1>5 DEF b

(* What a progress event counts up to is a number of items. *)
LEMMA TotalNat == ASSUME ScanOK, Scan!Scanning PROVE Scan!TotalOf(Scan!Pass) \in Nat
<1>1. \E n \in 1..request.items : Contains(stream, Scan!PassStarted(Scan!Pass, n))
  BY DEF ScanOK
<1>2. Scan!TotalOf(Scan!Pass) \in 1..request.items
  <2> DEFINE S == 1..request.items
             Begun(n) == Contains(stream, Scan!PassStarted(Scan!Pass, n))
  <2>1. Scan!TotalOf(Scan!Pass) = (CHOOSE n \in S : Begun(n))
    BY DEF Scan!TotalOf, Contains, Scan!Contains
  <2>2. \E n \in S : Begun(n)
    BY <1>1
  <2> HIDE DEF S, Begun
  <2>3. (CHOOSE n \in S : Begun(n)) \in S
    BY <2>2
  <2> QED
    BY <2>1, <2>3 DEF S
<1>3. request.items \in Nat
  BY GuiAssumption DEF ScanOK
<1> QED
  BY <1>2, <1>3
(* A step of the scan that only closes it. *)
LEMMA CloseStep ==
  ASSUME WindowInv, forwarder = "forwarding", phase' = "closed", result' = Scan!Announced,
         UNCHANGED <<request, stream, channel, read, heard, forwarder>>
  PROVE  ScanOK' /\ HitsInv' /\ read' \in 0..Len(stream')
<1>1. ScanOK /\ HitsInv /\ TypeOK /\ GuiInv
  BY DEF WindowInv
<1>2. \A h \in Scan!Announced : h.kind \in Kinds
  BY <1>1 DEF Scan!Announced, ScanOK, EventOK
<1>3. ~Scan!Scanning'
  BY DEF Scan!Scanning
<1>4. ScanOK'
  BY <1>1, <1>2, <1>3 DEF ScanOK
<1>5. /\ Scan!Announced' = Scan!Announced /\ ChannelHits' = ChannelHits /\ Unread' = Unread
      /\ Sent("ScanDone")' = Sent("ScanDone")
  BY DEF Scan!Announced, ChannelHits, Unread, Sent
<1>6. HitsInv'
  BY <1>1, <1>5 DEF HitsInv
<1> QED
  BY <1>1, <1>4, <1>6 DEF TypeOK

(* A step of the scan that only moves it on, to where it emits nothing. *)
LEMMA MoveStep ==
  ASSUME WindowInv, forwarder = "forwarding", ~Scan!Scanning', phase' \notin {"new", "closed"},
         phase' = "ready" => request.items > 0,
         UNCHANGED <<request, stream, result, channel, read, heard, forwarder>>
  PROVE  ScanOK' /\ HitsInv' /\ read' \in 0..Len(stream')
<1>1. ScanOK /\ HitsInv /\ TypeOK
  BY DEF WindowInv
<1>2. ScanOK'
  BY <1>1 DEF ScanOK
<1>3. /\ Scan!Announced' = Scan!Announced /\ ChannelHits' = ChannelHits /\ Unread' = Unread
      /\ Sent("ScanDone")' = Sent("ScanDone")
  BY DEF Scan!Announced, ChannelHits, Unread, Sent
<1>4. HitsInv'
  BY <1>1, <1>3 DEF HitsInv
<1> QED
  BY <1>1, <1>2, <1>4 DEF TypeOK

LEMMA RunWindow == ASSUME WindowInv, RunStep PROVE WindowInv'
<1>1. GuiInv'
  BY QuietStep DEF WindowInv
<1>2. /\ forwarder = "forwarding" /\ Scan!Run
      /\ UNCHANGED <<ui, channel, discovering, forwarder, read, jobs, stopped, connection>>
  BY DEF RunStep
<1>3. UNCHANGED <<channel, read, heard, forwarder, request, token>>
  BY <1>2 DEF ui, Scan!Run, Scan!ReturnEmpty, Scan!Begin, Scan!FirstPass, Scan!Announce, Scan!Report,
              Scan!Spawned, Scan!Decide, Scan!SecondPass, Scan!Skip, Scan!Finish, Scan!Return
<1>4. ScanOK /\ HitsInv /\ TypeOK
  BY DEF WindowInv
<1>5. ScanOK' /\ HitsInv' /\ read' \in 0..Len(stream')
  <2>1. CASE Scan!ReturnEmpty
    <3>1. phase = "new" /\ phase' = "closed" /\ result' = result /\ stream' = stream
      BY <2>1 DEF Scan!ReturnEmpty
    <3>2. stream = <<>> /\ result = {}
      BY <1>4, <3>1 DEF HitsInv
    <3>3. DOMAIN stream = {}
      BY <3>2, NoElements
    <3>4. Scan!Announced = {}
      BY <3>3, NoHits
    <3> QED
      BY <1>2, <1>3, <3>1, <3>2, <3>4, CloseStep
  <2>2. CASE Scan!Return
    BY <1>2, <1>3, <2>2, CloseStep DEF Scan!Return
  <2>3. CASE Scan!FirstPass
    <3>1. /\ phase = "ready" /\ phase' = "first" /\ request.items > 0 /\ result' = result
          /\ Scan!Emit(Scan!PassStarted(1, request.items))
      BY <1>4, <2>3 DEF Scan!FirstPass, ScanOK
    <3>2. request.items \in 1..request.items
      <4>1. request.items \in Nat
        BY <1>4, GuiAssumption DEF ScanOK
      <4> QED
        BY <3>1, <4>1
    <3>3. Scan!Pass' = 1
      BY <3>1 DEF Scan!Pass
    <3>4. \E k \in 1..request.items : Contains(stream', Scan!PassStarted(Scan!Pass', k))
      BY <1>4, <3>1, <3>2, <3>3, PassBegins
    <3>5. EventOK(Scan!PassStarted(1, request.items))
      BY DEF EventOK, Scan!PassStarted
    <3> QED
      BY <1>2, <1>3, <3>1, <3>4, <3>5, EmitStep
  <2>4. CASE Scan!SecondPass
    <3>1. /\ phase = "clear" /\ phase' = "second" /\ result' = result
          /\ \E n \in 1..request.items : Scan!Emit(Scan!PassStarted(2, n))
      BY <2>4 DEF Scan!SecondPass
    <3>2. PICK n \in 1..request.items : Scan!Emit(Scan!PassStarted(2, n))
      BY <3>1
    <3>3. Scan!Pass' = 2
      BY <3>1 DEF Scan!Pass
    <3>4. \E k \in 1..request.items : Contains(stream', Scan!PassStarted(Scan!Pass', k))
      BY <1>4, <3>2, <3>3, PassBegins
    <3>5. EventOK(Scan!PassStarted(2, n))
      BY DEF EventOK, Scan!PassStarted
    <3> QED
      BY <1>2, <1>3, <3>1, <3>2, <3>4, <3>5, EmitStep
  <2>5. CASE Scan!Skip
    <3> DEFINE r == IF phase = "cancelled" THEN "Cancelled" ELSE "HitFound"
    <3>1. PICK n \in 1..request.items : Scan!Emit(Scan!PassSkipped(n, r))
      BY <2>5 DEF Scan!Skip
    <3> HIDE DEF r
    <3>2. phase \in {"clear", "cancelled"} /\ phase' = "over" /\ result' = result /\ ~Scan!Scanning'
      BY <2>5 DEF Scan!Skip, Scan!Scanning
    <3>3. EventOK(Scan!PassSkipped(n, r))
      BY DEF EventOK, Scan!PassSkipped
    <3> QED
      BY <1>2, <1>3, <3>1, <3>2, <3>3, EmitStep
  <2>6. ASSUME NEW e, EventOK(e), Scan!Emit(e), Scan!Scanning, UNCHANGED <<phase, result>>
        PROVE  ScanOK' /\ HitsInv' /\ read' \in 0..Len(stream')
    <3>1. phase # "closed" /\ phase' \notin {"new", "ready", "closed"}
      BY <2>6 DEF Scan!Scanning
    <3>2. \E n \in 1..request.items : Contains(stream', Scan!PassStarted(Scan!Pass', n))
      BY <1>3, <1>4, <2>6, StartedStays
    <3> QED
      BY <1>2, <1>3, <2>6, <3>1, <3>2, EmitStep
  <2>7. CASE Scan!Announce
    <3>1. PICK i \in 1..request.items, k \in IF request.verify THEN Scan!Kinds ELSE {"Open"} :
            Scan!Emit(Scan!PortHit([item |-> i, kind |-> k]))
      BY <2>7 DEF Scan!Announce
    <3>2. k \in Kinds
      BY <3>1 DEF Kinds, AdbKinds, Scan!Kinds, Scan!AdbKinds
    <3>3. EventOK(Scan!PortHit([item |-> i, kind |-> k]))
      BY <3>2 DEF EventOK, Scan!PortHit
    <3> QED
      BY <2>6, <2>7, <3>1, <3>3 DEF Scan!Announce
  <2>8. CASE Scan!Report
    <3> DEFINE total == Scan!TotalOf(Scan!Pass)
    <3>1. Scan!Scanning /\ UNCHANGED <<phase, result>>
      BY <2>8 DEF Scan!Report
    <3>2. PICK n \in {m \in 1..total : m % Cadence = 0} :
            Scan!Emit(Scan!Progress(Scan!Pass, n, total))
      BY <2>8 DEF Scan!Report
    <3>3. total \in Nat
      BY <1>4, <3>1, TotalNat
    <3> HIDE DEF total
    <3>4. n \in 1..total /\ n \in Nat
      BY <3>2, <3>3
    <3>5. EventOK(Scan!Progress(Scan!Pass, n, total))
      BY <3>3, <3>4 DEF EventOK, Scan!Progress
    <3> QED
      BY <2>6, <3>1, <3>2, <3>5
  <2>9. CASE Scan!Spawned
    <3>1. PICK n \in 0..Scan!TotalOf(Scan!Pass) :
            Scan!Emit(Scan!ThreadsSpawned(Scan!Pass, request.threads, n))
      BY <2>9 DEF Scan!Spawned
    <3>2. EventOK(Scan!ThreadsSpawned(Scan!Pass, request.threads, n))
      BY DEF EventOK, Scan!ThreadsSpawned
    <3> QED
      BY <2>6, <2>9, <3>1, <3>2 DEF Scan!Spawned
  <2>10. CASE Scan!Begin \/ Scan!Decide \/ Scan!Finish
    <3>1. /\ phase' \in {"ready", "clear", "cancelled", "over"} /\ UNCHANGED <<stream, result>>
          /\ phase' = "ready" => request.items > 0
      BY <2>10 DEF Scan!Begin, Scan!Decide, Scan!Finish
    <3>2. ~Scan!Scanning'
      BY <3>1 DEF Scan!Scanning
    <3> QED
      BY <1>2, <1>3, <3>1, <3>2, MoveStep
  <2> QED
    BY <1>2, <2>1, <2>2, <2>3, <2>4, <2>5, <2>7, <2>8, <2>9, <2>10 DEF Scan!Run
<1>6. phase' \in Scan!Phases
  BY <1>2, <1>4 DEF TypeOK, Scan!Phases, Scan!Run, Scan!ReturnEmpty, Scan!Begin, Scan!FirstPass,
       Scan!Announce, Scan!Report, Scan!Spawned, Scan!Decide, Scan!SecondPass, Scan!Skip, Scan!Finish,
       Scan!Return
<1>7. TypeOK'
  BY <1>2, <1>4, <1>5, <1>6 DEF TypeOK, ui, connection
<1>8. CountersOK' /\ MessagesOK' /\ ShownSound' /\ TokenInv'
  BY <1>2, <1>3 DEF WindowInv, CountersOK, MessagesOK, ShownSound, TokenInv, ui, connection
<1> QED
  BY <1>1, <1>5, <1>7, <1>8 DEF WindowInv

(* A message that is sent is one the window can handle. *)
LEMMA SendOK ==
  ASSUME MessagesOK, IsSeq(channel), NEW m, MessageOK(m), Send(m)
  PROVE  MessagesOK'
<1>1. \A i \in DOMAIN channel' : i \in DOMAIN channel \/ i = Len(channel) + 1
  <2>1. /\ Len(channel) \in Nat /\ DOMAIN channel = 1..Len(channel)
        /\ DOMAIN channel' = 1..(Len(channel) + 1)
    BY SendFacts
  <2> QED
    BY <2>1
<1>2. /\ \A i \in DOMAIN channel : channel'[i] = channel[i]
      /\ channel'[Len(channel) + 1] = m
  BY SendFacts
<1> QED
  BY <1>1, <1>2 DEF MessagesOK

(* The last words of a discovery and of a connection carry no hits. *)
LEMMA OtherMessage ==
  ASSUME WindowInv, NEW m, m.type \in {"MdnsDone", "Toast"}, Send(m),
         UNCHANGED <<forwarder, phase, stream, result, read, heard>>
  PROVE  HitsInv'
<1>1. IsSeq(channel) /\ HitsInv
  BY DEF WindowInv, GuiInv
<1>2. ChannelHits' = ChannelHits
  <2>1. HitsIn(m) = {}
    BY DEF HitsIn, Announcing
  <2> QED
    BY <1>1, <2>1, SendHits
<1>3. Unread' = Unread /\ Scan!Announced' = Scan!Announced
  BY DEF Unread, Scan!Announced
<1>4. \A type : Sent(type)' = Sent(type) \union (IF m.type = type THEN {Len(channel) + 1} ELSE {})
  BY <1>1, SendFacts
<1>5. Sent("ScanDone")' = Sent("ScanDone")
  BY <1>4
<1>6. \A i \in Sent("ScanDone") : channel'[i] = channel[i]
  BY <1>1, SendFacts DEF Sent
<1> QED
  BY <1>1, <1>2, <1>3, <1>5, <1>6 DEF HitsInv

LEMMA DiscoverWindow == ASSUME WindowInv, DiscoverReturns PROVE WindowInv'
<1>1. GuiInv' /\ IsSeq(channel)
  BY SendingStep DEF WindowInv, GuiInv
<1>2. PICK n \in {0, 1} : Send(MdnsDone(n))
  BY DEF DiscoverReturns
<1>3. /\ discovering' = FALSE
      /\ UNCHANGED <<status, services, hits, progress, cancel, log, heard, forwarder, request,
                     token, phase, stream, result, read, jobs, stopped, connecting, connects>>
  BY DEF DiscoverReturns, ui, scan, connection
<1>4. MdnsDone(n).type = "MdnsDone" /\ MessageOK(MdnsDone(n))
  BY DEF MdnsDone, MessageOK
<1>5. MessagesOK'
  BY <1>1, <1>2, <1>4, SendOK DEF WindowInv
<1>6. HitsInv'
  BY <1>2, <1>3, <1>4, OtherMessage
<1>7. ScanOK'
  BY <1>3, ScanKept DEF WindowInv
<1>8. TypeOK' /\ CountersOK' /\ ShownSound' /\ TokenInv'
  BY <1>3 DEF WindowInv, TypeOK, CountersOK, ShownSound, TokenInv
<1> QED
  BY <1>1, <1>5, <1>6, <1>7, <1>8 DEF WindowInv

LEMMA ConnectWindow == ASSUME WindowInv, ConnectReturns PROVE WindowInv'
<1>1. GuiInv' /\ IsSeq(channel)
  BY SendingStep DEF WindowInv, GuiInv
<1>2. /\ Send(Toast) /\ connecting > 0 /\ connecting' = connecting - 1
      /\ UNCHANGED <<status, services, hits, progress, cancel, log, heard, forwarder, request,
                     token, phase, stream, result, read, jobs, stopped, discovering, connects>>
  BY DEF ConnectReturns, ui, scan
<1>3. Toast.type = "Toast" /\ MessageOK(Toast)
  BY DEF Toast, MessageOK
<1>4. MessagesOK'
  BY <1>1, <1>2, <1>3, SendOK DEF WindowInv
<1>5. HitsInv'
  BY <1>2, <1>3, OtherMessage
<1>6. ScanOK'
  BY <1>2, ScanKept DEF WindowInv
<1>7. connecting' \in 0..connects'
  BY <1>2 DEF WindowInv, TypeOK, CountersOK
<1>8. TypeOK' /\ CountersOK' /\ ShownSound' /\ TokenInv'
  BY <1>2, <1>7 DEF WindowInv, TypeOK, CountersOK, ShownSound, TokenInv
<1> QED
  BY <1>1, <1>4, <1>5, <1>6, <1>8 DEF WindowInv

(* A hit that is forwarded goes from the stream to the channel. *)
LEMMA ForwardWindow == ASSUME WindowInv, Forward PROVE WindowInv'
<1> DEFINE e == stream[read + 1]
           m == ScanEvt(e)
<1>1. GuiInv' /\ IsSeq(channel) /\ LastOnce /\ ScanOK /\ TypeOK /\ HitsInv /\ MessagesOK
  BY SendingStep DEF WindowInv, GuiInv
<1>2. /\ forwarder = "forwarding" /\ read < Len(stream) /\ Send(m) /\ read' = read + 1
      /\ UNCHANGED <<status, services, hits, progress, cancel, log, heard, forwarder, request,
                     token, phase, stream, result, jobs, stopped, discovering, connecting, connects>>
  BY DEF Forward, ui, scan, connection
<1>3. IsSeq(stream) /\ read \in 0..Len(stream) /\ Len(stream) \in Nat /\ DOMAIN stream = 1..Len(stream)
  BY <1>1, AppendFacts DEF ScanOK, TypeOK
<1>4. read + 1 \in DOMAIN stream /\ read' \in 0..Len(stream)
  BY <1>2, <1>3
<1>5. EventOK(e)
  BY <1>1, <1>4 DEF ScanOK
<1> HIDE DEF e
<1>6. m.type = "ScanEvt" /\ m.event = e
  BY DEF ScanEvt
<1> HIDE DEF m
<1>7. MessageOK(m) /\ HitsIn(m) = HitOf(e)
  BY <1>5, <1>6 DEF MessageOK, HitsIn, HitOf, Announcing
<1>8. MessagesOK'
  BY <1>1, <1>2, <1>7, SendOK
<1>9. ChannelHits' = ChannelHits \union HitOf(e)
  BY <1>1, <1>2, <1>7, SendHits
<1>10. Unread = Unread' \union HitOf(e)
  BY <1>2, <1>3, ForwardHits DEF e
<1>11. Scan!Announced' = Scan!Announced
  BY <1>2 DEF Scan!Announced
<1>12. Scan!Announced' = heard' \union ChannelHits' \union Unread'
  BY <1>1, <1>2, <1>9, <1>10, <1>11 DEF HitsInv
<1>13. Sent("ScanDone")' = {}
  <2>1. \A type : Sent(type)' = Sent(type) \union (IF m.type = type THEN {Len(channel) + 1} ELSE {})
    BY <1>1, <1>2, SendFacts
  <2>2. Sent("ScanDone") = {}
    BY <1>1, <1>2 DEF LastOnce
  <2> QED
    BY <1>6, <2>1, <2>2
<1>14. HitsInv'
  BY <1>1, <1>2, <1>11, <1>12, <1>13 DEF HitsInv
<1>15. ScanOK'
  BY <1>1, <1>2, ScanKept
<1>16. TypeOK'
  BY <1>1, <1>2, <1>4 DEF TypeOK
<1>17. CountersOK' /\ ShownSound' /\ TokenInv'
  BY <1>2 DEF WindowInv, CountersOK, ShownSound, TokenInv
<1> QED
  BY <1>1, <1>8, <1>14, <1>15, <1>16, <1>17 DEF WindowInv

(* By the time the result is sent, every hit of it is on its way. *)
LEMMA ResultWindow == ASSUME WindowInv, ForwardResult PROVE WindowInv'
<1> DEFINE m == ScanDone(result)
<1>1. GuiInv' /\ IsSeq(channel) /\ LastOnce /\ ScanOK /\ TypeOK /\ HitsInv /\ MessagesOK
  BY SendingStep DEF WindowInv, GuiInv
<1>2. /\ forwarder = "forwarding" /\ phase = "closed" /\ read = Len(stream) /\ Send(m)
      /\ forwarder' = "none" /\ stream' = <<>> /\ result' = {} /\ read' = 0
      /\ UNCHANGED <<status, services, hits, progress, cancel, log, heard, request,
                     token, phase, jobs, stopped, discovering, connecting, connects>>
  BY DEF ForwardResult, StreamEnded, ui, connection
<1>3. m.type = "ScanDone" /\ m.hits = result
  BY DEF ScanDone
<1> HIDE DEF m
<1>4. MessageOK(m) /\ HitsIn(m) = {}
  BY <1>1, <1>3 DEF MessageOK, HitsIn, Announcing, ScanOK
<1>5. MessagesOK'
  BY <1>1, <1>2, <1>4, SendOK
<1>6. ChannelHits' = ChannelHits
  BY <1>1, <1>2, <1>4, SendHits
<1>7. Unread = {}
  BY <1>1, <1>2, NoHits DEF ScanOK
<1>8. result = heard' \union ChannelHits'
  BY <1>1, <1>2, <1>6, <1>7 DEF HitsInv
<1>9. Sent("ScanDone")' = {Len(channel) + 1} /\ channel'[Len(channel) + 1] = m
  <2>1. /\ \A type : Sent(type)' = Sent(type) \union (IF m.type = type THEN {Len(channel) + 1} ELSE {})
        /\ channel'[Len(channel) + 1] = m
    BY <1>1, <1>2, SendFacts
  <2>2. Sent("ScanDone") = {}
    BY <1>1, <1>2 DEF LastOnce
  <2> QED
    BY <1>3, <2>1, <2>2
<1>10. HitsInv'
  BY <1>2, <1>3, <1>8, <1>9 DEF HitsInv
<1>11. IsSeq(stream') /\ DOMAIN stream' = {} /\ Len(stream') = 0
  BY <1>2, NoElements
<1>12. ScanOK'
  BY <1>1, <1>2, <1>11 DEF ScanOK, Scan!Scanning
<1>13. TypeOK'
  BY <1>1, <1>2, <1>11 DEF TypeOK
<1>14. CountersOK' /\ ShownSound' /\ TokenInv'
  BY <1>2 DEF WindowInv, CountersOK, ShownSound, TokenInv
<1> QED
  BY <1>1, <1>5, <1>10, <1>12, <1>13, <1>14 DEF WindowInv

LEMMA PollWindow == ASSUME WindowInv, PollMessages PROVE WindowInv'
<1> DEFINE m == channel[1]
<1>1. /\ GuiInv' /\ IsSeq(channel) /\ LastOnce /\ StatusSound /\ ScanOK /\ TypeOK /\ HitsInv
      /\ MessagesOK /\ ShownSound /\ CountersOK /\ TokenInv
  BY PollStep DEF WindowInv, GuiInv
<1>2. /\ channel # <<>> /\ channel' = Tail(channel)
      /\ UNCHANGED <<discovering, forwarder, request, token, phase, stream, result, read, jobs,
                     stopped, connecting, connects>>
  BY DEF PollMessages, scan, connection
<1>3. /\ Len(channel) \in Nat /\ Len(channel) >= 1 /\ DOMAIN channel = 1..Len(channel)
      /\ Head(channel) = m
      /\ DOMAIN channel' = 1..(Len(channel) - 1)
      /\ \A i \in DOMAIN channel' : channel'[i] = channel[i + 1]
  BY <1>1, <1>2, TailFacts
<1>4. 1 \in DOMAIN channel /\ \A i \in DOMAIN channel' : i + 1 \in DOMAIN channel
  BY <1>3
<1>5. MessageOK(m) /\ MessagesOK'
  BY <1>1, <1>3, <1>4 DEF MessagesOK
<1>6. ChannelHits = ChannelHits' \union HitsIn(m)
  BY <1>1, <1>2, TailHits
<1>7. 1 \in Sent(m.type)
  BY <1>4 DEF Sent
<1>8. HandleMdnsDone(m) \/ HandleScanEvt(m) \/ HandleScanDone(m) \/ HandleToast(m)
  BY <1>3 DEF PollMessages
<1>9. m.type \in {"ScanEvt", "ScanDone"} => status = "PortBusy"
  BY <1>1, <1>4 DEF StatusSound
<1>10. ScanOK'
  BY <1>1, <1>2, ScanKept
<1> HIDE DEF m
<1>11. ASSUME heard' = heard \union HitsIn(m) PROVE HitsInv'
  <2>1. heard' \union ChannelHits' = heard \union ChannelHits
    BY <1>6, <1>11
  <2>2. Unread' = Unread /\ Scan!Announced' = Scan!Announced
    BY <1>2 DEF Unread, Scan!Announced
  <2>3. ASSUME NEW i \in Sent("ScanDone")' PROVE channel'[i].hits = heard \union ChannelHits
    <3>1. i + 1 \in Sent("ScanDone") /\ channel'[i] = channel[i + 1]
      BY <1>3, <1>4, <2>3 DEF Sent
    <3> QED
      BY <1>1, <3>1 DEF HitsInv
  <2>4. Scan!Announced' = heard' \union ChannelHits' \union Unread' <=>
          Scan!Announced = heard \union ChannelHits \union Unread
    BY <2>1, <2>2
  <2> QED
    BY <1>1, <1>2, <2>1, <2>2, <2>3, <2>4 DEF HitsInv
<1>12. ASSUME services' \in {0, 1}, log' \in 0..LogMax, \A h \in hits' : h.kind \in Kinds,
              status' \in {"Idle", "MdnsBusy", "PortBusy"},
              progress'.done \in Nat /\ progress'.total \in Nat, cancel' \in 0..MaxJobs
       PROVE  TypeOK'
  BY <1>1, <1>2, <1>12 DEF TypeOK
<1>13. CountersOK'
  BY <1>1, <1>2 DEF CountersOK
<1>14. ASSUME status' = "PortBusy" => status = "PortBusy" PROVE TokenInv'
  BY <1>1, <1>2, <1>14 DEF TokenInv
<1>15. CASE HandleMdnsDone(m)
  <2>1. /\ m.type = "MdnsDone" /\ services' = m.services /\ status' = "Idle"
        /\ Log(IF m.services = 0 THEN 2 ELSE 1)
        /\ UNCHANGED <<hits, progress, cancel, heard>>
    BY <1>15 DEF HandleMdnsDone, StatusAfterMdns
  <2>2. status # "PortBusy"
    BY <1>1, <1>7, <2>1 DEF StatusSound
  <2>3. services' \in {0, 1} /\ log' \in 0..LogMax
    BY <1>1, <1>5, <2>1, LogStays DEF MessageOK, TypeOK
  <2>4. TypeOK'
    BY <1>1, <1>12, <2>1, <2>3 DEF TypeOK
  <2>5. heard' = heard \union HitsIn(m)
    BY <2>1 DEF HitsIn, Announcing
  <2>6. ShownSound'
    BY <1>1, <2>1, <2>2 DEF ShownSound
  <2> QED
    BY <1>1, <1>5, <1>10, <1>11, <1>13, <1>14, <2>1, <2>4, <2>5, <2>6 DEF WindowInv
<1>16. CASE HandleScanEvt(m)
  <2>1. m.type = "ScanEvt" /\ UNCHANGED <<status, services, hits, cancel>>
    BY <1>16 DEF HandleScanEvt
  <2>2. EventOK(m.event) /\ status = "PortBusy" /\ status' = "PortBusy"
    BY <1>5, <1>9, <2>1 DEF MessageOK
  <2>3. /\ heard' = heard \union HitsIn(m)
        /\ log' \in 0..LogMax
        /\ \/ progress' = progress
           \/ /\ progress' = [done |-> m.event.done, total |-> m.event.total]
              /\ m.event.type = "Progress"
    <3>1. CASE /\ m.event.type = "Progress"
               /\ progress' = [done |-> m.event.done, total |-> m.event.total]
               /\ UNCHANGED <<log, heard>>
      BY <1>1, <3>1 DEF HitsIn, Announcing, TypeOK
    <3>2. CASE /\ m.event.type = "PortHit"
               /\ heard' = heard \union {m.event.hit}
               /\ Log(1)
               /\ UNCHANGED progress
      <4>1. HitsIn(m) = {m.event.hit}
        BY <2>1, <3>2 DEF HitsIn, Announcing
      <4>2. log' \in 0..LogMax
        BY <1>1, <3>2, LogStays DEF TypeOK
      <4> QED
        BY <3>2, <4>1, <4>2
    <3>3. CASE /\ m.event.type \in {"PassStarted", "PassSkipped"}
               /\ Log(1)
               /\ UNCHANGED <<progress, heard>>
      <4>1. HitsIn(m) = {}
        BY <3>3 DEF HitsIn, Announcing
      <4>2. log' \in 0..LogMax
        BY <1>1, <3>3, LogStays DEF TypeOK
      <4> QED
        BY <3>3, <4>1, <4>2
    <3>4. CASE /\ m.event.type = "ThreadsSpawned"
               /\ Log(IF m.event.requested = m.event.actual THEN 0 ELSE 1)
               /\ UNCHANGED <<progress, heard>>
      <4>1. HitsIn(m) = {}
        BY <3>4 DEF HitsIn, Announcing
      <4>2. log' \in 0..LogMax
        BY <1>1, <3>4, LogStays DEF TypeOK
      <4> QED
        BY <3>4, <4>1, <4>2
    <3> QED
      BY <1>16, <3>1, <3>2, <3>3, <3>4 DEF HandleScanEvt
  <2>4. /\ progress'.done \in Nat /\ progress'.total \in Nat
        /\ progress' # NoProgress => progress'.done \in 1..progress'.total
    <3>1. CASE progress' = progress
      BY <1>1, <3>1 DEF TypeOK, ShownSound
    <3>2. CASE progress' = [done |-> m.event.done, total |-> m.event.total]
               /\ m.event.type = "Progress"
      BY <2>2, <3>2 DEF EventOK
    <3> QED
      BY <2>3, <3>1, <3>2
  <2>5. TypeOK'
    BY <1>1, <1>12, <2>1, <2>3, <2>4 DEF TypeOK
  <2>6. ShownSound'
    BY <1>1, <2>1, <2>2, <2>4 DEF ShownSound, NoProgress
  <2> QED
    BY <1>1, <1>5, <1>10, <1>11, <1>13, <1>14, <2>1, <2>3, <2>5, <2>6 DEF WindowInv
<1>17. CASE HandleScanDone(m)
  <2>1. /\ m.type = "ScanDone" /\ hits' = m.hits /\ progress' = NoProgress /\ cancel' = NoToken
        /\ status' = "Idle" /\ Log(1)
        /\ UNCHANGED <<services, heard>>
    BY <1>17 DEF HandleScanDone, TokenAfterScan
  <2>2. log' \in 0..LogMax
    BY <1>1, <2>1, LogStays DEF TypeOK
  <2>3. \A h \in hits' : h.kind \in Kinds
    BY <1>5, <2>1 DEF MessageOK
  <2>4. TypeOK'
    BY <1>1, <1>12, <2>1, <2>2, <2>3, GuiAssumption DEF TypeOK, NoProgress, NoToken
  <2>5. HitsIn(m) = {}
    BY <2>1 DEF HitsIn, Announcing
  <2>6. ChannelHits' = {}
    <3>1. \A i \in DOMAIN channel' : channel'[i].type # "ScanEvt"
      BY <1>1, <2>1 DEF GuiInv, StatusSound
    <3> QED
      BY <3>1 DEF ChannelHits, Announcing
  <2>7. m.hits = heard \union ChannelHits
    BY <1>1, <1>7, <2>1 DEF HitsInv, m
  <2>8. hits' = heard'
    BY <1>6, <2>1, <2>5, <2>6, <2>7
  <2>9. ShownSound'
    BY <2>1, <2>8 DEF ShownSound
  <2> QED
    BY <1>1, <1>5, <1>10, <1>11, <1>13, <1>14, <2>1, <2>4, <2>5, <2>9 DEF WindowInv
<1>18. CASE HandleToast(m)
  <2>1. m.type = "Toast" /\ UNCHANGED <<status, services, hits, progress, cancel, log, heard>>
    BY <1>18 DEF HandleToast, ui
  <2>2. heard' = heard \union HitsIn(m)
    BY <2>1 DEF HitsIn, Announcing
  <2>3. TypeOK' /\ ShownSound'
    BY <1>1, <1>12, <2>1 DEF TypeOK, ShownSound
  <2> QED
    BY <1>1, <1>5, <1>10, <1>11, <1>13, <1>14, <2>1, <2>2, <2>3 DEF WindowInv
<1> QED
  BY <1>8, <1>15, <1>16, <1>17, <1>18

LEMMA WindowStep == WindowInv /\ [Next]_vars => WindowInv'
<1> SUFFICES ASSUME WindowInv, [Next]_vars PROVE WindowInv'
  OBVIOUS
<1>1. CASE \E r \in Requests : StartPortScan(r)
  BY <1>1, StartWindow
<1> QED
  BY <1>1, QuietWindow, RunWindow, DiscoverWindow, ConnectWindow, ForwardWindow, ResultWindow,
     PollWindow DEF Next, Click

(***************************************************************************)
(* Every variable has its type, however the threads interleave; the log    *)
(* never outgrows its bound.                                               *)
(***************************************************************************)
THEOREM WindowTypes == Spec => []TypeOK
<1>1. WindowInv => TypeOK
  BY DEF WindowInv
<1> QED
  BY InitWindow, WindowStep, <1>1, PTL DEF Spec

(***************************************************************************)
(* The hits shown are exactly those that the events of the last scan       *)
(* announced, and the progress bar is that of the running scan: no hit is  *)
(* lost between the workers, the stream, the channel and the window, and   *)
(* nothing of an earlier scan is left.                                     *)
(***************************************************************************)
THEOREM ShownTheorem == Spec => []ShownSound
<1>1. WindowInv => ShownSound
  BY DEF WindowInv
<1> QED
  BY InitWindow, WindowStep, <1>1, PTL DEF Spec

(***************************************************************************)
(* A scan for which the stop button was clicked takes no decision for a    *)
(* pass any more, even if the click came before `run` had a thread: the    *)
(* only pass that can still begin is the one decided on before the click.  *)
(***************************************************************************)
THEOREM HeededTheorem == Spec => StopHeeded
<1> DEFINE Heeded == stopped = jobs /\ status = "PortBusy" /\ jobs' = jobs /\ phase' # phase
                       => /\ phase' \notin {"ready", "clear"}
                          /\ phase' \in {"first", "second"} => phase \in {"ready", "clear"}
<1>1. WindowInv /\ [Next]_vars => [Heeded]_vars
  <2> SUFFICES ASSUME WindowInv, Next, stopped = jobs, status = "PortBusy", jobs' = jobs, phase' # phase
               PROVE  /\ phase' \notin {"ready", "clear"}
                      /\ phase' \in {"first", "second"} => phase \in {"ready", "clear"}
    BY DEF vars
  <2>1. jobs \in Nat
    BY DEF WindowInv, TypeOK
  <2>2. RunStep
    BY <2>1 DEF Next, Click, StartMdnsScan, StartPortScan, StopClick, ConnectClick, PollMessages,
         DiscoverReturns, ConnectReturns, Launch, Forward, ForwardResult, scan
  <2>3. token
    BY <2>2 DEF RunStep, WindowInv, TokenInv
  <2>4. ~Scan!Begin
    BY <2>3 DEF Scan!Begin
  <2>5. Scan!Decide => phase' = "cancelled"
    BY <2>3 DEF Scan!Decide
  <2>6. Scan!FirstPass \/ Scan!SecondPass => phase \in {"ready", "clear"} /\ phase' \in {"first", "second"}
    BY DEF Scan!FirstPass, Scan!SecondPass
  <2>7. Scan!ReturnEmpty \/ Scan!Skip \/ Scan!Finish \/ Scan!Return => phase' \in {"over", "closed"}
    BY DEF Scan!ReturnEmpty, Scan!Skip, Scan!Finish, Scan!Return
  <2>8. ~(Scan!Announce \/ Scan!Report \/ Scan!Spawned)
    BY DEF Scan!Announce, Scan!Report, Scan!Spawned
  <2> QED
    BY <2>2, <2>4, <2>5, <2>6, <2>7, <2>8 DEF RunStep, Scan!Run
<1> QED
  BY InitWindow, WindowStep, <1>1, PTL DEF Spec, StopHeeded
===========================================================================
