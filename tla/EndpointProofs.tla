--------------------------- MODULE EndpointProofs ---------------------------
(***************************************************************************)
(* Theorems about Endpoint, for every set of endpoints and every length of *)
(* the two answers: what one endpoint can cost a scan in waiting, that it  *)
(* is never taken for what it is not, and that a steady one is found.      *)
(***************************************************************************)
EXTENDS Endpoint, TLAPS

A == Lengths["Adb"]
T == Lengths["Tls"]

LEMMA LengthsNat == A \in Nat /\ A >= 1 /\ T \in Nat /\ T >= 1
  BY EndpointAssumption DEF A, T, Handshakes

Labels == {"connect", "adb connect", "adb read", "tls connect", "tls read", "done"}

(* The waits there can have been on the way to `label`. *)
Budget(label, p, g, w) ==
  /\ label = "connect" => w <= p - 1
  /\ label = "adb connect" => w <= 2
  /\ label = "adb read" => w <= 4 + g
  /\ label = "tls connect" => w <= 4 + A
  /\ label = "tls read" => w <= 6 + A + g
  /\ w <= 6 + A + T

Fits(label, p, g, w) ==
  /\ label \in Labels /\ p \in {1, 2} /\ g \in Nat /\ w \in Nat
  /\ label = "adb read" => g < A
  /\ label = "tls read" => g < T
  /\ Budget(label, p, g, w)

WaitsInv == Fits(pc, pass, got, waits)

(* One lemma for each label the examination can move to. *)
LEMMA AtDone ==
  ASSUME NEW p \in {1, 2}, NEW g \in Nat, NEW w \in Nat, w <= 6 + A + T
  PROVE  Fits("done", p, g, w)
  BY LengthsNat DEF Fits, Budget, Labels

LEMMA AtAdb ==
  ASSUME NEW p \in {1, 2}, NEW w \in Nat, w <= 2
  PROVE  Fits("adb connect", p, 0, w)
  BY LengthsNat DEF Fits, Budget, Labels

LEMMA AtAdbRead ==
  ASSUME NEW p \in {1, 2}, NEW g \in Nat, NEW w \in Nat, g < A, w <= 4 + g
  PROVE  Fits("adb read", p, g, w)
  BY LengthsNat DEF Fits, Budget, Labels

LEMMA AtTls ==
  ASSUME NEW p \in {1, 2}, NEW w \in Nat, w <= 4 + A
  PROVE  Fits("tls connect", p, 0, w)
  BY LengthsNat DEF Fits, Budget, Labels

LEMMA AtTlsRead ==
  ASSUME NEW p \in {1, 2}, NEW g \in Nat, NEW w \in Nat, g < T, w <= 6 + A + g
  PROVE  Fits("tls read", p, g, w)
  BY LengthsNat DEF Fits, Budget, Labels

LEMMA InitWaits == Init => WaitsInv
  BY LengthsNat DEF Init, WaitsInv, Fits, Budget, Labels

LEMMA ConnectStep == WaitsInv /\ Connect => WaitsInv'
<1> SUFFICES ASSUME WaitsInv, Connect PROVE WaitsInv'
  OBVIOUS
<1>1. pass \in {1, 2} /\ got \in Nat /\ waits \in Nat /\ waits <= pass - 1
  BY DEF Connect, WaitsInv, Fits, Budget
<1>2. waits' = waits + 1
  BY DEF Connect, Wait
<1>3. waits' \in Nat /\ waits' <= pass /\ waits' <= 2 /\ waits' <= 6 + A + T
  BY <1>1, <1>2, LengthsNat
<1>4. \/ pc' = "done" /\ pass' = pass /\ got' = got
      \/ pc' = "adb connect" /\ got' = 0 /\ pass' = pass
      \/ pass = 1 /\ pass' = 2 /\ pc' = "connect" /\ got' = got
  BY DEF Connect, Conclude, Proceed
<1>5. CASE pc' = "done" /\ pass' = pass /\ got' = got
  BY <1>1, <1>3, <1>5, AtDone DEF WaitsInv
<1>6. CASE pc' = "adb connect" /\ got' = 0 /\ pass' = pass
  BY <1>1, <1>3, <1>6, AtAdb DEF WaitsInv
<1>7. CASE pass = 1 /\ pass' = 2 /\ pc' = "connect" /\ got' = got
  <2>1. waits' <= 2 - 1
    BY <1>3, <1>7
  <2> QED
    BY <1>1, <1>3, <1>7, <2>1 DEF WaitsInv, Fits, Budget, Labels
<1> QED
  BY <1>4, <1>5, <1>6, <1>7

LEMMA AdbStep ==
  WaitsInv /\ (Handshake("Adb") \/ Read("Adb") \/ ReadFails("Adb")) => WaitsInv'
<1> SUFFICES ASSUME WaitsInv, Handshake("Adb") \/ Read("Adb") \/ ReadFails("Adb") PROVE WaitsInv'
  OBVIOUS
<1>1. pass \in {1, 2} /\ got \in Nat /\ waits \in Nat
  BY DEF WaitsInv, Fits
<1>2. CASE Handshake("Adb")
  <2>1. waits' = waits + 2 /\ waits <= 2
    BY <1>2 DEF Handshake, Wait, WaitsInv, Fits, Budget
  <2>2. waits' \in Nat /\ waits' <= 4 + 0 /\ waits' <= 4 + A
    BY <1>1, <2>1, LengthsNat
  <2>3. \/ pc' = "adb read" /\ got' = 0 /\ pass' = pass
        \/ pc' = "tls connect" /\ got' = 0 /\ pass' = pass
    BY <1>2 DEF Handshake, Proceed, Failed, ReadLabel
  <2>4. 0 \in Nat /\ 0 < A
    BY LengthsNat
  <2>5. CASE pc' = "adb read" /\ got' = 0 /\ pass' = pass
    BY <1>1, <2>2, <2>4, <2>5, AtAdbRead DEF WaitsInv
  <2>6. CASE pc' = "tls connect" /\ got' = 0 /\ pass' = pass
    BY <1>1, <2>2, <2>6, AtTls DEF WaitsInv
  <2> QED
    BY <2>3, <2>5, <2>6
<1>3. CASE Read("Adb")
  <2>1. waits' = waits + 1 /\ waits <= 4 + got /\ got < A
    BY <1>3 DEF Read, ReadLabel, Wait, WaitsInv, Fits, Budget
  <2>2. waits' \in Nat /\ waits' <= 4 + got + 1 /\ waits' <= 4 + A /\ waits' <= 6 + A + T
    BY <1>1, <2>1, LengthsNat
  <2>3. PICK n \in 1..(A - got) :
          \/ got + n < A /\ got' = got + n /\ pass' = pass /\ pc' = "adb read"
          \/ pc' = "done" /\ pass' = pass /\ got' = got
          \/ pc' = "tls connect" /\ got' = 0 /\ pass' = pass
    BY <1>3 DEF Read, ReadLabel, Pieces, Conclude, Proceed, Failed, A
  <2>4. CASE got + n < A /\ got' = got + n /\ pass' = pass /\ pc' = "adb read"
    <3>1. n \in Nat /\ n >= 1 /\ got \in Nat
      BY <1>1, <2>1, LengthsNat
    <3>2. got' = got + n /\ got + n < A
      BY <2>4
    <3>3. got' \in Nat
      BY <3>1, <3>2
    <3>4. got' < A
      BY <3>2
    <3>5. 4 \in Nat /\ waits' \in Nat /\ waits' <= 4 + got + 1
      BY <2>2, LengthsNat
    <3>6. waits' <= 4 + (got + n)
      BY <3>1, <3>5, LengthsNat
    <3>7. waits' <= 4 + got'
      BY <3>2, <3>6, Zenon
    <3> QED
      BY <1>1, <2>2, <2>4, <3>3, <3>4, <3>7, AtAdbRead DEF WaitsInv
  <2>5. CASE pc' = "done" /\ pass' = pass /\ got' = got
    BY <1>1, <2>2, <2>5, AtDone DEF WaitsInv
  <2>6. CASE pc' = "tls connect" /\ got' = 0 /\ pass' = pass
    BY <1>1, <2>2, <2>6, AtTls DEF WaitsInv
  <2> QED
    BY <2>3, <2>4, <2>5, <2>6
<1>4. CASE ReadFails("Adb")
  <2>1. waits' = waits + 1 /\ waits <= 4 + got /\ got < A
    BY <1>4 DEF ReadFails, ReadLabel, Wait, WaitsInv, Fits, Budget
  <2>2. waits' \in Nat /\ waits' <= 4 + A
    BY <1>1, <2>1, LengthsNat
  <2>3. pc' = "tls connect" /\ got' = 0 /\ pass' = pass
    BY <1>4 DEF ReadFails, Failed, Proceed
  <2> QED
    BY <1>1, <2>2, <2>3, AtTls DEF WaitsInv
<1> QED
  BY <1>2, <1>3, <1>4

LEMMA TlsStep ==
  WaitsInv /\ (Handshake("Tls") \/ Read("Tls") \/ ReadFails("Tls")) => WaitsInv'
<1> SUFFICES ASSUME WaitsInv, Handshake("Tls") \/ Read("Tls") \/ ReadFails("Tls") PROVE WaitsInv'
  OBVIOUS
<1>1. pass \in {1, 2} /\ got \in Nat /\ waits \in Nat
  BY DEF WaitsInv, Fits
<1>2. CASE Handshake("Tls")
  <2>1. waits' = waits + 2 /\ waits <= 4 + A
    BY <1>2 DEF Handshake, Wait, WaitsInv, Fits, Budget
  <2>2. waits' \in Nat /\ waits' <= 6 + A + 0 /\ waits' <= 6 + A + T
    BY <1>1, <2>1, LengthsNat
  <2>3. \/ pc' = "tls read" /\ got' = 0 /\ pass' = pass
        \/ pc' = "done" /\ got' = got /\ pass' = pass
    BY <1>2 DEF Handshake, Proceed, Failed, Conclude, ReadLabel
  <2>4. 0 \in Nat /\ 0 < T
    BY LengthsNat
  <2>5. CASE pc' = "tls read" /\ got' = 0 /\ pass' = pass
    BY <1>1, <2>2, <2>4, <2>5, AtTlsRead DEF WaitsInv
  <2>6. CASE pc' = "done" /\ got' = got /\ pass' = pass
    BY <1>1, <2>2, <2>6, AtDone DEF WaitsInv
  <2> QED
    BY <2>3, <2>5, <2>6
<1>3. CASE Read("Tls")
  <2>1. waits' = waits + 1 /\ waits <= 6 + A + got /\ got < T
    BY <1>3 DEF Read, ReadLabel, Wait, WaitsInv, Fits, Budget
  <2>2. waits' \in Nat /\ waits' <= 6 + A + got + 1 /\ waits' <= 6 + A + T /\ waits' <= 6 + A + T
    BY <1>1, <2>1, LengthsNat
  <2>3. PICK n \in 1..(T - got) :
          \/ got + n < T /\ got' = got + n /\ pass' = pass /\ pc' = "tls read"
          \/ pc' = "done" /\ pass' = pass /\ got' = got
          \/ pc' = "done" /\ got' = got /\ pass' = pass
    BY <1>3 DEF Read, ReadLabel, Pieces, Conclude, Failed, T
  <2>4. CASE got + n < T /\ got' = got + n /\ pass' = pass /\ pc' = "tls read"
    <3>1. n \in Nat /\ n >= 1 /\ got \in Nat
      BY <1>1, <2>1, LengthsNat
    <3>2. got' = got + n /\ got + n < T
      BY <2>4
    <3>3. got' \in Nat
      BY <3>1, <3>2
    <3>4. got' < T
      BY <3>2
    <3>5. 6 + A \in Nat /\ waits' \in Nat /\ waits' <= 6 + A + got + 1
      BY <2>2, LengthsNat
    <3>6. waits' <= 6 + A + (got + n)
      BY <3>1, <3>5, LengthsNat
    <3>7. waits' <= 6 + A + got'
      BY <3>2, <3>6, Zenon
    <3> QED
      BY <1>1, <2>2, <2>4, <3>3, <3>4, <3>7, AtTlsRead DEF WaitsInv
  <2>5. CASE pc' = "done" /\ pass' = pass /\ got' = got
    BY <1>1, <2>2, <2>5, AtDone DEF WaitsInv
  <2>6. CASE pc' = "done" /\ got' = got /\ pass' = pass
    BY <1>1, <2>2, <2>6, AtDone DEF WaitsInv
  <2> QED
    BY <2>3, <2>4, <2>5, <2>6
<1>4. CASE ReadFails("Tls")
  <2>1. waits' = waits + 1 /\ waits <= 6 + A + got /\ got < T
    BY <1>4 DEF ReadFails, ReadLabel, Wait, WaitsInv, Fits, Budget
  <2>2. waits' \in Nat /\ waits' <= 6 + A + T
    BY <1>1, <2>1, LengthsNat
  <2>3. pc' = "done" /\ got' = got /\ pass' = pass
    BY <1>4 DEF ReadFails, Failed, Conclude
  <2> QED
    BY <1>1, <2>2, <2>3, AtDone DEF WaitsInv
<1> QED
  BY <1>2, <1>3, <1>4

LEMMA WaitsStep == WaitsInv /\ [Next]_vars => WaitsInv'
<1> SUFFICES ASSUME WaitsInv, [Next]_vars PROVE WaitsInv'
  OBVIOUS
<1>1. CASE UNCHANGED vars
  BY <1>1 DEF vars, WaitsInv
<1> QED
  BY <1>1, ConnectStep, AdbStep, TlsStep DEF Next, Handshakes

(***************************************************************************)
(* Examining one endpoint takes a bounded number of timed waits, however   *)
(* slowly it accepts and in however small pieces it answers: what keeps    *)
(* one peer from holding a worker for ever.                                *)
(***************************************************************************)
THEOREM WaitsTheorem == Spec => []WaitsBounded
<1>1. WaitsInv => WaitsBounded
  BY DEF WaitsInv, Fits, Budget, WaitsBounded, A, T
<1> QED
  BY InitWaits, WaitsStep, <1>1, PTL DEF Spec
-----------------------------------------------------------------------------
(* The greetings of adbd pass the program's checks, and over TLS only the  *)
(* second of them.                                                         *)
LEMMA GreetingsRecognised ==
  ASSUME NEW s \in Servers
  PROVE  /\ s.is = "Plain" => ValidHeader(s.header)
         /\ s.is = "Tls" => ValidRecord(s.record) /\ ~ValidHeader(s.header)
<1>1. /\ s \in Server
      /\ s.is = "Plain" => s.header \in AdbGreetings
      /\ s.is = "Tls" => s.record \in TlsGreetings /\ s.header \notin AdbGreetings
  BY EndpointAssumption
<1>2. s.header \in Header /\ s.record \in TlsRecord
  BY <1>1 DEF Server
<1>3. ValidHeader(s.header) <=> s.header \in AdbGreetings
  BY <1>2 DEF Header, ValidHeader, AdbGreetings
<1>4. ValidRecord(s.record) <=> s.record \in TlsGreetings
  BY <1>2 DEF TlsRecord, ValidRecord, TlsGreetings
<1> QED
  BY <1>1, <1>3, <1>4

Accepts == server.latencies \intersect {"fast", "slow"} # {}
Steady ==
  server.is \in AdbKinds /\ ~server.stalls /\ server.latencies \in {{"fast"}, {"slow"}}

(* It accepts in time, though now within one timeout and then within the other. *)
Reachable == server.latencies \subseteq {"fast", "slow"}

Probing == {"adb connect", "adb read", "tls connect", "tls read"}

(***************************************************************************)
(* The strengthening: the probe is only made of a port that accepted, and  *)
(* in a pass patient enough for a steady one; the TLS handshake of a       *)
(* steady ADB endpoint is only reached if it is not adbd in plain text.    *)
(***************************************************************************)
KindInv ==
  /\ server \in Servers
  /\ pc \in Labels
  /\ pc # "done" => report = "none"
  /\ pc \in Probing => verify /\ Accepts /\ (Steady /\ server.latencies = {"slow"} => pass # 1)
  /\ pc \in {"tls connect", "tls read"} /\ Steady => server.is # "Plain"
  /\ Reachable => report \notin {"closed", "silent"}
  /\ report \in AdbKinds \union {"Open"} => Accepts
  /\ pc = "done" /\ verify /\ Steady => report = server.is

LEMMA InitKind == Init => KindInv
  BY DEF Init, KindInv, Labels, Probing, AdbKinds

LEMMA ConnectKind == ASSUME KindInv, Connect PROVE KindInv'
<1>1. server' = server /\ verify' = verify /\ server \in Servers /\ report = "none"
  BY DEF Connect, KindInv
<1>2. (Accepts' <=> Accepts) /\ (Steady' <=> Steady) /\ (Reachable' <=> Reachable)
  BY <1>1 DEF Accepts, Steady, Reachable
<1>3. PICK latency \in server.latencies :
       \/ /\ latency = "refused"
          /\ Conclude("closed")
       \/ /\ latency \in Patience
          /\ IF verify THEN Proceed("adb connect") ELSE Conclude("Open")
       \/ /\ latency # "refused" /\ latency \notin Patience
          /\ \/ pass = 1 /\ pass' = 2 /\ UNCHANGED <<pc, got, report>>
             \/ pass = 2 /\ Conclude("silent")
  BY DEF Connect
<1>4. Steady => latency \in {"fast", "slow"} /\ (latency = "slow" <=> server.latencies = {"slow"})
  BY DEF Steady
<1>11. Reachable => latency \in {"fast", "slow"}
  BY DEF Reachable
<1>5. "fast" \in Patience /\ (pass # 1 => "slow" \in Patience) /\ Patience \subseteq {"fast", "slow"}
      /\ (pass = 1 => "slow" \notin Patience)
  BY DEF Patience
<1>6. CASE latency = "refused" /\ Conclude("closed")
  <2>1. pc' = "done" /\ report' = "closed" /\ ~Steady /\ ~Reachable
    BY <1>4, <1>11, <1>6 DEF Conclude
  <2> QED
    BY <1>1, <1>2, <2>1 DEF KindInv, Labels, Probing, AdbKinds
<1>7. CASE latency \in Patience /\ verify /\ Proceed("adb connect")
  <2>1. pc' = "adb connect" /\ report' = "none" /\ pass' = pass
    BY <1>1, <1>7 DEF Proceed
  <2>2. Accepts
    BY <1>3, <1>5, <1>7 DEF Accepts
  <2>3. Steady /\ server.latencies = {"slow"} => pass # 1
    BY <1>4, <1>5, <1>7
  <2> QED
    BY <1>1, <1>2, <1>7, <2>1, <2>2, <2>3 DEF KindInv, Labels, Probing, AdbKinds
<1>8. CASE latency \in Patience /\ ~verify /\ Conclude("Open")
  <2>1. pc' = "done" /\ report' = "Open"
    BY <1>8 DEF Conclude
  <2>2. Accepts
    BY <1>3, <1>5, <1>8 DEF Accepts
  <2> QED
    BY <1>1, <1>2, <1>8, <2>1, <2>2 DEF KindInv, Labels, Probing, AdbKinds
<1>9. CASE pass = 1 /\ pass' = 2 /\ UNCHANGED <<pc, got, report>>
  <2>1. pc' = "connect" /\ report' = "none"
    BY <1>1, <1>9 DEF Connect
  <2> QED
    BY <1>1, <1>2, <2>1 DEF KindInv, Labels, Probing, AdbKinds
<1>10. CASE latency # "refused" /\ latency \notin Patience /\ pass = 2 /\ Conclude("silent")
  <2>1. pc' = "done" /\ report' = "silent"
    BY <1>10 DEF Conclude
  <2>2. ~Steady /\ ~Reachable
    BY <1>4, <1>11, <1>5, <1>10
  <2> QED
    BY <1>1, <1>2, <2>1, <2>2 DEF KindInv, Labels, Probing, AdbKinds
<1> QED
  BY <1>3, <1>6, <1>7, <1>8, <1>9, <1>10

(* A handshake that fails, of an endpoint it was not meant for.            *)
LEMMA FailedKind ==
  ASSUME KindInv, UNCHANGED <<server, verify>>,
         NEW h \in Handshakes, Failed(h),
         h = "Adb" => pc \in {"adb connect", "adb read"},
         h = "Tls" => pc \in {"tls connect", "tls read"},
         Steady => server.is # Kind(h)
  PROVE  KindInv'
<1>1. (Accepts' <=> Accepts) /\ (Steady' <=> Steady) /\ (Reachable' <=> Reachable) /\ server \in Servers
  BY DEF Accepts, Steady, Reachable, KindInv
<1>2. pc \in Probing /\ report = "none"
  BY DEF KindInv, Probing, Handshakes
<1>3. CASE h = "Adb"
  <2>1. pc' = "tls connect" /\ report' = "none" /\ pass' = pass /\ (Steady => server.is # "Plain")
    BY <1>2, <1>3 DEF Failed, Proceed, Kind
  <2> QED
    BY <1>1, <1>2, <2>1 DEF KindInv, Labels, Probing, AdbKinds
<1>4. CASE h = "Tls"
  <2>1. pc' = "done" /\ report' = "Open"
    BY <1>4 DEF Failed, Conclude
  <2>2. ~Steady
    BY <1>4 DEF Kind, KindInv, Steady, AdbKinds
  <2> QED
    BY <1>1, <1>2, <2>1, <2>2 DEF KindInv, Labels, Probing, AdbKinds
<1> QED
  BY <1>3, <1>4 DEF Handshakes

LEMMA HandshakeKind == ASSUME KindInv, NEW h \in Handshakes, Handshake(h) PROVE KindInv'
<1>1. /\ server' = server /\ verify' = verify
      /\ pc = (IF h = "Adb" THEN "adb connect" ELSE "tls connect")
  BY DEF Handshake
<1>2. PICK latency \in server.latencies :
       \/ latency \in ProbePatience /\ Proceed(ReadLabel(h))
       \/ latency \notin ProbePatience /\ Failed(h)
  BY DEF Handshake
<1>3. pc \in Probing /\ report = "none"
  BY <1>1 DEF KindInv, Probing
<1>4. CASE Proceed(ReadLabel(h))
  <2>1. (Accepts' <=> Accepts) /\ (Steady' <=> Steady) /\ (Reachable' <=> Reachable)
    BY <1>1 DEF Accepts, Steady, Reachable
  <2>2. /\ pc' = ReadLabel(h) /\ report' = "none" /\ pass' = pass
        /\ pc' \in {"adb read", "tls read"}
        /\ pc' = "tls read" => pc = "tls connect"
    BY <1>1, <1>3, <1>4 DEF Proceed, ReadLabel
  <2> QED
    BY <1>1, <1>3, <2>1, <2>2 DEF KindInv, Labels, Probing, AdbKinds
<1>5. CASE latency \notin ProbePatience /\ Failed(h)
  <2>1. ~Steady
    <3> SUFFICES ASSUME Steady PROVE FALSE
      OBVIOUS
    <3>1. pass = 1 => latency = "fast"
      BY <1>2, <1>3 DEF Steady, KindInv
    <3> QED
      BY <1>2, <1>5, <3>1 DEF Steady, ProbePatience, Patience
  <2> QED
    BY <1>1, <1>5, <2>1, FailedKind DEF Handshakes
<1> QED
  BY <1>2, <1>4, <1>5

LEMMA ReadKind == ASSUME KindInv, NEW h \in Handshakes, Read(h) PROVE KindInv'
<1>1. /\ server' = server /\ verify' = verify /\ server \in Servers
      /\ pc = ReadLabel(h)
  BY DEF Read, KindInv
<1>2. (Accepts' <=> Accepts) /\ (Steady' <=> Steady) /\ (Reachable' <=> Reachable)
  BY <1>1 DEF Accepts, Steady, Reachable
<1>3. pc \in Probing /\ report = "none"
  BY <1>1 DEF ReadLabel, KindInv, Probing
<1>4. Steady => (Valid(h) <=> server.is = Kind(h))
  <2>1. CASE h = "Adb"
    BY <1>1, <2>1, GreetingsRecognised DEF Valid, Kind, Steady, AdbKinds
  <2>2. CASE h = "Tls"
    <3>1. Steady => server.is = "Tls"
      BY <1>1, <2>2 DEF ReadLabel, KindInv, Steady, AdbKinds
    <3> QED
      BY <1>1, <2>2, <3>1, GreetingsRecognised DEF Valid, Kind
  <2> QED
    BY <2>1, <2>2 DEF Handshakes
<1>5. \/ UNCHANGED <<pass, pc, report>>
      \/ Valid(h) /\ Conclude(Kind(h))
      \/ ~Valid(h) /\ Failed(h)
  BY DEF Read
<1>6. CASE UNCHANGED <<pass, pc, report>>
  BY <1>1, <1>2, <1>3, <1>6 DEF KindInv
<1>7. CASE Valid(h) /\ Conclude(Kind(h))
  <2>1. pc' = "done" /\ report' = Kind(h) /\ (Steady => Kind(h) = server.is) /\ Accepts
    BY <1>3, <1>4, <1>7 DEF Conclude, KindInv
  <2>2. Kind(h) \notin {"closed", "silent"}
    BY DEF Kind
  <2> QED
    BY <1>1, <1>2, <2>1, <2>2 DEF KindInv, Labels, Probing
<1>8. CASE ~Valid(h) /\ Failed(h)
  BY <1>1, <1>4, <1>8, FailedKind DEF Handshakes, ReadLabel
<1> QED
  BY <1>5, <1>6, <1>7, <1>8

LEMMA ReadFailsKind == ASSUME KindInv, NEW h \in Handshakes, ReadFails(h) PROVE KindInv'
<1>1. /\ server' = server /\ verify' = verify /\ server \in Servers
      /\ pc = ReadLabel(h) /\ Failed(h)
      /\ Silent(h) \/ server.stalls
  BY DEF ReadFails, KindInv
<1>2. Silent(h) => ~Valid(h)
  BY DEF Silent, Valid, ValidHeader, ValidRecord
<1>3. server.is = Kind(h) => Valid(h)
  BY <1>1, GreetingsRecognised DEF Valid, Kind, Handshakes
<1>4. Steady => server.is # Kind(h)
  BY <1>1, <1>2, <1>3 DEF Steady
<1> QED
  BY <1>1, <1>4, FailedKind DEF Handshakes, ReadLabel

LEMMA KindStep == KindInv /\ [Next]_vars => KindInv'
<1> SUFFICES ASSUME KindInv, [Next]_vars PROVE KindInv'
  OBVIOUS
<1>1. CASE UNCHANGED vars
  BY <1>1 DEF vars, KindInv, Accepts, Steady, Reachable
<1> QED
  BY <1>1, ConnectKind, HandshakeKind, ReadKind, ReadFailsKind DEF Next

(***************************************************************************)
(* An endpoint that accepts every connect within the slow timeout is never *)
(* reported as closed nor given up as silent, and one that never accepts   *)
(* is never reported: whatever either answers, in whatever pieces, and     *)
(* whichever connects of the pass and of the probe time out.               *)
(***************************************************************************)
THEOREM ReachableTheorem == Spec => []ReachableReported
<1>1. KindInv => ReachableReported
  BY DEF KindInv, ReachableReported, Accepts, Reachable
<1> QED
  BY InitKind, KindStep, <1>1, PTL DEF Spec

(***************************************************************************)
(* Every ADB endpoint that accepts at a steady pace and answers all is     *)
(* reported as what it is: a slow one too, since the probe of pass 2 waits *)
(* as long as its connect did.                                             *)
(***************************************************************************)
THEOREM SteadyTheorem == Spec => []SteadyFound
<1>1. KindInv => SteadyFound
  BY DEF KindInv, SteadyFound, Steady
<1> QED
  BY InitKind, KindStep, <1>1, PTL DEF Spec
===========================================================================
