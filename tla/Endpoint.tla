----------------------------- MODULE Endpoint -----------------------------
(***************************************************************************)
(* What a scan finds out about one endpoint: the connect of pass 1 and, if *)
(* that timed out, of pass 2 (src/src/scan.rs), and for an open port the   *)
(* two handshakes of `probe` (src/src/detect.rs), each on a connection of  *)
(* its own made with the timeout of the pass.                              *)
(*                                                                         *)
(* The endpoint is the environment: how long it takes to accept is chosen  *)
(* anew for each connection, and its answer arrives in pieces, each within *)
(* the read timeout, until it ends or stalls.                              *)
(***************************************************************************)
EXTENDS Naturals

CONSTANTS
  Servers,    \* the endpoints: see Server
  Lengths,    \* bytes a handshake reads: 24 of an ADB header, 5 of a TLS record
  MaxWaits    \* bound on the history counter `waits`

Handshakes == {"Adb", "Tls"}
AdbKinds == {"Plain", "Tls"}

(* "fast": within fast_timeout; "slow": within slow_timeout; "never": later. *)
Latencies == {"fast", "slow", "never", "refused"}

(* An ADB header: the command ("none": no answer at all), whether magic is  *)
(* its complement, whether the length is over ADB_MAX_PAYLOAD.             *)
Header == [cmd : {"CNXN", "AUTH", "other", "none"}, magic : BOOLEAN, oversize : BOOLEAN]

(* A TLS record: the content type (0: no answer), the bytes of the version. *)
TlsRecord == [type : {22, 21, 0}, major : {3, 0}, minor : 0..5]

(* `is` is the truth: adbd in plain text or over TLS, or anything else.     *)
(* The answers are what it sends, if anything.                             *)
Server ==
  [is : {"Plain", "Tls", "Open"}, latencies : SUBSET Latencies, stalls : BOOLEAN,
   header : Header, record : TlsRecord]

(* What adbd sends: CNXN or AUTH to a CNXN packet, or a TLS record to a    *)
(* ClientHello.                                                            *)
AdbGreetings == {[cmd |-> c, magic |-> TRUE, oversize |-> FALSE] : c \in {"CNXN", "AUTH"}}
TlsGreetings == {[type |-> 22, major |-> 3, minor |-> m] : m \in 1..4}

(***************************************************************************)
(* Only adbd is held to its protocol: it greets in it, and over TLS does   *)
(* not greet in plain text as well.  Other services answer as they like: a *)
(* web server has a ServerHello too, and an echo service sends back the    *)
(* CNXN packet it was sent.                                                *)
(***************************************************************************)
ASSUME EndpointAssumption ==
  /\ \A s \in Servers :
       /\ s \in Server /\ s.latencies # {}
       /\ s.is = "Plain" => s.header \in AdbGreetings
       /\ s.is = "Tls" => s.record \in TlsGreetings /\ s.header \notin AdbGreetings
  /\ Lengths \in [Handshakes -> Nat \ {0}]
  /\ MaxWaits \in Nat

VARIABLES
  server,
  verify,     \* cfg.verify_adb
  pass,
  pc,         \* "connect", "adb connect", "adb read", "tls connect", "tls read", "done"
  got,        \* bytes of the answer read so far
  report,     \* "none" until decided
  waits       \* history: connects, writes and reads, each bounded by a timeout

vars == <<server, verify, pass, pc, got, report, waits>>

Init ==
  /\ server \in Servers
  /\ verify \in BOOLEAN
  /\ pass = 1
  /\ pc = "connect"
  /\ got = 0
  /\ report = "none"
  /\ waits = 0

Wait(n) == waits' = waits + n

Conclude(r) == pc' = "done" /\ report' = r /\ UNCHANGED <<pass, got>>
Proceed(label) == pc' = label /\ got' = 0 /\ UNCHANGED <<pass, report>>

(* The latencies a connect of this pass puts up with. *)
\* Mutant: pass 2 is as impatient as pass 1.
Patience_Fast == {"fast"}
Patience == IF pass = 1 THEN {"fast"} ELSE {"fast", "slow"}

\* Mutant: the probe keeps the fast timeout in pass 2.
ProbePatience_Fast == {"fast"}
ProbePatience == Patience

-----------------------------------------------------------------------------
(* try_connect, and what the worker makes of its outcome. *)
Connect ==
  /\ pc = "connect"
  /\ Wait(1)
  /\ \E latency \in server.latencies :
       \/ /\ latency = "refused"
          /\ Conclude("closed")
       \/ /\ latency \in Patience
          /\ IF verify THEN Proceed("adb connect") ELSE Conclude("Open")
       \/ /\ latency # "refused" /\ latency \notin Patience
          /\ \/ pass = 1 /\ pass' = 2 /\ UNCHANGED <<pc, got, report>>
             \/ pass = 2 /\ Conclude("silent")
  /\ UNCHANGED <<server, verify>>

(* The handshake failed, for whatever reason: try the other, or give up. *)
Failed(h) == IF h = "Adb" THEN Proceed("tls connect") ELSE Conclude("Open")

ReadLabel(h) == IF h = "Adb" THEN "adb read" ELSE "tls read"

(* A fresh connection, and the request written to it. *)
Handshake(h) ==
  /\ pc = (IF h = "Adb" THEN "adb connect" ELSE "tls connect")
  /\ Wait(2)
  /\ \E latency \in server.latencies :
       \/ latency \in ProbePatience /\ Proceed(ReadLabel(h))
       \/ latency \notin ProbePatience /\ Failed(h)
  /\ UNCHANGED <<server, verify>>

Silent(h) == IF h = "Adb" THEN server.header.cmd = "none" ELSE server.record.type = 0

\* Mutant: only CNXN is taken for an answer of adbd.
ValidHeader_CnxnOnly(a) == a.magic /\ a.cmd = "CNXN" /\ ~a.oversize
ValidHeader(a) == a.magic /\ a.cmd \in {"CNXN", "AUTH"} /\ ~a.oversize

ValidRecord(a) == a.type = 22 /\ a.major = 3 /\ a.minor \in 1..4

Valid(h) == IF h = "Adb" THEN ValidHeader(server.header) ELSE ValidRecord(server.record)

Kind(h) == IF h = "Adb" THEN "Plain" ELSE "Tls"

\* Mutant: a read that returns nothing is tried again.
Pieces_Empty(h) == 0..(Lengths[h] - got)
Pieces(h) == 1..(Lengths[h] - got)

(* read_exact: pieces until the answer is complete, each with its timeout. *)
Read(h) ==
  /\ pc = ReadLabel(h)
  /\ ~Silent(h)
  /\ waits < MaxWaits
  /\ Wait(1)
  /\ \E n \in Pieces(h) :
       IF got + n < Lengths[h]
       THEN got' = got + n /\ UNCHANGED <<pass, pc, report>>
       ELSE IF Valid(h) THEN Conclude(Kind(h)) ELSE Failed(h)
  /\ UNCHANGED <<server, verify>>

(* The connection ends or the read times out. *)
ReadFails(h) ==
  /\ pc = ReadLabel(h)
  /\ Silent(h) \/ server.stalls
  /\ Wait(1)
  /\ Failed(h)
  /\ UNCHANGED <<server, verify>>

Next ==
  \/ Connect
  \/ \E h \in Handshakes : Handshake(h) \/ Read(h) \/ ReadFails(h)
  \/ pc = "done" /\ UNCHANGED vars

Spec == Init /\ [][Next]_vars /\ WF_vars(Next)

-----------------------------------------------------------------------------
(***************************************************************************)
(* No device is passed over: an endpoint that accepts every connect within *)
(* the slow timeout is reported, if only as open, whatever becomes of the  *)
(* handshakes of its probe and in whichever pass; and a port that never    *)
(* accepts is not reported as open.                                        *)
(***************************************************************************)
ReachableReported ==
  /\ server.latencies \subseteq {"fast", "slow"} => report \notin {"closed", "silent"}
  /\ report \in AdbKinds \union {"Open"} => server.latencies \intersect {"fast", "slow"} # {}

(***************************************************************************)
(* An ADB endpoint that accepts at a steady pace, fast or slow, and that   *)
(* answers completely is reported with its kind, in whatever pieces the    *)
(* answer comes: a slow one in pass 2, whose probe is as patient as its    *)
(* connect.                                                                *)
(***************************************************************************)
SteadyFound ==
  pc = "done" /\ verify /\ server.is \in AdbKinds
    /\ ~server.stalls /\ server.latencies \in {{"fast"}, {"slow"}} =>
    report = server.is

(***************************************************************************)
(* One endpoint costs a bounded number of timed waits: two connects of the *)
(* passes, two handshakes of a connect and a write, and at most a read per *)
(* byte of each answer.                                                    *)
(***************************************************************************)
WaitsBounded == waits <= 6 + Lengths["Adb"] + Lengths["Tls"]

(***************************************************************************)
(* "without missing slow stacks" (README.md:12): an ADB endpoint whose     *)
(* every connect is accepted within the slow timeout, and that answers, is *)
(* reported as ADB.                                                        *)
(***************************************************************************)
SlowStackFound ==
  pc = "done" /\ verify /\ ~server.stalls /\ server.latencies \subseteq {"fast", "slow"}
    /\ server.is \in AdbKinds => report \in AdbKinds

(***************************************************************************)
(* "verifies the ADB protocol (plaintext CNXN/AUTH) or ADB-over-TLS        *)
(* handshake" (README.md:5): what is reported as ADB over TLS is ADB.      *)
(***************************************************************************)
TlsIsAdb == report = "Tls" => server.is = "Tls"
===========================================================================
