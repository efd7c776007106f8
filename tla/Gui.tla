-------------------------------- MODULE Gui --------------------------------
(***************************************************************************)
(* The window of src/src/gui.rs and the threads it starts: the UI thread   *)
(* that drains the channel of messages and handles clicks, the thread that *)
(* runs `discover`, the thread that forwards the events of `run_streaming` *)
(* and, when the stream has ended, its result, and the threads that run    *)
(* `adb connect`, as many as there were clicks.                            *)
(*                                                                         *)
(* The scan itself is the one ScanStream promises.  Clicks come at any     *)
(* time, also between a message's sending and its handling.  Left out is   *)
(* what only concerns the display: a toast's text, expanded rows, theme,   *)
(* layout; a click that ends in a toast (a target or a range that does not *)
(* parse) changes nothing here.                                            *)
(***************************************************************************)
EXTENDS ScanEvents, SequencesExt

CONSTANTS
  Requests, Cadence,  \* of ScanStream
  LogMax,             \* 300: the entries the log keeps
  Refusals,           \* TRUE: the system may refuse the thread of run_streaming
  MaxJobs             \* bound: discoveries, scans and connections started

ASSUME GuiAssumption ==
  /\ Requests # {}
  /\ Requests \subseteq [items : Nat, threads : Nat, stop : BOOLEAN, verify : BOOLEAN]
  /\ LogMax \in Nat \ {0}
  /\ Refusals \in BOOLEAN
  /\ MaxJobs \in Nat \ {0}

VARIABLES
  status,       \* "Idle", "MdnsBusy", "PortBusy"
  services,     \* how many services the list shows
  hits,         \* the hits shown
  progress,     \* the progress bar, or NoProgress
  cancel,       \* the job whose token the stop button has, or NoToken
  log,          \* how many entries the log keeps
  channel,      \* the Msg's sent and not handled yet
  discovering,  \* the thread of start_mdns_scan runs
  connecting,   \* how many threads of adb_connect run
  forwarder     \* the thread of start_port_scan: "none", "launching", "forwarding", "dead"

(* The scan that the forwarder runs, and how much of it is forwarded. *)
VARIABLES request, token, phase, stream, result, read

(* History: no guard but the bounds reads them. *)
VARIABLES
  jobs,     \* discoveries and scans started; the last one's number is its identity
  connects, \* connections started
  heard,    \* the hits logged since the last scan began
  stopped   \* the job for which the stop button was clicked last

ui == <<status, services, hits, progress, cancel, log, heard>>
scan == <<request, token, phase, stream, result>>
connection == <<connecting, connects>>
vars == <<ui, channel, discovering, connection, forwarder, scan, read, jobs, stopped>>

NoProgress == [done |-> 0, total |-> 0]
NoToken == 0

Scan == INSTANCE ScanStream

Busy == status # "Idle"

MdnsDone(n) == [type |-> "MdnsDone", services |-> n]
ScanEvt(e) == [type |-> "ScanEvt", job |-> jobs, event |-> e]
Toast == [type |-> "Toast"]
ScanDone(h) == [type |-> "ScanDone", job |-> jobs, hits |-> h]

Send(m) == channel' = Append(channel, m)

\* Mutant: one entry too many stays.
Keep_OneMore == LogMax + 1
Keep == LogMax

(* n calls of `log`: the oldest entries go. *)
Log(n) == log' = IF log + n > Keep THEN Keep ELSE log + n

-----------------------------------------------------------------------------
(* App::new starts a discovery. *)
Init ==
  /\ status = "MdnsBusy"
  /\ services = 0 /\ hits = {} /\ progress = NoProgress
  /\ cancel = NoToken
  /\ log = 0
  /\ channel = <<>>
  /\ discovering = TRUE
  /\ forwarder = "none"
  /\ request = (CHOOSE r \in Requests : TRUE)
  /\ token = FALSE /\ phase = "closed" /\ stream = <<>> /\ result = {} /\ read = 0
  /\ connecting = 0 /\ connects = 0
  /\ jobs = 1 /\ heard = {} /\ stopped = 0

(* start_mdns_scan, from the button that is there when nothing is busy. *)
StartMdnsScan ==
  /\ ~Busy /\ jobs + connects < MaxJobs
  /\ status' = "MdnsBusy"
  /\ services' = 0
  /\ discovering' = TRUE
  /\ jobs' = jobs + 1
  /\ UNCHANGED <<hits, progress, cancel, log, heard,
                 channel, connection, forwarder, scan, read, stopped>>

\* Mutant: a scan may be started from a device row during another job.
CanScan_Always == TRUE
CanScan == ~Busy

(* start_port_scan, from the manual form or from a device's row. *)
StartPortScan(r) ==
  /\ CanScan /\ jobs + connects < MaxJobs
  /\ status' = "PortBusy"
  /\ hits' = {} /\ progress' = NoProgress
  /\ cancel' = jobs + 1
  /\ Log(1)
  /\ heard' = {}
  /\ forwarder' = "launching"
  /\ request' = r
  /\ token' = FALSE /\ phase' = "new" /\ stream' = <<>> /\ result' = {} /\ read' = 0
  /\ jobs' = jobs + 1
  /\ UNCHANGED <<services, channel, discovering, stopped, connection>>

(* adb_connect, from a device's row or a hit that is listed. *)
ConnectClick ==
  /\ services > 0 \/ (\E h \in hits : h.kind \in {"Plain", "Tls"})
  /\ jobs + connects < MaxJobs
  /\ Log(1)
  /\ connecting' = connecting + 1 /\ connects' = connects + 1
  /\ UNCHANGED <<status, services, hits, progress, cancel, heard,
                 channel, discovering, forwarder, scan, read, jobs, stopped>>

(* The stop button is there in both busy states, and only scans have a token. *)
StopClick ==
  /\ Busy
  /\ token' = (token \/ cancel # NoToken)
  /\ stopped' = jobs
  /\ UNCHANGED <<ui, channel, discovering, connection, forwarder,
                 request, phase, stream, result, read, jobs>>

-----------------------------------------------------------------------------
(* poll_messages, one message at a time. *)

\* Mutant: a discovery that found nothing leaves the status alone.
StatusAfterMdns_IfFound(n) == IF n = 0 THEN status ELSE "Idle"
StatusAfterMdns(n) == "Idle"

HandleMdnsDone(m) ==
  /\ m.type = "MdnsDone"
  /\ services' = m.services
  /\ status' = StatusAfterMdns(m.services)
  /\ Log(IF m.services = 0 THEN 2 ELSE 1)
  /\ UNCHANGED <<hits, progress, cancel, heard>>

HandleScanEvt(m) ==
  /\ m.type = "ScanEvt"
  /\ \/ /\ m.event.type = "Progress"
        /\ progress' = [done |-> m.event.done, total |-> m.event.total]
        /\ UNCHANGED <<log, heard>>
     \/ /\ m.event.type = "PortHit"
        /\ heard' = heard \union {m.event.hit}
        /\ Log(1)
        /\ UNCHANGED progress
     \/ /\ m.event.type \in {"PassStarted", "PassSkipped"}
        /\ Log(1)
        /\ UNCHANGED <<progress, heard>>
     \/ /\ m.event.type = "ThreadsSpawned"
        /\ Log(IF m.event.requested = m.event.actual THEN 0 ELSE 1)
        /\ UNCHANGED <<progress, heard>>
  /\ UNCHANGED <<status, services, hits, cancel>>

\* Mutant: the token of a scan that is over stays.
TokenAfterScan_Kept == cancel
TokenAfterScan == NoToken

HandleScanDone(m) ==
  /\ m.type = "ScanDone"
  /\ hits' = m.hits
  /\ progress' = NoProgress
  /\ cancel' = TokenAfterScan
  /\ status' = "Idle"
  /\ Log(1)
  /\ UNCHANGED <<services, heard>>

HandleToast(m) == m.type = "Toast" /\ UNCHANGED ui

PollMessages ==
  /\ channel # <<>>
  /\ channel' = Tail(channel)
  /\ \/ HandleMdnsDone(Head(channel))
     \/ HandleScanEvt(Head(channel))
     \/ HandleScanDone(Head(channel))
     \/ HandleToast(Head(channel))
  /\ UNCHANGED <<discovering, forwarder, scan, read, jobs, stopped, connection>>

-----------------------------------------------------------------------------
(* The background threads. *)

DiscoverReturns ==
  /\ discovering
  /\ discovering' = FALSE
  /\ \E n \in {0, 1} : Send(MdnsDone(n))
  /\ UNCHANGED <<ui, forwarder, scan, read, jobs, stopped, connection>>

(* `adb connect` returns, or could not be run; whatever it says is shown. *)
ConnectReturns ==
  /\ connecting > 0
  /\ connecting' = connecting - 1
  /\ Send(Toast)
  /\ UNCHANGED <<ui, discovering, forwarder, scan, read, jobs, stopped, connects>>

\* Mutant: the configuration is built with a token of its own.
AttachToken_Fresh == token' = FALSE
AttachToken == UNCHANGED token

(* The configuration is built and run_streaming called; it panics if the *)
(* system refuses it a thread, and this thread is gone.                  *)
Launch ==
  /\ forwarder = "launching"
  /\ \/ forwarder' = "forwarding"
     \/ Refusals /\ forwarder' = "dead"
  /\ AttachToken
  /\ UNCHANGED <<ui, channel, discovering, connection,
                 request, phase, stream, result, read, jobs, stopped>>

(* `run`, on the thread of run_streaming. *)
RunStep ==
  /\ forwarder = "forwarding"
  /\ Scan!Run
  /\ UNCHANGED <<ui, channel, discovering, forwarder, read, jobs, stopped, connection>>

Forward ==
  /\ forwarder = "forwarding"
  /\ read < Len(stream)
  /\ Send(ScanEvt(stream[read + 1]))
  /\ read' = read + 1
  /\ UNCHANGED <<ui, discovering, forwarder, scan, jobs, stopped, connection>>

\* Mutant: the result is sent as soon as there is one.
StreamEnded_Undrained == phase = "closed"
(* The senders are gone with `run`, and what they sent has been received. *)
StreamEnded == phase = "closed" /\ read = Len(stream)

ForwardResult ==
  /\ forwarder = "forwarding"
  /\ StreamEnded
  /\ Send(ScanDone(result))
  /\ forwarder' = "none"
  /\ stream' = <<>> /\ result' = {} /\ read' = 0
  /\ UNCHANGED <<ui, discovering, request, token, phase, jobs, stopped, connection>>

Click == StartMdnsScan \/ (\E r \in Requests : StartPortScan(r)) \/ StopClick \/ ConnectClick

Next ==
  \/ Click \/ PollMessages
  \/ DiscoverReturns \/ ConnectReturns
  \/ Launch \/ RunStep \/ Forward \/ ForwardResult

(***************************************************************************)
(* The window repaints at least every 250 ms and so polls; `discover` and  *)
(* `run` return (Mdns, Scan), and a thread that can go on does.  Nobody    *)
(* has to click.                                                           *)
(***************************************************************************)
Fairness ==
  /\ WF_vars(PollMessages)
  /\ WF_vars(DiscoverReturns)
  /\ WF_vars(Launch)
  /\ WF_vars(RunStep)
  /\ WF_vars(Forward \/ ForwardResult)

Spec == Init /\ [][Next]_vars /\ Fairness

-----------------------------------------------------------------------------
Sent(type) == {i \in DOMAIN channel : channel[i].type = type}

(***************************************************************************)
(* Every variable has its type; the log never keeps more than LogMax       *)
(* entries, however many messages come in at once.                         *)
(***************************************************************************)
TypeOK ==
  /\ status \in {"Idle", "MdnsBusy", "PortBusy"}
  /\ services \in {0, 1}
  /\ \A h \in hits : h.kind \in Kinds
  /\ progress.done \in Nat /\ progress.total \in Nat
  /\ cancel \in 0..MaxJobs
  /\ log \in 0..LogMax
  /\ discovering \in BOOLEAN
  /\ connecting \in 0..connects
  /\ forwarder \in {"none", "launching", "forwarding", "dead"}
  /\ phase \in Scan!Phases
  /\ read \in 0..Len(stream)
  /\ jobs \in 1..MaxJobs

(***************************************************************************)
(* The status is that of the threads: it is busy with a job exactly while  *)
(* the job's thread runs or its last message is on its way.  So there are  *)
(* never two jobs, and no message of an earlier scan reaches a later one.  *)
(***************************************************************************)
StatusSound ==
  /\ status = "MdnsBusy" <=> discovering \/ Sent("MdnsDone") # {}
  /\ status = "PortBusy" <=> forwarder # "none" \/ Sent("ScanDone") # {}
  /\ \A i \in DOMAIN channel :
       channel[i].type \in {"ScanEvt", "ScanDone"} =>
         status = "PortBusy" /\ channel[i].job = jobs

(***************************************************************************)
(* The stop button has the token of the scan that is running, and of no    *)
(* other: none while a discovery runs, none of a scan that is over.        *)
(***************************************************************************)
CancelSound == cancel = (IF status = "PortBusy" THEN jobs ELSE NoToken)

(***************************************************************************)
(* The hits shown are those of the last scan, all that its events          *)
(* announced and no other; results and progress of a scan are gone when    *)
(* the next one starts, and the progress when it ends.                     *)
(***************************************************************************)
ShownSound ==
  /\ hits = (IF status = "PortBusy" THEN {} ELSE heard)
  /\ progress # NoProgress => status = "PortBusy" /\ progress.done \in 1..progress.total

(***************************************************************************)
(* A scan for which the stop button was clicked takes no decision for a    *)
(* pass any more, even if it was clicked before `run` had a thread; only a *)
(* pass decided on before the click still begins after it.                 *)
(***************************************************************************)
StopHeeded ==
  [][stopped = jobs /\ status = "PortBusy" /\ jobs' = jobs /\ phase' # phase
       => /\ phase' \notin {"ready", "clear"}
          /\ phase' \in {"first", "second"} => phase \in {"ready", "clear"}]_vars

(***************************************************************************)
(* The window is never left busy: each discovery and each scan ends in     *)
(* "Idle", unless the system refused the scan its thread.                  *)
(***************************************************************************)
BusyEnds == Busy ~> (~Busy \/ forwarder = "dead")
===========================================================================
