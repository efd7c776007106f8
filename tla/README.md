# adb_portscan: specification and proofs

TLA+ models of the scanner, of the mDNS discovery and its packet parser, of the
thread planning, of the protocol probe, of the command line and of the window in `src/`, the TLC configurations that
check them, and TLAPS proofs of what matters most for every value of the
constants. Source lines are written `file:line`, the files being those under
`src/src/`.

## 1. The system

`adb_portscan` looks for ADB endpoints. A scan takes a list of targets and a
list of ports and examines every pair with a pool of threads, in two passes: a
fast one, and a patient one over the pairs that did not answer. A discovery asks
the local network over mDNS. A window starts either and shows what comes back.

| Component | State it keeps | Operations | Talks to |
|---|---|---|---|
| `scan.rs` `run`, `pass` | work list; shared counters `next`, `scanned`; locked lists `hits`, `pending`; `local_stop`; a cancellation token | `run`, `pass`, `cancel` | workers share atomics and locks with each other and the caller's thread; `on_event` callback |
| `scan.rs` `run_streaming` | a channel | turns the callback into a stream | the caller, through the channel and a join handle |
| `scan.rs` `ScanCfgBuilder`, `threads.rs`, `cli.rs` `ThreadArg` | a configuration under construction and which fields were set | setters, `build`, `resolve`, `auto_threads` | `platform.rs` (memory) |
| `detect.rs`, `try_connect` | none beyond a connection | `probe`, `try_adb`, `try_tls`, `verify_adb_header` | one endpoint |
| `mdns.rs` `discover` | record tables, resend flag, deadline | `discover` | the network |
| `mdns.rs` `parse_message`, `Cursor` | positions in a packet, counts, a budget | `parse_message`, `read_name` | `discover` |
| `gui.rs` | status, services, hits, progress, token, log; the message channel | clicks, `poll_messages`, the discovery thread, the forwarding thread, `adb connect` | all of the above |
| `cli.rs` `parse_args`, `gui.rs` `GuiOptions` | the locals of the parse; the fields of the window | flags, the pre-fill, edits, the settings panel, the launch of a scan | `target.rs`, `ports.rs`, `scan.rs` |
| `target.rs`, `ports.rs` | none | parsing, CIDR expansion, the port order | `cli.rs`, `gui.rs` |

What is hard about them:

* **Scan.** Workers and the caller race on relaxed atomics and two lists.
  A worker looks at the stop flags three times and acts on what it saw; it
  announces a hit before it records it; it increments a counter before it reports
  it. The decision about pass 2 is taken from other data than the workers' flag.
  A thread may be refused, a callback may panic, a token may be set at any moment.
* **Endpoint.** Three connections with the timeout of the pass, two answers read
  in pieces with a timeout for each.
* **Discovery.** Packets are lost, repeated (the program itself asks twice),
  reordered and cut short, and carry the three records of a service in any split.
* **Thread planning.** Setters that may be called in any order and interact; a
  memory cap whose own result changes the quantity it is computed from.
* **Packets.** Names are spelt out or compressed by pointers that may lead
  anywhere, themselves included; the data of a record has a length of its own.
* **Command line to scan.** The same settings exist as arguments, as options, as
  texts in the window and as a configuration, with a conversion between each two
  and edits in between.
* **Window.** Clicks, and messages that were sent before the click; a token that
  belongs to one scan; a status that only a last message resets.

What makes each correct is stated as the properties of section 3.

## 2. The modules

```
ScanEvents         the vocabulary of events and hits
 |-- ScanStream    abstract: the stream and the result a caller can rely on
 |    `-- Gui      the window, built on ScanStream            MCGui
 |         `-- GuiProofs                                      theorems
 `-- Scan          run and pass, step by step                 MCScan
      |-- implements ScanStream and ScanContract (refinement)
      `-- ScanProofs, ScanEventProofs                         theorems
ScanContract       abstract: what becomes of the items of a scan
Endpoint           one endpoint: connects, probe              MCEndpoint
 `-- EndpointProofs                                           theorems
Mdns               discover                                   MCMdns
 `-- MdnsProofs                                               theorems
Message            parse_message, byte by byte                MCMessage
 `-- MessageProofs                                            theorems
Targets            parse_targets, default_ports
 `-- Session       command line, fields, launch of a scan     MCSession
      `-- SessionProofs                                       theorems
ThreadPlan         builder, auto_threads, ThreadArg           MCThreadPlan
 `-- ThreadPlanProofs                                         theorems
```

The MC modules only hold values for the constants. Operators whose name has a
suffix (`Exhausted_OffByOne`) stand before the definition they vary and say what
plausible mistake they are; nothing else uses them.

### Scan

One action per access to shared state. The caller's thread is `main`: *start* (the
token is read, `scan.rs:282`), *announce* (`:286`), *spawn* (the loop of `scan.rs:406`),
*join*, *decide* (the token is read again, `:318`), *cancelled* or *uncancelled*, the label
being the local `cancelled` (pass 2 is announced, `:320`, or skipped, `:343`),
*collect*. A cancellation may fall between a reading and the event that follows from it. A worker's `pc` goes *top* (first look at the flags), *claim*
(`fetch_add`), *connect* (its outcome is chosen by the environment), *probe*,
*emit*, *push*, *store*, *count*, *progress*. A connect or a probe, which touches
only locals, is part of the access that follows it.

* A work item is its position in the flattened list; which target and port it is
  does not matter to any property. Ties in the final order are by display text
  and port in the code and by position here. `sort_by_key` is modelled by what it
  promises (`Sorted`): a rearrangement of the list that is in order.
* The relaxed atomics are interleaved. All of them are single locations, a later
  load may in principle see an older value for a while, and the bounds on late
  claims are for the interleaved reading. `should_stop` reads two flags; both only
  ever go from false to true, so the two loads are one step.
* `cfg.threads` may be 0, as the field is public.
* `Faults` says what the environment may do: `"spawn"`, refuse a thread at any
  point (`scan.rs:476`); `"panic"`, let the callback panic in a worker
  (`scan.rs:450`, `:464`). The lock is not held there, so it is not poisoned. A
  callback that panics on the thread of `run` unwinds `run` itself and is left out.
* `fate`, `late` and `degraded` are history variables. `degraded` marks a pass of
  which no worker left its loop normally.

`ScanContract` forgets workers and passes: each item is decided once, by its first
answer or, deferred, by a second look that comes after every first one; an item is
given up only when the scan is halted. `ScanStream` keeps what a caller of
`run_streaming` sees; its `phase` goes *new*, *ready* (decided, not announced yet), *first*,
*clear* or *cancelled* (what the second reading of the token said), *second*, *over*,
*closed*. A pass may be announced after a cancellation, but only one that was decided on
before it. `Scan` implements both (`ImplementsContract`,
`ImplementsStream`); the refinement mappings are at the end of the module.

### Gui

The UI thread's clicks and its handling of one message, the discovery thread, the
forwarding thread of `start_port_scan`, and `run`, which is `ScanStream!Run`. The
channel is a queue of messages; `read` is how far the forwarder has got in the
stream. The stream ends when `run` has returned: `run` and every worker hold a
clone of the configuration and so of the sender, the workers are joined before
`run` returns, hence the last sender goes with `run` (`scan.rs:375-382`). This is an argument from the
code, not a result of the model: a sender that is kept elsewhere would not be noticed.
The stop button during a discovery, when there is no token, does nothing, in the code and here.
`adb connect` runs on a thread of its own for each click and ends in a toast, a
message among the others. `MaxJobs` bounds the jobs and connections a user starts;
`heard`, `stopped` and `connects` are history. The text of toasts, expanded rows and
drawing are left out; the fields are Session's. A refused thread in `gui.rs:198` or `:248` panics on the UI thread and ends the
program; it is left out too.

### Mdns

A packet is a sequence of records; the network may deliver any packet of a given
set at any time, any number of times. `Unreadable` stands for whatever makes
`parse_message` return early, `Ignored` for a record it reads over. The clock has
three values, as the code compares it with two instants. Packets that say nothing to the
program (`ReceiveOther`) may arrive without end; `MaxPackets` bounds only those whose records
are kept in `received`. `quiet` is whether the last receive timed out. `push` followed by a stable sort of
a list that was sorted is an insertion (`InsertAddr`). `rounds` and `received` are
history.

### Message

What `Mdns` takes for granted, that a packet is a sequence of records some of which
cannot be read, is checked here from the bytes up. One step is one turn of the loop of
`read_name` or the code between two names. `pos` is the cursor of `parse_message`,
`name.at` that of `read_name`, and the cursors for the data of PTR and SRV records
exist only as `reading`. An index or a slice beyond the packet, which would panic, is
recorded in the history variable `touched`. Whether a label is UTF-8 is asked of the
constant `Utf8`, as the standard library decides it. The counts of the header are kept
as a sum, as only `total_rr` is used.

What a sender writes is described apart from the parser, and the parser sees nothing of
it: a `message` has, besides its bytes, a table `names` of the names that begin at some
offset (how each reads, where it ends, how many labels and pointers it takes), the
offsets `ends` at which its items end, and `read`, what its records up to each item
say. `Written` says what makes these right, entry by entry and item by item, as RFC 1035
has it: a name is the root, a label before a name, or a pointer to a name that ends before
it. `Sound` packets are such a message or any beginning of it. A name of 100 or more turns
is not `Written`, since the program refuses it.

### Targets and Session

`Targets` has the pure functions: a text of the user is a record that says which
branch of `parse_targets` takes it, an address `<<4, n>>` or `<<6, n>>`. The widths
(32 bits, 65536 addresses, 65535 ports) and the segments of `default_ports` are
constants; a shift is the recursive function `Shl`, and the four loops that push ports
are `PushAll`. A list of addresses that comes from a resolver or from a device's records may
have one twice. `Session` parses a command line one argument per step (`args` are the
locals of `parse_args`), opens the window with fields made of the options, lets the
user edit them, and makes a configuration of them at a click; a host name resolves
anew each time it is asked for. `fields` are the `opts` of `App`, `scan` is the
configuration the scan's thread owns. What a job does is Gui's matter; here it only
keeps the window busy. The thread count is kept as the `ThreadArg`, which
`ThreadPlan` resolves. `given`, `options`, `asked` and `touches` are history; the first two
are forgotten when a field is changed, as `App` keeps no trace of the command line.
The settings panel clamps the timeouts as soon as it is drawn. `"max"` cannot be typed
there letter by letter, as the field is rewritten at each frame; it can be pasted,
which is why the model offers it.

### Endpoint

One endpoint of a given behaviour and the connects and reads of both passes. How
long it takes to accept is chosen anew for each connection out of its set of
latencies. A write that fails is treated as the read that would follow it: both
end in the same branch. The stop flag, which may end the examination in between, is
Scan's matter. What an endpoint *is* does not depend on what it answers: only adbd is
held to its protocol (`EndpointAssumption`), any other service may answer as it likes. Among the
instances are a web server, whose ServerHello is the one of adbd, and a service that echoes
what it is sent. The first is reported as ADB over TLS, the second, whose echo of the
program's own CNXN packet passes `verify_adb_header`, as plain ADB.

### ThreadPlan

`Machines` gives the cores and the memory, counted in 64 KiB so that every size of
the code is a whole number. A step is a setter or `build`. The setters that only
assign a field are left out. On the machine sizes considered no product exceeds
the code's 64 bits.

## 3. Properties and runs

| Run | Instance | Checks |
|---|---|---|
| `scan_core` | 3 items, 2 threads, progress every 2 items, no faults | `TypeOK`, `HitsMatchEvents`, `ResultRanked`, `StopFlagSound`, `ScanComplete`, `StopBound`, `LateBound`, `EventOrder`, `ProgressSound`, `SkipExplained` |
| `scan_faults` | 0 to 2 items, 0 to 2 threads, progress every 2 items, refused threads and panics | `HitsMatchEvents`, `StopFlagSound`, `ScanComplete`, `RunReturns`, `ImplementsContract`, `ImplementsStream` |
| `gui` | a discovery and two more jobs or a job and a connection, one request: one item, stopping at a hit | `TypeOK`, `StatusSound`, `CancelSound`, `ShownSound`, `StopHeeded`, `BusyEnds` |
| `mdns` | five packets of two devices, up to four received, any number of others | `TypeOK`, `Complete`, `Faithful`, `NoDuplicates`, `DiscoverReturns` |
| `message` | two packets, cut at each byte or with one byte changed | `NeverPanics`, `RoundTrip`, `Returns` |
| `session` | up to 3 of 28 arguments, 2 changes of fields, 5-bit addresses, 11 ports | `LastWordCounts`, `PrefilledScan`, `WorkExact` |
| `endpoint` | nine behaviours, every set of latencies, 24 and 5 byte answers | `ReachableReported`, `SteadyFound`, `WaitsBounded` |
| `threads` | 60 machines, 8 work sizes, up to 3 setter calls, the numbers of the code | `OrderIrrelevant`, `PlanBounded`, `MemoryBounded` |
| `threads_memory` | many cores, 700 MB | `MemoryRespected` is violated |
| `endpoint_slow` | as `endpoint` | `SlowStackFound` is violated |
| `endpoint_https` | adbd over TLS and a web server | `TlsIsAdb` is violated |
| `session_prefilled` | as `session` | `PrefilledWhole` is violated |

Why the bounds are enough. Two workers give every pairwise race; three items let one
worker go round again while the other is anywhere, with a last item that both try to
claim, and leave work for pass 2 in every combination. Progress every two items makes
reports rarer than items and, over three items, leaves a remainder. `scan_faults` has no pass with two reports, so
`ProgressSound` is checked without faults and proved with them (`ProgressTheorem`), where two
reports can overtake each other. The theorems cover the other sizes for the properties of section 5. The window needs three jobs to have one
before and one after a scan; its single request goes through every phase of `ScanStream`, as
one item can be a hit or be deferred. Four packets are enough for a device to be heard,
heard again with a new port, and completed by a third packet, with another device
in between. `MaxWaits` of `Endpoint` exceeds the longest examination, 35 waits. The
packets of `message` hold every kind of record, pointers into names and to
other pointers, and with the changed bytes also pointers to themselves, past the end
and into the middle of a label; `Budget` is large enough for every name of the
sound packets. `session` has a mask on each side of every limit (0, the largest block,
the address width, over it, over a u8), a range of as many ports as the whole and one of
one more, and every flag; three arguments give a flag said twice for a target. The
machines of `threads` lie on both sides of 2000 threads for the core count, the
work and the memory.

`gui` is checked without deadlock detection: the window may stop for good when the
thread of `run_streaming` is refused, and the instance ends when the bound on jobs
is reached. Every other run has deadlock checking on, with a stuttering step only
in the final state.

Fairness. `Scan`: each thread keeps being scheduled, and connects, reads and writes
have timeouts; `cancel` is never obliged to happen, nor is a fault. `Mdns`: time
passes, and the receive returns after 150 ms at the latest. `Message`: the parser is sequential code. `Gui`: the window asks to be
repainted every 250 ms (`gui.rs:687`) and polls when it is; the background threads go
on, which for `discover` and `run` are `DiscoverReturns` of `Mdns` and
`RunReturns` of `Scan`; clicks are free. No strong fairness is assumed anywhere.

## 4. What the checks show

* **Nothing is lost or doubled in a race.** The hits returned are the hits
  announced, in rank order; every item of a scan that ran to its end was examined,
  in the second pass if the first got no answer, also when threads are refused or a
  callback panics. If all the workers of a pass are refused the scan still returns,
  with items unexamined, and `ThreadsSpawned` is the only sign of it.
* **Stopping.** Each worker claims at most one item after a stop, and `stop_on_first`
  returns at most one ADB hit per worker, not exactly one. The two criteria for
  stopping agree where they meet. A stop from the window reaches the scan even before
  it runs. It prevents every later decision for a pass (`StopHeeded`), not the announcement of
  one already decided on, whose workers then leave at their first look at the token.
* **Events.** Pass 1's events precede pass 2's; a skipped pass is the last event,
  with a true reason. Progress values are each reported once and may be out of order.
* **Window.** One job at a time; no message, token, progress or result of one scan
  reaches another; the only way to stay busy is the refused thread of
  `scan.rs:381`, whose panic ends the forwarder before it sends anything.
* **Discovery.** A complete set of records is enough, however it arrived; the newest
  port is reported with all addresses, the preferred one first.
* **Packets.** No packet makes the parser look beyond it or go on for ever. A name
  that needs more than 100 turns (labels and pointers together) is refused even if it is
  sound; DNS allows 127 labels.
* **Command line.** The last word counts, for each setting by itself. A window that
  was pre-filled scans with the settings of its command line, no address it did not name and
  every port of it there is, but not every address, see below. A scan tries each address and each port that was asked for once.
* **Plan.** What was asked for last is what is built.

Four statements of the documentation do not hold of the code, each with a run that shows it:

1. `threads.rs:30` says `chosen * stack_size` is at most 70% of the available
   memory. The cap is computed with the stack size of the count before it and the stack
   chosen for the count after it; with 21 cores and 700 MB the stacks take four times
   the budget (`threads_memory`). `MemoryBounded` states what does hold.
2. `src/README.md:12` says the two passes do not miss slow stacks. The probe of pass 1
   reconnects with the fast timeout, and a device that accepts once in time and then more
   slowly is recorded as `[open]` and not looked at again (`endpoint_slow`).
   `SteadyFound` and `ReachableReported` state what does hold.
3. `src/README.md:5` and `:13` say that ADB over TLS is verified. The check is for a TLS
   handshake record (`detect.rs:120`), as `src/README.md:15` says more exactly, and a web
   server with TLS is reported as ADB and ends a scan that stops at the first hit
   (`endpoint_https`).
4. `src/README.md:20`, `:150` and `:170`, `main.rs:4` and `gui.rs:691` say that what the
   command line names is pre-filled, a whole subnet for one. The field gets the display of the
   first address (`gui.rs:118`), and the window scans that one (`session_prefilled`). For the
   same reason a host name's display, `name (address)`, does not parse again. The ports
   differ for one range: `0-65534`, which has as many ports as the whole, becomes `1-65535`
   (`gui.rs:112`), while `0-65535`, which has one more, stays what it is. `PrefilledScan`
   states what does hold.

More that a reader of the code or its documentation may not expect, on which no run is spent:

* `mdns.rs:102` says that two instance names for one device, port and address are
  reported once. The key at `:103` contains the instance name, and as the pairs of kind and
  instance are already distinct after `:94` the second set never rejects anything.
* A service that echoes what it is sent is reported as plain ADB (`detect.rs:100`).
* `1-65535` as an argument scans in the order of the default list.
* Without a target `--range` and `--threads` are refused and the timeouts, `--all` and
  `--no-verify` are silently dropped (`cli.rs:198-206`, `WithoutTarget`).
* Opening the settings panel changes timeouts outside its limits (`gui.rs:424-426`,
  `Drawn`).

## 5. What is proved

| Theorem | For every | Argument |
|---|---|---|
| `ScanProofs!TypeCorrect` | set of configurations, thread bound, cadence and fault set | `TypeOK` is inductive; a lemma for the caller's steps, one for a worker's |
| `ScanProofs!LateTheorem` | the same | `LateBound` is not inductive: a worker may be between its look at the flags and its claim. `LateInv` adds that one which was late is not there, and that the request stands |
| `ScanProofs!StopTheorem` | the same | `StopFlagSound` compares a flag with a list that are written in two steps. `StopInv` says who is in between (a worker at *store*), that none is once the workers are joined, and that a worker beyond `spawned` has not begun |
| `ScanProofs!ScanInvariant`, `CompleteTheorem`, `RankedTheorem` | the same | `ScanInv`, see below |
| `ScanProofs!ContractTheorem` | the same | step simulation of `ScanContract` under `ScanInv`: `Init` maps to `Contract!Init`, each step to a step of the contract or a stutter |
| `ScanEventProofs!HitsTheorem` | the same | an announced hit is recorded or in the hands of a worker at *push* (`AnnouncedInv`) |
| `ScanEventProofs!BoundTheorem` | the same | a worker is *spent* when it is about to set the flag or will see it set before it announces anything more. There are at most as many ADB hits as spent workers (`SpentInv`), and pass 2 is not entered with an ADB hit |
| `ScanEventProofs!OrderTheorem`, `SkipTheorem` | the same | `StreamInv`: which events may be there at each label of `run`; a token that was read as set stays set (`CancelRead` of `StopInv`), so the reason given for a skipped pass holds when it is given |
| `ScanEventProofs!ProgressTheorem` | the same | `CountInv`: each busy worker has claimed an item that is not counted. `ReportInv`: each value of `scanned` is reported once or held by the one worker about to report it |
| `ScanEventProofs!StreamTheorem` | the same | step simulation of `ScanStream`, from all the invariants above |
| `ThreadPlanProofs!OrderTheorem`, `BoundTheorem`, `MemoryTheorem` | machine, workload, sequence of setter calls, and the two limits | an invariant that ties each field to the last call that set it; for memory, a case split on the side of `ManyThreads` the capped count falls on, with the bounds of integer division |
| `GuiProofs!StatusTheorem`, `CancelTheorem` | set of requests, log size, number of jobs | `StatusSound` needs to know what else is in the channel: `LastOnce` says that a job's last message is there once, only when its thread is gone, and that nothing of a scan comes after it |
| `GuiProofs!WindowTypes`, `ShownTheorem`, `HeededTheorem` | the same | `WindowInv`: the types of the messages in the channel and of the stream behind it, that a hit `run` announced is logged, in the channel or not forwarded yet, and that a stop requested for the scan that runs has reached its token, which every later decision for a pass reads (`MoveStep` for the moves of `run` between its phases) |
| `MdnsProofs!MdnsInvariant`, `TypesTheorem`, `CompleteTheorem`, `FaithfulTheorem`, `OnceTheorem` | sets of packets, instances, hosts, addresses and ports, and the number of packets | `MdnsInv`, see below |
| `MessageProofs!NoPanicTheorem` | packet, table of services, budget | `touched` is bounded step by step; the positions of the parser are natural numbers and its data lies inside the packet |
| `MessageProofs!RoundTripTheorem` | the same, and test for UTF-8 | `ReadInv`, see below |
| `SessionProofs!SessionInvariant`, `LastWordTheorem`, `PrefilledTheorem`, `WorkTheorem` | widths, segments, arguments, edits, resolutions, rows, and the bounds on arguments and changes | `SessionInv`, see below |
| `EndpointProofs!WaitsTheorem` | set of endpoints, lengths of the two answers | `WaitsInv` gives each label of the examination its own budget of waits; while an answer is read each read has brought a byte at least, so `got` pays for the reads |
| `EndpointProofs!ReachableTheorem`, `SteadyTheorem` | the same | `KindInv`: what the labels reached so far say of the endpoint; one that is reported closed or silent was refused or outlasted pass 2, and a steady endpoint that accepts only slowly is not probed in pass 1 |

`ScanInv` is why the races of the pool lose nothing. `ScanComplete` speaks of the end of a
run; what makes it inductive is an account of every item at every moment:

* `ItemInv`: the work list has no item twice; an item that is claimed and not examined is
  in the hands of a worker at *connect*, one that accepted is in the hands of a worker on its
  way to *push*, and no item is in two hands;
* `PassInv`: in pass 1 the deferred items are those in `pending`, and pass 2 works
  through all of them; a worker leaves its loop only when a flag is set or the list is used up,
  hence when the workers are joined nothing is left unless the pass was `Halted` (stopped,
  or without any worker that left normally);
* `HitInv`: the hits recorded are the items whose fate is a hit, each once.

`MdnsInv` says that the tables are those that the log of all records heard prescribes: a
PTR entry for each PTR record, for each instance the port and host of its last SRV
record, for each host the set of its addresses, each once, in the order of their kind.
A packet is read record by record by a recursive function; that reading it keeps the
invariant (`RecordRead`, `PacketRead`) is proved by induction over its records, and that
`Distinct` keeps one of each kind of entry (`DistinctFacts`) by induction over the list.

`ReadInv` follows a sound packet through its message. Between two items, some item is the
last one done, what was read is what the records up to it say, and the counters are what the header
announced less that. Inside a name (`Spelling`), what was spelt so far joined with what is
written at the cursor is the name that began here, and the turns it still needs are fewer than the
budget left; before the first pointer the name ends where the one at the cursor does,
after it the cursor of the parser is already where the name ended. From this, a name can fail
only if its item runs off the packet (`SpellingFails`), which for the data of a
record, known to be there, is impossible; every turn keeps the account (`PointerFollowed`,
`LabelTaken`), and a name that ends reads as it was written (`SpellingEnds`). That the list
returned is that of the packet needs one more fact, that only one item can be the last one
wholly in it (`ReadingExact`). No induction over names is needed: the table has the
rest of each name as an entry of its own.

`SessionInv` says of each moment what led to it:

* `Parsing`: the locals of `parse_args` are the last words of the arguments so far, and
  there is a target if and only if one was given;
* `Opened`: the options are what the arguments say, and until a field is changed the
  window holds their pre-fill;
* `Launched`: a scan has exactly the targets its text means, and the ports of its range,
  as it was launched;
* `Refilled`: a scan of a window nobody has changed was launched from the pre-fill.

What a launch makes is then a matter of operators: `TargetsExact` (a subnet is the
aligned block around its address, each address once, from `ShlSum` and the
division of `BlockFacts`), `RowExact`, `RangeFacts`, and `DefaultListed` (the loops of
`default_ports` list each port once and in the documented order, by induction over each loop),
whence `DefaultLen`, that they are `MaxPort` in number, on which the pre-fill's test by length rests.
The first attempt at `PrefilledTheorem` refuted an earlier form of the property, which took
every range of at least `MaxPort` ports for the whole: `0-65535` has one more.

The assumptions are the named ones of the modules (`ConfigAssumption`,
`PlanAssumption`, `GuiAssumption`, `NetworkAssumption`, `PacketAssumption`,
`EndpointAssumption`, `TargetsAssumption`, `SessionAssumption`). They give the constants their
types; beyond that, `TargetsAssumption` says that the four segments partition the ports,
`PacketAssumption` that a packet called sound is one (`Sound`) and that no two services share a name,
`NetworkAssumption` reserves the name that stands for a missing SRV entry, and
`EndpointAssumption` that adbd greets in its own protocol, and over TLS not in plain text as well;
of other services it says nothing. TLC evaluates them on every run.

Induction. The library's induction theorems take an operator as a parameter and cannot be
used here. `MdnsProofs` and `SessionProofs` derive what they need from the least element of
a set of natural numbers (`LeastNat`, `Counting`), so recursive *functions* can be reasoned about.

Only model-checked: liveness under fairness, which is `RunReturns`, `BusyEnds`,
`DiscoverReturns`, `Returns`, and the fairness part of `ImplementsContract` and
`ImplementsStream`, whose safety part is what `ContractTheorem` and `StreamTheorem` prove.
Every invariant the passing runs check is also the subject of a theorem.

## 6. Not modelled

* `platform.rs`, `main.rs`, `bin/gui.rs`, `lib.rs`: calls of the system, wiring.
* `ctrl_c.rs`: no module includes it.
* The bytes of the requests of the probe and of the queries (`mdns.rs:146-167`), and
  that SRV and address records are looked up by exact spelling (`mdns.rs:99`) while
  service names are not.
* The characters of numbers and addresses: a text is taken apart into what it means.
* Drawing, theme, fonts, expanded rows, the clipboard and the lifetime of a toast.

## 7. Plan

1. The clipboard and the connect commands, if their addresses become the subject of a
   property (an IPv6 address is shown without brackets, `gui.rs:722`).
2. The case of names (`mdns.rs:99`), if a device that mixes cases turns up: service names are
   then to be model values with a relation *same but for case*.
