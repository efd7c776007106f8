------------------------------- MODULE Mdns -------------------------------
(***************************************************************************)
(* `discover` of src/src/mdns.rs: three PTR queries, one resend after      *)
(* half a second, and a receive loop until the deadline that collects PTR, *)
(* SRV and address records from whatever packets arrive and joins them     *)
(* when time is up.                                                        *)
(*                                                                         *)
(* The network is the environment: a packet may arrive any number of times *)
(* or never, in any order.  A packet is the sequence of its records.  What *)
(* the parser cannot read (an owner name that does not decode, a record    *)
(* that overruns the packet) is an "Unreadable" record: it ends the parse  *)
(* and what was read before it stays.  A record that is read over (another *)
(* type, another service, a wrong length) is an "Ignored" one.             *)
(***************************************************************************)
EXTENDS Naturals, SequencesExt

CONSTANTS
  Packets,      \* the packets devices may send
  Instances,    \* service instance names
  Hosts,        \* host names
  Ports,
  IPs,
  AddrPriority, \* addr_priority: 0 for IPv4, 1 for global IPv6, 2 for link-local
  MaxPackets    \* bound: packets with records for us during one discovery

AdbServiceKinds == {"Connect", "Pairing", "Legacy"}

Record ==
  [type : {"PTR"}, kind : AdbServiceKinds, instance : Instances]
    \union [type : {"SRV"}, name : Instances, target : Hosts, port : Ports]
    \union [type : {"ADDR"}, name : Hosts, ip : IPs]
    \union [type : {"Unreadable", "Ignored"}]

ASSUME NetworkAssumption ==
  /\ Packets \subseteq Seq(Record)
  /\ "none" \notin Hosts   \* so that NoSrv is no entry
  /\ AddrPriority \in [IPs -> 0..2]
  /\ MaxPackets \in Nat

VARIABLES
  pc,       \* where `discover` is
  clock,    \* "early", "resend" (500 ms have passed) or "over" (the deadline has)
  resent,
  srvs,     \* srv_records, NoSrv where there is no entry
  addrs,    \* a_records, <<>> where there is no entry
  ptrs,
  out,      \* what `discover` returned
  rounds,   \* history: rounds of queries sent
  received, \* history: the packets received, in order of arrival
  quiet     \* the last recv_from timed out

tables == <<srvs, addrs, ptrs>>
vars == <<pc, clock, resent, srvs, addrs, ptrs, out, rounds, received, quiet>>

NoSrv == [target |-> "none", port |-> 0]

-----------------------------------------------------------------------------
(* parse_message *)

\* Mutant: a packet that cannot be read to its end contributes nothing.
Readable_AllOrNothing(p) ==
  IF \E i \in DOMAIN p : p[i].type = "Unreadable" THEN <<>> ELSE p
(* The records before the first one the parser gives up at. *)
Readable(p) ==
  LET end == SelectInSeq(p, LAMBDA r : r.type = "Unreadable")
  IN IF end = 0 THEN p ELSE SubSeq(p, 1, end - 1)

\* Mutant: a new address goes to the end of the list.
InsertAddr_Unsorted(list, ip) == Append(list, ip)
(* push and sort_by_key: `list` is sorted already and the sort is stable. *)
InsertAddr(list, ip) ==
  LET worse == SelectInSeq(list, LAMBDA a : AddrPriority[a] > AddrPriority[ip])
  IN InsertAt(list, IF worse = 0 THEN Len(list) + 1 ELSE worse, ip)

PushAddr(map, name, ip) ==
  IF Contains(map[name], ip) THEN map
  ELSE [map EXCEPT ![name] = InsertAddr(@, ip)]

\* Mutant: the first SRV record of an instance stays.
InsertSrv_FirstWins(map, r) ==
  IF map[r.name] # NoSrv THEN map
  ELSE [map EXCEPT ![r.name] = [target |-> r.target, port |-> r.port]]
InsertSrv(map, r) == [map EXCEPT ![r.name] = [target |-> r.target, port |-> r.port]]

ReadRecord(t, r) ==
  CASE r.type = "PTR" -> [t EXCEPT !.ptrs = Append(@, [kind |-> r.kind, instance |-> r.instance])]
    [] r.type = "SRV" -> [t EXCEPT !.srvs = InsertSrv(@, r)]
    [] r.type = "ADDR" -> [t EXCEPT !.addrs = PushAddr(@, r.name, r.ip)]
    [] OTHER -> t

ParseMessage(p) ==
  LET records == Readable(p)
      after[n \in 0..Len(records)] ==
        IF n = 0 THEN [srvs |-> srvs, addrs |-> addrs, ptrs |-> ptrs]
        ELSE ReadRecord(after[n - 1], records[n])
  IN after[Len(records)]

-----------------------------------------------------------------------------
(* The join, after the loop. *)

\* Mutant: HashSet::insert is taken to succeed always.
Fresh_Always(seen, key) == TRUE
Fresh(seen, key) == key \notin seen

(* The elements of s at the positions `taken` whose key no earlier one has. *)
Distinct(s, keys, taken) ==
  LET kept[n \in 0..Len(s)] ==
        IF n = 0 THEN <<>>
        ELSE IF n \in taken /\ Fresh({keys[i] : i \in taken \intersect 1..(n - 1)}, keys[n])
        THEN Append(kept[n - 1], s[n])
        ELSE kept[n - 1]
  IN kept[Len(s)]

Service(p) ==
  LET ips == addrs[srvs[p.instance].target]
  IN [kind |-> p.kind, instance |-> p.instance, port |-> srvs[p.instance].port,
      ip |-> ips[1], ips |-> ips]

Joinable(p) ==
  /\ srvs[p.instance] # NoSrv
  /\ addrs[srvs[p.instance].target] # <<>>

Endpoint(p) == LET s == Service(p) IN <<s.kind, s.instance, s.port, s.ip>>

Services ==
  LET once == Distinct(ptrs, ptrs, DOMAIN ptrs)
      joined == {i \in DOMAIN once : Joinable(once[i])}
      reported == Distinct(once, [i \in joined |-> Endpoint(once[i])], joined)
  IN [i \in DOMAIN reported |-> Service(reported[i])]

-----------------------------------------------------------------------------
Init ==
  /\ pc = "bind"
  /\ clock = "early"
  /\ resent = FALSE
  /\ srvs = [i \in Instances |-> NoSrv]
  /\ addrs = [h \in Hosts |-> <<>>]
  /\ ptrs = <<>>
  /\ out = <<>>
  /\ rounds = 0
  /\ received = <<>>
  /\ quiet = TRUE

BindFails ==
  /\ pc = "bind"
  /\ pc' = "done"
  /\ UNCHANGED <<clock, resent, tables, out, rounds, received, quiet>>

(* The sockets' errors are ignored: a query that is not sent is one lost. *)
SendQueries ==
  /\ pc = "bind"
  /\ pc' = "top"
  /\ rounds' = 1
  /\ UNCHANGED <<clock, resent, tables, out, received, quiet>>

(* Time passes; the timeout may be shorter than the half second. *)
Tick ==
  /\ pc # "bind" /\ pc # "done"
  /\ \/ clock = "early" /\ clock' \in {"resend", "over"}
     \/ clock = "resend" /\ clock' = "over"
  /\ UNCHANGED <<pc, resent, tables, out, rounds, received, quiet>>

\* Mutant: the deadline is looked at only after a receive that timed out.
TimeIsUp_WhenIdle == clock = "over" /\ quiet
TimeIsUp == clock = "over"

LoopTop ==
  /\ pc = "top"
  /\ ~TimeIsUp
  /\ pc' = "resend"
  /\ UNCHANGED <<clock, resent, tables, out, rounds, received, quiet>>

\* Mutant: the flag of the resend is never set.
MarkResent_Never == resent' = resent
MarkResent == resent' = TRUE

(* The clock is read again: the deadline may have passed since. *)
Resend ==
  /\ pc = "resend"
  /\ pc' = "recv"
  /\ \/ /\ ~resent /\ clock # "early"
        /\ MarkResent
        /\ rounds' = rounds + 1
     \/ /\ resent \/ clock = "early"
        /\ UNCHANGED <<resent, rounds>>
  /\ UNCHANGED <<clock, tables, out, received, quiet>>

Receive ==
  /\ pc = "recv"
  /\ Len(received) < MaxPackets
  /\ pc' = "top"
  /\ \E p \in Packets :
       /\ srvs' = ParseMessage(p).srvs
       /\ addrs' = ParseMessage(p).addrs
       /\ ptrs' = ParseMessage(p).ptrs
       /\ received' = Append(received, p)
  /\ quiet' = FALSE
  /\ UNCHANGED <<clock, resent, out, rounds>>

(* A packet that is read over from end to end, of which there may be no end: *)
(* the queries of other hosts, and the answers about other services.         *)
ReceiveOther ==
  /\ pc = "recv"
  /\ pc' = "top"
  /\ quiet' = FALSE
  /\ UNCHANGED <<clock, resent, tables, out, rounds, received>>

RecvTimeout ==
  /\ pc = "recv"
  /\ pc' = "top"
  /\ quiet' = TRUE
  /\ UNCHANGED <<clock, resent, tables, out, rounds, received>>

Finish ==
  /\ pc = "top"
  /\ TimeIsUp
  /\ pc' = "done"
  /\ out' = Services
  /\ UNCHANGED <<clock, resent, tables, rounds, received, quiet>>

Step ==
  \/ BindFails \/ SendQueries \/ LoopTop \/ Resend
  \/ Receive \/ ReceiveOther \/ RecvTimeout \/ Finish

Terminated == pc = "done" /\ UNCHANGED vars

Next == Step \/ Tick \/ Terminated

(* The receive has a timeout of its own, and time passes.  The network owes *)
(* nothing: it may be silent for ever or never fall silent.                 *)
Spec == Init /\ [][Next]_vars /\ WF_vars(Step) /\ WF_vars(Tick)

-----------------------------------------------------------------------------
(***************************************************************************)
(* Every variable has its type, no host lists an address twice, and the    *)
(* queries are sent again at most once.                                    *)
(***************************************************************************)
TypeOK ==
  /\ pc \in {"bind", "top", "resend", "recv", "done"}
  /\ clock \in {"early", "resend", "over"}
  /\ resent \in BOOLEAN
  /\ srvs \in [Instances -> [target : Hosts, port : Ports] \union {NoSrv}]
  /\ DOMAIN addrs = Hosts
  /\ \A h \in Hosts : ToSet(addrs[h]) \subseteq IPs /\ IsInjective(addrs[h])
  /\ ToSet(ptrs) \subseteq [kind : AdbServiceKinds, instance : Instances]
  /\ \A s \in ToSet(out) : s.ip = s.ips[1] /\ s.ip \in IPs /\ s.port \in Ports
  /\ rounds \in 0..2
  /\ quiet \in BOOLEAN

(* The positions of the records heard, packet by packet. *)
Heard ==
  {x \in UNION {{n} \X DOMAIN received[n] : n \in DOMAIN received} :
     /\ \A i \in 1..x[2] : received[x[1]][i].type # "Unreadable"}
At(x) == received[x[1]][x[2]]
Later(x, y) == x[1] > y[1] \/ (x[1] = y[1] /\ x[2] >= y[2])

PtrHeard(k, n) == \E x \in Heard : At(x) = [type |-> "PTR", kind |-> k, instance |-> n]
SrvsHeard(n) == {x \in Heard : At(x).type = "SRV" /\ At(x).name = n}
LastSrv(n) == At(CHOOSE x \in SrvsHeard(n) : \A y \in SrvsHeard(n) : Later(x, y))
AddrsHeard(h) == {At(x).ip : x \in {y \in Heard : At(y).type = "ADDR" /\ At(y).name = h}}

(***************************************************************************)
(* Nothing that was heard is lost: a service whose PTR, SRV and address    *)
(* records arrived, in whatever packets, order and number, some of them    *)
(* cut short, is reported.                                                 *)
(***************************************************************************)
Complete ==
  pc = "done" =>
    \A k \in AdbServiceKinds, n \in Instances :
      PtrHeard(k, n) /\ SrvsHeard(n) # {} /\ AddrsHeard(LastSrv(n).target) # {} =>
        \E s \in ToSet(out) : s.kind = k /\ s.instance = n

(***************************************************************************)
(* What is reported was advertised: the port and host are those of the     *)
(* last SRV record heard of the instance (a device that restarted wireless *)
(* debugging has a new port), with all the addresses heard of that host:   *)
(* an AAAA record does not displace an A record.  The address to connect   *)
(* to is of the best kind the device advertised, whatever order the        *)
(* records came in, and the list goes on in that order.                    *)
(***************************************************************************)
Faithful ==
  \A s \in ToSet(out) :
    /\ PtrHeard(s.kind, s.instance)
    /\ s.port = LastSrv(s.instance).port
    /\ ToSet(s.ips) = AddrsHeard(LastSrv(s.instance).target)
    /\ s.ip \in ToSet(s.ips) /\ \A a \in ToSet(s.ips) : AddrPriority[s.ip] <= AddrPriority[a]
    /\ \A i, j \in DOMAIN s.ips : i < j => AddrPriority[s.ips[i]] <= AddrPriority[s.ips[j]]

(***************************************************************************)
(* A device that answers both rounds of queries, or one twice, is reported *)
(* once for each service (the comment at mdns.rs:92).                      *)
(***************************************************************************)
NoDuplicates ==
  \A i, j \in DOMAIN out :
    out[i].kind = out[j].kind /\ out[i].instance = out[j].instance => i = j

(***************************************************************************)
(* `discover` returns, even on a network that is never quiet, where every  *)
(* recv_from returns a packet (mdns.rs:75-90).                             *)
(***************************************************************************)
DiscoverReturns == <>(pc = "done")
===========================================================================
