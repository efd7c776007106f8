------------------------------ MODULE MCMdns ------------------------------
(***************************************************************************)
(* Instances of Mdns for TLC: a phone with several addresses that restarts *)
(* wireless debugging on another port, and an older device.                *)
(***************************************************************************)
EXTENDS Mdns

CONSTANTS phone, old, phoneHost, oldHost, v4, v6, linkLocal

Ptr(k, n) == [type |-> "PTR", kind |-> k, instance |-> n]
Srv(n, h, p) == [type |-> "SRV", name |-> n, target |-> h, port |-> p]
Addr(h, ip) == [type |-> "ADDR", name |-> h, ip |-> ip]
Unreadable == [type |-> "Unreadable"]
Ignored == [type |-> "Ignored"]

MCInstances == {phone, old}
MCHosts == {phoneHost, oldHost}
MCPriority == (v4 :> 0) @@ (v6 :> 1) @@ (linkLocal :> 2)

MCPackets ==
  { <<Ptr("Connect", phone), Srv(phone, phoneHost, 1), Addr(phoneHost, v6)>>,
    <<Srv(phone, phoneHost, 2), Addr(phoneHost, linkLocal), Addr(phoneHost, v4)>>,
    <<Ptr("Connect", phone), Ptr("Pairing", phone), Srv(phone, phoneHost, 1), Unreadable,
      Addr(phoneHost, v4)>>,
    <<Ignored, Ptr("Legacy", old), Srv(old, oldHost, 1)>>,
    <<Addr(oldHost, v6), Ignored, Addr(oldHost, v6), Unreadable, Addr(oldHost, v4)>> }
===========================================================================
