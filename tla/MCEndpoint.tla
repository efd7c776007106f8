---------------------------- MODULE MCEndpoint ----------------------------
(***************************************************************************)
(* Instances of Endpoint for TLC: what the answers of adbd, of a web       *)
(* server, an echo and other services look like to the two handshakes.     *)
(***************************************************************************)
EXTENDS Endpoint, TLC

NoRecord == [type |-> 0, major |-> 0, minor |-> 0]
NoHeader == [cmd |-> "none", magic |-> FALSE, oversize |-> FALSE]
ServerHello == [type |-> 22, major |-> 3, minor |-> 3]
Alert == [type |-> 21, major |-> 3, minor |-> 3]
NoTls == [type |-> 22, major |-> 3, minor |-> 0]
Connected == [cmd |-> "CNXN", magic |-> TRUE, oversize |-> FALSE]
Auth == [cmd |-> "AUTH", magic |-> TRUE, oversize |-> FALSE]
StartTls == [cmd |-> "other", magic |-> TRUE, oversize |-> FALSE]
Huge == [cmd |-> "CNXN", magic |-> TRUE, oversize |-> TRUE]
EchoedHello == [type |-> 22, major |-> 3, minor |-> 1]
Garbage == [cmd |-> "CNXN", magic |-> FALSE, oversize |-> FALSE]

Behaviours ==
  { <<"Plain", Connected, NoRecord>>, <<"Plain", Auth, Alert>>,
    <<"Tls", NoHeader, ServerHello>>, <<"Tls", StartTls, ServerHello>>,
    <<"Open", NoHeader, ServerHello>>, <<"Open", Connected, EchoedHello>>,
    <<"Open", NoHeader, NoRecord>>, <<"Open", Garbage, Alert>>,
    <<"Open", Huge, NoTls>> }

AllServers ==
  {[is |-> b[1], header |-> b[2], record |-> b[3], latencies |-> l, stalls |-> s] :
     b \in Behaviours, l \in SUBSET Latencies \ {{}}, s \in BOOLEAN}

(* adbd over TLS, and a web server. *)
TlsServers == {s \in AllServers : s.record = ServerHello}

ReadLengths == ("Adb" :> 24) @@ ("Tls" :> 5)
===========================================================================
