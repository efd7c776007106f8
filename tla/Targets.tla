------------------------------ MODULE Targets ------------------------------
(***************************************************************************)
(* What the user writes and what it stands for: parse_targets of           *)
(* src/src/target.rs and default_ports of src/src/ports.rs.                *)
(*                                                                         *)
(* A text is a record that says what the parser makes of it, and an        *)
(* address is <<4, n>> or <<6, n>>.  The widths are constants, 32 bits and *)
(* 16 bits in the code, so that they can be small ones.                    *)
(***************************************************************************)
EXTENDS Integers, SequencesExt

CONSTANTS
  AddrBits,        \* 32, of an IPv4 address
  MaxBlock,        \* CIDR_MAX_ADDRESSES, 65536
  MaxMask,         \* 255: what fits the u8 a mask is parsed as
  MaxPort,         \* 65535
  AdbPort,         \* 5555
  Segments         \* the four ranges of default_ports, in the order they are pushed

Segment(k) == Segments[k][1]..Segments[k][2]

(* No segment is empty, and each port is in one of them.                   *)
ASSUME TargetsAssumption ==
  /\ AddrBits \in Nat /\ MaxBlock \in Nat /\ MaxMask \in Nat
  /\ MaxPort \in Nat /\ AdbPort \in 1..MaxPort
  /\ Segments \in [1..4 -> (1..MaxPort) \X (1..MaxPort)]
  /\ \A k \in 1..4 : Segments[k][1] <= Segments[k][2]
  /\ \A p \in 1..MaxPort : \E k \in 1..4 : \A j \in 1..4 : p \in Segment(j) <=> j = k

(* `1 << bits` *)
Shl(bits) ==
  LET one[n \in 0..bits] == IF n = 0 THEN 1 ELSE 2 * one[n - 1]
  IN one[bits]

(* An IPv4 address, all of its bits, or one of the wider ones. *)
Address == ({4} \X (0..(Shl(AddrBits) - 1))) \union ({6} \X Nat)

NoZone == -1
Target(ip, zone, display) == [ip |-> ip, zone |-> zone, display |-> display]

(* The texts.  `Shown` is how the display of a resolved host reads. *)
Literal(ip) == [form |-> "literal", ip |-> ip]
Zoned(n, zone) == [form |-> "zoned", ip |-> <<6, n>>, zone |-> zone]
Cidr(ip, mask) == [form |-> "cidr", ip |-> ip, mask |-> mask]
Host(h) == [form |-> "host", host |-> h]
Shown(h, ip) == [form |-> "shown", host |-> h, ip |-> ip]
Blank == [form |-> "blank"]

IsText(t) ==
  /\ t.form \in {"literal", "zoned", "cidr", "host", "shown", "blank"}
  /\ t.form \in {"literal", "cidr"} => t.ip \in Address
  /\ t.form = "zoned" => t.ip \in {6} \X Nat /\ t.zone \in Nat
  /\ t.form = "cidr" => t.mask \in Nat

Ok(targets) == [ok |-> TRUE, targets |-> targets]
Err == [ok |-> FALSE, targets |-> <<>>]

-----------------------------------------------------------------------------
(* parse_cidr *)

HostBits(mask) == AddrBits - mask
Count(mask) == Shl(HostBits(mask))

\* Mutant: the block begins at the address that was given.
Base_Unaligned(n, block) == n
(* `n & (!0 << host_bits)` *)
Base(n, block) == n - (n % block)

Expand(n, block) ==
  [i \in 1..block |->
     LET a == (Base(n, block) + i - 1) % Shl(AddrBits)
     IN Target(<<4, a>>, NoZone, Literal(<<4, a>>))]

ParseCidr(ip, mask) ==
  IF ip[1] = 4 /\ mask <= AddrBits /\ Count(mask) <= MaxBlock
  THEN Ok(Expand(ip[2], Count(mask)))
  ELSE Err

(***************************************************************************)
(* parse_targets, for a name that resolves to `addresses` (<<>>: it does   *)
(* not).  A text whose mask is no u8 is taken for a host name; so is what  *)
(* a host's display reads, and neither resolves.                           *)
(***************************************************************************)
ParseTargets(text, addresses) ==
  CASE text.form = "literal" -> Ok(<<Target(text.ip, NoZone, text)>>)
    [] text.form = "zoned" -> Ok(<<Target(text.ip, text.zone, text)>>)
    [] text.form = "cidr" /\ text.mask <= MaxMask -> ParseCidr(text.ip, text.mask)
    [] text.form = "host" /\ addresses # <<>> ->
         Ok([i \in DOMAIN addresses |->
               Target(addresses[i], NoZone, Shown(text.host, addresses[i]))])
    [] OTHER -> Err

(* Target::socket: an address without zone has scope 0. *)
Socket(t, port) ==
  [ip |-> t.ip, port |-> port, scope |-> IF t.ip[1] = 4 \/ t.zone = NoZone THEN 0 ELSE t.zone]

-----------------------------------------------------------------------------
(* The ports. *)

Span(from, to) == [i \in 1..(to - from + 1) |-> from + i - 1]

\* Mutant: the one port that comes first comes again in its segment.
Push_Always(v, p) == Append(v, p)
Push(v, p) == IF Contains(v, p) THEN v ELSE Append(v, p)

(* for p in from..=to { push(v, p) } *)
PushAll(v, from, to) ==
  LET after[n \in 0..(to - from + 1)] == IF n = 0 THEN v ELSE Push(after[n - 1], from + n - 1)
  IN after[to - from + 1]

DefaultPorts ==
  LET Pushed(v, k) == PushAll(v, Segments[k][1], Segments[k][2])
  IN Pushed(Pushed(Pushed(Pushed(Push(<<>>, AdbPort), 1), 2), 3), 4)

(* A range as the user writes it: two numbers, or something else. *)
ValidRange(r) ==
  Len(r) = 2 /\ r[1] \in 0..MaxPort /\ r[2] \in 0..MaxPort /\ r[1] <= r[2]
PortRange(r) == Span(r[1], r[2])
===========================================================================
