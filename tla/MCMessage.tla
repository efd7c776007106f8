----------------------------- MODULE MCMessage -----------------------------
(***************************************************************************)
(* Instances of Message for TLC: two packets, cut short at each byte or    *)
(* with one byte changed, among them changes that make a pointer point to  *)
(* itself or to the name it is in.  The service is "s.l", the device       *)
(* "p.s.l" and its host "h.l".  All bytes over 127 in them (parts of       *)
(* pointers, of the class and of addresses) cannot occur in UTF-8 where a  *)
(* label may take them in.                                                 *)
(***************************************************************************)
EXTENDS Message, SequencesExt

CONSTANT Damage  \* the values a changed byte takes

Ascii(s) == \A i \in DOMAIN s : s[i] < 128

S == 115  P == 112  H == 104  L == 108  D == 46
MCServices == {<< <<S, D, L>>, "Legacy" >>}

Header(qd, an, ns, ar) == <<0, 0, 132, 0, 0, qd, 0, an, 0, ns, 0, ar>>
Rr(ownerBytes, type, data) ==
  ownerBytes \o <<0, type, 128, 1, 0, 0, 0, 120, 0, Len(data)>> \o data
PointTo(offset) == <<192, offset>>

V4 == <<192, 1, 1, 42>>
V6 == [i \in 1..16 |-> i]

(* Each item: its bytes and the records (one, or none that matters) in it. *)
Compressed ==
  << [bytes |-> Header(0, 1, 0, 2), records |-> <<>>],
     [bytes |-> Rr(<<1, S, 1, L, 0>>, 12, <<1, P>> \o PointTo(12)),
      records |-> <<Ptr("Legacy", <<P, D, S, D, L>>)>>],
     [bytes |-> Rr(PointTo(27), 33, <<0, 0, 0, 0, 21, 179, 1, H>> \o PointTo(14)),
      records |-> <<Srv(<<P, D, S, D, L>>, <<H, D, L>>, 5555)>>],
     [bytes |-> Rr(PointTo(49), 1, V4), records |-> <<Addr(<<H, D, L>>, V4)>>] >>

(* A question, another spelling of the service, and records read over: a *)
(* type that is not looked at, an SRV record without room for its port.  *)
Mixed ==
  << [bytes |-> Header(1, 1, 1, 2), records |-> <<>>],
     [bytes |-> <<1, S, 1, L, 0, 0, 12, 0, 1>>, records |-> <<>>],
     [bytes |-> Rr(<<1, S - 32>> \o PointTo(14), 12, <<1, P>> \o PointTo(12)),
      records |-> <<Ptr("Legacy", <<P, D, S, D, L>>)>>],
     [bytes |-> Rr(PointTo(35), 16, <<1, L>>), records |-> <<>>],
     [bytes |-> Rr(PointTo(35), 33, <<0, 0, 0, 0>>), records |-> <<>>],
     [bytes |-> Rr(<<1, H, 1, L, 0>>, 28, V6), records |-> <<Addr(<<H, D, L>>, V6)>>] >>

(* Where their names begin: how each reads, where it ends, how many turns. *)
SL == <<S, D, L>>  PSL == <<P, D, S, D, L>>  HL == <<H, D, L>>

CompressedNames ==
  { <<12, SL, 17, 2>>, <<14, <<L>>, 17, 1>>, <<16, <<>>, 17, 0>>,
    <<27, PSL, 31, 4>>, <<29, SL, 31, 3>>, <<31, PSL, 33, 5>>,
    <<49, HL, 53, 3>>, <<51, <<L>>, 53, 2>>, <<53, HL, 55, 4>> }

MixedNames ==
  { <<12, SL, 17, 2>>, <<14, <<L>>, 17, 1>>, <<16, <<>>, 17, 0>>,
    <<21, <<S - 32, D, L>>, 25, 3>>, <<23, <<L>>, 25, 2>>,
    <<35, PSL, 39, 4>>, <<37, SL, 39, 3>>, <<39, PSL, 41, 5>>, <<53, PSL, 55, 5>>,
    <<69, HL, 74, 2>>, <<71, <<L>>, 74, 1>>, <<73, <<>>, 74, 0>> }

Bytes(items) == FlattenSeq([i \in DOMAIN items |-> items[i].bytes])
RecordsOf(items) == FlattenSeq([i \in DOMAIN items |-> items[i].records])
Upto(items, n) == SubSeq(items, 1, n)

MessageOf(items, names) ==
  [bytes |-> Bytes(items),
   names |-> [at \in {t[1] : t \in names} |->
                LET t == CHOOSE t \in names : t[1] = at
                IN [spelt |-> t[2], end |-> t[3], turns |-> t[4]]],
   ends |-> [i \in 0..(Len(items) - 1) |-> Len(Bytes(Upto(items, i + 1)))],
   read |-> [i \in 0..(Len(items) - 1) |-> RecordsOf(Upto(items, i + 1))]]

(* The items that are wholly within the first n bytes. *)
Within(items, n) ==
  Upto(items, CHOOSE k \in 0..Len(items) :
                  /\ Len(Bytes(Upto(items, k))) <= n
                  /\ k = Len(items) \/ Len(Bytes(Upto(items, k + 1))) > n)

CutShort(items, names) ==
  LET m == MessageOf(items, names)
      all == m.bytes
  IN {[bytes |-> SubSeq(all, 1, n), records |-> RecordsOf(Within(items, n)),
       sound |-> TRUE, message |-> m, whole |-> n = Len(all)] : n \in 0..Len(all)}

Damaged(items) ==
  LET all == Bytes(items)
  IN {[bytes |-> [all EXCEPT ![i] = b], records |-> <<>>, sound |-> FALSE, whole |-> FALSE] :
        i \in 1..Len(all), b \in Damage}

MCPackets ==
  CutShort(Compressed, CompressedNames) \union CutShort(Mixed, MixedNames)
    \union Damaged(Compressed) \union Damaged(Mixed)
===========================================================================
