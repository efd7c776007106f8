------------------------------ MODULE Message ------------------------------
(***************************************************************************)
(* parse_message and the Cursor of src/src/mdns.rs, byte by byte: how a    *)
(* received packet becomes the records that Mdns collects.  One step is    *)
(* one turn of the loop in read_name, or what parse_message does between   *)
(* two names.                                                              *)
(*                                                                         *)
(* Offsets count from 0 as in the code.  A slice or an index beyond the    *)
(* packet panics: `touched` keeps how far into it the parser has looked.   *)
(***************************************************************************)
EXTENDS Integers, Sequences

CONSTANTS
  Packets,   \* what may be received: [bytes, sound, message, records, whole]
  Services,  \* ADB_SERVICES: pairs of a lower-case name and a kind
  Budget,    \* 100: the turns read_name takes at most
  Utf8(_)    \* whether bytes are UTF-8 (the standard library's test)

Byte == 0..255

Ptr(kind, instance) == [type |-> "PTR", kind |-> kind, instance |-> instance]
Srv(n, target, port) == [type |-> "SRV", name |-> n, target |-> target, port |-> port]
Addr(n, ip) == [type |-> "ADDR", name |-> n, ip |-> ip]

Dot == <<46>>
Lower(s) == [i \in DOMAIN s |-> IF s[i] \in 65..90 THEN s[i] + 32 ELSE s[i]]

-----------------------------------------------------------------------------
(***************************************************************************)
(* A message as its sender wrote it, which the parser knows nothing of:    *)
(* `names` has an entry for every offset at which a name, or the rest of   *)
(* one, begins; item i, a question or a record, is between ends[i - 1] and *)
(* ends[i], and read[i] is what the records up to it say.                  *)
(***************************************************************************)
Octet(m, i) == m.bytes[i + 1]
Octets2(m, i) == 256 * Octet(m, i) + Octet(m, i + 1)
Data(m, from, to) == SubSeq(m.bytes, from + 1, to)

Join(a, b) == IF a = <<>> THEN b ELSE IF b = <<>> THEN a ELSE a \o Dot \o b

(* How a name reads, where it ends (a pointer is its end), and how many   *)
(* labels and pointers it has: the root, a label before a name, or a      *)
(* pointer to a name that ends before it.                                 *)
NameWritten(m, at) ==
  LET first == Octet(m, at)
      rest == m.names[at + 1 + first]
      label == Data(m, at + 1, at + 1 + first)
      target == 256 * (first % 64) + Octet(m, at + 1)
  IN \/ /\ first = 0
        /\ m.names[at] = [spelt |-> <<>>, end |-> at + 1, turns |-> 0]
     \/ /\ first \in 1..63 /\ Utf8(label) /\ at + 1 + first \in DOMAIN m.names
        /\ m.names[at] = [spelt |-> Join(label, rest.spelt), end |-> rest.end,
                          turns |-> rest.turns + 1]
     \/ /\ first \in 192..255 /\ target \in DOMAIN m.names /\ m.names[target].end <= at
        /\ m.names[at] = [spelt |-> m.names[target].spelt, end |-> at + 2,
                          turns |-> m.names[target].turns + 1]

QuestionWritten(m, i) ==
  /\ m.ends[i - 1] \in DOMAIN m.names
  /\ m.ends[i] = m.names[m.ends[i - 1]].end + 4
  /\ m.read[i] = m.read[i - 1]

(* A record: what it says is added to what those before it say. *)
RecordWritten(m, i) ==
  LET owner == m.names[m.ends[i - 1]]
      fixed == owner.end
      type == Octets2(m, fixed)
      len == Octets2(m, fixed + 8)
      data == fixed + 10
  IN /\ m.ends[i - 1] \in DOMAIN m.names
     /\ data <= Len(m.bytes) /\ m.ends[i] = data + len
     /\ \/ /\ type = 12
           /\ data \in DOMAIN m.names /\ m.names[data].end <= m.ends[i]
           /\ \/ \E s \in Services :
                   /\ Lower(owner.spelt) = s[1]
                   /\ m.read[i] = Append(m.read[i - 1], Ptr(s[2], m.names[data].spelt))
              \/ /\ \A s \in Services : Lower(owner.spelt) # s[1]
                 /\ m.read[i] = m.read[i - 1]
        \/ /\ type = 33 /\ len >= 6
           /\ data + 6 \in DOMAIN m.names /\ m.names[data + 6].end <= m.ends[i]
           /\ m.read[i] = Append(m.read[i - 1],
                                 Srv(owner.spelt, m.names[data + 6].spelt, Octets2(m, data + 4)))
        \/ /\ (type = 1 /\ len = 4) \/ (type = 28 /\ len = 16)
           /\ m.read[i] = Append(m.read[i - 1], Addr(owner.spelt, Data(m, data, m.ends[i])))
        \/ /\ type # 12 /\ (type = 33 => len < 6) /\ (type = 1 => len # 4) /\ (type = 28 => len # 16)
           /\ m.read[i] = m.read[i - 1]

Questions(m) == Octets2(m, 4)
Items(m) == Questions(m) + Octets2(m, 6) + Octets2(m, 8) + Octets2(m, 10)

Written(m) ==
  /\ m.bytes \in Seq(Byte) /\ Len(m.bytes) >= 12
  /\ DOMAIN m.names \subseteq Nat
  /\ m.names \in [DOMAIN m.names ->
                    [spelt : Seq(Byte), end : 0..Len(m.bytes), turns : 0..(Budget - 1)]]
  /\ \A at \in DOMAIN m.names : at < m.names[at].end /\ NameWritten(m, at)
  /\ m.ends \in [0..Items(m) -> 12..Len(m.bytes)]
  /\ m.ends[0] = 12 /\ m.ends[Items(m)] = Len(m.bytes)
  /\ \A i, j \in 0..Items(m) : i < j => m.ends[i] < m.ends[j]
  /\ m.read[0] = <<>>
  /\ \A i \in 1..Items(m) :
       IF i <= Questions(m) THEN QuestionWritten(m, i) ELSE RecordWritten(m, i)

(* A sound packet is a message, or the beginning of one: `whole` says which, *)
(* and `records` what the records say that are wholly in it.                 *)
Sound(p) ==
  LET m == p.message
      n == Len(p.bytes)
  IN /\ Written(m)
     /\ n <= Len(m.bytes) /\ p.bytes = SubSeq(m.bytes, 1, n)
     /\ p.whole <=> n = Len(m.bytes)
     /\ n < 12 => p.records = <<>>
     /\ n >= 12 => \E i \in 0..Items(m) :
          /\ p.records = m.read[i]
          /\ m.ends[i] <= n /\ (i < Items(m) => n < m.ends[i + 1])

ASSUME PacketAssumption ==
  /\ \A p \in Packets : p.bytes \in Seq(Byte) /\ (p.sound => Sound(p))
  /\ \A s, t \in Services : s[1] = t[1] => s = t
  /\ Budget \in Nat

VARIABLES
  packet,     \* the one received; never changes
  pc,         \* "header", "next", "name", "fields", "some" or "none" (the result)
  pos,        \* the cursor of parse_message
  questions, records,  \* how many are left
  reading,    \* whose name is read: "question", "owner", or "PTR", "SRV" (a sub-cursor)
  name,       \* the locals of read_name
  owner,      \* the name of the current record
  rdata,      \* where its data begins and ends
  touched,    \* history: the bytes up to here have been looked at
  read        \* the records read, in order

frame == <<questions, records, reading, name, owner, rdata>>
vars == <<packet, pc, pos, frame, touched, read>>

buf == packet.bytes
(* No answer matters beyond the packet: NeverPanics says none is asked for. *)
At(i) == IF i < Len(buf) THEN buf[i + 1] ELSE 0
Short(i) == 256 * At(i) + At(i + 1)

Touch(end) == touched' = IF end > touched THEN end ELSE touched

-----------------------------------------------------------------------------
Init ==
  /\ packet \in Packets
  /\ pc = "header"
  /\ pos = 0 /\ questions = 0 /\ records = 0
  /\ reading = "question"
  /\ name = [at |-> 0, budget |-> Budget, out |-> <<>>, jumped |-> FALSE]
  /\ owner = <<>>
  /\ rdata = [from |-> 0, to |-> 0]
  /\ touched = 0
  /\ read = <<>>

Return(result) == pc' = result /\ UNCHANGED <<pos, frame>>

ReadHeader ==
  /\ pc = "header"
  /\ \/ /\ Len(buf) < 12
        /\ Return("none")
        /\ UNCHANGED touched
     \/ /\ Len(buf) >= 12
        /\ questions' = Short(4)
        /\ records' = Short(6) + Short(8) + Short(10)
        /\ pos' = 12
        /\ Touch(12)
        /\ pc' = "next"
        /\ UNCHANGED <<reading, name, owner, rdata>>
  /\ UNCHANGED <<packet, read>>

StartName(what, at) ==
  /\ reading' = what
  /\ name' = [at |-> at, budget |-> Budget, out |-> <<>>, jumped |-> FALSE]
  /\ pc' = "name"

(* The next question, or the next record when there is no question left. *)
NextItem ==
  /\ pc = "next"
  /\ questions > 0 \/ records > 0
  /\ StartName(IF questions > 0 THEN "question" ELSE "owner", pos)
  /\ UNCHANGED <<packet, pos, questions, records, owner, rdata, touched, read>>

ParseEnds ==
  /\ pc = "next"
  /\ questions = 0 /\ records = 0
  /\ Return("some")
  /\ UNCHANGED <<packet, touched, read>>

-----------------------------------------------------------------------------
(* read_name *)

InRdata == reading \in {"PTR", "SRV"}

\* Mutant: the next record is looked for where the cursor is.
NextPos_Cursor == pos
NextPos == rdata.to

(* The end of a record, whatever its data was. *)
EndRecord ==
  /\ pc' = "next"
  /\ pos' = NextPos
  /\ records' = records - 1
  /\ UNCHANGED <<questions, reading, name, owner, rdata>>

(* A name that cannot be read ends the parse; in the data of a record it *)
(* only loses the record.                                                *)
NameFails == IF InRdata THEN EndRecord ELSE Return("none")

\* Mutant: following a pointer costs nothing.
Spent_LabelsOnly == IF At(name.at) >= 192 THEN name.budget ELSE name.budget - 1
Spent == name.budget - 1

(* The budget is used up, or the name runs off the end of the packet. *)
NameBroken ==
  /\ pc = "name"
  /\ name.budget = 0 \/ name.at >= Len(buf)
  /\ NameFails
  /\ UNCHANGED <<packet, touched, read>>

NameGoesOn == pc = "name" /\ name.budget > 0 /\ name.at < Len(buf)

\* Mutant: only the first byte of a pointer is checked to be there.
PointerFits_First == name.at < Len(buf)
PointerFits == name.at + 1 < Len(buf)

(* A compression pointer: the cursor goes on after the first one. *)
NamePointer ==
  /\ NameGoesOn
  /\ At(name.at) >= 192
  /\ \/ /\ PointerFits
        /\ Touch(name.at + 2)
        /\ name' = [at |-> 256 * (At(name.at) % 64) + At(name.at + 1),
                    budget |-> Spent, out |-> name.out, jumped |-> TRUE]
        /\ pos' = IF InRdata \/ name.jumped THEN pos ELSE name.at + 2
        /\ UNCHANGED <<pc, questions, records, reading, owner, rdata>>
     \/ /\ ~PointerFits
        /\ Touch(name.at + 1)
        /\ NameFails
  /\ UNCHANGED <<packet, read>>

LabelEnd == name.at + 1 + At(name.at)
Label == SubSeq(buf, name.at + 2, LabelEnd)

NameLabel ==
  /\ NameGoesOn
  /\ At(name.at) \in 1..191
  /\ \/ /\ LabelEnd <= Len(buf)
        /\ Touch(LabelEnd)
        /\ \/ /\ Utf8(Label)
              /\ name' = [at |-> LabelEnd, budget |-> Spent, jumped |-> name.jumped,
                          out |-> IF name.out = <<>> THEN Label
                                  ELSE name.out \o Dot \o Label]
              /\ UNCHANGED <<pc, pos, questions, records, reading, owner, rdata>>
           \/ ~Utf8(Label) /\ NameFails
     \/ /\ LabelEnd > Len(buf)
        /\ Touch(name.at + 1)
        /\ NameFails
  /\ UNCHANGED <<packet, read>>

NameComplete == NameGoesOn /\ At(name.at) = 0
AfterName == IF name.jumped THEN pos ELSE name.at + 1

(* A question: its type and class are skipped. *)
QuestionNamed ==
  /\ NameComplete /\ reading = "question"
  /\ Touch(name.at + 1)
  /\ \/ /\ AfterName + 4 <= Len(buf)
        /\ pos' = AfterName + 4
        /\ questions' = questions - 1
        /\ pc' = "next"
        /\ UNCHANGED <<records, reading, name, owner, rdata>>
     \/ AfterName + 4 > Len(buf) /\ Return("none")
  /\ UNCHANGED <<packet, read>>

OwnerNamed ==
  /\ NameComplete /\ reading = "owner"
  /\ Touch(name.at + 1)
  /\ owner' = name.out
  /\ pos' = AfterName
  /\ pc' = "fields"
  /\ UNCHANGED <<packet, questions, records, reading, name, rdata, read>>

PtrNamed ==
  /\ NameComplete /\ reading = "PTR"
  /\ Touch(name.at + 1)
  /\ \/ \E s \in Services : Lower(owner) = s[1] /\ read' = Append(read, Ptr(s[2], name.out))
     \/ (\A s \in Services : Lower(owner) # s[1]) /\ UNCHANGED read
  /\ EndRecord
  /\ UNCHANGED packet

SrvNamed ==
  /\ NameComplete /\ reading = "SRV"
  /\ Touch(name.at + 1)
  /\ read' = Append(read, Srv(owner, name.out, Short(rdata.from + 4)))
  /\ EndRecord
  /\ UNCHANGED packet

-----------------------------------------------------------------------------
(* Type, class, ttl, length, and the data of the record. *)

RdataFrom == pos + 10
RdataLen == Short(pos + 8)
Rtype == Short(pos)

FieldsCut ==
  /\ pc = "fields"
  /\ \/ RdataFrom > Len(buf) /\ UNCHANGED touched
     \/ RdataFrom <= Len(buf) /\ RdataFrom + RdataLen > Len(buf) /\ Touch(RdataFrom)
  /\ Return("none")
  /\ UNCHANGED <<packet, read>>

(* The bytes of the data itself that each kind of record needs. *)
IsPtr == Rtype = 12
IsSrv == Rtype = 33 /\ RdataLen >= 6
IsAddr == (Rtype = 1 /\ RdataLen = 4) \/ (Rtype = 28 /\ RdataLen = 16)

FieldsRead ==
  /\ pc = "fields"
  /\ RdataFrom <= Len(buf) /\ RdataFrom + RdataLen <= Len(buf)
  /\ rdata' = [from |-> RdataFrom, to |-> RdataFrom + RdataLen]
  /\ \/ /\ IsPtr
        /\ StartName("PTR", RdataFrom)
        /\ Touch(RdataFrom)
        /\ UNCHANGED <<pos, records, read>>
     \/ /\ IsSrv
        /\ StartName("SRV", RdataFrom + 6)
        /\ Touch(RdataFrom + 6)
        /\ UNCHANGED <<pos, records, read>>
     \/ /\ IsAddr
        /\ read' = Append(read, Addr(owner, SubSeq(buf, RdataFrom + 1, RdataFrom + RdataLen)))
        /\ Touch(RdataFrom + RdataLen)
        /\ pc' = "next" /\ pos' = RdataFrom + RdataLen /\ records' = records - 1
        /\ UNCHANGED <<reading, name>>
     \/ /\ ~IsPtr /\ ~IsSrv /\ ~IsAddr
        /\ Touch(RdataFrom)
        /\ pc' = "next" /\ pos' = RdataFrom + RdataLen /\ records' = records - 1
        /\ UNCHANGED <<reading, name, read>>
  /\ UNCHANGED <<packet, questions, owner>>

-----------------------------------------------------------------------------
ReadName ==
  \/ NameBroken \/ NamePointer \/ NameLabel
  \/ QuestionNamed \/ OwnerNamed \/ PtrNamed \/ SrvNamed

Step == ReadHeader \/ NextItem \/ ParseEnds \/ ReadName \/ FieldsCut \/ FieldsRead

Returned == pc \in {"some", "none"}

Next == Step \/ (Returned /\ UNCHANGED vars)

(* The parser is sequential: it goes on while it can. *)
Spec == Init /\ [][Next]_vars /\ WF_vars(Step)

-----------------------------------------------------------------------------
(***************************************************************************)
(* Whatever bytes arrive, the parser indexes and slices inside the packet: *)
(* a pointer out of it, a label, a question or a record that overruns it   *)
(* ends the parse and does not panic the discovery thread, which would     *)
(* leave the window busy (gui.rs:200).                                     *)
(***************************************************************************)
NeverPanics == touched <= Len(buf)

(***************************************************************************)
(* What the sender wrote is what is read: all the records of a packet that *)
(* is whole and, of one cut short anywhere, those that are wholly there,   *)
(* in order, with names spelt out or compressed through any number of      *)
(* pointers.  This is the abstraction of a packet that Mdns starts from.   *)
(***************************************************************************)
RoundTrip ==
  Returned /\ packet.sound => read = packet.records /\ (packet.whole <=> pc = "some")

(***************************************************************************)
(* The parse of any packet ends, also when pointers form a loop.           *)
(***************************************************************************)
Returns == <>Returned
===========================================================================
