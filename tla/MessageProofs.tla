--------------------------- MODULE MessageProofs ---------------------------
(***************************************************************************)
(* The parser of mDNS packets stays inside the packet, and reads of a      *)
(* sound one what its sender wrote, for every set of packets and services, *)
(* every budget and every test for UTF-8.                                  *)
(***************************************************************************)
EXTENDS Message, SequenceTheorems, TLAPS

(* What the parser keeps of the packet: offsets that are numbers, of which *)
(* nothing else is asked, since each look at the packet is checked anew.   *)
Offsets ==
  /\ pos \in Nat
  /\ name = [at |-> name.at, budget |-> name.budget, out |-> name.out, jumped |-> name.jumped]
  /\ name.at \in Nat
  /\ rdata = [from |-> rdata.from, to |-> rdata.to]
  /\ rdata.to \in Nat

Inv ==
  /\ packet \in Packets
  /\ Offsets
  /\ touched \in Nat
  /\ NeverPanics

-----------------------------------------------------------------------------
(* The bytes of a packet are numbers, also where it has none. *)
LEMMA Bytes ==
  ASSUME packet \in Packets
  PROVE  /\ buf \in Seq(Byte) /\ Len(buf) \in Nat
         /\ \A i \in Nat : At(i) \in 0..255
         /\ \A i \in Nat : Short(i) \in Nat
<1>1. buf \in Seq(Byte) /\ Len(buf) \in Nat
  BY PacketAssumption DEF buf
<1>2. ASSUME NEW i \in Nat
      PROVE  At(i) \in 0..255
  <2>1. CASE i < Len(buf)
    <3>1. i + 1 \in 1..Len(buf)
      BY <1>1, <2>1
    <3>2. buf[i + 1] \in Byte
      BY <1>1, <3>1
    <3> QED
      BY <2>1, <3>2 DEF At, Byte
  <2>2. CASE ~(i < Len(buf))
    BY <2>2 DEF At
  <2> QED
    BY <2>1, <2>2
<1>3. ASSUME NEW i \in Nat
      PROVE  Short(i) \in Nat
  <2>1. At(i) \in 0..255 /\ At(i + 1) \in 0..255
    BY <1>2
  <2>2. ASSUME NEW a \in 0..255, NEW b \in 0..255
        PROVE  256 * a + b \in Nat
    OBVIOUS
  <2> QED
    BY <2>1, <2>2 DEF Short
<1> QED
  BY <1>1, <1>2, <1>3

(* Looking no further than the end of the packet is harmless. *)
LEMMA TouchInside ==
  ASSUME packet \in Packets, NeverPanics, touched \in Nat,
         NEW end \in Nat, end <= Len(buf), Touch(end)
  PROVE  touched' \in Nat /\ touched' <= Len(buf)
BY Bytes DEF NeverPanics, Touch

(* A name that fails leaves the cursor at the end of the record or where it is. *)
LEMMA FailureKeepsOffsets ==
  ASSUME Offsets, NameFails
  PROVE  Offsets'
BY DEF Offsets, NameFails, EndRecord, NextPos, Return, frame

-----------------------------------------------------------------------------
LEMMA InitInv == Init => Inv
<1> SUFFICES ASSUME Init PROVE Inv
  OBVIOUS
<1>1. packet \in Packets
  BY DEF Init
<1>2. Len(buf) \in Nat
  BY <1>1, Bytes
<1> QED
  BY <1>1, <1>2 DEF Init, Inv, Offsets, NeverPanics

(* What a step has to show: that it looks inside and keeps the offsets. *)
LEMMA Suffices ==
  ASSUME Inv, UNCHANGED packet, Offsets', touched' \in Nat, touched' <= Len(buf)
  PROVE  Inv'
BY DEF Inv, NeverPanics, buf

LEMMA HeaderStep == Inv /\ (ReadHeader \/ NextItem \/ ParseEnds) => Inv'
<1> SUFFICES ASSUME Inv, ReadHeader \/ NextItem \/ ParseEnds PROVE Inv'
  OBVIOUS
<1>1. packet \in Packets /\ Offsets /\ touched \in Nat /\ NeverPanics /\ Len(buf) \in Nat
  BY Bytes DEF Inv
<1>2. CASE ReadHeader
  <2>1. CASE Len(buf) < 12
    <3>1. Offsets' /\ UNCHANGED <<packet, touched>>
      BY <1>1, <1>2, <2>1 DEF ReadHeader, Return, Offsets, frame
    <3> QED
      BY <1>1, <3>1, Suffices DEF NeverPanics
  <2>2. CASE Len(buf) >= 12
    <3>1. Touch(12) /\ UNCHANGED packet /\ Offsets'
      BY <1>1, <1>2, <2>2 DEF ReadHeader, Offsets
    <3> QED
      BY <1>1, <2>2, <3>1, TouchInside, Suffices
  <2> QED
    BY <1>1, <2>1, <2>2
<1>3. CASE NextItem
  <2>1. Offsets' /\ UNCHANGED <<packet, touched>>
    BY <1>1, <1>3 DEF NextItem, StartName, Offsets
  <2> QED
    BY <1>1, <2>1, Suffices DEF NeverPanics
<1>4. CASE ParseEnds
  <2>1. Offsets' /\ UNCHANGED <<packet, touched>>
    BY <1>1, <1>4 DEF ParseEnds, Return, Offsets, frame
  <2> QED
    BY <1>1, <2>1, Suffices DEF NeverPanics
<1> QED
  BY <1>2, <1>3, <1>4

(* A name that does not end: it fails, or goes on at another offset. *)
LEMMA NameStep == Inv /\ (NameBroken \/ NamePointer \/ NameLabel) => Inv'
<1> SUFFICES ASSUME Inv, NameBroken \/ NamePointer \/ NameLabel PROVE Inv'
  OBVIOUS
<1>1. packet \in Packets /\ Offsets /\ touched \in Nat /\ NeverPanics /\ Len(buf) \in Nat
  BY Bytes DEF Inv
<1>2. name.at \in Nat /\ At(name.at) \in 0..255 /\ At(name.at + 1) \in 0..255
  <2>1. name.at \in Nat /\ name.at + 1 \in Nat
    BY <1>1 DEF Offsets
  <2> QED
    BY <1>1, <2>1, Bytes
<1>3. CASE NameBroken
  <2>1. Offsets' /\ UNCHANGED <<packet, touched>>
    BY <1>1, <1>3, FailureKeepsOffsets DEF NameBroken
  <2> QED
    BY <1>1, <2>1, Suffices DEF NeverPanics
<1>4. CASE NamePointer
  <2>1. CASE PointerFits
    <3>1. Touch(name.at + 2) /\ UNCHANGED <<packet, rdata>>
      BY <1>4, <2>1 DEF NamePointer
    <3>2. 256 * (At(name.at) % 64) + At(name.at + 1) \in Nat
      <4>1. ASSUME NEW a \in 0..255, NEW b \in 0..255
            PROVE  256 * (a % 64) + b \in Nat
        <5>1. a % 64 \in 0..63
          OBVIOUS
        <5> QED
          BY <5>1
      <4> QED
        BY <1>2, <4>1
    <3>3. Offsets'
      BY <1>1, <1>2, <1>4, <2>1, <3>2 DEF NamePointer, Offsets
    <3> QED
      BY <1>1, <1>2, <2>1, <3>1, <3>3, TouchInside, Suffices DEF PointerFits
  <2>2. CASE ~PointerFits
    <3>1. Touch(name.at + 1) /\ NameFails /\ UNCHANGED packet /\ name.at < Len(buf)
      BY <1>4, <2>2 DEF NamePointer, NameGoesOn
    <3> QED
      BY <1>1, <1>2, <3>1, FailureKeepsOffsets, TouchInside, Suffices
  <2> QED
    BY <2>1, <2>2
<1>5. CASE NameLabel
  <2>0. LabelEnd \in Nat
    BY <1>2 DEF LabelEnd
  <2>1. CASE LabelEnd <= Len(buf) /\ Utf8(Label)
    <3>1. Touch(LabelEnd) /\ UNCHANGED packet
      BY <1>5, <2>0, <2>1, <1>1 DEF NameLabel
    <3>2. Offsets'
      BY <1>1, <1>5, <2>0, <2>1 DEF NameLabel, Offsets
    <3> QED
      BY <1>1, <2>0, <2>1, <3>1, <3>2, TouchInside, Suffices
  <2>2. CASE LabelEnd <= Len(buf) /\ ~Utf8(Label)
    <3>1. Touch(LabelEnd) /\ NameFails /\ UNCHANGED packet
      BY <1>5, <2>0, <2>2, <1>1 DEF NameLabel
    <3> QED
      BY <1>1, <2>0, <2>2, <3>1, FailureKeepsOffsets, TouchInside, Suffices
  <2>3. CASE LabelEnd > Len(buf)
    <3>1. Touch(name.at + 1) /\ NameFails /\ UNCHANGED packet /\ name.at < Len(buf)
      BY <1>1, <1>5, <2>0, <2>3 DEF NameLabel, NameGoesOn
    <3> QED
      BY <1>1, <1>2, <3>1, FailureKeepsOffsets, TouchInside, Suffices
  <2> QED
    BY <1>1, <2>0, <2>1, <2>2, <2>3
<1> QED
  BY <1>3, <1>4, <1>5

(* A name that ends. *)
LEMMA NamedStep == Inv /\ (QuestionNamed \/ OwnerNamed \/ PtrNamed \/ SrvNamed) => Inv'
<1> SUFFICES ASSUME Inv, QuestionNamed \/ OwnerNamed \/ PtrNamed \/ SrvNamed PROVE Inv'
  OBVIOUS
<1>1. packet \in Packets /\ Offsets /\ touched \in Nat /\ NeverPanics /\ Len(buf) \in Nat
  BY Bytes DEF Inv
<1>2. name.at \in Nat /\ AfterName \in Nat
  BY <1>1 DEF Offsets, AfterName
<1>3. Touch(name.at + 1) /\ name.at < Len(buf) /\ UNCHANGED packet
  BY DEF QuestionNamed, OwnerNamed, PtrNamed, SrvNamed, NameComplete, NameGoesOn
<1>4. Offsets'
  <2>1. CASE QuestionNamed
    BY <1>1, <1>2, <2>1 DEF QuestionNamed, Offsets, Return, frame
  <2>2. CASE OwnerNamed
    BY <1>1, <1>2, <2>2 DEF OwnerNamed, Offsets
  <2>3. CASE PtrNamed \/ SrvNamed
    BY <1>1, <2>3 DEF PtrNamed, SrvNamed, Offsets, EndRecord, NextPos
  <2> QED
    BY <2>1, <2>2, <2>3
<1> QED
  BY <1>1, <1>2, <1>3, <1>4, TouchInside, Suffices

LEMMA FieldsStep == Inv /\ (FieldsCut \/ FieldsRead) => Inv'
<1> SUFFICES ASSUME Inv, FieldsCut \/ FieldsRead PROVE Inv'
  OBVIOUS
<1>1. packet \in Packets /\ Offsets /\ touched \in Nat /\ NeverPanics /\ Len(buf) \in Nat
  BY Bytes DEF Inv
<1>2. RdataFrom \in Nat /\ RdataLen \in Nat
  BY <1>1, Bytes DEF RdataFrom, RdataLen, Offsets
<1>3. CASE FieldsCut
  <2>1. Offsets' /\ UNCHANGED packet
    BY <1>1, <1>3 DEF FieldsCut, Return, Offsets, frame
  <2>2. UNCHANGED touched \/ (Touch(RdataFrom) /\ RdataFrom <= Len(buf))
    BY <1>3 DEF FieldsCut
  <2> QED
    BY <1>1, <1>2, <2>1, <2>2, TouchInside, Suffices DEF NeverPanics
<1>4. CASE FieldsRead
  <2>1. RdataFrom + RdataLen <= Len(buf) /\ UNCHANGED packet
    BY <1>4 DEF FieldsRead
  <2>2. \/ Touch(RdataFrom) \/ Touch(RdataFrom + RdataLen)
        \/ RdataLen >= 6 /\ Touch(RdataFrom + 6)
    BY <1>4 DEF FieldsRead, IsSrv
  <2>3. touched' \in Nat /\ touched' <= Len(buf)
    BY <1>1, <1>2, <2>1, <2>2, TouchInside
  <2>4. Offsets'
    BY <1>1, <1>2, <1>4 DEF FieldsRead, Offsets, StartName
  <2> QED
    BY <1>1, <2>1, <2>3, <2>4, Suffices
<1> QED
  BY <1>3, <1>4

-----------------------------------------------------------------------------
(***************************************************************************)
(* The parser never looks beyond the packet, whatever its bytes: nothing   *)
(* that arrives panics the discovery.                                      *)
(***************************************************************************)
THEOREM NoPanicTheorem == Spec => []NeverPanics
<1>1. Inv /\ [Next]_vars => Inv'
  <2> SUFFICES ASSUME Inv, [Next]_vars PROVE Inv'
    OBVIOUS
  <2>1. CASE Step
    BY <2>1, HeaderStep, NameStep, NamedStep, FieldsStep DEF Step, ReadName
  <2>2. CASE UNCHANGED vars
    BY <2>2 DEF vars, frame, Inv, Offsets, NeverPanics, buf
  <2> QED
    BY <2>1, <2>2 DEF Next
<1>2. Inv => NeverPanics
  BY DEF Inv
<1> QED
  BY InitInv, <1>1, <1>2, PTL DEF Spec

-----------------------------------------------------------------------------
(* The message a sound packet is of, and how far the parser is in it: item *)
(* i is done and the records up to it have been read.                      *)
M == packet.message

Done(i) ==
  /\ i \in 0..Items(M) /\ M.ends[i] <= Len(buf)
  /\ read = M.read[i]
  /\ questions = IF i < Questions(M) THEN Questions(M) - i ELSE 0
  /\ records = IF i < Questions(M) THEN Items(M) - Questions(M) ELSE Items(M) - i

(* The next item is a question, or a record. *)
InQuestion(i) == Done(i) /\ i < Questions(M)
InRecord(i) == Done(i) /\ i >= Questions(M) /\ i < Items(M)

(* What has been spelt of the name that begins at `start`, and what is at *)
(* the cursor, make up the name.                                          *)
Spelling(m, n, it, start) ==
  /\ start \in DOMAIN m.names /\ it.at \in DOMAIN m.names
  /\ it.out \in Seq(Byte)
  /\ it.budget \in Nat /\ m.names[it.at].turns < it.budget
  /\ Join(it.out, m.names[it.at].spelt) = m.names[start].spelt
  /\ IF it.jumped
     THEN m.names[start].end <= n /\ m.names[it.at].end <= n
     ELSE m.names[it.at].end = m.names[start].end

(* A name where the cursor is, which goes on after it. *)
SpellingHere(i) ==
  Spelling(M, Len(buf), name, M.ends[i]) /\ (name.jumped => pos = M.names[M.ends[i]].end)

(* The data of a record that is wholly in the packet. *)
Owner(i) == M.names[M.ends[i]].spelt
Fixed(i) == M.names[M.ends[i]].end
Type(i) == Octets2(M, Fixed(i))
Length(i) == Octets2(M, Fixed(i) + 8)
From(i) == Fixed(i) + 10
InData(i) ==
  /\ InRecord(i) /\ owner = Owner(i)
  /\ rdata.from = From(i)
  /\ rdata.to = M.ends[i + 1] /\ M.ends[i + 1] <= Len(buf)

InName(i) ==
  \/ reading = "question" /\ InQuestion(i) /\ SpellingHere(i)
  \/ reading = "owner" /\ InRecord(i) /\ SpellingHere(i)
  \/ /\ reading = "PTR" /\ InData(i) /\ Type(i) = 12
     /\ Spelling(M, Len(buf), name, From(i))
  \/ /\ reading = "SRV" /\ InData(i) /\ Type(i) = 33 /\ Length(i) >= 6
     /\ Spelling(M, Len(buf), name, From(i) + 6)

Progress ==
  /\ pc \in {"header", "next", "name", "fields", "some", "none"}
  /\ pc = "header" => read = <<>>
  /\ pc = "next" => \E i : Done(i) /\ pos = M.ends[i]
  /\ pc = "name" => \E i : InName(i)
  /\ pc = "fields" => \E i : InRecord(i) /\ owner = Owner(i) /\ pos = Fixed(i) /\ pos <= Len(buf)
  /\ pc = "some" => Done(Items(M))
  /\ pc = "none" =>
       \/ Len(buf) < 12 /\ read = <<>>
       \/ \E i : (InQuestion(i) \/ InRecord(i)) /\ Len(buf) < M.ends[i + 1]

ReadInv == packet \in Packets /\ (packet.sound => Progress)

-----------------------------------------------------------------------------
(* What a sender writes. *)

LEMMA ConcatBytes ==
  ASSUME NEW x \in Seq(Byte), NEW y \in Seq(Byte), NEW z \in Seq(Byte)
  PROVE  (x \o y) \o z = x \o (y \o z)
  BY ConcatAssociative

LEMMA JoinFacts ==
  ASSUME NEW a \in Seq(Byte), NEW b \in Seq(Byte), NEW c \in Seq(Byte)
  PROVE  /\ Join(a, b) \in Seq(Byte) /\ Join(a, <<>>) = a /\ Join(<<>>, a) = a
         /\ Join(Join(a, b), c) = Join(a, Join(b, c))
<1> DEFINE d == Dot
           cat(x, y) == x \o y
<1>1. d \in Seq(Byte) /\ d # <<>> /\ <<>> \in Seq(Byte)
  BY DEF Dot, Byte
<1> HIDE DEF d
<1>2. \A x, y \in Seq(Byte) : cat(x, y) \in Seq(Byte)
  BY ConcatProperties
<1>3. \A x, y \in Seq(Byte) : cat(x, y) = <<>> => x = <<>>
  BY ConcatEqualIffEmpty
<1>4. \A x, y, z \in Seq(Byte) : cat(cat(x, y), z) = cat(x, cat(y, z))
  BY ConcatBytes
<1>5. \A x, y : Join(x, y) = IF x = <<>> THEN y ELSE IF y = <<>> THEN x ELSE cat(cat(x, d), y)
  BY DEF Join, d
<1> HIDE DEF cat
<1>6. \A x, y \in Seq(Byte) : /\ cat(cat(x, d), y) \in Seq(Byte)
                              /\ x # <<>> => cat(cat(x, d), y) # <<>>
  BY <1>1, <1>2, <1>3
<1>7. Join(a, b) \in Seq(Byte) /\ Join(a, <<>>) = a /\ Join(<<>>, a) = a
  BY <1>5, <1>6
<1>8. Join(Join(a, b), c) = Join(a, Join(b, c))
  <2>1. CASE a = <<>> \/ b = <<>> \/ c = <<>>
    BY <1>5, <2>1
  <2>2. CASE a # <<>> /\ b # <<>> /\ c # <<>>
    <3>1. Join(Join(a, b), c) = cat(cat(cat(cat(a, d), b), d), c)
      BY <1>5, <1>6, <2>2
    <3>2. Join(a, Join(b, c)) = cat(cat(a, d), cat(cat(b, d), c))
      BY <1>5, <1>6, <2>2
    <3>3. cat(a, d) \in Seq(Byte) /\ cat(b, d) \in Seq(Byte) /\ cat(cat(a, d), b) \in Seq(Byte)
      BY <1>1, <1>2
    <3>4. cat(cat(cat(a, d), b), d) = cat(cat(a, d), cat(b, d))
      BY <1>1, <1>4, <3>3
    <3>5. cat(cat(cat(a, d), cat(b, d)), c) = cat(cat(a, d), cat(cat(b, d), c))
      BY <1>4, <3>3
    <3> QED
      BY <3>1, <3>2, <3>4, <3>5
  <2> QED
    BY <2>1, <2>2
<1> QED
  BY <1>7, <1>8

LEMMA OctetFacts ==
  ASSUME NEW m, Written(m)
  PROVE  /\ Len(m.bytes) \in Nat
         /\ \A i \in Nat : i < Len(m.bytes) => Octet(m, i) \in 0..255
         /\ \A i \in Nat : i + 1 < Len(m.bytes) => Octets2(m, i) \in Nat
         /\ Questions(m) \in Nat /\ Items(m) \in Nat /\ Questions(m) <= Items(m)
<1>1. m.bytes \in Seq(Byte) /\ Len(m.bytes) \in Nat /\ Len(m.bytes) >= 12
  BY DEF Written
<1>2. \A i \in Nat : i < Len(m.bytes) => Octet(m, i) \in 0..255
  <2> SUFFICES ASSUME NEW i \in Nat, i < Len(m.bytes) PROVE Octet(m, i) \in 0..255
    OBVIOUS
  <2>1. i + 1 \in 1..Len(m.bytes)
    BY <1>1
  <2>2. m.bytes[i + 1] \in Byte
    BY <1>1, <2>1
  <2> QED
    BY <2>2 DEF Octet, Byte
<1>3. \A i \in Nat : i + 1 < Len(m.bytes) => Octets2(m, i) \in Nat
  <2> SUFFICES ASSUME NEW i \in Nat, i + 1 < Len(m.bytes) PROVE Octets2(m, i) \in Nat
    OBVIOUS
  <2>0. i < Len(m.bytes) /\ i + 1 \in Nat
    BY <1>1
  <2>1. Octet(m, i) \in 0..255 /\ Octet(m, i + 1) \in 0..255
    BY <1>2, <2>0
  <2>2. \A a, b \in 0..255 : 256 * a + b \in Nat
    OBVIOUS
  <2> QED
    BY <2>1, <2>2 DEF Octets2
<1>4. Octets2(m, 4) \in Nat /\ Octets2(m, 6) \in Nat /\ Octets2(m, 8) \in Nat /\ Octets2(m, 10) \in Nat
  BY <1>1, <1>3
<1> QED
  BY <1>1, <1>2, <1>3, <1>4 DEF Questions, Items

LEMMA NameFacts ==
  ASSUME NEW m, Written(m), NEW at \in DOMAIN m.names
  PROVE  /\ at \in Nat /\ m.names[at].spelt \in Seq(Byte)
         /\ m.names[at].end \in Nat /\ m.names[at].end <= Len(m.bytes) /\ at < m.names[at].end
         /\ m.names[at].turns \in Nat /\ m.names[at].turns < Budget
         /\ NameWritten(m, at)
<1>1. m.names[at] \in [spelt : Seq(Byte), end : 0..Len(m.bytes), turns : 0..(Budget - 1)]
  BY DEF Written
<1>2. Len(m.bytes) \in Nat /\ Budget \in Nat
  BY PacketAssumption, OctetFacts
<1> QED
  BY <1>1, <1>2 DEF Written

(* What the parser sees of a sound packet is what was written. *)
LEMMA SoundFacts ==
  ASSUME packet \in Packets, packet.sound
  PROVE  /\ Sound(packet) /\ Written(M) /\ Len(buf) \in Nat /\ Len(buf) <= Len(M.bytes)
         /\ \A i \in Nat : i < Len(buf) => At(i) = Octet(M, i)
         /\ \A i \in Nat : i + 1 < Len(buf) => Short(i) = Octets2(M, i)
         /\ \A from, to \in Nat : to <= Len(buf) => SubSeq(buf, from + 1, to) = Data(M, from, to)
<1> DEFINE n == Len(buf)
           b == M.bytes
<1>0. Sound(packet)
  BY PacketAssumption
<1>1. /\ Sound(packet) /\ Written(M) /\ n \in Nat /\ n <= Len(b) /\ buf = SubSeq(b, 1, n)
      /\ b \in Seq(Byte) /\ Len(b) \in Nat
  <2>1. Written(M) /\ n <= Len(b) /\ buf = SubSeq(b, 1, n)
    BY <1>0 DEF Sound, M, buf
  <2>2. b \in Seq(Byte) /\ Len(b) \in Nat
    BY <2>1 DEF Written
  <2> QED
    BY <1>0, <2>1, <2>2, Bytes
<1> HIDE DEF n, b
<1>2. \A i \in 1..n : buf[i] = b[i]
  <2>1. 1 \in Int /\ n \in Int /\ n - 1 + 1 = n /\ \A i \in 1..n : i \in 1..Len(b) /\ 1 + i - 1 = i
    BY <1>1
  <2>2. \A i \in 1..n : b[i] \in Byte
    BY <1>1, <2>1
  <2>3. \A i \in 1..(n - 1 + 1) : SubSeq(b, 1, n)[i] = b[1 + i - 1]
    BY <2>1, <2>2, SubSeqProperties
  <2> QED
    BY <1>1, <2>1, <2>3
<1>3. \A i \in Nat : i < n => At(i) = Octet(M, i)
  <2> SUFFICES ASSUME NEW i \in Nat, i < n PROVE At(i) = Octet(M, i)
    OBVIOUS
  <2>1. i + 1 \in 1..n
    BY <1>1
  <2> QED
    BY <1>2, <2>1 DEF At, Octet, n, b
<1>4. \A i \in Nat : i + 1 < n => Short(i) = Octets2(M, i)
  <2> SUFFICES ASSUME NEW i \in Nat, i + 1 < n PROVE Short(i) = Octets2(M, i)
    OBVIOUS
  <2>1. i < n /\ i + 1 \in Nat
    BY <1>1
  <2> QED
    BY <1>3, <2>1 DEF Short, Octets2
<1>5. ASSUME NEW from \in Nat, NEW to \in Nat, to <= n
      PROVE  SubSeq(buf, from + 1, to) = SubSeq(b, from + 1, to)
  <2>1. \A i \in (from + 1)..to : i \in 1..n
    BY <1>1, <1>5
  <2>2. \A i \in (from + 1)..to : buf[i] = b[i] /\ buf[i] \in Byte /\ b[i] \in Byte
    <3>1. \A i \in 1..n : i \in 1..Len(b)
      BY <1>1
    <3> QED
      BY <1>1, <1>2, <2>1, <3>1
  <2>3. from + 1 \in Int /\ to \in Int
    OBVIOUS
  <2>4. /\ SubSeq(buf, from + 1, to) \in Seq(Byte)
        /\ Len(SubSeq(buf, from + 1, to)) = IF from + 1 <= to THEN to - (from + 1) + 1 ELSE 0
        /\ \A i \in 1..(to - (from + 1) + 1) : SubSeq(buf, from + 1, to)[i] = buf[(from + 1) + i - 1]
    BY <2>2, <2>3, SubSeqProperties
  <2>5. /\ SubSeq(b, from + 1, to) \in Seq(Byte)
        /\ Len(SubSeq(b, from + 1, to)) = IF from + 1 <= to THEN to - (from + 1) + 1 ELSE 0
        /\ \A i \in 1..(to - (from + 1) + 1) : SubSeq(b, from + 1, to)[i] = b[(from + 1) + i - 1]
    BY <2>2, <2>3, SubSeqProperties
  <2> DEFINE s == SubSeq(buf, from + 1, to)
             t == SubSeq(b, from + 1, to)
  <2> HIDE DEF s, t
  <2>6. Len(s) = Len(t) /\ s \in Seq(Byte) /\ t \in Seq(Byte)
    BY <2>4, <2>5 DEF s, t
  <2>7. ASSUME NEW i \in 1..Len(s) PROVE s[i] = t[i]
    <3>1. from + 1 <= to /\ Len(s) = to - (from + 1) + 1
      BY <2>4, <2>7 DEF s
    <3>2. i \in 1..(to - (from + 1) + 1) /\ (from + 1) + i - 1 \in (from + 1)..to
      BY <2>3, <3>1
    <3> QED
      BY <2>2, <2>4, <2>5, <3>2 DEF s, t
  <2>8. s = t
    BY <2>6, <2>7, SeqEqual
  <2> QED
    BY <2>8 DEF s, t
<1> QED
  BY <1>1, <1>3, <1>4, <1>5 DEF n, b, Data

LEMMA DataFacts ==
  ASSUME NEW m, Written(m), NEW from \in Nat, NEW to \in Nat, to <= Len(m.bytes)
  PROVE  Data(m, from, to) \in Seq(Byte) /\ (from < to => Data(m, from, to) # <<>>)
<1>1. m.bytes \in Seq(Byte) /\ Len(m.bytes) \in Nat /\ from + 1 \in Int /\ to \in Int
  BY OctetFacts DEF Written
<1>2. \A i \in (from + 1)..to : m.bytes[i] \in Byte
  <2>1. \A i \in (from + 1)..to : i \in 1..Len(m.bytes)
    BY <1>1
  <2> QED
    BY <1>1, <2>1
<1>3. /\ Data(m, from, to) \in Seq(Byte)
      /\ Len(Data(m, from, to)) = IF from + 1 <= to THEN to - (from + 1) + 1 ELSE 0
  BY <1>1, <1>2, SubSeqProperties DEF Data
<1>4. from < to => Len(Data(m, from, to)) # 0
  BY <1>3
<1> QED
  BY <1>3, <1>4

(* The three ways in which a name is written. *)
LEMMA RootWritten ==
  ASSUME NEW m, NEW at, NameWritten(m, at), Octet(m, at) = 0
  PROVE  m.names[at].spelt = <<>> /\ m.names[at].end = at + 1
<1>1. ~(Octet(m, at) \in 1..63) /\ ~(Octet(m, at) \in 192..255)
  OBVIOUS
<1>2. m.names[at] = [spelt |-> <<>>, end |-> at + 1, turns |-> 0]
  BY <1>1 DEF NameWritten
<1> QED
  BY <1>2

LEMMA LabelWritten ==
  ASSUME NEW m, NEW at, NameWritten(m, at), Octet(m, at) \in 1..191,
         NEW next, next = at + 1 + Octet(m, at)
  PROVE  /\ next \in DOMAIN m.names /\ Utf8(Data(m, at + 1, next))
         /\ m.names[at].spelt = Join(Data(m, at + 1, next), m.names[next].spelt)
         /\ m.names[at].end = m.names[next].end
         /\ m.names[at].turns = m.names[next].turns + 1
<1>1. Octet(m, at) # 0 /\ ~(Octet(m, at) \in 192..255)
  OBVIOUS
<1>2. /\ next \in DOMAIN m.names /\ Utf8(Data(m, at + 1, next))
      /\ m.names[at] = [spelt |-> Join(Data(m, at + 1, next), m.names[next].spelt),
                        end |-> m.names[next].end, turns |-> m.names[next].turns + 1]
  BY <1>1 DEF NameWritten
<1> QED
  BY <1>2

LEMMA PointerWritten ==
  ASSUME NEW m, NEW at, NameWritten(m, at), Octet(m, at) \in 192..255,
         NEW target, target = 256 * (Octet(m, at) % 64) + Octet(m, at + 1)
  PROVE  /\ target \in DOMAIN m.names /\ m.names[target].end <= at
         /\ m.names[at].spelt = m.names[target].spelt /\ m.names[at].end = at + 2
         /\ m.names[at].turns = m.names[target].turns + 1
<1>1. Octet(m, at) # 0 /\ ~(Octet(m, at) \in 1..63)
  OBVIOUS
<1>2. /\ target \in DOMAIN m.names /\ m.names[target].end <= at
      /\ m.names[at] = [spelt |-> m.names[target].spelt, end |-> at + 2,
                        turns |-> m.names[target].turns + 1]
  BY <1>1 DEF NameWritten
<1> QED
  BY <1>2

(* What the parser finds at a place where a name was written. *)
LEMMA NameThere ==
  ASSUME packet \in Packets, packet.sound, NEW at \in DOMAIN M.names, at < Len(buf)
  PROVE  /\ at \in Nat /\ Written(M) /\ NameWritten(M, at) /\ Len(buf) \in Nat
         /\ At(at) = Octet(M, at) /\ At(at) \in 0..255
         /\ at + 1 < Len(buf) => At(at + 1) = Octet(M, at + 1)
<1>1. at \in Nat /\ NameWritten(M, at) /\ Written(M) /\ Len(buf) \in Nat
  BY SoundFacts, NameFacts
<1>2. at + 1 \in Nat
  BY <1>1
<1> QED
  BY <1>1, <1>2, SoundFacts, Bytes

LEMMA RootSeen ==
  ASSUME packet \in Packets, packet.sound, NEW at \in DOMAIN M.names, at < Len(buf), At(at) = 0
  PROVE  M.names[at].spelt = <<>> /\ M.names[at].end = at + 1
<1>1. NameWritten(M, at) /\ Octet(M, at) = 0
  BY NameThere
<1> QED
  BY <1>1, RootWritten

LEMMA LabelSeen ==
  ASSUME packet \in Packets, packet.sound, NEW at \in DOMAIN M.names, at < Len(buf),
         At(at) \in 1..191, NEW next, next = at + 1 + At(at)
  PROVE  /\ next \in DOMAIN M.names /\ next \in Nat /\ next < M.names[at].end
         /\ Utf8(Data(M, at + 1, next)) /\ Data(M, at + 1, next) \in Seq(Byte) \ {<<>>}
         /\ M.names[at].spelt = Join(Data(M, at + 1, next), M.names[next].spelt)
         /\ M.names[at].end = M.names[next].end
         /\ M.names[at].turns = M.names[next].turns + 1
<1>1. /\ at \in Nat /\ Written(M) /\ NameWritten(M, at)
      /\ Octet(M, at) \in 1..191 /\ next = at + 1 + Octet(M, at)
  BY NameThere
<1>2. /\ next \in DOMAIN M.names /\ Utf8(Data(M, at + 1, next))
      /\ M.names[at].spelt = Join(Data(M, at + 1, next), M.names[next].spelt)
      /\ M.names[at].end = M.names[next].end
      /\ M.names[at].turns = M.names[next].turns + 1
  BY <1>1, LabelWritten
<1>3. /\ next \in Nat /\ next < M.names[next].end /\ M.names[next].end <= Len(M.bytes)
      /\ M.names[next].end \in Nat /\ Len(M.bytes) \in Nat
  BY <1>1, <1>2, NameFacts, OctetFacts
<1>4. at + 1 \in Nat /\ at + 1 < next /\ next <= Len(M.bytes)
  <2>1. \A a \in Nat, o \in 1..191 : a + 1 \in Nat /\ a + 1 < a + 1 + o
    OBVIOUS
  <2>2. \A n, e, l \in Nat : n < e /\ e <= l => n <= l
    OBVIOUS
  <2>3. at + 1 \in Nat /\ at + 1 < next
    BY <1>1, <2>1
  <2>4. next <= Len(M.bytes)
    BY <1>3, <2>2
  <2> QED
    BY <2>3, <2>4
<1>5. Data(M, at + 1, next) \in Seq(Byte) \ {<<>>}
  BY <1>1, <1>3, <1>4, DataFacts
<1> QED
  BY <1>2, <1>3, <1>5

LEMMA PointerSeen ==
  ASSUME packet \in Packets, packet.sound, NEW at \in DOMAIN M.names, at < Len(buf),
         At(at) >= 192
  PROVE  /\ M.names[at].end = at + 2
         /\ at + 1 < Len(buf) =>
              \E target \in DOMAIN M.names :
                 /\ target = 256 * (At(at) % 64) + At(at + 1) /\ M.names[target].end <= at
                 /\ M.names[at].spelt = M.names[target].spelt
                 /\ M.names[at].turns = M.names[target].turns + 1
<1> DEFINE target == 256 * (Octet(M, at) % 64) + Octet(M, at + 1)
<1>0. /\ NameWritten(M, at) /\ At(at) = Octet(M, at) /\ At(at) \in 0..255
      /\ at + 1 < Len(buf) => At(at + 1) = Octet(M, at + 1)
  BY NameThere
<1>1. /\ NameWritten(M, at) /\ Octet(M, at) \in 192..255 /\ At(at) = Octet(M, at)
      /\ at + 1 < Len(buf) => At(at + 1) = Octet(M, at + 1)
  <2>1. \A a \in 0..255 : a >= 192 => a \in 192..255
    OBVIOUS
  <2> QED
    BY <1>0, <2>1
<1>2. /\ target \in DOMAIN M.names /\ M.names[target].end <= at
      /\ M.names[at].spelt = M.names[target].spelt /\ M.names[at].end = at + 2
      /\ M.names[at].turns = M.names[target].turns + 1
  BY <1>1, PointerWritten
<1>3. at + 1 < Len(buf) => target = 256 * (At(at) % 64) + At(at + 1)
  BY <1>1
<1> HIDE DEF target
<1> QED
  BY <1>2, <1>3

(* While a name is spelt there is always a turn left for what is to come. *)
LEMMA SpellingFacts ==
  ASSUME packet \in Packets, packet.sound, NEW start, Spelling(M, Len(buf), name, start)
  PROVE  /\ start \in DOMAIN M.names /\ name.at \in DOMAIN M.names /\ name.at \in Nat
         /\ name.budget \in Nat /\ name.budget # 0 /\ Len(buf) \in Nat
         /\ M.names[start].end \in Nat /\ M.names[name.at].end \in Nat
         /\ M.names[name.at].turns \in Nat /\ M.names[name.at].spelt \in Seq(Byte)
         /\ name.at < M.names[name.at].end
<1>1. Written(M) /\ Len(buf) \in Nat
  BY SoundFacts
<1>2. start \in DOMAIN M.names /\ name.at \in DOMAIN M.names /\ name.budget \in Nat
      /\ M.names[name.at].turns < name.budget
  BY DEF Spelling
<1> QED
  BY <1>1, <1>2, NameFacts

(* A name cannot be read only if it does not end in the packet. *)
LEMMA SpellingFails ==
  ASSUME packet \in Packets, packet.sound, NEW start, Spelling(M, Len(buf), name, start),
         \/ NameBroken
         \/ NamePointer /\ ~PointerFits
         \/ NameLabel /\ ~(LabelEnd <= Len(buf) /\ Utf8(Label))
  PROVE  Len(buf) < M.names[start].end
<1> DEFINE at == name.at
           e == M.names[at]
           n == Len(buf)
           f == At(at)
<1>1. /\ at \in DOMAIN M.names /\ at \in Nat /\ name.budget # 0 /\ n \in Nat
      /\ M.names[start].end \in Nat /\ e.end \in Nat /\ at < e.end
  BY SpellingFacts
<1>2. n < e.end
  <2>1. CASE at >= n
    BY <1>1, <2>1
  <2>2. CASE at < n
    <3>1. /\ f \in 1..191 => /\ at + 1 + f \in Nat /\ at + 1 + f < e.end
                             /\ Utf8(Data(M, at + 1, at + 1 + f))
          /\ f >= 192 => e.end = at + 2
      <4>1. f >= 192 => e.end = at + 2
        BY <1>1, <2>2, PointerSeen
      <4>2. ASSUME f \in 1..191
            PROVE  /\ at + 1 + f \in Nat /\ at + 1 + f < e.end
                   /\ Utf8(Data(M, at + 1, at + 1 + f))
        BY <1>1, <2>2, <4>2, LabelSeen
      <4> QED
        BY <4>1, <4>2
    <3>2. CASE NameBroken
      BY <1>1, <2>2, <3>2 DEF NameBroken
    <3>3. CASE NamePointer /\ ~PointerFits
      <4>1. f >= 192 /\ ~(at + 1 < n)
        BY <3>3 DEF NamePointer, PointerFits
      <4>2. e.end = at + 2
        BY <3>1, <4>1
      <4> QED
        BY <1>1, <4>1, <4>2
    <3>4. CASE NameLabel /\ ~(LabelEnd <= n /\ Utf8(Label))
      <4>1. f \in 1..191 /\ LabelEnd = at + 1 + f /\ LabelEnd \in Nat
        <5>1. f \in 1..191 /\ LabelEnd = at + 1 + f
          BY <3>4 DEF NameLabel, LabelEnd
        <5>2. \A a \in Nat, o \in 1..191 : a + 1 + o \in Nat
          OBVIOUS
        <5> QED
          BY <1>1, <5>1, <5>2
      <4>2. LabelEnd <= n => Label = Data(M, at + 1, at + 1 + f)
        <5>1. at + 1 \in Nat /\ at + 1 + 1 = at + 2
          BY <1>1
        <5> QED
          BY <4>1, <5>1, SoundFacts DEF Label
      <4> QED
        BY <1>1, <3>1, <3>4, <4>1, <4>2
    <3> QED
      BY <3>2, <3>3, <3>4
  <2> QED
    BY <1>1, <2>1, <2>2
<1> QED
  BY <1>1, <1>2 DEF Spelling

(* A turn of the loop goes on with the name. *)
LEMMA PointerFollowed ==
  ASSUME packet \in Packets, packet.sound, NEW start, Spelling(M, Len(buf), name, start),
         NamePointer, PointerFits
  PROVE  /\ Spelling(M, Len(buf), name', start)
         /\ UNCHANGED <<packet, pc, questions, records, reading, owner, rdata, read>>
         /\ ~InRdata /\ (name.jumped => pos = M.names[start].end) => pos' = M.names[start].end
<1> DEFINE at == name.at
           e == M.names[at]
           n == Len(buf)
           f == At(at)
           last == M.names[start].end
           target == 256 * (f % 64) + At(at + 1)
<1>1. /\ start \in DOMAIN M.names /\ at \in DOMAIN M.names /\ at \in Nat /\ n \in Nat
      /\ name.budget \in Nat /\ name.budget # 0 /\ e.turns \in Nat
      /\ last \in Nat /\ e.end \in Nat /\ at < e.end /\ e.spelt \in Seq(Byte)
  BY SpellingFacts
<1>2. /\ name.out \in Seq(Byte) /\ e.turns < name.budget
      /\ Join(name.out, e.spelt) = M.names[start].spelt
      /\ IF name.jumped THEN last <= n /\ e.end <= n ELSE e.end = last
  BY DEF Spelling
<1>3. /\ at < n /\ at + 1 < n /\ f >= 192
      /\ name' = [at |-> target, budget |-> name.budget - 1, out |-> name.out, jumped |-> TRUE]
      /\ pos' = IF InRdata \/ name.jumped THEN pos ELSE at + 2
      /\ UNCHANGED <<packet, pc, questions, records, reading, owner, rdata, read>>
  BY DEF NamePointer, PointerFits, NameGoesOn, Spent
<1>4. /\ target \in DOMAIN M.names /\ M.names[target].end <= at /\ e.end = at + 2
      /\ e.spelt = M.names[target].spelt /\ e.turns = M.names[target].turns + 1
  <2>1. PICK t \in DOMAIN M.names :
           /\ t = 256 * (f % 64) + At(at + 1) /\ M.names[t].end <= at
           /\ e.spelt = M.names[t].spelt /\ e.turns = M.names[t].turns + 1
    BY <1>1, <1>3, PointerSeen
  <2>2. t = target
    BY <2>1
  <2> QED
    BY <1>1, <1>3, <2>1, <2>2, PointerSeen
<1> DEFINE there == M.names[target]
<1>5. there.end \in Nat /\ there.turns \in Nat
  BY <1>4, SoundFacts, NameFacts
<1>6. /\ name'.at = target /\ name'.budget = name.budget - 1
      /\ name'.out = name.out /\ name'.jumped
  BY <1>3
<1> HIDE DEF target, there, e, last, n
<1>7. there.end <= at /\ e.turns = there.turns + 1 /\ e.spelt = there.spelt
  BY <1>4 DEF there
<1>8. last <= n /\ there.end <= n
  <2>1. at < n /\ at + 1 < n /\ n \in Nat /\ at \in Nat
    BY <1>1, <1>3 DEF n
  <2>2. e.end = at + 2 /\ (IF name.jumped THEN last <= n ELSE e.end = last)
    BY <1>2, <1>4
  <2>3. last <= n
    BY <2>1, <2>2
  <2>4. there.end <= n
    BY <1>5, <1>7, <2>1
  <2> QED
    BY <2>3, <2>4
<1>9. name.budget - 1 \in Nat /\ there.turns < name.budget - 1
  BY <1>1, <1>2, <1>5, <1>7
<1>10. Spelling(M, n, name', start)
  BY <1>1, <1>2, <1>4, <1>6, <1>7, <1>8, <1>9 DEF Spelling, there, last
<1>11. ~InRdata /\ (name.jumped => pos = last) => pos' = last
  BY <1>2, <1>3, <1>4
<1> QED
  BY <1>3, <1>10, <1>11 DEF n, last

LEMMA LabelTaken ==
  ASSUME packet \in Packets, packet.sound, NEW start, Spelling(M, Len(buf), name, start),
         NameLabel, LabelEnd <= Len(buf), Utf8(Label)
  PROVE  /\ Spelling(M, Len(buf), name', start)
         /\ UNCHANGED <<packet, pc, pos, questions, records, reading, owner, rdata, read>>
         /\ name'.jumped = name.jumped
<1> DEFINE at == name.at
           e == M.names[at]
           n == Len(buf)
           f == At(at)
           last == M.names[start].end
           next == at + 1 + f
           label == Data(M, at + 1, next)
           there == M.names[next]
<1>1. /\ start \in DOMAIN M.names /\ at \in DOMAIN M.names /\ at \in Nat /\ n \in Nat
      /\ name.budget \in Nat /\ name.budget # 0 /\ e.turns \in Nat
      /\ last \in Nat /\ e.end \in Nat /\ at < e.end /\ e.spelt \in Seq(Byte)
  BY SpellingFacts
<1>2. /\ name.out \in Seq(Byte) /\ e.turns < name.budget
      /\ Join(name.out, e.spelt) = M.names[start].spelt
      /\ IF name.jumped THEN last <= n /\ e.end <= n ELSE e.end = last
  BY DEF Spelling
<1>3. at < n /\ f \in 1..191 /\ LabelEnd = next
  BY DEF NameLabel, NameGoesOn, LabelEnd
<1>4. /\ next \in DOMAIN M.names /\ next \in Nat /\ label \in Seq(Byte) /\ label # <<>>
      /\ e.spelt = Join(label, there.spelt)
      /\ e.end = there.end /\ e.turns = there.turns + 1
  BY <1>1, <1>3, LabelSeen
<1>5. there.end \in Nat /\ there.turns \in Nat /\ there.spelt \in Seq(Byte)
  BY <1>4, SoundFacts, NameFacts
<1> HIDE DEF next, e, last, n, f, at, label, there
<1>6. ~(LabelEnd > n)
  BY <1>1, <1>3, <1>4 DEF n
<1>7. /\ name' = [at |-> next, budget |-> name.budget - 1, jumped |-> name.jumped,
                  out |-> IF name.out = <<>> THEN Label ELSE name.out \o Dot \o Label]
      /\ UNCHANGED <<packet, pc, pos, questions, records, reading, owner, rdata, read>>
  BY <1>3, <1>6 DEF NameLabel, Spent, n
<1>8. /\ name'.at = next /\ name'.budget = name.budget - 1 /\ name'.jumped = name.jumped
      /\ name'.out = IF name.out = <<>> THEN Label ELSE name.out \o Dot \o Label
  BY <1>7
<1>9. Label = label
  <2>1. at + 1 \in Nat /\ at + 1 + 1 = at + 2
    BY <1>1
  <2>2. next <= n
    BY <1>3 DEF n
  <2>3. SubSeq(buf, at + 1 + 1, next) = Data(M, at + 1, next)
    BY <1>4, <2>1, <2>2, SoundFacts DEF n
  <2> QED
    BY <1>3, <2>1, <2>3 DEF Label, at, label
<1>10. name'.out = Join(name.out, label)
  BY <1>4, <1>8, <1>9 DEF Join
<1>11. /\ name'.out \in Seq(Byte)
       /\ Join(name'.out, there.spelt) = M.names[start].spelt
  <2> DEFINE x == name.out
             y == there.spelt
  <2>1. x \in Seq(Byte) /\ y \in Seq(Byte) /\ label \in Seq(Byte)
    BY <1>2, <1>4, <1>5
  <2> HIDE DEF x, y
  <2>2. Join(x, label) \in Seq(Byte) /\ Join(Join(x, label), y) = Join(x, Join(label, y))
    BY <2>1, JoinFacts, SMTT(30)
  <2> QED
    BY <1>2, <1>4, <1>10, <2>2 DEF x, y
<1>12. name.budget - 1 \in Nat /\ there.turns < name.budget - 1
  BY <1>1, <1>2, <1>4, <1>5
<1>13. Spelling(M, n, name', start)
  BY <1>1, <1>2, <1>4, <1>8, <1>11, <1>12 DEF Spelling, there, last
<1> QED
  BY <1>7, <1>8, <1>13 DEF n

(* At its end the name has been spelt, and the cursor goes on after it. *)
LEMMA SpellingEnds ==
  ASSUME packet \in Packets, packet.sound, NEW start, Spelling(M, Len(buf), name, start),
         NameComplete
  PROVE  /\ name.out = M.names[start].spelt
         /\ M.names[start].end <= Len(buf) /\ M.names[start].end \in Nat
         /\ (name.jumped => pos = M.names[start].end) => AfterName = M.names[start].end
<1>1. name.at < Len(buf) /\ At(name.at) = 0
  BY DEF NameComplete, NameGoesOn
<1>2. /\ name.at \in DOMAIN M.names /\ name.at \in Nat /\ Len(buf) \in Nat
      /\ M.names[start].end \in Nat
  BY SpellingFacts
<1>3. M.names[name.at].spelt = <<>> /\ M.names[name.at].end = name.at + 1
  BY <1>1, <1>2, RootSeen
<1>4. Join(name.out, <<>>) = M.names[start].spelt /\ name.out \in Seq(Byte)
  BY <1>3 DEF Spelling
<1>5. name.out = M.names[start].spelt
  BY <1>4, JoinFacts
<1> QED
  BY <1>1, <1>2, <1>3, <1>5 DEF Spelling, AfterName

-----------------------------------------------------------------------------
(* The items of a message. *)

LEMMA EndFacts ==
  ASSUME packet \in Packets, packet.sound
  PROVE  /\ Items(M) \in Nat /\ Questions(M) \in Nat /\ Questions(M) <= Items(M)
         /\ Len(buf) \in Nat /\ Len(buf) <= Len(M.bytes) /\ Len(M.bytes) \in Nat
         /\ \A i \in 0..Items(M) : M.ends[i] \in Nat /\ M.ends[i] >= 12
         /\ M.ends[0] = 12 /\ M.ends[Items(M)] = Len(M.bytes) /\ M.read[0] = <<>>
         /\ \A i, j \in 0..Items(M) : i < j => M.ends[i] < M.ends[j]
<1>1. Written(M) /\ Len(buf) \in Nat /\ Len(buf) <= Len(M.bytes)
  BY SoundFacts
<1>2. /\ Items(M) \in Nat /\ Questions(M) \in Nat /\ Questions(M) <= Items(M)
      /\ Len(M.bytes) \in Nat
  BY <1>1, OctetFacts
<1>3. M.ends \in [0..Items(M) -> 12..Len(M.bytes)]
  BY <1>1 DEF Written
<1>4. \A i \in 0..Items(M) : M.ends[i] \in Nat /\ M.ends[i] >= 12
  <2>1. \A i \in 0..Items(M) : M.ends[i] \in 12..Len(M.bytes)
    BY <1>3
  <2> QED
    BY <1>2, <2>1
<1>5. /\ M.ends[0] = 12 /\ M.ends[Items(M)] = Len(M.bytes) /\ M.read[0] = <<>>
      /\ \A i, j \in 0..Items(M) : i < j => M.ends[i] < M.ends[j]
  BY <1>1 DEF Written
<1> QED
  BY <1>1, <1>2, <1>4, <1>5

LEMMA QuestionFacts ==
  ASSUME packet \in Packets, packet.sound, NEW i, InQuestion(i)
  PROVE  /\ i \in Nat /\ i + 1 \in 1..Items(M)
         /\ M.ends[i] \in DOMAIN M.names
         /\ M.ends[i + 1] = M.names[M.ends[i]].end + 4
         /\ M.read[i + 1] = M.read[i]
<1>1. /\ Items(M) \in Nat /\ Questions(M) \in Nat /\ Questions(M) <= Items(M)
      /\ i \in 0..Items(M) /\ i < Questions(M) /\ Written(M)
  BY EndFacts, SoundFacts DEF InQuestion, Done
<1>2. i \in Nat /\ i + 1 \in 1..Items(M) /\ i + 1 <= Questions(M) /\ (i + 1) - 1 = i
  BY <1>1
<1>3. QuestionWritten(M, i + 1)
  BY <1>1, <1>2 DEF Written
<1> QED
  BY <1>2, <1>3 DEF QuestionWritten

(* A record: its offsets, and what it adds to what was read. *)
LEMMA RecordFacts ==
  ASSUME packet \in Packets, packet.sound, NEW i, InRecord(i)
  PROVE  /\ i \in Nat /\ i + 1 \in 1..Items(M)
         /\ M.ends[i] \in DOMAIN M.names
         /\ Fixed(i) \in Nat /\ From(i) <= Len(M.bytes) /\ M.ends[i] < Fixed(i)
         /\ Type(i) \in Nat /\ Length(i) \in Nat
         /\ M.ends[i + 1] = From(i) + Length(i)
         /\ Type(i) = 12 =>
              /\ From(i) \in DOMAIN M.names /\ M.names[From(i)].end <= M.ends[i + 1]
              /\ \/ \E s \in Services :
                      /\ Lower(Owner(i)) = s[1]
                      /\ M.read[i + 1] = Append(M.read[i], Ptr(s[2], M.names[From(i)].spelt))
                 \/ /\ \A s \in Services : Lower(Owner(i)) # s[1]
                    /\ M.read[i + 1] = M.read[i]
         /\ Type(i) = 33 /\ Length(i) >= 6 =>
              /\ From(i) + 6 \in DOMAIN M.names /\ M.names[From(i) + 6].end <= M.ends[i + 1]
              /\ M.read[i + 1] = Append(M.read[i], Srv(Owner(i), M.names[From(i) + 6].spelt,
                                                       Octets2(M, From(i) + 4)))
         /\ (Type(i) = 1 /\ Length(i) = 4) \/ (Type(i) = 28 /\ Length(i) = 16) =>
              M.read[i + 1] = Append(M.read[i], Addr(Owner(i), Data(M, From(i), M.ends[i + 1])))
         /\ /\ Type(i) # 12 /\ (Type(i) = 33 => Length(i) < 6)
            /\ (Type(i) = 1 => Length(i) # 4) /\ (Type(i) = 28 => Length(i) # 16)
            => M.read[i + 1] = M.read[i]
<1>1. /\ Items(M) \in Nat /\ Questions(M) \in Nat /\ Questions(M) <= Items(M)
      /\ i \in 0..Items(M) /\ i >= Questions(M) /\ i < Items(M) /\ Written(M)
  BY EndFacts, SoundFacts DEF InRecord, Done
<1>2. i \in Nat /\ i + 1 \in 1..Items(M) /\ ~(i + 1 <= Questions(M)) /\ (i + 1) - 1 = i
  BY <1>1
<1>3. RecordWritten(M, i + 1)
  BY <1>1, <1>2 DEF Written
<1> DEFINE data == From(i)
           type == Type(i)
           len == Length(i)
           o == Owner(i)
           end == M.ends[i + 1]
           before == M.read[i]
           after == M.read[i + 1]
<1>4. /\ M.ends[i] \in DOMAIN M.names
      /\ data <= Len(M.bytes) /\ end = data + len
      /\ \/ /\ type = 12
            /\ data \in DOMAIN M.names /\ M.names[data].end <= end
            /\ \/ \E s \in Services :
                    Lower(o) = s[1] /\ after = Append(before, Ptr(s[2], M.names[data].spelt))
               \/ (\A s \in Services : Lower(o) # s[1]) /\ after = before
         \/ /\ type = 33 /\ len >= 6
            /\ data + 6 \in DOMAIN M.names /\ M.names[data + 6].end <= end
            /\ after = Append(before, Srv(o, M.names[data + 6].spelt, Octets2(M, data + 4)))
         \/ /\ (type = 1 /\ len = 4) \/ (type = 28 /\ len = 16)
            /\ after = Append(before, Addr(o, Data(M, data, end)))
         \/ /\ type # 12 /\ (type = 33 => len < 6) /\ (type = 1 => len # 4) /\ (type = 28 => len # 16)
            /\ after = before
  BY <1>2, <1>3 DEF RecordWritten, From, Type, Length, Owner, Fixed
<1>5. Fixed(i) \in Nat /\ M.ends[i] < Fixed(i) /\ Len(M.bytes) \in Nat
  BY <1>1, <1>4, NameFacts, OctetFacts DEF Fixed
<1>6. type \in Nat /\ len \in Nat
  <2>1. /\ Fixed(i) + 8 \in Nat /\ Fixed(i) + 1 < Len(M.bytes)
        /\ (Fixed(i) + 8) + 1 < Len(M.bytes)
    BY <1>4, <1>5 DEF From
  <2> QED
    BY <1>1, <1>5, <2>1, OctetFacts DEF Type, Length
<1> HIDE DEF data, type, len, o, end, before, after
<1>7. CASE type = 12
  BY <1>2, <1>4, <1>5, <1>6, <1>7 DEF data, type, len, o, end, before, after
<1>8. CASE type = 33 /\ len >= 6
  BY <1>2, <1>4, <1>5, <1>6, <1>8 DEF data, type, len, o, end, before, after
<1>9. CASE (type = 1 /\ len = 4) \/ (type = 28 /\ len = 16)
  BY <1>2, <1>4, <1>5, <1>6, <1>9 DEF data, type, len, o, end, before, after
<1>10. CASE /\ type # 12 /\ (type = 33 => len < 6)
            /\ (type = 1 => len # 4) /\ (type = 28 => len # 16)
  BY <1>2, <1>4, <1>5, <1>6, <1>10 DEF data, type, len, o, end, before, after
<1>11. type # 12 /\ ~(type = 33 /\ len >= 6) => (type = 33 => len < 6)
  BY <1>6
<1> QED
  BY <1>7, <1>8, <1>9, <1>10, <1>11

(* A state of the parse, and the one before. *)
LEMMA Unmoved ==
  ASSUME UNCHANGED packet
  PROVE  M' = M /\ Len(buf)' = Len(buf)
  BY DEF M, buf

LEMMA Stays ==
  ASSUME UNCHANGED <<packet, questions, records, read>>, NEW i
  PROVE  /\ Done(i)' = Done(i) /\ InQuestion(i)' = InQuestion(i) /\ InRecord(i)' = InRecord(i)
         /\ Owner(i)' = Owner(i) /\ Fixed(i)' = Fixed(i) /\ From(i)' = From(i)
         /\ Type(i)' = Type(i) /\ Length(i)' = Length(i)
         /\ UNCHANGED <<owner, rdata>> => InData(i)' = InData(i)
  BY DEF Done, InQuestion, InRecord, InData, Owner, Fixed, From, Type, Length, M, buf

LEMMA ToNext ==
  ASSUME UNCHANGED packet, pc' = "next", NEW i, Done(i)', pos' = M.ends[i]
  PROVE  Progress'
  BY DEF Progress, M

LEMMA ToNone ==
  ASSUME UNCHANGED packet, pc' = "none",
         \/ Len(buf) < 12 /\ read' = <<>>
         \/ \E i : (InQuestion(i)' \/ InRecord(i)') /\ Len(buf) < M.ends[i + 1]
  PROVE  Progress'
  BY DEF Progress, M, buf

LEMMA ToName ==
  ASSUME UNCHANGED packet, pc' = "name", NEW i, InName(i)'
  PROVE  Progress'
  BY DEF Progress

(* The next question is done, or the next record. *)
LEMMA QuestionDone ==
  ASSUME packet \in Packets, packet.sound, NEW i, InQuestion(i), M.ends[i + 1] <= Len(buf),
         UNCHANGED <<packet, records, read>>, questions' = questions - 1
  PROVE  Done(i + 1)'
<1>1. /\ Items(M) \in Nat /\ Questions(M) \in Nat /\ Questions(M) <= Items(M)
      /\ i \in Nat /\ i + 1 \in 1..Items(M) /\ M.read[i + 1] = M.read[i]
  BY EndFacts, QuestionFacts
<1>2. /\ i < Questions(M) /\ questions = Questions(M) - i
      /\ records = Items(M) - Questions(M) /\ read = M.read[i]
  BY DEF InQuestion, Done
<1>3. /\ i + 1 \in 0..Items(M)
      /\ questions' = IF i + 1 < Questions(M) THEN Questions(M) - (i + 1) ELSE 0
      /\ records' = IF i + 1 < Questions(M) THEN Items(M) - Questions(M) ELSE Items(M) - (i + 1)
  BY <1>1, <1>2
<1> QED
  BY <1>1, <1>2, <1>3, Unmoved DEF Done

LEMMA RecordDone ==
  ASSUME packet \in Packets, packet.sound, NEW i, InRecord(i), M.ends[i + 1] <= Len(buf),
         UNCHANGED <<packet, questions>>, read' = M.read[i + 1], records' = records - 1
  PROVE  Done(i + 1)'
<1>1. /\ Items(M) \in Nat /\ Questions(M) \in Nat /\ Questions(M) <= Items(M)
      /\ i \in Nat /\ i + 1 \in 1..Items(M)
  BY EndFacts, RecordFacts
<1>2. ~(i < Questions(M)) /\ questions = 0 /\ records = Items(M) - i
  BY <1>1 DEF InRecord, Done
<1>3. /\ i + 1 \in 0..Items(M)
      /\ questions' = IF i + 1 < Questions(M) THEN Questions(M) - (i + 1) ELSE 0
      /\ records' = IF i + 1 < Questions(M) THEN Items(M) - Questions(M) ELSE Items(M) - (i + 1)
  BY <1>1, <1>2
<1> QED
  BY <1>1, <1>3, Unmoved DEF Done

-----------------------------------------------------------------------------
(* The header: how many items are to come. *)
LEMMA HeaderProgress ==
  ASSUME packet \in Packets, packet.sound, Progress, ReadHeader
  PROVE  Progress'
<1>1. read = <<>> /\ UNCHANGED <<packet, read>>
  BY DEF Progress, ReadHeader
<1>2. CASE Len(buf) < 12
  <2>1. pc' = "none"
    BY <1>2, EndFacts DEF ReadHeader, Return
  <2> QED
    BY <1>1, <1>2, <2>1, ToNone
<1>3. CASE Len(buf) >= 12
  <2>1. /\ pc' = "next" /\ pos' = 12 /\ questions' = Short(4)
        /\ records' = Short(6) + Short(8) + Short(10)
    BY <1>3, EndFacts DEF ReadHeader
  <2>2. /\ Items(M) \in Nat /\ Questions(M) \in Nat /\ Questions(M) <= Items(M)
        /\ M.ends[0] = 12 /\ M.read[0] = <<>> /\ Len(buf) \in Nat
    BY EndFacts
  <2>3. /\ Short(4) = Octets2(M, 4) /\ Short(6) = Octets2(M, 6)
        /\ Short(8) = Octets2(M, 8) /\ Short(10) = Octets2(M, 10)
    <3>1. 4 + 1 < Len(buf) /\ 6 + 1 < Len(buf) /\ 8 + 1 < Len(buf) /\ 10 + 1 < Len(buf)
      BY <1>3, <2>2
    <3> QED
      BY <3>1, SoundFacts
  <2>4. questions' = Questions(M) /\ records' = Items(M) - Questions(M)
    <3>1. /\ Octets2(M, 4) \in Nat /\ Octets2(M, 6) \in Nat
          /\ Octets2(M, 8) \in Nat /\ Octets2(M, 10) \in Nat
      <4>1. /\ 4 + 1 < Len(M.bytes) /\ 6 + 1 < Len(M.bytes)
            /\ 8 + 1 < Len(M.bytes) /\ 10 + 1 < Len(M.bytes)
        BY <1>3, EndFacts
      <4> QED
        BY <4>1, SoundFacts, OctetFacts
    <3> QED
      BY <2>1, <2>3, <3>1 DEF Questions, Items
  <2>5. /\ questions' = IF 0 < Questions(M) THEN Questions(M) - 0 ELSE 0
        /\ records' = IF 0 < Questions(M) THEN Items(M) - Questions(M) ELSE Items(M) - 0
        /\ 0 \in 0..Items(M)
    BY <2>2, <2>4
  <2>6. Done(0)'
    BY <1>1, <1>3, <2>2, <2>5, Unmoved DEF Done
  <2> QED
    BY <1>1, <2>1, <2>2, <2>6, ToNext
<1> QED
  BY <1>2, <1>3, EndFacts

(* Between two items: a name begins, or all has been read. *)
LEMMA NextProgress ==
  ASSUME packet \in Packets, packet.sound, Progress, NextItem
  PROVE  Progress'
<1>1. PICK i : Done(i) /\ pos = M.ends[i]
  BY DEF Progress, NextItem
<1>2. /\ pc' = "name" /\ UNCHANGED <<packet, questions, records, read>>
      /\ reading' = (IF questions > 0 THEN "question" ELSE "owner")
      /\ name' = [at |-> pos, budget |-> Budget, out |-> <<>>, jumped |-> FALSE]
      /\ questions > 0 \/ records > 0
  BY DEF NextItem, StartName
<1>3. /\ Items(M) \in Nat /\ Questions(M) \in Nat /\ Questions(M) <= Items(M)
      /\ i \in 0..Items(M)
  BY <1>1, EndFacts DEF Done
<1>4. /\ questions > 0 => InQuestion(i)
      /\ ~(questions > 0) => InRecord(i)
  BY <1>1, <1>2, <1>3 DEF Done, InQuestion, InRecord
<1>5. M.ends[i] \in DOMAIN M.names
  BY <1>4, QuestionFacts, RecordFacts
<1>6. /\ M.names[M.ends[i]].spelt \in Seq(Byte) /\ M.names[M.ends[i]].turns < Budget
      /\ Budget \in Nat
  BY <1>5, SoundFacts, NameFacts, PacketAssumption
<1>7. Join(<<>>, M.names[M.ends[i]].spelt) = M.names[M.ends[i]].spelt /\ <<>> \in Seq(Byte)
  BY DEF Join
<1>8. SpellingHere(i)'
  BY <1>1, <1>2, <1>5, <1>6, <1>7, Unmoved DEF SpellingHere, Spelling
<1>9. InName(i)'
  BY <1>2, <1>4, <1>8, Stays DEF InName
<1> QED
  BY <1>2, <1>9, ToName

LEMMA EndsProgress ==
  ASSUME packet \in Packets, packet.sound, Progress, ParseEnds
  PROVE  Progress'
<1>1. PICK i : Done(i)
  BY DEF Progress, ParseEnds
<1>2. /\ pc' = "some" /\ questions = 0 /\ records = 0
      /\ UNCHANGED <<packet, questions, records, read>>
  BY DEF ParseEnds, Return, frame
<1>3. /\ Items(M) \in Nat /\ Questions(M) \in Nat /\ Questions(M) <= Items(M)
      /\ i \in 0..Items(M)
  BY <1>1, EndFacts DEF Done
<1>4. i = Items(M)
  BY <1>1, <1>2, <1>3 DEF Done
<1>5. Done(Items(M))'
  BY <1>1, <1>2, <1>4, Stays, Unmoved
<1> QED
  BY <1>2, <1>5 DEF Progress

-----------------------------------------------------------------------------
(* The name that is read, wherever it begins. *)
LEMMA InNameFacts ==
  ASSUME packet \in Packets, packet.sound, NEW i, InName(i)
  PROVE  \/ /\ reading = "question" /\ ~InRdata /\ InQuestion(i) /\ SpellingHere(i)
         \/ /\ reading = "owner" /\ ~InRdata /\ InRecord(i) /\ SpellingHere(i)
         \/ /\ InRdata /\ InData(i) /\ M.ends[i + 1] <= Len(buf)
            /\ \E start : /\ Spelling(M, Len(buf), name, start)
                          /\ M.names[start].end <= M.ends[i + 1]
<1>1. CASE reading = "question" \/ reading = "owner"
  BY <1>1 DEF InName, InRdata
<1>2. CASE reading = "PTR" \/ reading = "SRV"
  <2>1. InRdata /\ InData(i) /\ M.ends[i + 1] <= Len(buf) /\ InRecord(i)
    BY <1>2 DEF InName, InRdata, InData
  <2>2. CASE reading = "PTR"
    <3>1. Spelling(M, Len(buf), name, From(i)) /\ Type(i) = 12
      BY <2>2 DEF InName
    <3>2. M.names[From(i)].end <= M.ends[i + 1]
      BY <2>1, <3>1, RecordFacts
    <3> QED
      BY <2>1, <3>1, <3>2
  <2>3. CASE reading = "SRV"
    <3>1. Spelling(M, Len(buf), name, From(i) + 6) /\ Type(i) = 33 /\ Length(i) >= 6
      BY <2>3 DEF InName
    <3>2. M.names[From(i) + 6].end <= M.ends[i + 1]
      BY <2>1, <3>1, RecordFacts
    <3> QED
      BY <2>1, <3>1, <3>2
  <2> QED
    BY <1>2, <2>2, <2>3
<1> QED
  BY <1>1, <1>2 DEF InName

(* A name fails only if its item is cut short, which ends the parse. *)
LEMMA FailsProgress ==
  ASSUME packet \in Packets, packet.sound, Progress,
         \/ NameBroken
         \/ NamePointer /\ ~PointerFits
         \/ NameLabel /\ ~(LabelEnd <= Len(buf) /\ Utf8(Label))
  PROVE  Progress'
<1>1. PICK i : InName(i)
  BY DEF Progress, NameBroken, NamePointer, NameLabel, NameGoesOn
<1>2. NameFails /\ UNCHANGED <<packet, read>>
  <2>1. CASE NameBroken
    BY <2>1 DEF NameBroken
  <2>2. CASE NamePointer /\ ~PointerFits
    BY <2>2 DEF NamePointer
  <2>3. CASE NameLabel /\ ~(LabelEnd <= Len(buf) /\ Utf8(Label))
    BY <2>3 DEF NameLabel
  <2> QED
    BY <2>1, <2>2, <2>3
<1>3. \A start : Spelling(M, Len(buf), name, start) =>
        Len(buf) < M.names[start].end /\ M.names[start].end \in Nat /\ Len(buf) \in Nat
  <2> SUFFICES ASSUME NEW start, Spelling(M, Len(buf), name, start)
               PROVE  Len(buf) < M.names[start].end /\ M.names[start].end \in Nat
                      /\ Len(buf) \in Nat
    OBVIOUS
  <2> QED
    BY SpellingFails, SpellingFacts
<1>4. CASE ~InRdata
  <2>1. pc' = "none" /\ UNCHANGED <<questions, records>>
    BY <1>2, <1>4 DEF NameFails, Return, frame
  <2>2. (InQuestion(i) \/ InRecord(i)) /\ SpellingHere(i)
    BY <1>1, <1>4, InNameFacts
  <2>3. Len(buf) < M.names[M.ends[i]].end /\ M.names[M.ends[i]].end \in Nat /\ Len(buf) \in Nat
    BY <1>3, <2>2 DEF SpellingHere
  <2>4. Len(buf) < M.ends[i + 1]
    <3>1. CASE InQuestion(i)
      BY <2>3, <3>1, QuestionFacts
    <3>2. CASE InRecord(i)
      <4>1. M.ends[i + 1] = Fixed(i) + 10 + Length(i) /\ Length(i) \in Nat
        BY <3>2, RecordFacts DEF From
      <4> QED
        BY <2>3, <4>1 DEF Fixed
    <3> QED
      BY <2>2, <3>1, <3>2
  <2>5. InQuestion(i)' \/ InRecord(i)'
    BY <1>2, <2>1, <2>2, Stays
  <2> QED
    BY <1>2, <2>1, <2>4, <2>5, ToNone
<1>5. CASE InRdata
  <2>1. PICK start : Spelling(M, Len(buf), name, start) /\ M.names[start].end <= M.ends[i + 1]
    BY <1>1, <1>5, InNameFacts
  <2>2. InRecord(i) /\ M.ends[i + 1] <= Len(buf)
    BY <1>1, <1>5, InNameFacts DEF InData
  <2>3. M.ends[i + 1] \in Nat
    BY <2>2, RecordFacts, EndFacts
  <2>4. Len(buf) < M.names[start].end /\ M.names[start].end \in Nat /\ Len(buf) \in Nat
    BY <1>3, <2>1
  <2>5. FALSE
    BY <2>1, <2>2, <2>3, <2>4
  <2> QED
    BY <2>5
<1> QED
  BY <1>4, <1>5

(* Another turn of the loop. *)
LEMMA GoesOnProgress ==
  ASSUME packet \in Packets, packet.sound, Progress,
         \/ NamePointer /\ PointerFits
         \/ NameLabel /\ LabelEnd <= Len(buf) /\ Utf8(Label)
  PROVE  Progress'
<1>1. PICK i : InName(i)
  BY DEF Progress, NamePointer, NameLabel, NameGoesOn
<1>2. pc = "name"
  BY DEF NamePointer, NameLabel, NameGoesOn
<1>3. \A start : Spelling(M, Len(buf), name, start) =>
        /\ Spelling(M, Len(buf), name', start)
        /\ UNCHANGED <<packet, pc, questions, records, reading, owner, rdata, read>>
        /\ ~InRdata /\ (name.jumped => pos = M.names[start].end)
           => (name'.jumped => pos' = M.names[start].end)
  <2> SUFFICES ASSUME NEW start, Spelling(M, Len(buf), name, start)
               PROVE  /\ Spelling(M, Len(buf), name', start)
                      /\ UNCHANGED <<packet, pc, questions, records, reading, owner, rdata, read>>
                      /\ ~InRdata /\ (name.jumped => pos = M.names[start].end)
                         => (name'.jumped => pos' = M.names[start].end)
    OBVIOUS
  <2>1. CASE NamePointer /\ PointerFits
    BY <2>1, PointerFollowed
  <2>2. CASE NameLabel /\ LabelEnd <= Len(buf) /\ Utf8(Label)
    BY <2>2, LabelTaken
  <2> QED
    BY <2>1, <2>2
<1>4. UNCHANGED <<packet, pc, questions, records, reading, owner, rdata, read>>
  BY <1>1, <1>3 DEF InName, SpellingHere
<1>6. CASE reading = "question" \/ reading = "owner"
  <2>1. SpellingHere(i) /\ ~InRdata /\ (reading = "question" => InQuestion(i))
        /\ (reading = "owner" => InRecord(i))
    BY <1>1, <1>6 DEF InName, InRdata
  <2>2. SpellingHere(i)'
    BY <1>3, <1>4, <2>1, Unmoved DEF SpellingHere
  <2>3. InName(i)'
    BY <1>4, <1>6, <2>1, <2>2, Stays DEF InName
  <2> QED
    BY <1>2, <1>4, <2>3, ToName
<1>7. CASE reading = "PTR"
  <2>1. InData(i) /\ Type(i) = 12 /\ Spelling(M, Len(buf), name, From(i))
    BY <1>1, <1>7 DEF InName
  <2>2. Spelling(M, Len(buf), name, From(i))'
    BY <1>3, <1>4, <2>1, Unmoved, Stays
  <2>3. InName(i)'
    BY <1>4, <1>7, <2>1, <2>2, Stays DEF InName
  <2> QED
    BY <1>2, <1>4, <2>3, ToName
<1>8. CASE reading = "SRV"
  <2>1. /\ InData(i) /\ Type(i) = 33 /\ Length(i) >= 6
        /\ Spelling(M, Len(buf), name, From(i) + 6)
    BY <1>1, <1>8 DEF InName
  <2>2. Spelling(M, Len(buf), name, From(i) + 6)'
    BY <1>3, <1>4, <2>1, Unmoved, Stays
  <2>3. InName(i)'
    BY <1>4, <1>8, <2>1, <2>2, Stays DEF InName
  <2> QED
    BY <1>2, <1>4, <2>3, ToName
<1> QED
  BY <1>1, <1>6, <1>7, <1>8 DEF InName

(* A name that ends was read as it was written. *)
LEMMA QuestionProgress ==
  ASSUME packet \in Packets, packet.sound, Progress, QuestionNamed
  PROVE  Progress'
<1>1. PICK i : InName(i)
  BY DEF Progress, QuestionNamed, NameComplete, NameGoesOn
<1>2. reading = "question" /\ NameComplete /\ UNCHANGED <<packet, read>>
  BY DEF QuestionNamed
<1>3. InQuestion(i) /\ SpellingHere(i)
  BY <1>1, <1>2 DEF InName
<1>4. /\ M.names[M.ends[i]].end <= Len(buf) /\ M.names[M.ends[i]].end \in Nat
      /\ AfterName = M.names[M.ends[i]].end
  BY <1>2, <1>3, SpellingEnds DEF SpellingHere
<1>5. M.ends[i + 1] = AfterName + 4 /\ Len(buf) \in Nat /\ M.ends[i + 1] \in Nat
  BY <1>3, <1>4, QuestionFacts, EndFacts
<1>6. CASE AfterName + 4 <= Len(buf)
  <2>1. /\ pos' = AfterName + 4 /\ questions' = questions - 1 /\ pc' = "next"
        /\ UNCHANGED records
    BY <1>5, <1>6 DEF QuestionNamed
  <2>2. Done(i + 1)'
    BY <1>2, <1>3, <1>5, <1>6, <2>1, QuestionDone
  <2> QED
    BY <1>2, <1>5, <2>1, <2>2, ToNext
<1>7. CASE ~(AfterName + 4 <= Len(buf))
  <2>1. pc' = "none" /\ UNCHANGED <<questions, records>>
    BY <1>7 DEF QuestionNamed, Return, frame
  <2>2. InQuestion(i)' /\ Len(buf) < M.ends[i + 1]
    BY <1>2, <1>3, <1>5, <1>7, <2>1, Stays
  <2> QED
    BY <1>2, <2>1, <2>2, ToNone
<1> QED
  BY <1>6, <1>7

LEMMA OwnerProgress ==
  ASSUME packet \in Packets, packet.sound, Progress, OwnerNamed
  PROVE  Progress'
<1>1. PICK i : InName(i)
  BY DEF Progress, OwnerNamed, NameComplete, NameGoesOn
<1>2. /\ reading = "owner" /\ NameComplete
      /\ UNCHANGED <<packet, questions, records, read>>
      /\ owner' = name.out /\ pos' = AfterName /\ pc' = "fields"
  BY DEF OwnerNamed
<1>3. InRecord(i) /\ SpellingHere(i)
  BY <1>1, <1>2 DEF InName
<1>4. /\ name.out = Owner(i) /\ AfterName = Fixed(i) /\ Fixed(i) <= Len(buf)
  BY <1>2, <1>3, SpellingEnds DEF SpellingHere, Owner, Fixed
<1>5. InRecord(i)' /\ owner' = Owner(i)' /\ pos' = Fixed(i)' /\ pos' <= Len(buf)'
  BY <1>2, <1>3, <1>4, Stays, Unmoved
<1> QED
  BY <1>2, <1>5 DEF Progress

(* The data of a record has been read: the next item is after it. *)
LEMMA DataRead ==
  ASSUME packet \in Packets, packet.sound, NEW i, InData(i),
         UNCHANGED packet, EndRecord, read' = M.read[i + 1]
  PROVE  Progress'
<1>1. InRecord(i) /\ M.ends[i + 1] <= Len(buf) /\ rdata.to = M.ends[i + 1]
  BY DEF InData
<1>2. pc' = "next" /\ pos' = rdata.to /\ records' = records - 1 /\ UNCHANGED questions
  BY DEF EndRecord, NextPos
<1>3. Done(i + 1)'
  BY <1>1, <1>2, RecordDone
<1> QED
  BY <1>1, <1>2, <1>3, ToNext

LEMMA PtrProgress ==
  ASSUME packet \in Packets, packet.sound, Progress, PtrNamed
  PROVE  Progress'
<1>1. PICK i : InName(i)
  BY DEF Progress, PtrNamed, NameComplete, NameGoesOn
<1>2. reading = "PTR" /\ NameComplete /\ EndRecord /\ UNCHANGED packet
  BY DEF PtrNamed
<1>3. InData(i) /\ Type(i) = 12 /\ Spelling(M, Len(buf), name, From(i))
  BY <1>1, <1>2 DEF InName
<1>4. name.out = M.names[From(i)].spelt
  BY <1>2, <1>3, SpellingEnds
<1>5. InRecord(i) /\ owner = Owner(i) /\ read = M.read[i]
  BY <1>3 DEF InData, InRecord, Done
<1>6. \/ \E s \in Services :
           /\ Lower(owner) = s[1]
           /\ M.read[i + 1] = Append(read, Ptr(s[2], name.out))
      \/ (\A s \in Services : Lower(owner) # s[1]) /\ M.read[i + 1] = read
  BY <1>3, <1>4, <1>5, RecordFacts
<1>7. \/ \E s \in Services : Lower(owner) = s[1] /\ read' = Append(read, Ptr(s[2], name.out))
      \/ (\A s \in Services : Lower(owner) # s[1]) /\ UNCHANGED read
  BY DEF PtrNamed
<1>8. read' = M.read[i + 1]
  <2>1. \A s, t \in Services : s[1] = t[1] => s = t
    BY PacketAssumption
  <2> QED
    BY <1>6, <1>7, <2>1
<1> QED
  BY <1>2, <1>3, <1>8, DataRead

LEMMA SrvProgress ==
  ASSUME packet \in Packets, packet.sound, Progress, SrvNamed
  PROVE  Progress'
<1>1. PICK i : InName(i)
  BY DEF Progress, SrvNamed, NameComplete, NameGoesOn
<1>2. /\ reading = "SRV" /\ NameComplete /\ EndRecord /\ UNCHANGED packet
      /\ read' = Append(read, Srv(owner, name.out, Short(rdata.from + 4)))
  BY DEF SrvNamed
<1>3. /\ InData(i) /\ Type(i) = 33 /\ Length(i) >= 6
      /\ Spelling(M, Len(buf), name, From(i) + 6)
  BY <1>1, <1>2 DEF InName
<1>4. name.out = M.names[From(i) + 6].spelt
  BY <1>2, <1>3, SpellingEnds
<1>5. /\ InRecord(i) /\ owner = Owner(i) /\ read = M.read[i] /\ rdata.from = From(i)
      /\ M.ends[i + 1] <= Len(buf)
  BY <1>3 DEF InData, InRecord, Done
<1>6. Short(From(i) + 4) = Octets2(M, From(i) + 4)
  <2>1. /\ Fixed(i) \in Nat /\ From(i) = Fixed(i) + 10 /\ Length(i) \in Nat
        /\ M.ends[i + 1] = From(i) + Length(i) /\ Len(buf) \in Nat
    BY <1>5, RecordFacts, EndFacts DEF From
  <2>2. From(i) + 4 \in Nat /\ (From(i) + 4) + 1 < Len(buf)
    BY <1>3, <1>5, <2>1
  <2> QED
    BY <2>2, SoundFacts
<1>7. M.read[i + 1] = Append(M.read[i], Srv(Owner(i), M.names[From(i) + 6].spelt,
                                            Octets2(M, From(i) + 4)))
  BY <1>3, <1>5, RecordFacts
<1>8. read' = M.read[i + 1]
  BY <1>2, <1>4, <1>5, <1>6, <1>7
<1> QED
  BY <1>2, <1>3, <1>8, DataRead

-----------------------------------------------------------------------------
(* What the parser sees of the fixed fields is what the record says. *)
LEMMA FieldsSeen ==
  ASSUME packet \in Packets, packet.sound, Progress, pc = "fields"
  PROVE  \E i : /\ InRecord(i) /\ owner = Owner(i) /\ pos = Fixed(i)
                /\ RdataFrom = From(i) /\ RdataFrom \in Nat
                /\ RdataFrom <= Len(buf) =>
                     Rtype = Type(i) /\ RdataLen = Length(i)
<1>1. PICK i : InRecord(i) /\ owner = Owner(i) /\ pos = Fixed(i) /\ pos <= Len(buf)
  BY DEF Progress
<1>2. Fixed(i) \in Nat /\ Len(buf) \in Nat
  BY <1>1, RecordFacts, EndFacts
<1>3. RdataFrom = From(i) /\ RdataFrom \in Nat /\ From(i) = Fixed(i) + 10
  BY <1>1, <1>2 DEF RdataFrom, From
<1>4. ASSUME RdataFrom <= Len(buf)
      PROVE  Rtype = Type(i) /\ RdataLen = Length(i)
  <2>1. Fixed(i) + 1 < Len(buf) /\ Fixed(i) + 8 \in Nat /\ (Fixed(i) + 8) + 1 < Len(buf)
    BY <1>2, <1>3, <1>4
  <2>2. Short(Fixed(i)) = Octets2(M, Fixed(i)) /\ Short(Fixed(i) + 8) = Octets2(M, Fixed(i) + 8)
    BY <1>2, <2>1, SoundFacts
  <2> QED
    BY <1>1, <2>2 DEF Rtype, RdataLen, Type, Length
<1> QED
  BY <1>1, <1>3, <1>4

(* A record whose data runs off the packet was cut short. *)
LEMMA CutProgress ==
  ASSUME packet \in Packets, packet.sound, Progress, FieldsCut
  PROVE  Progress'
<1>1. /\ pc = "fields" /\ pc' = "none" /\ UNCHANGED <<packet, questions, records, read>>
      /\ RdataFrom > Len(buf) \/ (RdataFrom <= Len(buf) /\ RdataFrom + RdataLen > Len(buf))
  BY DEF FieldsCut, Return, frame
<1>2. PICK i : /\ InRecord(i) /\ RdataFrom = From(i) /\ RdataFrom \in Nat
               /\ RdataFrom <= Len(buf) => Rtype = Type(i) /\ RdataLen = Length(i)
  BY <1>1, FieldsSeen
<1>3. /\ M.ends[i + 1] = From(i) + Length(i) /\ Length(i) \in Nat
      /\ Len(buf) \in Nat
  BY <1>2, RecordFacts, EndFacts
<1>4. Len(buf) < M.ends[i + 1]
  BY <1>1, <1>2, <1>3
<1>5. InRecord(i)'
  BY <1>1, <1>2, Stays
<1> QED
  BY <1>1, <1>4, <1>5, ToNone

(* A record whose data is there: a name in it is read, or it is done. *)
LEMMA DataProgress ==
  ASSUME packet \in Packets, packet.sound, Progress, FieldsRead
  PROVE  Progress'
<1>1. /\ pc = "fields" /\ UNCHANGED <<packet, questions, owner>>
      /\ RdataFrom <= Len(buf) /\ RdataFrom + RdataLen <= Len(buf)
      /\ rdata' = [from |-> RdataFrom, to |-> RdataFrom + RdataLen]
  BY DEF FieldsRead
<1>2. PICK i : /\ InRecord(i) /\ owner = Owner(i) /\ pos = Fixed(i)
               /\ RdataFrom = From(i) /\ RdataFrom \in Nat
               /\ RdataFrom <= Len(buf) => Rtype = Type(i) /\ RdataLen = Length(i)
  BY <1>1, FieldsSeen
<1>3. Rtype = Type(i) /\ RdataLen = Length(i)
  BY <1>1, <1>2
<1>4. /\ M.ends[i + 1] = From(i) + Length(i) /\ Length(i) \in Nat /\ Type(i) \in Nat
      /\ M.ends[i + 1] \in Nat /\ Len(buf) \in Nat
  BY <1>2, RecordFacts, EndFacts
<1>5. M.ends[i + 1] <= Len(buf) /\ rdata'.from = From(i) /\ rdata'.to = M.ends[i + 1]
  BY <1>1, <1>2, <1>3, <1>4
<1>6. read = M.read[i]
  BY <1>2 DEF InRecord, Done
<1>7. ASSUME UNCHANGED <<records, read>>
      PROVE  InData(i)' /\ Type(i)' = Type(i) /\ Length(i)' = Length(i) /\ From(i)' = From(i)
  <2>1. /\ InRecord(i)' = InRecord(i) /\ Owner(i)' = Owner(i) /\ From(i)' = From(i)
        /\ Type(i)' = Type(i) /\ Length(i)' = Length(i)
    BY <1>1, <1>7, Stays
  <2> QED
    BY <1>1, <1>2, <1>5, <2>1, Unmoved DEF InData
<1>8. ASSUME NEW at \in DOMAIN M.names, UNCHANGED packet,
             name' = [at |-> at, budget |-> Budget, out |-> <<>>, jumped |-> FALSE]
      PROVE  Spelling(M, Len(buf), name', at)
  <2>1. /\ M.names[at].spelt \in Seq(Byte) /\ M.names[at].turns < Budget /\ Budget \in Nat
    BY SoundFacts, NameFacts, PacketAssumption
  <2>2. Join(<<>>, M.names[at].spelt) = M.names[at].spelt /\ <<>> \in Seq(Byte)
    BY DEF Join
  <2> QED
    BY <1>8, <2>1, <2>2 DEF Spelling
<1>9. CASE IsPtr
  <2>1. /\ reading' = "PTR" /\ pc' = "name" /\ UNCHANGED <<records, read>>
        /\ name' = [at |-> From(i), budget |-> Budget, out |-> <<>>, jumped |-> FALSE]
    BY <1>2, <1>9 DEF FieldsRead, StartName, IsPtr, IsSrv, IsAddr
  <2>2. Type(i) = 12 /\ From(i) \in DOMAIN M.names
    BY <1>2, <1>3, <1>9, RecordFacts DEF IsPtr
  <2>3. Spelling(M, Len(buf), name', From(i))
    BY <1>1, <1>8, <2>1, <2>2
  <2>4. InName(i)'
    BY <1>1, <1>7, <2>1, <2>2, <2>3, Unmoved DEF InName
  <2> QED
    BY <1>1, <2>1, <2>4, ToName
<1>10. CASE IsSrv
  <2>1. /\ reading' = "SRV" /\ pc' = "name" /\ UNCHANGED <<records, read>>
        /\ name' = [at |-> From(i) + 6, budget |-> Budget, out |-> <<>>, jumped |-> FALSE]
    BY <1>2, <1>10 DEF FieldsRead, StartName, IsPtr, IsSrv, IsAddr
  <2>2. Type(i) = 33 /\ Length(i) >= 6 /\ From(i) + 6 \in DOMAIN M.names
    BY <1>2, <1>3, <1>10, RecordFacts DEF IsSrv
  <2>3. Spelling(M, Len(buf), name', From(i) + 6)
    BY <1>1, <1>8, <2>1, <2>2
  <2>4. InName(i)'
    BY <1>1, <1>7, <2>1, <2>2, <2>3, Unmoved DEF InName
  <2> QED
    BY <1>1, <2>1, <2>4, ToName
<1>11. CASE ~IsPtr /\ ~IsSrv
  <2>1. /\ pc' = "next" /\ pos' = M.ends[i + 1] /\ records' = records - 1
    BY <1>2, <1>3, <1>4, <1>11 DEF FieldsRead
  <2>2. read' = M.read[i + 1]
    <3>1. CASE IsAddr
      <4>1. read' = Append(read, Addr(owner, SubSeq(buf, From(i) + 1, M.ends[i + 1])))
        BY <1>2, <1>3, <1>4, <1>11, <3>1 DEF FieldsRead
      <4>2. SubSeq(buf, From(i) + 1, M.ends[i + 1]) = Data(M, From(i), M.ends[i + 1])
        BY <1>2, <1>4, <1>5, SoundFacts
      <4>3. (Type(i) = 1 /\ Length(i) = 4) \/ (Type(i) = 28 /\ Length(i) = 16)
        BY <1>3, <3>1 DEF IsAddr
      <4>4. M.read[i + 1] = Append(M.read[i], Addr(Owner(i), Data(M, From(i), M.ends[i + 1])))
        BY <1>2, <4>3, RecordFacts
      <4> QED
        BY <1>2, <1>6, <4>1, <4>2, <4>4
    <3>2. CASE ~IsAddr
      <4>1. UNCHANGED read
        BY <1>11, <3>2 DEF FieldsRead
      <4>2. /\ Type(i) # 12 /\ (Type(i) = 33 => Length(i) < 6)
            /\ (Type(i) = 1 => Length(i) # 4) /\ (Type(i) = 28 => Length(i) # 16)
        BY <1>3, <1>4, <1>11, <3>2 DEF IsPtr, IsSrv, IsAddr
      <4>3. M.read[i + 1] = M.read[i]
        BY <1>2, <4>2, RecordFacts
      <4> QED
        BY <1>6, <4>1, <4>3
    <3> QED
      BY <3>1, <3>2
  <2>3. Done(i + 1)'
    BY <1>1, <1>2, <1>5, <2>1, <2>2, RecordDone
  <2> QED
    BY <1>1, <2>1, <2>3, ToNext
<1> QED
  BY <1>9, <1>10, <1>11

-----------------------------------------------------------------------------
(* What the sender says of a packet, and what has been read of it. *)
LEMMA ReadingExact == ReadInv => RoundTrip
<1> SUFFICES ASSUME ReadInv, Returned, packet.sound
             PROVE  read = packet.records /\ (packet.whole <=> pc = "some")
  BY DEF RoundTrip
<1> DEFINE n == Len(buf)
<1>1. Progress /\ packet \in Packets
  BY DEF ReadInv
<1>2. /\ Items(M) \in Nat /\ Questions(M) \in Nat /\ Questions(M) <= Items(M)
      /\ n \in Nat /\ n <= Len(M.bytes) /\ Len(M.bytes) \in Nat
      /\ \A i \in 0..Items(M) : M.ends[i] \in Nat /\ M.ends[i] >= 12
      /\ M.ends[Items(M)] = Len(M.bytes)
      /\ \A i, j \in 0..Items(M) : i < j => M.ends[i] < M.ends[j]
  BY <1>1, EndFacts
<1>3. /\ packet.whole <=> n = Len(M.bytes)
      /\ n < 12 => packet.records = <<>>
      /\ n >= 12 => \E i \in 0..Items(M) :
           /\ packet.records = M.read[i]
           /\ M.ends[i] <= n /\ (i < Items(M) => n < M.ends[i + 1])
  BY <1>1, SoundFacts DEF Sound, M, buf
<1>4. Len(M.bytes) >= 12
  BY <1>2
(* Only one item can be the last one that is wholly in the packet. *)
<1>5. ASSUME NEW i \in 0..Items(M), NEW j \in 0..Items(M),
             M.ends[i] <= n, i < Items(M) => n < M.ends[i + 1],
             M.ends[j] <= n, j < Items(M) => n < M.ends[j + 1]
      PROVE  i = j
  <2>1. \A a, b \in 0..Items(M) : a < b /\ M.ends[b] <= n => M.ends[a + 1] <= n
    <3> SUFFICES ASSUME NEW a \in 0..Items(M), NEW b \in 0..Items(M), a < b, M.ends[b] <= n
                 PROVE  M.ends[a + 1] <= n
      OBVIOUS
    <3>1. a + 1 \in 0..Items(M) /\ (a + 1 < b \/ a + 1 = b)
      BY <1>2
    <3>2. M.ends[a + 1] \in Nat /\ M.ends[b] \in Nat
      BY <1>2, <3>1
    <3>3. M.ends[a + 1] <= M.ends[b]
      <4>1. CASE a + 1 < b
        <5>1. M.ends[a + 1] < M.ends[b]
          BY <1>2, <3>1, <4>1
        <5> QED
          BY <3>2, <5>1
      <4>2. CASE a + 1 = b
        BY <3>2, <4>2
      <4> QED
        BY <3>1, <4>1, <4>2
    <3>4. \A x, y, z \in Nat : x <= y /\ y <= z => x <= z
      OBVIOUS
    <3> QED
      BY <1>2, <3>2, <3>3, <3>4
  <2>2. ASSUME NEW a \in 0..Items(M), NEW b \in 0..Items(M), a < b, M.ends[b] <= n,
               a < Items(M) => n < M.ends[a + 1]
        PROVE  FALSE
    <3>1. a < Items(M) /\ a + 1 \in 0..Items(M)
      BY <1>2, <2>2
    <3>2. M.ends[a + 1] \in Nat /\ M.ends[a + 1] <= n /\ n < M.ends[a + 1]
      BY <1>2, <2>1, <2>2, <3>1
    <3> QED
      BY <1>2, <3>2
  <2>3. ~(i < j) /\ ~(j < i)
    BY <1>5, <2>2
  <2> QED
    BY <1>2, <2>3
<1>6. ASSUME NEW i \in 0..Items(M), read = M.read[i],
             M.ends[i] <= n, i < Items(M) => n < M.ends[i + 1]
      PROVE  read = packet.records /\ (packet.whole <=> i = Items(M))
  <2>1. n >= 12
    BY <1>2, <1>6
  <2>2. read = packet.records
    BY <1>3, <1>5, <1>6, <2>1
  <2>3. i = Items(M) => n = Len(M.bytes)
    BY <1>2, <1>6
  <2>4. i # Items(M) => n # Len(M.bytes)
    <3> SUFFICES ASSUME i # Items(M) PROVE n # Len(M.bytes)
      OBVIOUS
    <3>0. \A q \in Nat : \A a \in 0..q : a # q => /\ a < q /\ a + 1 \in 0..q
                                                 /\ (a + 1 < q \/ a + 1 = q)
      OBVIOUS
    <3>1. i < Items(M) /\ i + 1 \in 0..Items(M) /\ (i + 1 < Items(M) \/ i + 1 = Items(M))
      BY <1>2, <3>0
    <3>2. M.ends[i + 1] \in Nat /\ n < M.ends[i + 1]
      BY <1>2, <1>6, <3>1
    <3>3. M.ends[i + 1] <= Len(M.bytes)
      BY <1>2, <3>1, <3>2
    <3> QED
      BY <1>2, <3>2, <3>3
  <2> QED
    BY <1>3, <2>2, <2>3, <2>4
<1>7. CASE pc = "some"
  <2>1. Done(Items(M))
    BY <1>1, <1>7 DEF Progress
  <2>2. /\ Items(M) \in 0..Items(M) /\ read = M.read[Items(M)] /\ M.ends[Items(M)] <= n
        /\ ~(Items(M) < Items(M))
    BY <1>2, <2>1 DEF Done
  <2>3. read = packet.records /\ packet.whole
    BY <1>6, <2>2
  <2> QED
    BY <1>7, <2>3
<1>8. CASE pc = "none"
  <2>1. CASE n < 12 /\ read = <<>>
    <3>1. read = packet.records /\ ~packet.whole
      BY <1>2, <1>3, <1>4, <2>1
    <3> QED
      BY <1>8, <3>1
  <2>2. CASE \E i : (InQuestion(i) \/ InRecord(i)) /\ n < M.ends[i + 1]
    <3>1. PICK i : (InQuestion(i) \/ InRecord(i)) /\ n < M.ends[i + 1]
      BY <2>2
    <3>2. i \in 0..Items(M) /\ M.ends[i] <= n /\ read = M.read[i] /\ i < Items(M)
      BY <1>2, <3>1 DEF InQuestion, InRecord, Done
    <3>3. read = packet.records /\ ~packet.whole
      BY <1>2, <1>6, <3>1, <3>2
    <3> QED
      BY <1>8, <3>3
  <2> QED
    BY <1>1, <1>8, <2>1, <2>2 DEF Progress
<1> QED
  BY <1>7, <1>8 DEF Returned

LEMMA StutterProgress ==
  ASSUME packet \in Packets, packet.sound, Progress, UNCHANGED vars
  PROVE  Progress'
<1>1. UNCHANGED <<packet, pc, pos, questions, records, reading, name, owner, rdata, read>>
  BY DEF vars, frame
<1>2. M' = M /\ Len(buf)' = Len(buf) /\ Items(M)' = Items(M)
  BY <1>1, Unmoved
<1>3. ASSUME NEW i
      PROVE  /\ Done(i)' = Done(i) /\ InQuestion(i)' = InQuestion(i) /\ InRecord(i)' = InRecord(i)
             /\ Owner(i)' = Owner(i) /\ Fixed(i)' = Fixed(i) /\ InName(i)' = InName(i)
  <2>1. /\ Done(i)' = Done(i) /\ InQuestion(i)' = InQuestion(i) /\ InRecord(i)' = InRecord(i)
        /\ Owner(i)' = Owner(i) /\ Fixed(i)' = Fixed(i) /\ From(i)' = From(i)
        /\ Type(i)' = Type(i) /\ Length(i)' = Length(i) /\ InData(i)' = InData(i)
    BY <1>1, Stays
  <2>2. \A start : Spelling(M', Len(buf)', name', start) = Spelling(M, Len(buf), name, start)
    BY <1>1, <1>2
  <2>3. SpellingHere(i)' = SpellingHere(i)
    BY <1>1, <1>2, <2>2 DEF SpellingHere
  <2>4. InName(i)' = InName(i)
    BY <1>1, <2>1, <2>2, <2>3 DEF InName
  <2> QED
    BY <2>1, <2>4
<1> QED
  BY <1>1, <1>2, <1>3 DEF Progress

(***************************************************************************)
(* Of every sound packet the parser reads what its sender wrote, however   *)
(* the names are compressed and wherever the packet is cut short; and it   *)
(* says that it has read the whole exactly when it was given the whole.    *)
(***************************************************************************)
THEOREM RoundTripTheorem == Spec => []RoundTrip
<1>1. Init => ReadInv
  BY DEF Init, ReadInv, Progress
<1>2. ReadInv /\ [Next]_vars => ReadInv'
  <2> SUFFICES ASSUME ReadInv, [Next]_vars PROVE ReadInv'
    OBVIOUS
  <2>1. UNCHANGED packet
    BY DEF Next, Step, ReadName, vars, ReadHeader, NextItem, ParseEnds, NameBroken, NamePointer,
           NameLabel, QuestionNamed, OwnerNamed, PtrNamed, SrvNamed, FieldsCut, FieldsRead
  <2>2. SUFFICES ASSUME packet.sound PROVE Progress'
    BY <2>1 DEF ReadInv
  <2>3. packet \in Packets /\ Progress
    BY <2>2 DEF ReadInv
  <2>4. CASE ReadHeader \/ NextItem \/ ParseEnds
    BY <2>2, <2>3, <2>4, HeaderProgress, NextProgress, EndsProgress
  <2>5. CASE NameBroken
    BY <2>2, <2>3, <2>5, FailsProgress
  <2>6. CASE NamePointer
    BY <2>2, <2>3, <2>6, FailsProgress, GoesOnProgress
  <2>7. CASE NameLabel
    BY <2>2, <2>3, <2>7, FailsProgress, GoesOnProgress
  <2>8. CASE QuestionNamed \/ OwnerNamed \/ PtrNamed \/ SrvNamed
    BY <2>2, <2>3, <2>8, QuestionProgress, OwnerProgress, PtrProgress, SrvProgress
  <2>9. CASE FieldsCut \/ FieldsRead
    BY <2>2, <2>3, <2>9, CutProgress, DataProgress
  <2>10. CASE UNCHANGED vars
    BY <2>2, <2>3, <2>10, StutterProgress
  <2> QED
    BY <2>4, <2>5, <2>6, <2>7, <2>8, <2>9, <2>10 DEF Next, Step, ReadName
<1> QED
  BY <1>1, <1>2, ReadingExact, PTL DEF Spec
===========================================================================
