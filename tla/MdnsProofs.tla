---------------------------- MODULE MdnsProofs ----------------------------
(***************************************************************************)
(* Theorems about Mdns, for every set of packets devices may send, every   *)
(* ranking of addresses and any number of packets received: what was heard *)
(* is what the tables hold, and what is reported is the join of the tables.*)
(*                                                                         *)
(* The recursive definitions of Mdns are reasoned about by induction, from *)
(* the well-foundedness of < on the naturals.                              *)
(***************************************************************************)
EXTENDS Mdns, TLAPS, WellFoundedInduction

LEMMA LeastNat ==
  ASSUME NEW T, T \subseteq Nat, T # {}
  PROVE  \E x \in T : \A y \in T : x <= y
<1> DEFINE R == OpToRel(<, Nat)
<1>1. IsWellFoundedOn(R, Nat)
  BY NatLessThanWellFounded
<1>2. \A x, y \in Nat : y < x => <<y, x>> \in R
  BY DEF OpToRel
<1> HIDE DEF R
<1>3. PICK x \in T : \A y \in T : <<y, x>> \notin R
  BY <1>1, WFMin
<1>4. \A y \in T : x \in Nat /\ y \in Nat /\ ~(y < x)
  BY <1>2, <1>3
<1>5. \A y \in T : x <= y
  BY <1>4
<1> QED
  BY <1>5

(* Induction: a set of naturals that is closed under the successor. *)
LEMMA Counting ==
  ASSUME NEW S, 0 \in S, \A n \in Nat : n \in S => n + 1 \in S
  PROVE  Nat \subseteq S
<1> SUFFICES ASSUME Nat \ S # {} PROVE FALSE
  OBVIOUS
<1>1. PICK x \in Nat \ S : \A y \in Nat \ S : x <= y
  BY LeastNat
<1>2. x # 0 /\ x - 1 \in Nat /\ (x - 1) + 1 = x
  OBVIOUS
<1>3. x - 1 \in S
  BY <1>1, <1>2
<1> QED
  BY <1>2, <1>3

LEMMA AppendFacts ==
  ASSUME NEW S, NEW s \in Seq(S), NEW m \in S
  PROVE  /\ Append(s, m) \in Seq(S)
         /\ Len(s) \in Nat /\ DOMAIN s = 1..Len(s)
         /\ Len(Append(s, m)) = Len(s) + 1
         /\ DOMAIN Append(s, m) = 1..(Len(s) + 1)
         /\ \A i \in 1..Len(s) : Append(s, m)[i] = s[i]
         /\ Append(s, m)[Len(s) + 1] = m
  OBVIOUS

-----------------------------------------------------------------------------
(* Distinct: the elements taken, one for each of their keys, in order. *)

Kept(s, keys, taken) ==
  CHOOSE kept : kept = [n \in 0..Len(s) |->
        IF n = 0 THEN <<>>
        ELSE IF n \in taken /\ Fresh({keys[i] : i \in taken \intersect 1..(n - 1)}, keys[n])
        THEN Append(kept[n - 1], s[n])
        ELSE kept[n - 1]]

(* The list after position n, from the list before it. *)
Keep(s, keys, taken, n, list) ==
  IF n \in taken /\ Fresh({keys[i] : i \in taken \intersect 1..(n - 1)}, keys[n])
  THEN Append(list, s[n])
  ELSE list

LEMMA DistinctIsKept ==
  ASSUME NEW s, NEW keys, NEW taken
  PROVE  Distinct(s, keys, taken) = Kept(s, keys, taken)[Len(s)]
  BY DEF Distinct, Kept

LEMMA KeptExists ==
  ASSUME NEW S, NEW s \in Seq(S), NEW keys, NEW taken, NEW n \in 0..Len(s),
         NEW kept, kept = Kept(s, keys, taken)
  PROVE  kept[n] = IF n = 0 THEN <<>> ELSE Keep(s, keys, taken, n, kept[n - 1])
<1> DEFINE Body(f, k) ==
        IF k = 0 THEN <<>>
        ELSE IF k \in taken /\ Fresh({keys[i] : i \in taken \intersect 1..(k - 1)}, keys[k])
        THEN Append(f[k - 1], s[k])
        ELSE f[k - 1]
    N == {k \in Nat : \E f : f = [j \in 0..k |-> Body(f, j)]}
<1>1. 0 \in N
  <2> DEFINE f == [j \in 0..0 |-> <<>>]
  <2>1. f = [j \in 0..0 |-> Body(f, j)]
    OBVIOUS
  <2> QED
    BY <2>1
<1>2. ASSUME NEW k \in Nat, k \in N PROVE k + 1 \in N
  <2>1. PICK f : f = [j \in 0..k |-> Body(f, j)]
    BY <1>2
  <2> DEFINE g == [j \in 0..(k + 1) |-> IF j <= k THEN f[j] ELSE Body(f, k + 1)]
  <2>2. ASSUME NEW j \in 0..(k + 1) PROVE g[j] = Body(g, j)
    <3>1. CASE j = 0
      BY <2>1, <3>1
    <3>2. CASE j # 0 /\ j <= k
      <4>1. j - 1 \in 0..k /\ j - 1 <= k /\ j - 1 \in 0..(k + 1) /\ j \in 0..k
        BY <3>2
      <4>2. g[j] = f[j] /\ g[j - 1] = f[j - 1]
        BY <3>2, <4>1
      <4>3. f[j] = Body(f, j)
        BY <2>1, <4>1
      <4> QED
        BY <3>2, <4>2, <4>3
    <3>3. CASE j = k + 1
      <4>1. g[k] = f[k] /\ (k + 1) - 1 = k /\ ~(k + 1 <= k)
        OBVIOUS
      <4>2. g[j] = Body(f, k + 1)
        BY <3>3, <4>1
      <4> QED
        BY <3>3, <4>1, <4>2
    <3> QED
      BY <3>1, <3>2, <3>3
  <2>3. g = [j \in 0..(k + 1) |-> Body(g, j)]
    BY <2>2
  <2> HIDE DEF g, Body
  <2>4. \E f2 : f2 = [j \in 0..(k + 1) |-> Body(f2, j)]
    BY <2>3
  <2> QED
    BY <2>4
<1>3. Len(s) \in N
  <2>1. Nat \subseteq N
    <3> HIDE DEF N
    <3> QED
      BY <1>1, <1>2, Counting
  <2>2. Len(s) \in Nat
    OBVIOUS
  <2> HIDE DEF N
  <2> QED
    BY <2>1, <2>2
<1>4. kept = [k \in 0..Len(s) |-> Body(kept, k)]
  <2>1. \E f : f = [k \in 0..Len(s) |-> Body(f, k)]
    BY <1>3
  <2> QED
    BY <2>1 DEF Kept
<1> QED
  BY <1>4 DEF Keep

(* d takes its elements from the positions `at` of s, one for each key taken. *)
Selects(at, d, s, keys, taken) ==
  /\ at \in [DOMAIN d -> taken]
  /\ \A i \in DOMAIN d : d[i] = s[at[i]]
  /\ \A i, j \in DOMAIN d : keys[at[i]] = keys[at[j]] => i = j
  /\ \A n \in taken : \E i \in DOMAIN d : keys[at[i]] = keys[n]

LEMMA DistinctFacts ==
  ASSUME NEW S, NEW s \in Seq(S), NEW keys, NEW taken, taken \subseteq DOMAIN s,
         NEW d, d = Distinct(s, keys, taken)
  PROVE  d \in Seq(S) /\ \E at : Selects(at, d, s, keys, taken)
<1> DEFINE kept == Kept(s, keys, taken)
           Fits(e, n) ==
             /\ e \in Seq(S)
             /\ \E at \in [DOMAIN e -> taken \intersect 1..n] :
                  /\ \A i \in DOMAIN e : e[i] = s[at[i]]
                  /\ \A i, j \in DOMAIN e : keys[at[i]] = keys[at[j]] => i = j
                  /\ \A k \in taken \intersect 1..n : \E i \in DOMAIN e : keys[at[i]] = keys[k]
           N == {n \in Nat : n <= Len(s) => Fits(kept[n], n)}
<1>1. Len(s) \in Nat /\ DOMAIN s = 1..Len(s)
  OBVIOUS
<1> HIDE DEF kept
<1>2. \A n \in 0..Len(s) :
        kept[n] = IF n = 0 THEN <<>> ELSE Keep(s, keys, taken, n, kept[n - 1])
  <2> TAKE n \in 0..Len(s)
  <2>1. kept = Kept(s, keys, taken)
    BY DEF kept
  <2> QED
    BY <2>1, KeptExists
<1>3. 0 \in N
  <2>1. kept[0] = <<>>
    BY <1>1, <1>2
  <2> DEFINE e == kept[0]
             at == [i \in DOMAIN e |-> 1]
  <2>2. e \in Seq(S) /\ DOMAIN e = {}
    BY <2>1
  <2>3. 1..0 = {}
    OBVIOUS
  <2>4. at \in [DOMAIN e -> taken \intersect 1..0]
    BY <2>2
  <2> HIDE DEF e, at
  <2>5. Fits(e, 0)
    BY <2>2, <2>3, <2>4
  <2> QED
    BY <2>5 DEF e
<1>4. ASSUME NEW n \in Nat, n \in N PROVE n + 1 \in N
  <2> SUFFICES ASSUME n + 1 <= Len(s) PROVE Fits(kept[n + 1], n + 1)
    OBVIOUS
  <2>1. n \in 0..Len(s) /\ n + 1 \in 0..Len(s) /\ n + 1 \in 1..Len(s) /\ n + 1 # 0 /\ (n + 1) - 1 = n
        /\ n <= Len(s)
    BY <1>1
  <2>2. Fits(kept[n], n)
    BY <1>4, <2>1
  <2> DEFINE e == kept[n]
             earlier == {keys[i] : i \in taken \intersect 1..n}
  <2>3. PICK at \in [DOMAIN e -> taken \intersect 1..n] :
             /\ \A i \in DOMAIN e : e[i] = s[at[i]]
             /\ \A i, j \in DOMAIN e : keys[at[i]] = keys[at[j]] => i = j
             /\ \A k \in taken \intersect 1..n : \E i \in DOMAIN e : keys[at[i]] = keys[k]
    BY <2>2
  <2>4. kept[n + 1] = IF n + 1 \in taken /\ Fresh(earlier, keys[n + 1])
                      THEN Append(e, s[n + 1]) ELSE e
    BY <1>2, <2>1 DEF Keep
  <2>5. e \in Seq(S)
    BY <2>2
  <2> HIDE DEF e, earlier
  <2>6. CASE n + 1 \in taken /\ Fresh(earlier, keys[n + 1])
    <3> DEFINE e2 == Append(e, s[n + 1])
               at2 == [i \in DOMAIN e2 |-> IF i \in DOMAIN e THEN at[i] ELSE n + 1]
    <3>1. s[n + 1] \in S
      BY <1>1, <2>1
    <3>2. /\ e2 \in Seq(S) /\ Len(e) \in Nat /\ DOMAIN e = 1..Len(e)
          /\ DOMAIN e2 = 1..(Len(e) + 1)
          /\ \A i \in 1..Len(e) : e2[i] = e[i]
          /\ e2[Len(e) + 1] = s[n + 1]
      BY <2>5, <3>1, AppendFacts
    <3>3. taken \intersect 1..n \subseteq taken \intersect 1..(n + 1)
          /\ n + 1 \in taken \intersect 1..(n + 1)
          /\ \A k \in taken \intersect 1..(n + 1) : k = n + 1 \/ k \in taken \intersect 1..n
      BY <2>1, <2>6
    <3>4. \A i \in DOMAIN e : keys[at[i]] # keys[n + 1]
      BY <2>3, <2>6 DEF Fresh, earlier
    <3> HIDE DEF e2
    <3>5. \A i \in DOMAIN e2 : i \in DOMAIN e \/ i = Len(e) + 1
      BY <3>2
    <3>6. Len(e) + 1 \notin DOMAIN e /\ Len(e) + 1 \in DOMAIN e2 /\ DOMAIN e \subseteq DOMAIN e2
      BY <3>2
    <3>7. at2[Len(e) + 1] = n + 1 /\ \A i \in DOMAIN e : at2[i] = at[i]
      BY <3>6
    <3>8. at2 \in [DOMAIN e2 -> taken \intersect 1..(n + 1)]
      BY <2>3, <3>3
    <3> HIDE DEF at2
    <3>9. \A i \in DOMAIN e2 : e2[i] = s[at2[i]]
      BY <2>3, <3>2, <3>5, <3>7
    <3>10. \A i, j \in DOMAIN e2 : keys[at2[i]] = keys[at2[j]] => i = j
      <4> SUFFICES ASSUME NEW i \in DOMAIN e2, NEW j \in DOMAIN e2, keys[at2[i]] = keys[at2[j]]
                   PROVE  i = j
        OBVIOUS
      <4>1. CASE i \in DOMAIN e /\ j \in DOMAIN e
        <5>1. keys[at[i]] = keys[at[j]]
          BY <3>7, <4>1
        <5> QED
          BY <2>3, <4>1, <5>1
      <4>2. CASE i \in DOMAIN e /\ j = Len(e) + 1
        BY <3>4, <3>7, <4>2
      <4>3. CASE i = Len(e) + 1 /\ j \in DOMAIN e
        BY <3>4, <3>7, <4>3
      <4>4. CASE i = Len(e) + 1 /\ j = Len(e) + 1
        BY <4>4
      <4> QED
        BY <3>5, <4>1, <4>2, <4>3, <4>4
    <3>11. \A k \in taken \intersect 1..(n + 1) : \E i \in DOMAIN e2 : keys[at2[i]] = keys[k]
      <4> SUFFICES ASSUME NEW k \in taken \intersect 1..(n + 1)
                   PROVE  \E i \in DOMAIN e2 : keys[at2[i]] = keys[k]
        OBVIOUS
      <4>1. CASE k \in taken \intersect 1..n
        <5>1. PICK i \in DOMAIN e : keys[at[i]] = keys[k]
          BY <2>3, <4>1
        <5>2. i \in DOMAIN e2 /\ at2[i] = at[i]
          BY <3>6, <3>7
        <5> QED
          BY <5>1, <5>2
      <4>2. CASE k = n + 1
        BY <3>6, <3>7, <4>2
      <4> QED
        BY <3>3, <4>1, <4>2
    <3>12. Fits(e2, n + 1)
      BY <3>2, <3>8, <3>9, <3>10, <3>11
    <3>13. kept[n + 1] = e2
      BY <2>4, <2>6 DEF e2
    <3> HIDE DEF Fits
    <3> QED
      BY <3>12, <3>13
  <2>7. CASE ~(n + 1 \in taken /\ Fresh(earlier, keys[n + 1]))
    <3>1. taken \intersect 1..n \subseteq taken \intersect 1..(n + 1)
          /\ \A k \in taken \intersect 1..(n + 1) : k = n + 1 \/ k \in taken \intersect 1..n
      BY <2>1
    <3>2. at \in [DOMAIN e -> taken \intersect 1..(n + 1)]
      BY <3>1
    <3>3. \A k \in taken \intersect 1..(n + 1) : \E i \in DOMAIN e : keys[at[i]] = keys[k]
      <4> SUFFICES ASSUME NEW k \in taken \intersect 1..(n + 1)
                   PROVE  \E i \in DOMAIN e : keys[at[i]] = keys[k]
        OBVIOUS
      <4>1. CASE k \in taken \intersect 1..n
        BY <2>3, <4>1
      <4>2. CASE k = n + 1
        <5>1. keys[n + 1] \in earlier
          BY <2>7, <4>2 DEF Fresh
        <5>2. PICK h \in taken \intersect 1..n : keys[n + 1] = keys[h]
          BY <5>1 DEF earlier
        <5> QED
          BY <2>3, <4>2, <5>2
      <4> QED
        BY <3>1, <4>1, <4>2
    <3>4. Fits(e, n + 1)
      BY <2>3, <2>5, <3>2, <3>3
    <3>5. kept[n + 1] = e
      BY <2>4, <2>7
    <3> HIDE DEF Fits
    <3> QED
      BY <3>4, <3>5
  <2> QED
    BY <2>6, <2>7
<1>5. Fits(kept[Len(s)], Len(s))
  <2>1. Nat \subseteq N
    <3> HIDE DEF N
    <3> QED
      BY <1>3, <1>4, Counting
  <2> HIDE DEF Fits
  <2> QED
    BY <1>1, <2>1
<1>6. d = kept[Len(s)]
  BY DistinctIsKept DEF kept
<1>7. Fits(d, Len(s))
  <2> HIDE DEF Fits
  <2> QED
    BY <1>5, <1>6
<1>8. taken \intersect 1..Len(s) = taken
  BY <1>1
<1>9. PICK at \in [DOMAIN d -> taken \intersect 1..Len(s)] :
        /\ \A i \in DOMAIN d : d[i] = s[at[i]]
        /\ \A i, j \in DOMAIN d : keys[at[i]] = keys[at[j]] => i = j
        /\ \A k \in taken \intersect 1..Len(s) : \E i \in DOMAIN d : keys[at[i]] = keys[k]
  BY <1>7
<1>10. at \in [DOMAIN d -> taken]
  BY <1>8
<1>11. \A n \in taken : \E i \in DOMAIN d : keys[at[i]] = keys[n]
  BY <1>8, <1>9
<1>12. d \in Seq(S)
  BY <1>7
<1>13. Selects(at, d, s, keys, taken)
  BY <1>9, <1>10, <1>11 DEF Selects
<1> QED
  BY <1>12, <1>13

-----------------------------------------------------------------------------
(* Where the parser stops, and where an address goes in. *)

LEMMA MinFacts ==
  ASSUME NEW T, T \subseteq Nat, T # {}
  PROVE  Min(T) \in T /\ \A y \in T : Min(T) <= y
  BY LeastNat DEF Min

LEMMA ReadableFacts ==
  ASSUME NEW p \in Seq(Record), NEW r, r = Readable(p)
  PROVE  /\ r \in Seq(Record) /\ Len(r) \in Nat /\ Len(r) <= Len(p)
         /\ \A i \in 1..Len(r) : r[i] = p[i] /\ p[i].type # "Unreadable"
         /\ Len(r) < Len(p) => p[Len(r) + 1].type = "Unreadable"
<1> DEFINE I == {i \in 1..Len(p) : p[i].type = "Unreadable"}
           end == IF I # {} THEN Min(I) ELSE 0
<1>1. r = IF end = 0 THEN p ELSE SubSeq(p, 1, end - 1)
  BY DEF Readable, SelectInSeq
<1>2. Len(p) \in Nat /\ DOMAIN p = 1..Len(p)
  OBVIOUS
<1>3. CASE I = {}
  <2>1. r = p
    BY <1>1, <1>3
  <2>2. \A i \in 1..Len(p) : p[i].type # "Unreadable"
    BY <1>3
  <2> QED
    BY <1>2, <2>1, <2>2
<1>4. CASE I # {}
  <2>1. I \subseteq Nat
    BY <1>2
  <2>2. end \in I /\ \A y \in I : end <= y
    BY <1>4, <2>1, MinFacts
  <2> HIDE DEF end
  <2>3. end \in 1..Len(p) /\ p[end].type = "Unreadable"
    BY <2>2
  <2>4. \A i \in 1..(end - 1) : i \in 1..Len(p) /\ ~(end <= i)
    BY <1>2, <2>3
  <2>5. \A i \in 1..(end - 1) : p[i].type # "Unreadable"
    BY <2>2, <2>4
  <2> HIDE DEF I
  <2>6. r = SubSeq(p, 1, end - 1)
    BY <1>1, <2>3
  <2>7. r \in Seq(Record) /\ Len(r) = end - 1 /\ \A i \in 1..(end - 1) : r[i] = p[i]
    BY <1>2, <2>3, <2>6
  <2> QED
    BY <1>2, <2>3, <2>5, <2>7
<1> QED
  BY <1>3, <1>4

(* The addresses of a list are in the order of their priority. *)
Ordered(list) ==
  \A i, j \in DOMAIN list : i < j => AddrPriority[list[i]] <= AddrPriority[list[j]]

LEMMA InsertFacts ==
  ASSUME NetworkAssumption, NEW list \in Seq(IPs), Ordered(list), NEW ip \in IPs,
         NEW d, d = InsertAddr(list, ip)
  PROVE  /\ d \in Seq(IPs) /\ Ordered(d) /\ ToSet(d) = ToSet(list) \union {ip}
         /\ IsInjective(list) /\ ip \notin ToSet(list) => IsInjective(d)
<1> DEFINE I == {i \in 1..Len(list) : AddrPriority[list[i]] > AddrPriority[ip]}
           worse == IF I # {} THEN Min(I) ELSE 0
           at == IF worse = 0 THEN Len(list) + 1 ELSE worse
           P(i) == AddrPriority[list[i]]
           Q == AddrPriority[ip]
<1>1. Len(list) \in Nat /\ DOMAIN list = 1..Len(list) /\ \A i \in 1..Len(list) : list[i] \in IPs
  OBVIOUS
<1>2. Q \in Nat /\ \A i \in 1..Len(list) : P(i) \in Nat
  BY <1>1 DEF NetworkAssumption
<1>3. \A i, j \in 1..Len(list) : i < j => P(i) <= P(j)
  BY <1>1 DEF Ordered
<1>4. /\ at \in 1..(Len(list) + 1)
      /\ \A i \in 1..(at - 1) : P(i) <= Q
      /\ \A i \in at..Len(list) : Q <= P(i)
  <2>1. CASE I = {}
    BY <1>1, <1>2, <2>1
  <2>2. CASE I # {}
    <3>1. I \subseteq Nat
      BY <1>1
    <3>2. worse \in I /\ \A y \in I : worse <= y
      BY <2>2, <3>1, MinFacts
    <3> HIDE DEF worse
    <3>3. worse # 0 /\ at = worse
      BY <3>2
    <3>4. at \in I /\ \A y \in I : at <= y
      BY <3>2, <3>3
    <3> HIDE DEF at
    <3>5. at \in 1..Len(list) /\ P(at) > Q
      BY <3>4
    <3>6. \A i \in 1..(at - 1) : i \in 1..Len(list) /\ ~(at <= i)
      BY <1>1, <3>5
    <3>7. \A i \in 1..(at - 1) : i \notin I
      BY <3>6, <3>4
    <3>8. \A i \in 1..(at - 1) : P(i) <= Q
      BY <1>2, <3>6, <3>7
    <3>9. \A i \in at..Len(list) : i \in 1..Len(list) /\ (i = at \/ at < i)
      BY <1>1, <3>5
    <3>10. \A i \in at..Len(list) : Q <= P(i)
      BY <1>2, <1>3, <3>5, <3>9
    <3> QED
      BY <1>1, <3>5, <3>8, <3>10
  <2> QED
    BY <2>1, <2>2
<1>5. d = SubSeq(list, 1, at - 1) \o <<ip>> \o SubSeq(list, at, Len(list))
  <2>1. worse = SelectInSeq(list, LAMBDA a : AddrPriority[a] > AddrPriority[ip])
    BY Zenon DEF SelectInSeq
  <2>2. d = InsertAt(list, at, ip)
    <3> HIDE DEF I, worse
    <3> QED
      BY <2>1, Zenon DEF InsertAddr
  <2> HIDE DEF I, worse, at
  <2> QED
    BY <2>2 DEF InsertAt
<1> HIDE DEF I, worse, at
<1>6. /\ d \in Seq(IPs) /\ Len(d) = Len(list) + 1
      /\ \A i \in 1..(at - 1) : d[i] = list[i]
      /\ d[at] = ip
      /\ \A i \in at..Len(list) : d[i + 1] = list[i]
  <2> DEFINE a == SubSeq(list, 1, at - 1)
             b == SubSeq(list, at, Len(list))
  <2>1. a \in Seq(IPs) /\ Len(a) = at - 1 /\ \A i \in 1..(at - 1) : a[i] = list[i]
    BY <1>1, <1>4
  <2>2. b \in Seq(IPs) /\ Len(b) = Len(list) - at + 1
        /\ \A i \in 1..(Len(list) - at + 1) : b[i] = list[at + i - 1]
    BY <1>1, <1>4
  <2>3. d = a \o <<ip>> \o b
    BY <1>5
  <2> HIDE DEF a, b
  <2> DEFINE c == a \o <<ip>>
  <2>4. c \in Seq(IPs) /\ Len(c) = at /\ c[at] = ip /\ \A i \in 1..(at - 1) : c[i] = list[i]
    BY <1>4, <2>1
  <2>5. d = c \o b
    BY <2>3
  <2> HIDE DEF c
  <2>6. d \in Seq(IPs) /\ Len(d) = Len(list) + 1
    BY <1>1, <1>4, <2>2, <2>4, <2>5
  <2>7. \A i \in 1..at : d[i] = c[i]
    BY <1>4, <2>2, <2>4, <2>5
  <2>8. \A i \in 1..(Len(list) - at + 1) : d[at + i] = b[i]
    BY <1>1, <1>4, <2>2, <2>4, <2>5
  <2>9. ASSUME NEW i \in at..Len(list) PROVE d[i + 1] = list[i]
    <3>1. i - at + 1 \in 1..(Len(list) - at + 1) /\ at + (i - at + 1) = i + 1
          /\ at + (i - at + 1) - 1 = i
      BY <1>1, <1>4
    <3>2. d[at + (i - at + 1)] = b[i - at + 1] /\ b[i - at + 1] = list[at + (i - at + 1) - 1]
      BY <2>2, <2>8, <3>1
    <3> QED
      BY <3>1, <3>2
  <2>10. \A i \in 1..(at - 1) : i \in 1..at
    BY <1>4
  <2> QED
    BY <1>4, <2>4, <2>6, <2>7, <2>9, <2>10
<1> DEFINE from(i) == IF i < at THEN i ELSE i - 1
<1>7. \A i \in DOMAIN d : \/ i = at /\ d[i] = ip
                          \/ i # at /\ from(i) \in 1..Len(list) /\ d[i] = list[from(i)]
  <2> TAKE i \in DOMAIN d
  <2>1. i \in 1..(Len(list) + 1)
    BY <1>1, <1>6
  <2>2. CASE i < at
    BY <1>1, <1>4, <1>6, <2>1, <2>2
  <2>3. CASE i > at
    <3>1. i - 1 \in at..Len(list) /\ (i - 1) + 1 = i /\ ~(i < at) /\ i - 1 \in 1..Len(list)
      BY <1>1, <1>4, <2>1, <2>3
    <3> QED
      BY <1>6, <2>3, <3>1
  <2> QED
    BY <1>4, <1>6, <2>1, <2>2, <2>3
<1>8. DOMAIN d = 1..(Len(list) + 1)
  BY <1>1, <1>6
<1>9. Ordered(d)
  <2> SUFFICES ASSUME NEW i \in DOMAIN d, NEW j \in DOMAIN d, i < j
               PROVE  AddrPriority[d[i]] <= AddrPriority[d[j]]
    BY DEF Ordered
  <2>1. CASE i = at
    <3>1. d[i] = ip /\ from(j) \in at..Len(list) /\ d[j] = list[from(j)]
      BY <1>1, <1>4, <1>7, <1>8, <2>1
    <3> QED
      BY <1>4, <3>1
  <2>2. CASE j = at
    <3>1. d[j] = ip /\ from(i) \in 1..(at - 1) /\ d[i] = list[from(i)]
      BY <1>1, <1>4, <1>7, <1>8, <2>2
    <3> QED
      BY <1>4, <3>1
  <2>3. CASE i # at /\ j # at
    <3>1. /\ from(i) \in 1..Len(list) /\ d[i] = list[from(i)]
          /\ from(j) \in 1..Len(list) /\ d[j] = list[from(j)]
      BY <1>7, <2>3
    <3>2. from(i) < from(j)
      BY <1>1, <1>4, <1>8, <2>3
    <3> QED
      BY <1>3, <3>1, <3>2
  <2> QED
    BY <2>1, <2>2, <2>3
<1>10. ToSet(d) = ToSet(list) \union {ip}
  <2>1. \A i \in DOMAIN d : d[i] \in ToSet(list) \union {ip}
    BY <1>1, <1>7 DEF ToSet
  <2>2. ip \in ToSet(d)
    BY <1>4, <1>6, <1>8 DEF ToSet
  <2>3. ASSUME NEW k \in DOMAIN list PROVE list[k] \in ToSet(d)
    <3>1. CASE k < at
      <4>1. k \in DOMAIN d /\ d[k] = list[k]
        BY <1>1, <1>4, <1>6, <1>8, <3>1
      <4> QED
        BY <4>1 DEF ToSet
    <3>2. CASE ~(k < at)
      <4>1. k + 1 \in DOMAIN d /\ d[k + 1] = list[k]
        BY <1>1, <1>4, <1>6, <1>8, <3>2
      <4> QED
        BY <4>1 DEF ToSet
    <3> QED
      BY <3>1, <3>2
  <2>4. ToSet(d) \subseteq ToSet(list) \union {ip}
    BY <2>1 DEF ToSet
  <2>5. ToSet(list) \subseteq ToSet(d)
    BY <2>3 DEF ToSet
  <2> QED
    BY <2>2, <2>4, <2>5
<1>11. ASSUME IsInjective(list), ip \notin ToSet(list) PROVE IsInjective(d)
  <2> SUFFICES ASSUME NEW i \in DOMAIN d, NEW j \in DOMAIN d, d[i] = d[j] PROVE i = j
    BY DEF IsInjective
  <2>1. \A k \in 1..Len(list) : list[k] # ip
    BY <1>1, <1>11 DEF ToSet
  <2>2. CASE i = at \/ j = at
    BY <1>7, <2>1, <2>2
  <2>3. CASE i # at /\ j # at
    <3>1. /\ from(i) \in 1..Len(list) /\ d[i] = list[from(i)]
          /\ from(j) \in 1..Len(list) /\ d[j] = list[from(j)]
      BY <1>7, <2>3
    <3> HIDE DEF from
    <3>2. from(i) = from(j)
      BY <1>1, <1>11, <3>1 DEF IsInjective
    <3> QED
      BY <1>4, <1>8, <2>3, <3>2 DEF from
  <2> QED
    BY <2>2, <2>3
<1> QED
  BY <1>6, <1>9, <1>10, <1>11

-----------------------------------------------------------------------------
(* The tables after each record of a packet. *)

After(t, records) ==
  CHOOSE after : after = [n \in 0..Len(records) |->
        IF n = 0 THEN t ELSE ReadRecord(after[n - 1], records[n])]

Tables == [srvs |-> srvs, addrs |-> addrs, ptrs |-> ptrs]

LEMMA ParseIsAfter ==
  ASSUME NEW p
  PROVE  ParseMessage(p) = After(Tables, Readable(p))[Len(Readable(p))]
  BY DEF ParseMessage, After, Tables

LEMMA AfterUnfolds ==
  ASSUME NEW S, NEW records \in Seq(S), NEW t
  PROVE  \A n \in 0..Len(records) :
           After(t, records)[n] = IF n = 0 THEN t ELSE ReadRecord(After(t, records)[n - 1], records[n])
<1> DEFINE Body(f, k) == IF k = 0 THEN t ELSE ReadRecord(f[k - 1], records[k])
    N == {k \in Nat : \E f : f = [j \in 0..k |-> Body(f, j)]}
<1>1. 0 \in N
  <2> DEFINE f == [j \in 0..0 |-> t]
  <2>1. f = [j \in 0..0 |-> Body(f, j)]
    OBVIOUS
  <2> QED
    BY <2>1
<1>2. ASSUME NEW k \in Nat, k \in N PROVE k + 1 \in N
  <2>1. PICK f : f = [j \in 0..k |-> Body(f, j)]
    BY <1>2
  <2> DEFINE g == [j \in 0..(k + 1) |-> IF j <= k THEN f[j] ELSE Body(f, k + 1)]
  <2>2. ASSUME NEW j \in 0..(k + 1) PROVE g[j] = Body(g, j)
    <3>1. CASE j = 0
      BY <2>1, <3>1
    <3>2. CASE j # 0 /\ j <= k
      <4>1. j - 1 \in 0..k /\ j - 1 <= k /\ j - 1 \in 0..(k + 1) /\ j \in 0..k
        BY <3>2
      <4>2. g[j] = f[j] /\ g[j - 1] = f[j - 1]
        BY <3>2, <4>1
      <4>3. f[j] = Body(f, j)
        BY <2>1, <4>1
      <4> QED
        BY <3>2, <4>2, <4>3
    <3>3. CASE j = k + 1
      <4>1. g[k] = f[k] /\ (k + 1) - 1 = k /\ ~(k + 1 <= k)
        OBVIOUS
      <4>2. g[j] = Body(f, k + 1)
        BY <3>3, <4>1
      <4> QED
        BY <3>3, <4>1, <4>2
    <3> QED
      BY <3>1, <3>2, <3>3
  <2>3. g = [j \in 0..(k + 1) |-> Body(g, j)]
    BY <2>2
  <2> HIDE DEF g, Body
  <2>4. \E f2 : f2 = [j \in 0..(k + 1) |-> Body(f2, j)]
    BY <2>3
  <2> QED
    BY <2>4
<1>3. Len(records) \in N
  <2>1. Nat \subseteq N
    <3> HIDE DEF N
    <3> QED
      BY <1>1, <1>2, Counting
  <2>2. Len(records) \in Nat
    OBVIOUS
  <2> HIDE DEF N
  <2> QED
    BY <2>1, <2>2
<1> DEFINE after == After(t, records)
<1>4. after = [k \in 0..Len(records) |-> Body(after, k)]
  <2>1. \E f : f = [k \in 0..Len(records) |-> Body(f, k)]
    BY <1>3
  <2> QED
    BY <2>1 DEF After
<1> QED
  BY <1>4

-----------------------------------------------------------------------------
(***************************************************************************)
(* What the tables hold of the records heard.  `log` has the record heard  *)
(* at each position <<packet, record>>.                                    *)
(***************************************************************************)

TablesType ==
  [srvs : [Instances -> [target : Hosts, port : Ports] \union {NoSrv}],
   addrs : [Hosts -> Seq(IPs)],
   ptrs : Seq([kind : AdbServiceKinds, instance : Instances])]

Logs == UNION {[D -> Record] : D \in SUBSET (Nat \X Nat)}

PtrsMatch(t, log) ==
  /\ \A q \in ToSet(t.ptrs) : \E x \in DOMAIN log :
       log[x].type = "PTR" /\ log[x].kind = q.kind /\ log[x].instance = q.instance
  /\ \A x \in DOMAIN log : log[x].type = "PTR" =>
       [kind |-> log[x].kind, instance |-> log[x].instance] \in ToSet(t.ptrs)

(* The SRV record at x is the last one heard of its instance. *)
LastAt(log, x) ==
  \A y \in DOMAIN log : log[y].type = "SRV" /\ log[y].name = log[x].name => Later(x, y)

SrvsMatch(t, log) ==
  \A x \in DOMAIN log : log[x].type = "SRV" =>
    /\ t.srvs[log[x].name] # NoSrv
    /\ LastAt(log, x) => t.srvs[log[x].name] = [target |-> log[x].target, port |-> log[x].port]

SrvsHad(t, log) ==
  \A n \in Instances : t.srvs[n] # NoSrv =>
    \E x \in DOMAIN log : log[x].type = "SRV" /\ log[x].name = n /\ LastAt(log, x)

AddrsMatch(t, log) ==
  \A h \in Hosts :
    /\ IsInjective(t.addrs[h]) /\ Ordered(t.addrs[h])
    /\ \A a \in ToSet(t.addrs[h]) : \E x \in DOMAIN log :
         log[x].type = "ADDR" /\ log[x].name = h /\ log[x].ip = a
    /\ \A x \in DOMAIN log : log[x].type = "ADDR" /\ log[x].name = h =>
         log[x].ip \in ToSet(t.addrs[h])

Matches(t, log) ==
  /\ t \in TablesType
  /\ PtrsMatch(t, log)
  /\ SrvsMatch(t, log)
  /\ SrvsHad(t, log)
  /\ AddrsMatch(t, log)

Extended(log, z, r) == [x \in DOMAIN log \union {z} |-> IF x = z THEN r ELSE log[x]]

LEMMA RecordTypes ==
  ASSUME NEW r \in Record
  PROVE  /\ r.type \in {"PTR", "SRV", "ADDR", "Unreadable", "Ignored"}
         /\ r.type = "PTR" => r.kind \in AdbServiceKinds /\ r.instance \in Instances
         /\ r.type = "SRV" => r.name \in Instances /\ r.target \in Hosts /\ r.port \in Ports
         /\ r.type = "ADDR" => r.name \in Hosts /\ r.ip \in IPs
  BY DEF Record

LEMMA ExtendedFacts ==
  ASSUME NEW log \in Logs, NEW z \in Nat \X Nat, \A x \in DOMAIN log : ~Later(x, z),
         NEW r \in Record, NEW g, g = Extended(log, z, r)
  PROVE  /\ g \in Logs /\ DOMAIN g = DOMAIN log \union {z} /\ z \notin DOMAIN log
         /\ g[z] = r /\ \A x \in DOMAIN log : g[x] = log[x] /\ log[x] \in Record
         /\ \A x \in DOMAIN g : Later(z, x)
<1>1. PICK D \in SUBSET (Nat \X Nat) : log \in [D -> Record]
  BY DEF Logs
<1>2. Later(z, z)
  BY DEF Later
<1>3. z \notin DOMAIN log
  BY <1>2
<1>4. DOMAIN g = D \union {z} /\ g[z] = r /\ \A x \in D : g[x] = log[x] /\ log[x] \in Record
  BY <1>1, <1>3 DEF Extended
<1>5. g = [x \in D \union {z} |-> g[x]]
  BY <1>1 DEF Extended
<1>6. D \union {z} \in SUBSET (Nat \X Nat)
  OBVIOUS
<1>7. \A x \in D \union {z} : g[x] \in Record
  BY <1>4
<1>8. g \in [D \union {z} -> Record]
  BY <1>5, <1>7
<1>9. g \in Logs
  BY <1>6, <1>8 DEF Logs
<1>10. ASSUME NEW x \in D PROVE Later(z, x)
  <2>1. x \in Nat \X Nat /\ ~Later(x, z)
    BY <1>1
  <2>2. x[1] \in Nat /\ x[2] \in Nat /\ z[1] \in Nat /\ z[2] \in Nat
    BY <2>1
  <2> QED
    BY <2>1, <2>2 DEF Later
<1> QED
  BY <1>1, <1>2, <1>3, <1>4, <1>9, <1>10

(* A record that leaves the parts of the log a table is about as they were. *)
LEMMA OtherRead ==
  ASSUME NEW t, NEW u, NEW log, NEW g, NEW z, z \notin DOMAIN log,
         DOMAIN g = DOMAIN log \union {z}, \A x \in DOMAIN log : g[x] = log[x]
  PROVE  /\ g[z].type # "PTR" /\ u.ptrs = t.ptrs /\ PtrsMatch(t, log) => PtrsMatch(u, g)
         /\ g[z].type # "SRV" /\ u.srvs = t.srvs /\ SrvsMatch(t, log) => SrvsMatch(u, g)
         /\ g[z].type # "SRV" /\ u.srvs = t.srvs /\ SrvsHad(t, log) => SrvsHad(u, g)
         /\ g[z].type # "ADDR" /\ u.addrs = t.addrs /\ AddrsMatch(t, log) => AddrsMatch(u, g)
<1>1. ASSUME g[z].type # "PTR", u.ptrs = t.ptrs, PtrsMatch(t, log) PROVE PtrsMatch(u, g)
  BY <1>1 DEF PtrsMatch
<1>2. ASSUME g[z].type # "SRV", u.srvs = t.srvs, SrvsMatch(t, log) PROVE SrvsMatch(u, g)
  BY <1>2 DEF SrvsMatch, LastAt
<1>3. ASSUME g[z].type # "SRV", u.srvs = t.srvs, SrvsHad(t, log) PROVE SrvsHad(u, g)
  <2> SUFFICES ASSUME NEW n \in Instances, u.srvs[n] # NoSrv
               PROVE  \E x \in DOMAIN g : g[x].type = "SRV" /\ g[x].name = n /\ LastAt(g, x)
    BY DEF SrvsHad
  <2>1. PICK x \in DOMAIN log : log[x].type = "SRV" /\ log[x].name = n /\ LastAt(log, x)
    BY <1>3 DEF SrvsHad
  <2>2. x \in DOMAIN g /\ g[x] = log[x] /\ LastAt(g, x)
    BY <1>3, <2>1 DEF LastAt
  <2> QED
    BY <2>1, <2>2
<1>4. ASSUME g[z].type # "ADDR", u.addrs = t.addrs, AddrsMatch(t, log) PROVE AddrsMatch(u, g)
  <2> SUFFICES ASSUME NEW h \in Hosts
               PROVE  /\ IsInjective(u.addrs[h]) /\ Ordered(u.addrs[h])
                      /\ \A a \in ToSet(u.addrs[h]) : \E x \in DOMAIN g :
                           g[x].type = "ADDR" /\ g[x].name = h /\ g[x].ip = a
                      /\ \A x \in DOMAIN g : g[x].type = "ADDR" /\ g[x].name = h =>
                           g[x].ip \in ToSet(u.addrs[h])
    BY DEF AddrsMatch
  <2>1. IsInjective(u.addrs[h]) /\ Ordered(u.addrs[h])
    BY <1>4 DEF AddrsMatch
  <2>2. ASSUME NEW a \in ToSet(u.addrs[h])
        PROVE  \E x \in DOMAIN g : g[x].type = "ADDR" /\ g[x].name = h /\ g[x].ip = a
    BY <1>4 DEF AddrsMatch
  <2>3. ASSUME NEW x \in DOMAIN g, g[x].type = "ADDR" /\ g[x].name = h
        PROVE  g[x].ip \in ToSet(u.addrs[h])
    BY <1>4, <2>3 DEF AddrsMatch
  <2> QED
    BY <2>1, <2>2, <2>3
<1> QED
  BY <1>1, <1>2, <1>3, <1>4

LEMMA AppendedSet ==
  ASSUME NEW S, NEW s \in Seq(S), NEW q \in S
  PROVE  ToSet(Append(s, q)) = ToSet(s) \union {q}
<1> DEFINE e == Append(s, q)
<1>1. /\ e \in Seq(S) /\ Len(s) \in Nat /\ DOMAIN s = 1..Len(s) /\ DOMAIN e = 1..(Len(s) + 1)
      /\ \A i \in 1..Len(s) : e[i] = s[i]
      /\ e[Len(s) + 1] = q
  BY AppendFacts
<1> HIDE DEF e
<1>2. \A i \in DOMAIN e : e[i] \in ToSet(s) \union {q}
  <2> TAKE i \in DOMAIN e
  <2>1. i \in 1..Len(s) \/ i = Len(s) + 1
    BY <1>1
  <2> QED
    BY <1>1, <2>1 DEF ToSet
<1>3. \A i \in DOMAIN s : s[i] \in ToSet(e)
  <2> TAKE i \in DOMAIN s
  <2>1. i \in DOMAIN e /\ e[i] = s[i]
    BY <1>1
  <2> QED
    BY <2>1 DEF ToSet
<1>4. q \in ToSet(e)
  <2>1. Len(s) + 1 \in DOMAIN e
    BY <1>1
  <2> QED
    BY <1>1, <2>1 DEF ToSet
<1>5. ToSet(e) \subseteq ToSet(s) \union {q}
  BY <1>2 DEF ToSet
<1>6. ToSet(s) \subseteq ToSet(e)
  BY <1>3 DEF ToSet
<1>7. ToSet(e) = ToSet(s) \union {q}
  BY <1>4, <1>5, <1>6
<1> QED
  BY <1>7 DEF e

(* Reading one more record keeps the tables and the log matched. *)
LEMMA RecordRead ==
  ASSUME NetworkAssumption, NEW t, NEW log \in Logs, Matches(t, log),
         NEW z \in Nat \X Nat, \A x \in DOMAIN log : ~Later(x, z), NEW r \in Record
  PROVE  Matches(ReadRecord(t, r), Extended(log, z, r))
<1> DEFINE g == Extended(log, z, r)
           u == ReadRecord(t, r)
<1>1. /\ g \in Logs /\ DOMAIN g = DOMAIN log \union {z} /\ z \notin DOMAIN log
      /\ g[z] = r /\ \A x \in DOMAIN log : g[x] = log[x] /\ log[x] \in Record
      /\ \A x \in DOMAIN g : Later(z, x)
  BY ExtendedFacts
<1>2. t \in TablesType /\ PtrsMatch(t, log) /\ SrvsMatch(t, log) /\ SrvsHad(t, log)
      /\ AddrsMatch(t, log)
  BY DEF Matches
<1> HIDE DEF g
<1>3. CASE r.type = "PTR"
  <2> DEFINE q == [kind |-> r.kind, instance |-> r.instance]
             Q == [kind : AdbServiceKinds, instance : Instances]
  <2>1. q \in Q
    BY <1>3, RecordTypes
  <2>2. u = [t EXCEPT !.ptrs = Append(@, q)]
    BY <1>3 DEF ReadRecord
  <2>3. t.ptrs \in Seq(Q)
    BY <1>2 DEF TablesType
  <2> HIDE DEF Q
  <2>4. Append(t.ptrs, q) \in Seq(Q) /\ ToSet(Append(t.ptrs, q)) = ToSet(t.ptrs) \union {q}
    BY <2>1, <2>3, AppendFacts, AppendedSet
  <2> HIDE DEF u
  <2>5. /\ u \in TablesType /\ u.srvs = t.srvs /\ u.addrs = t.addrs
        /\ ToSet(u.ptrs) = ToSet(t.ptrs) \union {q}
    BY <1>2, <2>2, <2>4 DEF TablesType, Q
  <2>6. PtrsMatch(u, g)
    <3>1. ASSUME NEW p \in ToSet(u.ptrs)
          PROVE  \E x \in DOMAIN g :
                   g[x].type = "PTR" /\ g[x].kind = p.kind /\ g[x].instance = p.instance
      <4>1. CASE p \in ToSet(t.ptrs)
        <5>1. PICK x \in DOMAIN log :
                log[x].type = "PTR" /\ log[x].kind = p.kind /\ log[x].instance = p.instance
          BY <1>2, <4>1 DEF PtrsMatch
        <5>2. x \in DOMAIN g /\ g[x] = log[x]
          BY <1>1
        <5> QED
          BY <5>1, <5>2
      <4>2. CASE p = q
        <5>1. z \in DOMAIN g /\ g[z] = r
          BY <1>1
        <5> QED
          BY <1>3, <4>2, <5>1
      <4> QED
        BY <2>5, <4>1, <4>2
    <3>2. ASSUME NEW x \in DOMAIN g, g[x].type = "PTR"
          PROVE  [kind |-> g[x].kind, instance |-> g[x].instance] \in ToSet(u.ptrs)
      <4>1. CASE x \in DOMAIN log
        BY <1>1, <1>2, <2>5, <3>2, <4>1 DEF PtrsMatch
      <4>2. CASE x = z
        BY <1>1, <2>5, <4>2
      <4> QED
        BY <1>1, <4>1, <4>2
    <3> QED
      BY <3>1, <3>2 DEF PtrsMatch
  <2>7. SrvsMatch(u, g) /\ SrvsHad(u, g) /\ AddrsMatch(u, g)
    BY <1>1, <1>2, <1>3, <2>5, OtherRead
  <2> QED
    BY <2>5, <2>6, <2>7 DEF Matches, u, g
<1>4. CASE r.type = "SRV"
  <2> DEFINE e == [target |-> r.target, port |-> r.port]
  <2>1. r.name \in Instances /\ e \in [target : Hosts, port : Ports] /\ e # NoSrv
    BY <1>4, RecordTypes DEF NetworkAssumption, NoSrv
  <2>2. u = [t EXCEPT !.srvs = [@ EXCEPT ![r.name] = e]]
    BY <1>4 DEF ReadRecord, InsertSrv
  <2> HIDE DEF e, u
  <2>3. t.srvs \in [Instances -> [target : Hosts, port : Ports] \union {NoSrv}]
    BY <1>2 DEF TablesType
  <2>4. /\ u.srvs \in [Instances -> [target : Hosts, port : Ports] \union {NoSrv}]
        /\ u = [t EXCEPT !.srvs = u.srvs]
        /\ u.srvs[r.name] = e
        /\ \A n \in Instances : n # r.name => u.srvs[n] = t.srvs[n]
    BY <1>2, <2>1, <2>2, <2>3 DEF TablesType
  <2>5. u \in TablesType /\ u.ptrs = t.ptrs /\ u.addrs = t.addrs
    BY <1>2, <2>4 DEF TablesType
  <2>6. LastAt(g, z)
    BY <1>1 DEF LastAt
  <2>7. ASSUME NEW x \in DOMAIN g, g[x].type = "SRV"
        PROVE  /\ u.srvs[g[x].name] # NoSrv
               /\ LastAt(g, x) => u.srvs[g[x].name] = [target |-> g[x].target, port |-> g[x].port]
    <3>1. CASE x = z
      BY <1>1, <2>1, <2>4, <3>1 DEF e
    <3>2. CASE x \in DOMAIN log /\ log[x].name = r.name
      <4>1. ~LastAt(g, x)
        BY <1>1, <1>4, <3>2 DEF LastAt
      <4> QED
        BY <1>1, <2>1, <2>4, <3>2, <4>1
    <3>3. CASE x \in DOMAIN log /\ log[x].name # r.name
      <4>1. g[x] = log[x] /\ log[x].name \in Instances
        BY <1>1, <2>7, <3>3, RecordTypes
      <4>2. LastAt(g, x) => LastAt(log, x)
        BY <1>1, <3>3 DEF LastAt
      <4> QED
        BY <1>2, <2>4, <2>7, <3>3, <4>1, <4>2 DEF SrvsMatch
    <3> QED
      BY <1>1, <3>1, <3>2, <3>3
  <2>8. SrvsMatch(u, g)
    BY <2>7 DEF SrvsMatch
  <2>9. ASSUME NEW n \in Instances, u.srvs[n] # NoSrv
        PROVE  \E x \in DOMAIN g : g[x].type = "SRV" /\ g[x].name = n /\ LastAt(g, x)
    <3>1. CASE n = r.name
      BY <1>1, <1>4, <2>6, <3>1
    <3>2. CASE n # r.name
      <4>1. PICK x \in DOMAIN log : log[x].type = "SRV" /\ log[x].name = n /\ LastAt(log, x)
        BY <1>2, <2>4, <2>9, <3>2 DEF SrvsHad
      <4>2. x \in DOMAIN g /\ g[x] = log[x] /\ LastAt(g, x)
        BY <1>1, <3>2, <4>1 DEF LastAt
      <4> QED
        BY <4>1, <4>2
    <3> QED
      BY <3>1, <3>2
  <2>10. SrvsHad(u, g)
    BY <2>9 DEF SrvsHad
  <2>11. PtrsMatch(u, g) /\ AddrsMatch(u, g)
    BY <1>1, <1>2, <1>4, <2>5, OtherRead
  <2> QED
    BY <2>5, <2>8, <2>10, <2>11 DEF Matches, u, g
<1>5. CASE r.type = "ADDR"
  <2>1. r.name \in Hosts /\ r.ip \in IPs
    BY <1>5, RecordTypes
  <2>2. u = [t EXCEPT !.addrs = PushAddr(@, r.name, r.ip)]
    BY <1>5 DEF ReadRecord
  <2>3. t.addrs \in [Hosts -> Seq(IPs)]
    BY <1>2 DEF TablesType
  <2> DEFINE list == t.addrs[r.name]
             d == u.addrs[r.name]
  <2>4. list \in Seq(IPs) /\ Ordered(list) /\ IsInjective(list)
    BY <1>2, <2>1, <2>3 DEF AddrsMatch
  <2>5. Contains(list, r.ip) <=> r.ip \in ToSet(list)
    <3> HIDE DEF list
    <3>1. DOMAIN list = 1..Len(list)
      BY <2>4
    <3> QED
      BY <3>1 DEF Contains, ToSet
  <2> HIDE DEF u
  <2>6. u.addrs = PushAddr(t.addrs, r.name, r.ip) /\ u = [t EXCEPT !.addrs = u.addrs]
    BY <1>2, <2>2 DEF TablesType
  <2>7. /\ d \in Seq(IPs) /\ Ordered(d) /\ IsInjective(d) /\ ToSet(d) = ToSet(list) \union {r.ip}
        /\ u.addrs \in [Hosts -> Seq(IPs)]
        /\ \A h \in Hosts : h # r.name => u.addrs[h] = t.addrs[h]
    <3>1. CASE r.ip \in ToSet(list)
      <4>1. u.addrs = t.addrs
        BY <2>5, <2>6, <3>1 DEF PushAddr
      <4>2. ToSet(list) = ToSet(list) \union {r.ip}
        BY <3>1
      <4> QED
        BY <2>3, <2>4, <4>1, <4>2
    <3>2. CASE r.ip \notin ToSet(list)
      <4> DEFINE v == InsertAddr(list, r.ip)
      <4>1. /\ v \in Seq(IPs) /\ Ordered(v) /\ IsInjective(v)
            /\ ToSet(v) = ToSet(list) \union {r.ip}
        BY <2>1, <2>4, <3>2, InsertFacts
      <4>2. u.addrs = [t.addrs EXCEPT ![r.name] = v]
        BY <2>5, <2>6, <3>2 DEF PushAddr
      <4> HIDE DEF v
      <4>3. d = v /\ u.addrs \in [Hosts -> Seq(IPs)]
            /\ \A h \in Hosts : h # r.name => u.addrs[h] = t.addrs[h]
        BY <2>1, <2>3, <4>1, <4>2
      <4> QED
        BY <4>1, <4>3
    <3> QED
      BY <3>1, <3>2
  <2>8. u \in TablesType /\ u.ptrs = t.ptrs /\ u.srvs = t.srvs
    BY <1>2, <2>6, <2>7 DEF TablesType
  <2> HIDE DEF d, list
  <2>12. \A h \in Hosts : \A a \in ToSet(t.addrs[h]) : \E x \in DOMAIN log :
           log[x].type = "ADDR" /\ log[x].name = h /\ log[x].ip = a
    BY <1>2 DEF AddrsMatch
  <2>9. ASSUME NEW h \in Hosts
        PROVE  /\ IsInjective(u.addrs[h]) /\ Ordered(u.addrs[h])
               /\ \A a \in ToSet(u.addrs[h]) : \E x \in DOMAIN g :
                    g[x].type = "ADDR" /\ g[x].name = h /\ g[x].ip = a
               /\ \A x \in DOMAIN g : g[x].type = "ADDR" /\ g[x].name = h =>
                    g[x].ip \in ToSet(u.addrs[h])
    <3>1. CASE h = r.name
      <4>1. u.addrs[h] = d /\ t.addrs[h] = list
        BY <3>1 DEF d, list
      <4>2. ASSUME NEW a \in ToSet(d)
            PROVE  \E x \in DOMAIN g : g[x].type = "ADDR" /\ g[x].name = h /\ g[x].ip = a
        <5>1. CASE a = r.ip
          BY <1>1, <1>5, <3>1, <5>1
        <5>2. CASE a \in ToSet(list)
          <6>1. a \in ToSet(t.addrs[h])
            BY <4>1, <5>2
          <6>2. PICK x \in DOMAIN log : log[x].type = "ADDR" /\ log[x].name = h /\ log[x].ip = a
            BY <2>12, <6>1
          <6> QED
            BY <1>1, <6>2
        <5> QED
          BY <2>7, <5>1, <5>2
      <4>3. ASSUME NEW x \in DOMAIN g, g[x].type = "ADDR", g[x].name = h
            PROVE  g[x].ip \in ToSet(d)
        <5>1. CASE x = z
          BY <1>1, <2>7, <5>1
        <5>2. CASE x \in DOMAIN log
          <6>1. log[x].ip \in ToSet(list) /\ g[x] = log[x]
            BY <1>1, <1>2, <4>1, <4>3, <5>2 DEF AddrsMatch
          <6> QED
            BY <2>7, <6>1
        <5> QED
          BY <1>1, <5>1, <5>2
      <4> QED
        BY <2>7, <4>1, <4>2, <4>3
    <3>2. CASE h # r.name
      <4>1. u.addrs[h] = t.addrs[h]
        BY <2>7, <3>2
      <4>2. IsInjective(t.addrs[h]) /\ Ordered(t.addrs[h])
        BY <1>2 DEF AddrsMatch
      <4>3. ASSUME NEW a \in ToSet(t.addrs[h])
            PROVE  \E x \in DOMAIN g : g[x].type = "ADDR" /\ g[x].name = h /\ g[x].ip = a
        <5>1. PICK x \in DOMAIN log : log[x].type = "ADDR" /\ log[x].name = h /\ log[x].ip = a
          BY <1>2 DEF AddrsMatch
        <5> QED
          BY <1>1, <5>1
      <4>4. ASSUME NEW x \in DOMAIN g, g[x].type = "ADDR", g[x].name = h
            PROVE  g[x].ip \in ToSet(t.addrs[h])
        <5>1. x \in DOMAIN log /\ g[x] = log[x]
          BY <1>1, <3>2, <4>4
        <5> QED
          BY <1>2, <4>4, <5>1 DEF AddrsMatch
      <4> QED
        BY <4>1, <4>2, <4>3, <4>4
    <3> QED
      BY <3>1, <3>2
  <2>10. AddrsMatch(u, g)
    BY <2>9 DEF AddrsMatch
  <2>11. PtrsMatch(u, g) /\ SrvsMatch(u, g) /\ SrvsHad(u, g)
    BY <1>1, <1>2, <1>5, <2>8, OtherRead
  <2> QED
    BY <2>8, <2>10, <2>11 DEF Matches, u, g
<1>6. CASE r.type \in {"Unreadable", "Ignored"}
  <2>1. u = t
    BY <1>6 DEF ReadRecord
  <2> HIDE DEF u
  <2>2. g[z].type # "PTR" /\ g[z].type # "SRV" /\ g[z].type # "ADDR"
    BY <1>1, <1>6
  <2>3. u.ptrs = t.ptrs /\ u.srvs = t.srvs /\ u.addrs = t.addrs
    BY <2>1
  <2>4. PtrsMatch(u, g) /\ SrvsMatch(u, g) /\ SrvsHad(u, g) /\ AddrsMatch(u, g)
    BY <1>1, <1>2, <2>2, <2>3, OtherRead
  <2> QED
    BY <1>2, <2>1, <2>4 DEF Matches, g, u
<1> QED
  BY <1>3, <1>4, <1>5, <1>6, RecordTypes

LEMMA PairFacts ==
  ASSUME NEW S, NEW T, NEW x \in S \X T
  PROVE  x = <<x[1], x[2]>> /\ x[1] \in S /\ x[2] \in T
  OBVIOUS

(* The positions of the records of the k-th packet. *)
Row(k, T) == {k} \X T

LEMMA RowFacts ==
  ASSUME NEW k, NEW T, NEW x
  PROVE  x \in Row(k, T) <=> \E i \in T : x = <<k, i>>
<1>1. ASSUME x \in {k} \X T PROVE \E i \in T : x = <<k, i>>
  <2>1. x = <<x[1], x[2]>> /\ x[1] \in {k} /\ x[2] \in T
    BY <1>1, PairFacts
  <2>2. x[1] = k
    BY <2>1
  <2> QED
    BY <2>1, <2>2
<1>2. ASSUME NEW i \in T, x = <<k, i>> PROVE x \in {k} \X T
  <2>1. k \in {k}
    OBVIOUS
  <2> QED
    BY <1>2, <2>1
<1> QED
  BY <1>1, <1>2 DEF Row

(* The log after the first n records of a packet that came as the k-th. *)
Reading(log, k, records, n) ==
  [x \in DOMAIN log \union Row(k, 1..n) |-> IF x \in DOMAIN log THEN log[x] ELSE records[x[2]]]

LEMMA PacketRead ==
  ASSUME NetworkAssumption, NEW t, NEW log \in Logs, Matches(t, log),
         NEW k \in Nat, \A x \in DOMAIN log : x[1] < k,
         NEW records \in Seq(Record), NEW n \in 0..Len(records)
  PROVE  Matches(After(t, records)[n], Reading(log, k, records, n))
<1> DEFINE after(j) == After(t, records)[j]
           g(j) == Reading(log, k, records, j)
           N == {j \in Nat : j <= Len(records) => g(j) \in Logs /\ Matches(after(j), g(j))}
<1>1. Len(records) \in Nat /\ \A j \in 1..Len(records) : records[j] \in Record
  OBVIOUS
<1>2. PICK D \in SUBSET (Nat \X Nat) : log \in [D -> Record]
  BY DEF Logs
<1>3. \A j \in Nat : \A x \in Row(k, 1..j) : x[1] = k /\ x[2] \in 1..j /\ x \notin D
  <2> TAKE j \in Nat
  <2> TAKE x \in Row(k, 1..j)
  <2>1. PICK i \in 1..j : x = <<k, i>>
    BY RowFacts
  <2>2. x[1] = k /\ x[2] = i
    BY <2>1
  <2> QED
    BY <1>2, <2>2
<1>4. 0 \in N
  <2>1. Row(k, 1..0) = {}
    <3>1. 1..0 = {}
      OBVIOUS
    <3>2. \A x : x \notin Row(k, 1..0)
      BY <3>1, RowFacts
    <3> QED
      BY <3>2
  <2>2. g(0) = log
    BY <1>2, <2>1 DEF Reading
  <2>3. after(0) = t
    BY <1>1, AfterUnfolds
  <2> HIDE DEF g, after
  <2> QED
    BY <2>2, <2>3
<1>5. ASSUME NEW j \in Nat, j \in N PROVE j + 1 \in N
  <2> SUFFICES ASSUME j + 1 <= Len(records)
               PROVE  g(j + 1) \in Logs /\ Matches(after(j + 1), g(j + 1))
    OBVIOUS
  <2> DEFINE z == <<k, j + 1>>
             r == records[j + 1]
  <2>1. j \in 0..Len(records) /\ j + 1 \in 0..Len(records) /\ j + 1 # 0 /\ (j + 1) - 1 = j
        /\ j + 1 \in 1..Len(records) /\ j <= Len(records)
    BY <1>1
  <2>2. g(j) \in Logs /\ Matches(after(j), g(j))
    BY <1>5, <2>1
  <2>3. after(j + 1) = ReadRecord(after(j), r)
    <3>1. \A i \in 0..Len(records) :
            After(t, records)[i] =
              IF i = 0 THEN t ELSE ReadRecord(After(t, records)[i - 1], records[i])
      BY AfterUnfolds
    <3>2. After(t, records)[j + 1] =
              IF j + 1 = 0 THEN t ELSE ReadRecord(After(t, records)[(j + 1) - 1], records[j + 1])
      BY <2>1, <3>1, Zenon
    <3> QED
      BY <2>1, <3>2
  <2>4. DOMAIN g(j) = D \union Row(k, 1..j)
    BY <1>2 DEF Reading
  <2>5. z \in Nat \X Nat /\ z[1] = k /\ z[2] = j + 1
    OBVIOUS
  <2>6. r \in Record
    BY <1>1, <2>1
  <2>7. ASSUME NEW x \in DOMAIN g(j) PROVE ~Later(x, z)
    <3>1. CASE x \in D
      <4>1. x[1] \in Nat /\ x[1] < k
        BY <1>2, <3>1
      <4> QED
        BY <2>5, <4>1 DEF Later
    <3>2. CASE x \in Row(k, 1..j)
      <4>1. x[1] = k /\ x[2] \in 1..j
        BY <1>3, <3>2
      <4> QED
        BY <2>5, <4>1 DEF Later
    <3> QED
      BY <2>4, <3>1, <3>2
  <2>8. g(j + 1) = Extended(g(j), z, r)
    <3>1. DOMAIN g(j + 1) = D \union Row(k, 1..(j + 1))
      BY <1>2 DEF Reading
    <3>2. Row(k, 1..(j + 1)) = Row(k, 1..j) \union {z}
      <4>1. 1..(j + 1) = 1..j \union {j + 1}
        OBVIOUS
      <4>2. \A x : x \in Row(k, 1..(j + 1)) <=> x \in Row(k, 1..j) \/ x = z
        <5> TAKE x
        <5>1. x \in Row(k, 1..(j + 1)) <=> \E i \in 1..(j + 1) : x = <<k, i>>
          BY RowFacts
        <5>2. x \in Row(k, 1..j) <=> \E i \in 1..j : x = <<k, i>>
          BY RowFacts
        <5> QED
          BY <4>1, <5>1, <5>2
      <4> QED
        BY <4>2
    <3>3. D \union Row(k, 1..(j + 1)) = DOMAIN g(j) \union {z}
      BY <2>4, <3>2
    <3>4. z \notin D /\ z \notin Row(k, 1..j)
      <4>1. z \in Row(k, 1..(j + 1))
        BY <3>2
      <4>2. z \notin D
        BY <1>3, <4>1
      <4>3. z \in Row(k, 1..j) => z[2] \in 1..j
        BY <1>3
      <4>4. j + 1 \notin 1..j
        OBVIOUS
      <4>5. z[2] = j + 1
        BY <2>5
      <4> HIDE DEF z
      <4> QED
        BY <4>2, <4>3, <4>4, <4>5
    <3>5. \A x \in D \union Row(k, 1..(j + 1)) :
            (IF x \in D THEN log[x] ELSE records[x[2]]) = (IF x = z THEN r ELSE g(j)[x])
      <4> TAKE x \in D \union Row(k, 1..(j + 1))
      <4>1. CASE x = z
        BY <2>5, <3>4, <4>1
      <4>2. CASE x # z
        <5>1. x \in D \union Row(k, 1..j)
          BY <3>2, <4>2
        <5>2. g(j)[x] = IF x \in D THEN log[x] ELSE records[x[2]]
          BY <1>2, <5>1 DEF Reading
        <5> QED
          BY <4>2, <5>2
      <4> QED
        BY <4>1, <4>2
    <3>6. g(j + 1) = [x \in D \union Row(k, 1..(j + 1)) |->
                        IF x \in D THEN log[x] ELSE records[x[2]]]
      BY <1>2 DEF Reading
    <3> HIDE DEF g, z, r
    <3>7. g(j + 1) = [x \in DOMAIN g(j) \union {z} |-> IF x = z THEN r ELSE g(j)[x]]
      BY <3>3, <3>5, <3>6
    <3> QED
      BY <3>7 DEF Extended
  <2> HIDE DEF g, after, z, r
  <2>9. Extended(g(j), z, r) \in Logs
    BY <2>2, <2>5, <2>6, <2>7, ExtendedFacts
  <2>10. Matches(ReadRecord(after(j), r), Extended(g(j), z, r))
    BY <2>2, <2>5, <2>6, <2>7, RecordRead
  <2> QED
    BY <2>3, <2>8, <2>9, <2>10
<1>6. Nat \subseteq N
  <2> HIDE DEF N
  <2> QED
    BY <1>4, <1>5, Counting
<1>7. n \in Nat /\ n <= Len(records)
  BY <1>1
<1> HIDE DEF g, after
<1>8. Matches(after(n), g(n))
  BY <1>6, <1>7
<1> QED
  BY <1>8 DEF g, after

-----------------------------------------------------------------------------
(* The join: every service that can be joined is reported, and once. *)

LEMMA ServicesFacts ==
  ASSUME NetworkAssumption, Tables \in TablesType
  PROVE  /\ \A i \in DOMAIN Services : \E q \in ToSet(ptrs) : Joinable(q) /\ Services[i] = Service(q)
         /\ \A i, j \in DOMAIN Services :
              Services[i].kind = Services[j].kind /\ Services[i].instance = Services[j].instance
              => i = j
         /\ \A q \in ToSet(ptrs) : Joinable(q) =>
              \E i \in DOMAIN Services :
                Services[i].kind = q.kind /\ Services[i].instance = q.instance
<1> DEFINE Q == [kind : AdbServiceKinds, instance : Instances]
           once == Distinct(ptrs, ptrs, DOMAIN ptrs)
           joined == {i \in DOMAIN once : Joinable(once[i])}
           keys == [i \in joined |-> Endpoint(once[i])]
           reported == Distinct(once, keys, joined)
           out1 == [i \in DOMAIN reported |-> Service(reported[i])]
<1>1. ptrs \in Seq(Q)
  BY DEF TablesType, Tables
<1>2. Services = out1
  BY DEF Services
<1>3. \A q : Service(q).kind = q.kind /\ Service(q).instance = q.instance
  BY DEF Service
<1>4. ASSUME NEW q1 \in Q, NEW q2 \in Q, Endpoint(q1) = Endpoint(q2) PROVE q1 = q2
  <2>1. q1.kind = q2.kind /\ q1.instance = q2.instance
    BY <1>3, <1>4 DEF Endpoint
  <2> QED
    BY <2>1
<1> HIDE DEF Q
<1>5. once \in Seq(Q)
  BY <1>1, DistinctFacts
<1>6. PICK at : Selects(at, once, ptrs, ptrs, DOMAIN ptrs)
  BY <1>1, DistinctFacts
<1> HIDE DEF once
<1>7. joined \subseteq DOMAIN once
  OBVIOUS
<1> HIDE DEF joined, keys
<1>8. PICK from : Selects(from, reported, once, keys, joined)
  BY <1>5, <1>7, DistinctFacts
<1> HIDE DEF reported
<1>9. \A n \in joined : n \in DOMAIN once /\ once[n] \in Q /\ Joinable(once[n])
                        /\ keys[n] = Endpoint(once[n])
  BY <1>5 DEF joined, keys
<1>10. DOMAIN Services = DOMAIN reported
       /\ \A i \in DOMAIN reported : Services[i] = Service(reported[i]) /\ from[i] \in joined
  BY <1>2, <1>8 DEF Selects
<1>11. ASSUME NEW i \in DOMAIN Services
       PROVE  \E q \in ToSet(ptrs) : Joinable(q) /\ Services[i] = Service(q)
  <2>1. from[i] \in DOMAIN once /\ Joinable(once[from[i]]) /\ Services[i] = Service(once[from[i]])
    BY <1>8, <1>9, <1>10 DEF Selects
  <2>2. once[from[i]] = ptrs[at[from[i]]] /\ at[from[i]] \in DOMAIN ptrs
    BY <1>6, <2>1 DEF Selects
  <2>3. once[from[i]] \in ToSet(ptrs)
    BY <2>2 DEF ToSet
  <2> QED
    BY <2>1, <2>3
<1>12. ASSUME NEW i \in DOMAIN Services, NEW j \in DOMAIN Services,
              Services[i].kind = Services[j].kind, Services[i].instance = Services[j].instance
       PROVE  i = j
  <2>1. /\ from[i] \in joined /\ reported[i] = once[from[i]] /\ Services[i] = Service(once[from[i]])
        /\ from[j] \in joined /\ reported[j] = once[from[j]] /\ Services[j] = Service(once[from[j]])
    BY <1>8, <1>10 DEF Selects
  <2>2. once[from[i]].kind = once[from[j]].kind /\ once[from[i]].instance = once[from[j]].instance
    BY <1>3, <1>12, <2>1
  <2>3. once[from[i]] = once[from[j]]
    BY <1>9, <2>1, <2>2 DEF Q
  <2>4. keys[from[i]] = keys[from[j]]
    BY <1>9, <2>1, <2>3
  <2> QED
    BY <1>8, <1>10, <2>4 DEF Selects
<1>13. ASSUME NEW q \in ToSet(ptrs), Joinable(q)
       PROVE  \E i \in DOMAIN Services : Services[i].kind = q.kind /\ Services[i].instance = q.instance
  <2>1. PICK n \in DOMAIN ptrs : q = ptrs[n]
    BY DEF ToSet
  <2>2. PICK m \in DOMAIN once : ptrs[at[m]] = ptrs[n]
    BY <1>6 DEF Selects
  <2>3. once[m] = q
    BY <1>6, <2>1, <2>2 DEF Selects
  <2>4. m \in joined
    BY <1>13, <2>3 DEF joined
  <2>5. PICK i \in DOMAIN reported : keys[from[i]] = keys[m]
    BY <1>8, <2>4 DEF Selects
  <2>6. from[i] \in joined /\ Services[i] = Service(once[from[i]]) /\ i \in DOMAIN Services
    BY <1>8, <1>10 DEF Selects
  <2>7. Endpoint(once[from[i]]) = Endpoint(once[m]) /\ once[from[i]] \in Q /\ once[m] \in Q
    BY <1>9, <2>4, <2>5, <2>6
  <2>8. once[from[i]] = q
    BY <1>4, <2>3, <2>7
  <2> QED
    BY <1>3, <2>6, <2>8
<1> QED
  BY <1>11, <1>12, <1>13

-----------------------------------------------------------------------------
(* The log of the records heard. *)

HeardOf(packets) ==
  {x \in Nat \X Nat : x[1] \in 1..Len(packets) /\ x[2] \in 1..Len(Readable(packets[x[1]]))}
LogOf(packets) == [x \in HeardOf(packets) |-> packets[x[1]][x[2]]]

LEMMA HeardIs ==
  ASSUME NetworkAssumption, received \in Seq(Packets)
  PROVE  Heard = HeardOf(received)
<1>1. \A n \in 1..Len(received) : received[n] \in Seq(Record)
  BY DEF NetworkAssumption
<1>2. DOMAIN received = 1..Len(received) /\ Len(received) \in Nat
  OBVIOUS
<1>3. ASSUME NEW n \in 1..Len(received), NEW i \in 1..Len(received[n])
      PROVE  (\A m \in 1..i : received[n][m].type # "Unreadable")
               <=> i \in 1..Len(Readable(received[n]))
  <2> DEFINE p == received[n]
             r == Readable(p)
  <2>1. p \in Seq(Record)
    BY <1>1
  <2>2. /\ Len(r) \in Nat /\ Len(r) <= Len(p)
        /\ \A m \in 1..Len(r) : p[m].type # "Unreadable"
        /\ Len(r) < Len(p) => p[Len(r) + 1].type = "Unreadable"
    BY <2>1, ReadableFacts
  <2>3. Len(p) \in Nat /\ i \in 1..Len(p)
    BY <2>1
  <2> HIDE DEF r, p
  <2>4. CASE i <= Len(r)
    <3>1. i \in 1..Len(r) /\ 1..i \subseteq 1..Len(r)
      BY <2>2, <2>3, <2>4
    <3> QED
      BY <2>2, <3>1 DEF p, r
  <2>5. CASE Len(r) < i
    <3>1. Len(r) < Len(p) /\ Len(r) + 1 \in 1..i /\ i \notin 1..Len(r)
      BY <2>2, <2>3, <2>5
    <3>2. p[Len(r) + 1].type = "Unreadable"
      BY <2>2, <3>1
    <3>3. ~(\A m \in 1..i : p[m].type # "Unreadable")
      BY <3>1, <3>2
    <3> QED
      BY <3>1, <3>3 DEF p, r
  <2>6. i \in Nat /\ Len(r) \in Nat
    BY <2>2, <2>3
  <2> HIDE DEF p
  <2>7. i <= Len(r) \/ Len(r) < i
    BY <2>6
  <2> QED
    BY <2>4, <2>5, <2>7
<1>4. \A n \in 1..Len(received) :
        /\ DOMAIN received[n] = 1..Len(received[n]) /\ Len(received[n]) \in Nat
        /\ 1..Len(Readable(received[n])) \subseteq 1..Len(received[n])
  <2> TAKE n \in 1..Len(received)
  <2>1. received[n] \in Seq(Record)
    BY <1>1
  <2>2. Len(Readable(received[n])) \in Nat /\ Len(Readable(received[n])) <= Len(received[n])
    BY <2>1, ReadableFacts
  <2> QED
    BY <2>1, <2>2
<1> DEFINE Some == UNION {Row(n, DOMAIN received[n]) : n \in DOMAIN received}
<1>5. Heard = {x \in Some : \A i \in 1..x[2] : received[x[1]][i].type # "Unreadable"}
  BY DEF Heard, Row
<1>6. ASSUME NEW x, x \in Some, \A i \in 1..x[2] : received[x[1]][i].type # "Unreadable"
      PROVE  x \in HeardOf(received)
  <2>1. PICK n \in 1..Len(received) : x \in Row(n, DOMAIN received[n])
    BY <1>2, <1>6
  <2>2. PICK i \in DOMAIN received[n] : x = <<n, i>>
    BY <2>1, RowFacts
  <2>3. i \in 1..Len(received[n])
    BY <1>4
  <2>4. x[1] = n /\ x[2] = i /\ x \in Nat \X Nat
    BY <2>2, <2>3
  <2>5. i \in 1..Len(Readable(received[n]))
    BY <1>3, <1>6, <2>3, <2>4
  <2> QED
    BY <2>4, <2>5 DEF HeardOf
<1>7. ASSUME NEW x \in HeardOf(received)
      PROVE  x \in Some /\ \A i \in 1..x[2] : received[x[1]][i].type # "Unreadable"
  <2>1. x \in Nat \X Nat /\ x[1] \in 1..Len(received) /\ x[2] \in 1..Len(Readable(received[x[1]]))
    BY DEF HeardOf
  <2>2. x = <<x[1], x[2]>>
    BY <2>1, PairFacts
  <2>3. x[2] \in 1..Len(received[x[1]]) /\ x[2] \in DOMAIN received[x[1]]
    BY <1>4, <2>1
  <2>4. x \in Row(x[1], DOMAIN received[x[1]])
    BY <2>2, <2>3, RowFacts
  <2>5. x \in Some
    BY <1>2, <2>1, <2>4
  <2> QED
    BY <1>3, <2>1, <2>3, <2>5
<1> HIDE DEF Some
<1> QED
  BY <1>5, <1>6, <1>7

LEMMA LogGrows ==
  ASSUME NetworkAssumption, NEW packets \in Seq(Packets), NEW p \in Packets,
         NEW k, k = Len(packets) + 1, NEW records, records = Readable(p)
  PROVE  LogOf(Append(packets, p)) = Reading(LogOf(packets), k, records, Len(records))
<1> DEFINE more == Append(packets, p)
           old == HeardOf(packets)
           new == Row(k, 1..Len(records))
<1>1. /\ Len(packets) \in Nat /\ DOMAIN packets = 1..Len(packets)
      /\ Len(more) = Len(packets) + 1
      /\ \A i \in 1..Len(packets) : more[i] = packets[i]
      /\ more[Len(packets) + 1] = p
  BY AppendFacts
<1>2. p \in Seq(Record) /\ \A n \in 1..Len(packets) : packets[n] \in Seq(Record)
  BY DEF NetworkAssumption
<1>3. /\ Len(records) \in Nat /\ Len(records) <= Len(p)
      /\ \A i \in 1..Len(records) : records[i] = p[i]
  BY <1>2, ReadableFacts
<1> HIDE DEF more
<1>4. \A x \in old : x \in Nat \X Nat /\ x[1] \in 1..Len(packets)
                     /\ x[2] \in 1..Len(Readable(packets[x[1]])) /\ more[x[1]] = packets[x[1]]
  BY <1>1 DEF HeardOf
<1>5. ASSUME NEW x \in old PROVE x \in HeardOf(more)
  <2>1. x[1] \in 1..Len(more)
    BY <1>1, <1>4
  <2> QED
    BY <1>4, <2>1 DEF HeardOf
<1>6. ASSUME NEW x \in new
      PROVE  x \in HeardOf(more) /\ x \notin old /\ more[x[1]][x[2]] = records[x[2]]
  <2>1. PICK i \in 1..Len(records) : x = <<k, i>>
    BY RowFacts
  <2>2. x[1] = k /\ x[2] = i /\ k \in Nat /\ i \in Nat /\ k \in 1..Len(more) /\ more[k] = p
    BY <1>1, <1>3, <2>1
  <2>3. x \in Nat \X Nat
    BY <2>1, <2>2
  <2>4. x \notin old
    <3>1. k \notin 1..Len(packets)
      BY <1>1
    <3> QED
      BY <1>4, <2>2, <3>1
  <2> QED
    BY <1>3, <2>2, <2>3, <2>4 DEF HeardOf
<1>7. ASSUME NEW x \in HeardOf(more) PROVE x \in old \/ x \in new
  <2>1. x \in Nat \X Nat /\ x[1] \in 1..Len(more) /\ x[2] \in 1..Len(Readable(more[x[1]]))
    BY DEF HeardOf
  <2>2. CASE x[1] \in 1..Len(packets)
    BY <1>1, <2>1, <2>2 DEF HeardOf
  <2>3. CASE x[1] = k
    <3>1. x[2] \in 1..Len(records)
      BY <1>1, <2>1, <2>3
    <3>2. x = <<k, x[2]>>
      BY <2>1, <2>3, PairFacts
    <3> QED
      BY <3>1, <3>2, RowFacts
  <2> QED
    BY <1>1, <2>1, <2>2, <2>3
<1> HIDE DEF old, new
<1>8. HeardOf(more) = old \union new
  BY <1>5, <1>6, <1>7
<1>9. \A x \in old \union new :
        more[x[1]][x[2]] = IF x \in old THEN LogOf(packets)[x] ELSE records[x[2]]
  <2> TAKE x \in old \union new
  <2>1. CASE x \in old
    <3>1. LogOf(packets)[x] = packets[x[1]][x[2]]
      BY <2>1 DEF LogOf, old
    <3> QED
      BY <1>4, <2>1, <3>1
  <2>2. CASE x \notin old
    BY <1>6, <2>2
  <2> QED
    BY <2>1, <2>2
<1>10. DOMAIN LogOf(packets) = old
  BY DEF LogOf, old
<1>11. LogOf(more) = [x \in old \union new |-> more[x[1]][x[2]]]
  BY <1>8 DEF LogOf
<1>12. Reading(LogOf(packets), k, records, Len(records)) =
         [x \in old \union new |-> IF x \in old THEN LogOf(packets)[x] ELSE records[x[2]]]
  BY <1>10 DEF Reading, new
<1>13. LogOf(more) = Reading(LogOf(packets), k, records, Len(records))
  <2>1. [x \in old \union new |-> more[x[1]][x[2]]] =
          [x \in old \union new |-> IF x \in old THEN LogOf(packets)[x] ELSE records[x[2]]]
    BY <1>9
  <2> QED
    BY <1>11, <1>12, <2>1
<1> QED
  BY <1>13 DEF more

LEMMA LogFacts ==
  ASSUME NetworkAssumption, NEW packets \in Seq(Packets)
  PROVE  /\ LogOf(packets) \in Logs
         /\ \A x \in DOMAIN LogOf(packets) : x[1] < Len(packets) + 1
<1>1. \A n \in 1..Len(packets) : packets[n] \in Seq(Record)
  BY DEF NetworkAssumption
<1>2. Len(packets) \in Nat
  OBVIOUS
<1> DEFINE D == HeardOf(packets)
<1>3. ASSUME NEW x \in D
      PROVE  x \in Nat \X Nat /\ x[1] < Len(packets) + 1 /\ packets[x[1]][x[2]] \in Record
  <2>1. x \in Nat \X Nat /\ x[1] \in 1..Len(packets) /\ x[2] \in 1..Len(Readable(packets[x[1]]))
    BY DEF HeardOf
  <2>2. packets[x[1]] \in Seq(Record)
    BY <1>1, <2>1
  <2>3. /\ Len(Readable(packets[x[1]])) \in Nat
        /\ Len(Readable(packets[x[1]])) <= Len(packets[x[1]])
    BY <2>2, ReadableFacts
  <2>4. x[2] \in 1..Len(packets[x[1]])
    BY <2>1, <2>2, <2>3
  <2> QED
    BY <1>2, <2>1, <2>2, <2>4
<1>4. D \in SUBSET (Nat \X Nat)
  BY <1>3
<1>5. LogOf(packets) = [x \in D |-> packets[x[1]][x[2]]]
  BY DEF LogOf
<1> HIDE DEF D
<1>6. LogOf(packets) \in [D -> Record] /\ DOMAIN LogOf(packets) = D
  BY <1>3, <1>5
<1> QED
  BY <1>3, <1>4, <1>6 DEF Logs

-----------------------------------------------------------------------------
(***************************************************************************)
(* The tables match the records heard at every moment; the queries have    *)
(* been sent once, twice after the resend; what is returned is the join of *)
(* the tables, which no longer change.                                     *)
(***************************************************************************)
MdnsInv ==
  /\ clock \in {"early", "resend", "over"}
  /\ resent \in BOOLEAN
  /\ quiet \in BOOLEAN
  /\ received \in Seq(Packets)
  /\ Matches(Tables, LogOf(received))
  /\ \/ pc = "bind" /\ ~resent /\ received = <<>> /\ out = <<>> /\ rounds = 0
     \/ pc \in {"top", "resend", "recv"} /\ out = <<>> /\ rounds = IF resent THEN 2 ELSE 1
     \/ pc = "done" /\ rounds \in 0..2 /\ (out = Services \/ (out = <<>> /\ received = <<>>))

LEMMA InitInv ==
  ASSUME NetworkAssumption, Init
  PROVE  MdnsInv
<1> DEFINE Q == [kind : AdbServiceKinds, instance : Instances]
<1>1. /\ pc = "bind" /\ clock = "early" /\ resent = FALSE
      /\ srvs = [i \in Instances |-> NoSrv] /\ addrs = [h \in Hosts |-> <<>>] /\ ptrs = <<>>
      /\ out = <<>> /\ rounds = 0 /\ received = <<>> /\ quiet = TRUE
  BY DEF Init
<1>2. received \in Seq(Packets) /\ ptrs \in Seq(Q) /\ ToSet(ptrs) = {}
      /\ \A h \in Hosts : addrs[h] \in Seq(IPs) /\ DOMAIN addrs[h] = {} /\ ToSet(addrs[h]) = {}
  BY <1>1 DEF ToSet
<1>3. Tables \in TablesType
  <2>1. srvs \in [Instances -> [target : Hosts, port : Ports] \union {NoSrv}]
    BY <1>1
  <2>2. addrs \in [Hosts -> Seq(IPs)]
    BY <1>1, <1>2
  <2> QED
    BY <1>2, <2>1, <2>2 DEF TablesType, Tables
<1> DEFINE log == LogOf(received)
<1>4. DOMAIN log = {}
  <2>1. \A i : i \notin 1..Len(received)
    BY <1>1
  <2> QED
    BY <2>1 DEF LogOf, HeardOf
<1> HIDE DEF log
<1>5. Tables.srvs = srvs /\ Tables.addrs = addrs /\ Tables.ptrs = ptrs
  BY DEF Tables
<1>6. PtrsMatch(Tables, log) /\ SrvsMatch(Tables, log)
  BY <1>2, <1>4, <1>5 DEF PtrsMatch, SrvsMatch
<1>7. SrvsHad(Tables, log)
  BY <1>1, <1>5 DEF SrvsHad
<1>8. AddrsMatch(Tables, log)
  BY <1>2, <1>4, <1>5 DEF AddrsMatch, IsInjective, Ordered
<1>9. Matches(Tables, log)
  BY <1>3, <1>6, <1>7, <1>8 DEF Matches
<1> QED
  BY <1>1, <1>2, <1>9 DEF MdnsInv, log

LEMMA StepInv ==
  ASSUME NetworkAssumption, MdnsInv, [Next]_vars
  PROVE  MdnsInv'
<1>1. /\ clock \in {"early", "resend", "over"} /\ resent \in BOOLEAN /\ quiet \in BOOLEAN
      /\ received \in Seq(Packets) /\ Matches(Tables, LogOf(received))
  BY DEF MdnsInv
<1>2. \/ pc = "bind" /\ ~resent /\ received = <<>> /\ out = <<>> /\ rounds = 0
      \/ pc \in {"top", "resend", "recv"} /\ out = <<>> /\ rounds = IF resent THEN 2 ELSE 1
      \/ pc = "done" /\ rounds \in 0..2 /\ (out = Services \/ (out = <<>> /\ received = <<>>))
  BY DEF MdnsInv
<1>3. ASSUME UNCHANGED <<tables, received>> PROVE Matches(Tables, LogOf(received))'
  <2>1. srvs' = srvs /\ addrs' = addrs /\ ptrs' = ptrs /\ received' = received
    BY <1>3 DEF tables
  <2>2. Tables' = Tables
    BY <2>1 DEF Tables
  <2>3. Matches(Tables', LogOf(received'))
    BY <1>1, <2>1, <2>2
  <2> QED
    BY <2>3
<1>4. ASSUME UNCHANGED tables PROVE Services' = Services
  <2>1. srvs' = srvs /\ addrs' = addrs /\ ptrs' = ptrs
    BY <1>4 DEF tables
  <2>2. \A p : Service(p)' = Service(p) /\ Joinable(p)' = Joinable(p)
    BY <2>1 DEF Service, Joinable
  <2>3. \A p : Endpoint(p)' = Endpoint(p)
    BY <2>2 DEF Endpoint
  <2> QED
    BY <2>1, <2>2, <2>3 DEF Services
<1>5. CASE BindFails
  <2>1. MdnsInv'
    BY <1>1, <1>2, <1>3, <1>5 DEF BindFails, MdnsInv, tables
  <2> QED
    BY <2>1
<1>6. CASE SendQueries
  BY <1>1, <1>2, <1>3, <1>6 DEF SendQueries, MdnsInv, tables
<1>7. CASE LoopTop
  BY <1>1, <1>2, <1>3, <1>7 DEF LoopTop, MdnsInv, tables
<1>8. CASE Resend
  <2>1. UNCHANGED <<tables, received, clock, out, quiet>> /\ pc = "resend" /\ pc' = "recv" /\ out = <<>>
        /\ rounds = IF resent THEN 2 ELSE 1
    BY <1>2, <1>8 DEF Resend, tables
  <2>2. Matches(Tables, LogOf(received))'
    BY <1>3, <2>1
  <2>3. CASE ~resent /\ resent' = TRUE /\ rounds' = rounds + 1
    <3>1. rounds' = IF resent' THEN 2 ELSE 1
      BY <2>1, <2>3
    <3> QED
      BY <1>1, <2>1, <2>2, <2>3, <3>1 DEF MdnsInv
  <2>4. CASE UNCHANGED <<resent, rounds>>
    BY <1>1, <2>1, <2>2, <2>4 DEF MdnsInv
  <2> QED
    BY <1>8, <2>3, <2>4 DEF Resend, MarkResent
<1>9. CASE RecvTimeout
  BY <1>1, <1>2, <1>3, <1>9 DEF RecvTimeout, MdnsInv, tables
<1>14. CASE ReceiveOther
  BY <1>1, <1>2, <1>3, <1>14 DEF ReceiveOther, MdnsInv, tables
<1>10. CASE Tick
  BY <1>1, <1>2, <1>3, <1>10 DEF Tick, MdnsInv, tables
<1>11. CASE Finish
  BY <1>1, <1>2, <1>3, <1>4, <1>11 DEF Finish, MdnsInv, tables
<1>12. CASE UNCHANGED vars
  <2>1. UNCHANGED <<tables, received, pc, clock, resent, out, rounds, quiet>>
    BY <1>12 DEF vars, tables
  <2> QED
    BY <1>1, <1>2, <1>3, <1>4, <2>1 DEF MdnsInv
<1>13. CASE Receive
  <2>1. PICK p \in Packets :
          /\ srvs' = ParseMessage(p).srvs
          /\ addrs' = ParseMessage(p).addrs
          /\ ptrs' = ParseMessage(p).ptrs
          /\ received' = Append(received, p)
    BY <1>13 DEF Receive
  <2> DEFINE records == Readable(p)
             k == Len(received) + 1
  <2>2. p \in Seq(Record)
    BY DEF NetworkAssumption
  <2>3. records \in Seq(Record) /\ Len(records) \in 0..Len(records)
    BY <2>2, ReadableFacts
  <2>4. ParseMessage(p) = After(Tables, records)[Len(records)]
    BY ParseIsAfter
  <2>5. k \in Nat /\ LogOf(received) \in Logs /\ \A x \in DOMAIN LogOf(received) : x[1] < k
    BY <1>1, LogFacts
  <2>6. LogOf(Append(received, p)) = Reading(LogOf(received), k, records, Len(records))
    BY <1>1, LogGrows
  <2> HIDE DEF records, k
  <2>7. Matches(ParseMessage(p), LogOf(Append(received, p)))
    BY <1>1, <2>3, <2>4, <2>5, <2>6, PacketRead
  <2>8. ParseMessage(p) \in TablesType
    BY <2>7 DEF Matches
  <2>9. Tables' = [srvs |-> srvs', addrs |-> addrs', ptrs |-> ptrs']
    BY DEF Tables
  <2>10. Tables' = ParseMessage(p)
    BY <2>1, <2>8, <2>9 DEF TablesType
  <2>11. Matches(Tables', LogOf(received'))
    BY <2>1, <2>7, <2>10
  <2>12. received' \in Seq(Packets)
    BY <1>1, <2>1
  <2>13. pc' = "top" /\ pc = "recv" /\ quiet' = FALSE /\ UNCHANGED <<clock, resent, out, rounds>>
    BY <1>13 DEF Receive
  <2> QED
    BY <1>1, <1>2, <2>11, <2>12, <2>13 DEF MdnsInv
<1> QED
  BY <1>5, <1>6, <1>7, <1>8, <1>9, <1>10, <1>11, <1>12, <1>13, <1>14 DEF Next, Step, Terminated

(* The inductive invariant of `discover`. *)
THEOREM MdnsInvariant == Spec => []MdnsInv
<1>1. Init => MdnsInv
  BY InitInv, NetworkAssumption
<1>2. MdnsInv /\ [Next]_vars => MdnsInv'
  BY StepInv, NetworkAssumption
<1> QED
  BY <1>1, <1>2, PTL DEF Spec

-----------------------------------------------------------------------------
(* What the invariant says of the records heard. *)

LEMMA HeardFacts ==
  ASSUME NetworkAssumption, MdnsInv, NEW log, log = LogOf(received)
  PROVE  DOMAIN log = Heard /\ \A x \in Heard : log[x] = At(x) /\ At(x) \in Record
<1>1. received \in Seq(Packets)
  BY DEF MdnsInv
<1>2. Heard = HeardOf(received)
  BY <1>1, HeardIs
<1>3. DOMAIN log = HeardOf(received)
      /\ \A x \in HeardOf(received) : log[x] = received[x[1]][x[2]]
  BY DEF LogOf
<1>4. log \in Logs
  BY <1>1, LogFacts
<1>5. \A x \in DOMAIN log : log[x] \in Record
  BY <1>4 DEF Logs
<1> QED
  BY <1>2, <1>3, <1>5 DEF At

LEMMA TablesFacts ==
  ASSUME MdnsInv
  PROVE  /\ Tables \in TablesType
         /\ srvs \in [Instances -> [target : Hosts, port : Ports] \union {NoSrv}]
         /\ addrs \in [Hosts -> Seq(IPs)]
         /\ ptrs \in Seq([kind : AdbServiceKinds, instance : Instances])
         /\ \A h \in Hosts : IsInjective(addrs[h]) /\ Ordered(addrs[h])
<1>1. Tables \in TablesType /\ AddrsMatch(Tables, LogOf(received))
  BY DEF MdnsInv, Matches
<1>2. Tables.srvs = srvs /\ Tables.addrs = addrs /\ Tables.ptrs = ptrs
  BY DEF Tables
<1>3. \A h \in Hosts : IsInjective(addrs[h]) /\ Ordered(addrs[h])
  BY <1>1, <1>2 DEF AddrsMatch
<1> QED
  BY <1>1, <1>2, <1>3 DEF TablesType

LEMMA PtrFacts ==
  ASSUME NetworkAssumption, MdnsInv, NEW q \in [kind : AdbServiceKinds, instance : Instances]
  PROVE  q \in ToSet(ptrs) <=> PtrHeard(q.kind, q.instance)
<1> DEFINE log == LogOf(received)
<1>1. PtrsMatch(Tables, log) /\ ptrs \in Seq([kind : AdbServiceKinds, instance : Instances])
  BY TablesFacts DEF MdnsInv, Matches
<1>2. Tables.ptrs = ptrs
  BY DEF Tables
<1>3. DOMAIN log = Heard /\ \A x \in Heard : log[x] = At(x) /\ At(x) \in Record
  BY HeardFacts
<1> HIDE DEF log
<1>4. ASSUME q \in ToSet(ptrs) PROVE PtrHeard(q.kind, q.instance)
  <2>1. PICK x \in Heard :
          log[x].type = "PTR" /\ log[x].kind = q.kind /\ log[x].instance = q.instance
    BY <1>1, <1>2, <1>3, <1>4 DEF PtrsMatch
  <2>2. At(x) \in Record /\ At(x).type = "PTR" /\ At(x).kind = q.kind
        /\ At(x).instance = q.instance
    BY <1>3, <2>1
  <2>3. At(x) = [type |-> "PTR", kind |-> q.kind, instance |-> q.instance]
    BY <2>2 DEF Record
  <2> QED
    BY <2>3 DEF PtrHeard
<1>5. ASSUME PtrHeard(q.kind, q.instance) PROVE q \in ToSet(ptrs)
  <2>1. PICK x \in Heard : At(x) = [type |-> "PTR", kind |-> q.kind, instance |-> q.instance]
    BY <1>5 DEF PtrHeard
  <2>2. log[x].type = "PTR" /\ log[x].kind = q.kind /\ log[x].instance = q.instance
        /\ x \in DOMAIN log
    BY <1>3, <2>1
  <2>3. [kind |-> q.kind, instance |-> q.instance] \in ToSet(ptrs)
    BY <1>1, <1>2, <2>2 DEF PtrsMatch
  <2>4. q = [kind |-> q.kind, instance |-> q.instance]
    OBVIOUS
  <2> QED
    BY <2>3, <2>4
<1> QED
  BY <1>4, <1>5

LEMMA SrvFacts ==
  ASSUME NetworkAssumption, MdnsInv, NEW n \in Instances
  PROVE  /\ srvs[n] # NoSrv <=> SrvsHeard(n) # {}
         /\ srvs[n] # NoSrv =>
              /\ LastSrv(n).target = srvs[n].target /\ LastSrv(n).port = srvs[n].port
              /\ srvs[n].target \in Hosts /\ srvs[n].port \in Ports
<1> DEFINE log == LogOf(received)
<1>1. SrvsMatch(Tables, log) /\ SrvsHad(Tables, log)
  BY DEF MdnsInv, Matches
<1>2. Tables.srvs = srvs
  BY DEF Tables
<1>3. DOMAIN log = Heard /\ \A x \in Heard : log[x] = At(x) /\ At(x) \in Record
  BY HeardFacts
<1> HIDE DEF log
<1>4. \A x : x \in SrvsHeard(n) <=> x \in Heard /\ log[x].type = "SRV" /\ log[x].name = n
  BY <1>3 DEF SrvsHeard
<1>5. ASSUME SrvsHeard(n) # {} PROVE srvs[n] # NoSrv
  BY <1>1, <1>2, <1>3, <1>4, <1>5 DEF SrvsMatch
<1>6. ASSUME srvs[n] # NoSrv
      PROVE  /\ SrvsHeard(n) # {}
             /\ LastSrv(n).target = srvs[n].target /\ LastSrv(n).port = srvs[n].port
             /\ srvs[n].target \in Hosts /\ srvs[n].port \in Ports
  <2>1. PICK x \in Heard : log[x].type = "SRV" /\ log[x].name = n /\ LastAt(log, x)
    BY <1>1, <1>2, <1>3, <1>6 DEF SrvsHad
  <2>2. x \in SrvsHeard(n) /\ \A y \in SrvsHeard(n) : Later(x, y)
    BY <1>3, <1>4, <2>1 DEF LastAt
  <2> DEFINE c == CHOOSE x2 \in SrvsHeard(n) : \A y \in SrvsHeard(n) : Later(x2, y)
  <2>3. c \in SrvsHeard(n) /\ \A y \in SrvsHeard(n) : Later(c, y)
    BY <2>2
  <2>4. LastSrv(n) = At(c)
    BY DEF LastSrv
  <2> HIDE DEF c
  <2>5. c \in Heard /\ log[c].type = "SRV" /\ log[c].name = n /\ log[c] = At(c)
    BY <1>3, <1>4, <2>3
  <2>6. LastAt(log, c)
    BY <1>3, <1>4, <2>3, <2>5 DEF LastAt
  <2>7. srvs[n] = [target |-> log[c].target, port |-> log[c].port]
    BY <1>1, <1>2, <1>3, <2>5, <2>6 DEF SrvsMatch
  <2>8. log[c].target \in Hosts /\ log[c].port \in Ports
    BY <1>3, <2>5, RecordTypes
  <2> QED
    BY <2>2, <2>4, <2>5, <2>7, <2>8
<1> QED
  BY <1>5, <1>6

LEMMA AddrFacts ==
  ASSUME NetworkAssumption, MdnsInv, NEW h \in Hosts
  PROVE  AddrsHeard(h) = ToSet(addrs[h])
<1> DEFINE log == LogOf(received)
<1>1. AddrsMatch(Tables, log)
  BY DEF MdnsInv, Matches
<1>2. Tables.addrs = addrs
  BY DEF Tables
<1>3. DOMAIN log = Heard /\ \A x \in Heard : log[x] = At(x) /\ At(x) \in Record
  BY HeardFacts
<1> HIDE DEF log
<1>4. ASSUME NEW a \in ToSet(addrs[h]) PROVE a \in AddrsHeard(h)
  <2>1. \A b \in ToSet(addrs[h]) : \E x \in DOMAIN log :
          log[x].type = "ADDR" /\ log[x].name = h /\ log[x].ip = b
    BY <1>1, <1>2 DEF AddrsMatch
  <2>2. PICK x \in DOMAIN log : log[x].type = "ADDR" /\ log[x].name = h /\ log[x].ip = a
    BY <2>1
  <2>3. x \in Heard /\ At(x).type = "ADDR" /\ At(x).name = h /\ At(x).ip = a
    BY <1>3, <2>2
  <2> QED
    BY <2>3 DEF AddrsHeard
<1>5. ASSUME NEW a \in AddrsHeard(h) PROVE a \in ToSet(addrs[h])
  <2>1. PICK x \in Heard : At(x).type = "ADDR" /\ At(x).name = h /\ a = At(x).ip
    BY DEF AddrsHeard
  <2>2. x \in DOMAIN log /\ log[x].type = "ADDR" /\ log[x].name = h /\ log[x].ip = a
    BY <1>3, <2>1
  <2> QED
    BY <1>1, <1>2, <2>2 DEF AddrsMatch
<1> QED
  BY <1>4, <1>5

LEMMA ElementsFacts ==
  ASSUME NEW S, NEW s \in Seq(S)
  PROVE  ToSet(s) \subseteq S
  BY DEF ToSet

(* A service that is reported is the join of what the tables hold of it. *)
LEMMA ReportedFacts ==
  ASSUME NetworkAssumption, MdnsInv, NEW s \in ToSet(out)
  PROVE  /\ s.kind \in AdbServiceKinds /\ s.instance \in Instances
         /\ [kind |-> s.kind, instance |-> s.instance] \in ToSet(ptrs)
         /\ srvs[s.instance] # NoSrv /\ s.port = srvs[s.instance].port
         /\ srvs[s.instance].target \in Hosts
         /\ s.ips = addrs[srvs[s.instance].target]
         /\ s.ips \in Seq(IPs) /\ s.ips # <<>> /\ s.ip = s.ips[1]
<1> DEFINE Q == [kind : AdbServiceKinds, instance : Instances]
<1>1. out = Services \/ out = <<>>
  BY DEF MdnsInv
<1>2. PICK i \in DOMAIN out : s = out[i]
  BY DEF ToSet
<1>3. out = Services
  BY <1>1, <1>2
<1>4. Tables \in TablesType
  BY TablesFacts
<1>5. PICK q \in ToSet(ptrs) : Joinable(q) /\ s = Service(q)
  BY <1>2, <1>3, <1>4, ServicesFacts
<1>6. q \in Q
  <2>1. ptrs \in Seq(Q)
    BY TablesFacts
  <2> HIDE DEF Q
  <2> QED
    BY <1>5, <2>1, ElementsFacts
<1>7. srvs[q.instance] # NoSrv /\ addrs[srvs[q.instance].target] # <<>>
  BY <1>5 DEF Joinable
<1>8. srvs[q.instance].target \in Hosts
  BY <1>6, <1>7, SrvFacts
<1>9. addrs[srvs[q.instance].target] \in Seq(IPs)
  BY <1>8, TablesFacts
<1>10. /\ s.kind = q.kind /\ s.instance = q.instance
       /\ s.port = srvs[q.instance].port
       /\ s.ips = addrs[srvs[q.instance].target] /\ s.ip = s.ips[1]
  BY <1>5 DEF Service
<1>11. [kind |-> s.kind, instance |-> s.instance] = q
  BY <1>6, <1>10
<1> QED
  BY <1>5, <1>6, <1>7, <1>8, <1>9, <1>10, <1>11

LEMMA TypesHold ==
  ASSUME NetworkAssumption, MdnsInv
  PROVE  TypeOK
<1>1. /\ pc \in {"bind", "top", "resend", "recv", "done"}
      /\ clock \in {"early", "resend", "over"} /\ resent \in BOOLEAN /\ rounds \in 0..2
      /\ quiet \in BOOLEAN
  BY DEF MdnsInv
<1>2. /\ srvs \in [Instances -> [target : Hosts, port : Ports] \union {NoSrv}]
      /\ DOMAIN addrs = Hosts
      /\ \A h \in Hosts : addrs[h] \in Seq(IPs) /\ IsInjective(addrs[h])
      /\ ptrs \in Seq([kind : AdbServiceKinds, instance : Instances])
  BY TablesFacts
<1>3. \A h \in Hosts : ToSet(addrs[h]) \subseteq IPs
  BY <1>2 DEF ToSet
<1>4. ToSet(ptrs) \subseteq [kind : AdbServiceKinds, instance : Instances]
  BY <1>2, ElementsFacts
<1>5. ASSUME NEW s \in ToSet(out) PROVE s.ip = s.ips[1] /\ s.ip \in IPs /\ s.port \in Ports
  <2>1. s.ip = s.ips[1] /\ s.ips \in Seq(IPs) /\ s.ips # <<>>
        /\ s.instance \in Instances /\ srvs[s.instance] # NoSrv /\ s.port = srvs[s.instance].port
    BY ReportedFacts
  <2>2. s.port \in Ports
    BY <2>1, SrvFacts
  <2>3. s.ip \in IPs
    BY <2>1
  <2> QED
    BY <2>1, <2>2, <2>3
<1> QED
  BY <1>1, <1>2, <1>3, <1>4, <1>5 DEF TypeOK

LEMMA NothingLost ==
  ASSUME NetworkAssumption, MdnsInv
  PROVE  Complete
<1> SUFFICES ASSUME pc = "done", NEW k \in AdbServiceKinds, NEW n \in Instances,
                    PtrHeard(k, n), SrvsHeard(n) # {}, AddrsHeard(LastSrv(n).target) # {}
             PROVE  \E s \in ToSet(out) : s.kind = k /\ s.instance = n
  BY DEF Complete
<1>1. received # <<>>
  <2>1. SUFFICES ASSUME received = <<>> PROVE FALSE
    OBVIOUS
  <2>2. received \in Seq(Packets)
    BY DEF MdnsInv
  <2>3. Heard = {}
    <3>1. \A i : i \notin 1..Len(received)
      BY <2>1
    <3> QED
      BY <2>2, <3>1, HeardIs DEF HeardOf
  <2> QED
    BY <2>3 DEF PtrHeard
<1>2. out = Services
  BY <1>1 DEF MdnsInv
<1> DEFINE q == [kind |-> k, instance |-> n]
<1>3. q \in ToSet(ptrs)
  BY PtrFacts
<1>4. srvs[n] # NoSrv /\ LastSrv(n).target = srvs[n].target /\ srvs[n].target \in Hosts
  BY SrvFacts
<1>5. ToSet(addrs[srvs[n].target]) # {}
  BY <1>4, AddrFacts
<1>6. addrs[srvs[n].target] # <<>>
  BY <1>5 DEF ToSet
<1>7. Joinable(q)
  BY <1>4, <1>6 DEF Joinable
<1>8. PICK i \in DOMAIN Services : Services[i].kind = q.kind /\ Services[i].instance = q.instance
  BY <1>3, <1>7, ServicesFacts, TablesFacts
<1>9. Services[i] \in ToSet(out)
  BY <1>2, <1>8 DEF ToSet
<1> QED
  BY <1>8, <1>9

LEMMA NothingInvented ==
  ASSUME NetworkAssumption, MdnsInv
  PROVE  Faithful
<1> SUFFICES ASSUME NEW s \in ToSet(out)
             PROVE  /\ PtrHeard(s.kind, s.instance)
                    /\ s.port = LastSrv(s.instance).port
                    /\ ToSet(s.ips) = AddrsHeard(LastSrv(s.instance).target)
                    /\ s.ip \in ToSet(s.ips)
                    /\ \A a \in ToSet(s.ips) : AddrPriority[s.ip] <= AddrPriority[a]
                    /\ \A i, j \in DOMAIN s.ips :
                         i < j => AddrPriority[s.ips[i]] <= AddrPriority[s.ips[j]]
  BY DEF Faithful
<1> DEFINE h == srvs[s.instance].target
<1>1. /\ s.kind \in AdbServiceKinds /\ s.instance \in Instances
      /\ [kind |-> s.kind, instance |-> s.instance] \in ToSet(ptrs)
      /\ srvs[s.instance] # NoSrv /\ s.port = srvs[s.instance].port
      /\ h \in Hosts /\ s.ips = addrs[h]
      /\ s.ips \in Seq(IPs) /\ s.ips # <<>> /\ s.ip = s.ips[1]
  BY ReportedFacts
<1>2. PtrHeard(s.kind, s.instance)
  BY <1>1, PtrFacts
<1>3. LastSrv(s.instance).target = h /\ LastSrv(s.instance).port = s.port
  BY <1>1, SrvFacts
<1> HIDE DEF h
<1>4. ToSet(s.ips) = AddrsHeard(LastSrv(s.instance).target)
  BY <1>1, <1>3, AddrFacts
<1>5. Ordered(s.ips)
  BY <1>1, TablesFacts
<1>6. DOMAIN s.ips = 1..Len(s.ips) /\ Len(s.ips) \in Nat /\ 1 \in DOMAIN s.ips
  BY <1>1
<1>7. s.ip \in ToSet(s.ips)
  BY <1>1, <1>6 DEF ToSet
<1>8. ASSUME NEW a \in ToSet(s.ips) PROVE AddrPriority[s.ip] <= AddrPriority[a]
  <2>1. PICK i \in DOMAIN s.ips : a = s.ips[i]
    BY DEF ToSet
  <2>2. CASE i = 1
    <3>1. a = s.ip /\ a \in IPs
      BY <1>1, <1>6, <2>1, <2>2
    <3>2. AddrPriority[a] \in Nat
      BY <3>1 DEF NetworkAssumption
    <3> QED
      BY <3>1, <3>2
  <2>3. CASE i # 1
    <3>1. 1 < i
      BY <1>6, <2>3
    <3> QED
      BY <1>1, <1>5, <1>6, <2>1, <3>1 DEF Ordered
  <2> QED
    BY <2>2, <2>3
<1> QED
  BY <1>2, <1>3, <1>4, <1>5, <1>7, <1>8 DEF Ordered

LEMMA NothingTwice ==
  ASSUME NetworkAssumption, MdnsInv
  PROVE  NoDuplicates
<1>1. out = Services \/ out = <<>>
  BY DEF MdnsInv
<1>2. CASE out = Services
  BY <1>2, ServicesFacts, TablesFacts DEF NoDuplicates
<1>3. CASE out = <<>>
  BY <1>3 DEF NoDuplicates
<1> QED
  BY <1>1, <1>2, <1>3

(***************************************************************************)
(* The tables keep their types, no host lists an address twice, whatever   *)
(* order the records came in, and the queries are sent at most twice.      *)
(***************************************************************************)
THEOREM TypesTheorem == Spec => []TypeOK
<1>1. MdnsInv => TypeOK
  BY TypesHold, NetworkAssumption
<1> QED
  BY <1>1, MdnsInvariant, PTL

(***************************************************************************)
(* A service whose PTR, SRV and address records were heard is reported:    *)
(* neither the two removals of duplicates nor a packet cut short loses it. *)
(***************************************************************************)
THEOREM CompleteTheorem == Spec => []Complete
<1>1. MdnsInv => Complete
  BY NothingLost, NetworkAssumption
<1> QED
  BY <1>1, MdnsInvariant, PTL

(***************************************************************************)
(* A service that is reported was advertised, with the port and host of    *)
(* the last SRV record heard of it, and all the addresses heard of that    *)
(* host, the best kind first.                                              *)
(***************************************************************************)
THEOREM FaithfulTheorem == Spec => []Faithful
<1>1. MdnsInv => Faithful
  BY NothingInvented, NetworkAssumption
<1> QED
  BY <1>1, MdnsInvariant, PTL

(***************************************************************************)
(* A service is reported once, however often it was heard: the comment at  *)
(* mdns.rs:92.                                                             *)
(***************************************************************************)
THEOREM OnceTheorem == Spec => []NoDuplicates
<1>1. MdnsInv => NoDuplicates
  BY NothingTwice, NetworkAssumption
<1> QED
  BY <1>1, MdnsInvariant, PTL
===========================================================================
