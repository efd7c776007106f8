--------------------------- MODULE SessionProofs ---------------------------
(***************************************************************************)
(* Theorems about Session and the operators of Targets, for every width of *)
(* addresses, every number of ports, every set of command lines, edits and *)
(* resolutions: the last word counts, the window is filled with what the   *)
(* command line said, and a scan tries exactly what was asked for.         *)
(***************************************************************************)
EXTENDS Session, FiniteSetTheorems, WellFoundedInduction, TLAPS

LEMMA LeastNat ==
  ASSUME NEW T, T \subseteq Nat, T # {}
  PROVE  \E x \in T : \A y \in T : x <= y
<1> DEFINE R == OpToRel(<, Nat)
<1>1. IsWellFoundedOn(R, Nat)
  BY NatLessThanWellFounded
<1>2. \A x, y \in Nat : y < x => <<y, x>> \in R
  BY DEF OpToRel
<1> HIDE DEF R
<1>3. PICK x \in T : \A y \in T : <<y, x>> \notin R
  BY <1>1, WFMin
<1>4. \A y \in T : x \in Nat /\ y \in Nat /\ ~(y < x)
  BY <1>2, <1>3
<1>5. \A y \in T : x <= y
  BY <1>4
<1> QED
  BY <1>5

(* Induction: a set of naturals that is closed under the successor. *)
LEMMA Counting ==
  ASSUME NEW S, 0 \in S, \A n \in Nat : n \in S => n + 1 \in S
  PROVE  Nat \subseteq S
<1> SUFFICES ASSUME Nat \ S # {} PROVE FALSE
  OBVIOUS
<1>1. PICK x \in Nat \ S : \A y \in Nat \ S : x <= y
  BY LeastNat
<1>2. x # 0 /\ x - 1 \in Nat /\ (x - 1) + 1 = x
  OBVIOUS
<1>3. x - 1 \in S
  BY <1>1, <1>2
<1> QED
  BY <1>2, <1>3

(* A step that is taken m times, given as a function of the value and the turn. *)
IsIterated(f, m, S, init, step) ==
  /\ f \in [0..m -> S]
  /\ f[0] = init
  /\ \A n \in 1..m : f[n] = step[<<f[n - 1], n>>]

LEMMA Iterates ==
  ASSUME NEW S, NEW init \in S, NEW step \in [S \X Nat -> S], NEW m \in Nat
  PROVE  \E f : IsIterated(f, m, S, init, step)
<1> DEFINE N == {k \in Nat : \E f : IsIterated(f, k, S, init, step)}
<1>1. 0 \in N
  <2> DEFINE f == [n \in 0..0 |-> init]
  <2>1. IsIterated(f, 0, S, init, step)
    BY DEF IsIterated
  <2> QED
    BY <2>1
<1>2. ASSUME NEW k \in Nat, k \in N PROVE k + 1 \in N
  <2>1. PICK f : IsIterated(f, k, S, init, step)
    BY <1>2
  <2> DEFINE g == [n \in 0..(k + 1) |-> IF n <= k THEN f[n] ELSE step[<<f[k], k + 1>>]]
  <2>2. f \in [0..k -> S] /\ f[k] \in S /\ step[<<f[k], k + 1>>] \in S
    BY <2>1 DEF IsIterated
  <2>3. g \in [0..(k + 1) -> S] /\ g[0] = init
    BY <2>1, <2>2 DEF IsIterated
  <2>4. ASSUME NEW n \in 1..(k + 1) PROVE g[n] = step[<<g[n - 1], n>>]
    <3>1. n - 1 \in 0..k /\ n - 1 <= k /\ n \in 0..(k + 1) /\ n - 1 \in 0..(k + 1)
      OBVIOUS
    <3>2. g[n - 1] = f[n - 1]
      BY <3>1
    <3>3. CASE n <= k
      BY <2>1, <3>1, <3>2, <3>3 DEF IsIterated
    <3>4. CASE n = k + 1
      <4>1. n - 1 = k /\ ~(n <= k)
        BY <3>4
      <4> QED
        BY <3>1, <3>2, <3>4, <4>1
    <3> QED
      BY <3>3, <3>4
  <2> HIDE DEF g
  <2>5. IsIterated(g, k + 1, S, init, step)
    BY <2>3, <2>4 DEF IsIterated
  <2> QED
    BY <2>5
<1> HIDE DEF N
<1>3. m \in N
  BY <1>1, <1>2, Counting
<1> QED
  BY <1>3 DEF N

-----------------------------------------------------------------------------
(* 1 << n. *)

One(bits) == CHOOSE one : one = [n \in 0..bits |-> IF n = 0 THEN 1 ELSE 2 * one[n - 1]]

LEMMA ShlIsOne == ASSUME NEW bits PROVE Shl(bits) = One(bits)[bits]
  BY DEF Shl, One

LEMMA OneUnfolds ==
  ASSUME NEW bits \in Nat
  PROVE  /\ One(bits) \in [0..bits -> Nat]
         /\ One(bits)[0] = 1
         /\ \A n \in 1..bits : One(bits)[n] = 2 * One(bits)[n - 1]
<1> DEFINE step == [x \in Nat \X Nat |-> 2 * x[1]]
           Body(f) == [n \in 0..bits |-> IF n = 0 THEN 1 ELSE 2 * f[n - 1]]
<1>1. step \in [Nat \X Nat -> Nat] /\ \A x, n \in Nat : step[<<x, n>>] = 2 * x
  OBVIOUS
<1> HIDE DEF step
<1>2. PICK f : IsIterated(f, bits, Nat, 1, step)
  BY <1>1, Iterates
<1>3. \A n \in 1..bits : n - 1 \in 0..bits /\ n \in 0..bits /\ f[n - 1] \in Nat
  BY <1>2 DEF IsIterated
<1>4. f = Body(f)
  <2>1. f \in [0..bits -> Nat] /\ f[0] = 1
    BY <1>2 DEF IsIterated
  <2>2. ASSUME NEW n \in 1..bits PROVE f[n] = 2 * f[n - 1]
    <3>1. f[n] = step[<<f[n - 1], n>>]
      BY <1>2 DEF IsIterated
    <3>2. f[n - 1] \in Nat /\ n \in Nat
      BY <1>3
    <3> QED
      BY <1>1, <3>1, <3>2
  <2>3. \A n \in 0..bits : f[n] = IF n = 0 THEN 1 ELSE 2 * f[n - 1]
    BY <2>1, <2>2
  <2> QED
    BY <2>1, <2>3
<1>5. One(bits) = Body(One(bits))
  <2>1. \E g : g = Body(g)
    BY <1>4
  <2> QED
    BY <2>1 DEF One
<1> DEFINE one == One(bits)
<1>6. one[0] = 1 /\ \A n \in 1..bits : one[n] = 2 * one[n - 1] /\ n - 1 \in 0..bits
  BY <1>5
<1> HIDE DEF one
<1> DEFINE N == {k \in Nat : k <= bits => one[k] \in Nat}
<1>7. \A k \in Nat : k \in N => k + 1 \in N
  <2> SUFFICES ASSUME NEW k \in Nat, k \in N, k + 1 <= bits PROVE one[k + 1] \in Nat
    OBVIOUS
  <2>1. k + 1 \in 1..bits /\ (k + 1) - 1 = k /\ one[k] \in Nat
    OBVIOUS
  <2> QED
    BY <1>6, <2>1
<1>8. Nat \subseteq N
  <2>1. 0 \in N
    BY <1>6
  <2> HIDE DEF N
  <2> QED
    BY <1>7, <2>1, Counting
<1>9. \A k \in 0..bits : one[k] \in Nat
  BY <1>8
<1> QED
  BY <1>5, <1>6, <1>9 DEF one

LEMMA ShlFacts ==
  ASSUME NEW n \in Nat
  PROVE  /\ Shl(n) \in Nat \ {0} /\ Shl(0) = 1
         /\ n # 0 => Shl(n) = 2 * Shl(n - 1)
<1>1. ASSUME NEW a \in Nat, NEW b \in Nat, NEW k \in Nat, k <= a, k <= b
      PROVE  One(a)[k] = One(b)[k] /\ One(a)[k] # 0
  <2> DEFINE N == {j \in Nat : j <= a /\ j <= b => One(a)[j] = One(b)[j] /\ One(a)[j] # 0}
  <2>1. 0 \in N
    <3>1. One(a)[0] = 1 /\ One(b)[0] = 1
      BY OneUnfolds
    <3> QED
      BY <3>1
  <2>2. ASSUME NEW j \in Nat, j \in N PROVE j + 1 \in N
    <3> SUFFICES ASSUME j + 1 <= a, j + 1 <= b
                 PROVE  One(a)[j + 1] = One(b)[j + 1] /\ One(a)[j + 1] # 0
      OBVIOUS
    <3>1. j + 1 \in 1..a /\ j + 1 \in 1..b /\ (j + 1) - 1 = j /\ j \in 0..a /\ j \in 0..b
      OBVIOUS
    <3>2. One(a)[j] = One(b)[j] /\ One(a)[j] # 0
      BY <2>2, <3>1
    <3>3. One(a)[j + 1] = 2 * One(a)[j] /\ One(b)[j + 1] = 2 * One(b)[j] /\ One(a)[j] \in Nat
      BY <3>1, OneUnfolds
    <3> QED
      BY <3>2, <3>3
  <2> HIDE DEF N
  <2>3. k \in N
    BY <2>1, <2>2, Counting
  <2> QED
    BY <1>1, <2>3 DEF N
<1>2. Shl(n) \in Nat /\ Shl(n) # 0
  <2>1. One(n) \in [0..n -> Nat] /\ n \in 0..n /\ One(n)[n] # 0
    BY <1>1, OneUnfolds
  <2> QED
    BY <2>1, ShlIsOne
<1>3. Shl(0) = 1
  BY ShlIsOne, OneUnfolds
<1>4. n # 0 => Shl(n) = 2 * Shl(n - 1)
  <2> SUFFICES ASSUME n # 0 PROVE Shl(n) = 2 * Shl(n - 1)
    OBVIOUS
  <2>1. n \in 1..n /\ n - 1 \in Nat /\ n - 1 <= n
    OBVIOUS
  <2>2. One(n)[n] = 2 * One(n)[n - 1]
    BY <2>1, OneUnfolds
  <2>3. One(n)[n - 1] = One(n - 1)[n - 1]
    BY <1>1, <2>1
  <2> QED
    BY <2>1, <2>2, <2>3, ShlIsOne
<1> QED
  BY <1>2, <1>3, <1>4

LEMMA ShlSum ==
  ASSUME NEW a \in Nat, NEW b \in Nat
  PROVE  Shl(a + b) = Shl(a) * Shl(b)
<1> DEFINE N == {k \in Nat : Shl(a + k) = Shl(a) * Shl(k)}
<1>1. 0 \in N
  BY ShlFacts
<1>2. ASSUME NEW k \in Nat, k \in N PROVE k + 1 \in N
  <2>1. a + (k + 1) \in Nat /\ a + (k + 1) # 0 /\ (a + (k + 1)) - 1 = a + k
        /\ k + 1 \in Nat /\ k + 1 # 0 /\ (k + 1) - 1 = k
    OBVIOUS
  <2>2. Shl(a + (k + 1)) = 2 * Shl(a + k)
    BY <2>1, ShlFacts
  <2>3. Shl(k + 1) = 2 * Shl(k)
    BY <2>1, ShlFacts
  <2>4. Shl(a) \in Nat /\ Shl(k) \in Nat
    BY ShlFacts
  <2>5. Shl(a + k) = Shl(a) * Shl(k)
    BY <1>2
  <2>6. 2 * (Shl(a) * Shl(k)) = Shl(a) * (2 * Shl(k))
    BY <2>4
  <2> QED
    BY <2>1, <2>2, <2>3, <2>5, <2>6
<1> HIDE DEF N
<1>3. b \in N
  BY <1>1, <1>2, Counting
<1> QED
  BY <1>3 DEF N

-----------------------------------------------------------------------------
(* parse_cidr: the block of an address. *)

LEMMA Divides ==
  ASSUME NEW B \in Nat \ {0}, NEW a \in Nat
  PROVE  /\ a \div B \in Nat /\ a - (a % B) = (a \div B) * B
         /\ (a \div B) * B <= a /\ a < (a \div B) * B + B
  OBVIOUS

LEMMA Quotient ==
  ASSUME NEW B \in Nat \ {0}, NEW q \in Nat, NEW a \in Nat, q * B <= a, a < q * B + B
  PROVE  a \div B = q
  OBVIOUS

(* The addresses of the block are those with its quotient, and they all fit. *)
LEMMA BlockFacts ==
  ASSUME NEW mask \in 0..AddrBits, NEW n \in 0..(Shl(AddrBits) - 1)
  PROVE  /\ Count(mask) \in Nat \ {0} /\ Base(n, Count(mask)) \in Nat
         /\ \A i \in 1..Count(mask) :
              /\ Base(n, Count(mask)) + i - 1 \in 0..(Shl(AddrBits) - 1)
              /\ (Base(n, Count(mask)) + i - 1) % Shl(AddrBits) = Base(n, Count(mask)) + i - 1
              /\ (Base(n, Count(mask)) + i - 1) \div Count(mask) = n \div Count(mask)
         /\ \A a \in 0..(Shl(AddrBits) - 1) :
              a \div Count(mask) = n \div Count(mask) =>
                \E i \in 1..Count(mask) : a = Base(n, Count(mask)) + i - 1
<1> DEFINE B == Count(mask)
           M == Shl(mask)
           W == Shl(AddrBits)
           q == n \div B
<1>1. mask \in Nat /\ AddrBits - mask \in Nat /\ AddrBits \in Nat /\ (AddrBits - mask) + mask = AddrBits
  BY TargetsAssumption
<1>2. B \in Nat \ {0} /\ M \in Nat \ {0} /\ W \in Nat \ {0} /\ W = B * M
  BY <1>1, ShlFacts, ShlSum DEF Count, HostBits
<1>3. n \in Nat /\ n < W
  BY <1>2
<1> HIDE DEF B, M, W
<1>4. q \in Nat /\ n - (n % B) = q * B /\ q * B <= n /\ n < q * B + B
  BY <1>2, <1>3, Divides
<1> HIDE DEF q
<1>5. Base(n, B) = q * B
  BY <1>4 DEF Base
<1>6. q < M
  <2> SUFFICES ASSUME M <= q PROVE FALSE
    BY <1>2, <1>4
  <2>1. M * B <= q * B
    BY <1>2, <1>4
  <2>2. M * B = B * M
    BY <1>2
  <2>3. q * B \in Int /\ M * B \in Int
    BY <1>2, <1>4
  <2> QED
    BY <1>2, <1>3, <1>4, <2>1, <2>2, <2>3
<1>7. q * B \in Nat /\ q * B + B <= W
  <2>1. (q + 1) * B <= M * B
    BY <1>2, <1>4, <1>6
  <2>2. (q + 1) * B = q * B + B /\ M * B = B * M
    BY <1>2, <1>4
  <2>3. q * B \in Nat
    BY <1>2, <1>4
  <2> QED
    BY <1>2, <2>1, <2>2, <2>3
<1>8. ASSUME NEW i \in 1..B
      PROVE  /\ Base(n, B) + i - 1 \in 0..(W - 1)
             /\ (Base(n, B) + i - 1) % W = Base(n, B) + i - 1
             /\ (Base(n, B) + i - 1) \div B = q
  <2> DEFINE z == q * B
  <2> HIDE DEF z
  <2>1. z \in Nat /\ z + B <= W /\ Base(n, B) = z
    BY <1>5, <1>7 DEF z
  <2>2. z + i - 1 \in Nat /\ z + i - 1 \in 0..(W - 1) /\ z <= z + i - 1 /\ z + i - 1 < z + B
    BY <1>2, <2>1
  <2>3. (z + i - 1) % W = z + i - 1
    BY <1>2, <2>2
  <2>4. (z + i - 1) \div B = q
    BY <1>2, <1>4, <2>2, Quotient DEF z
  <2> QED
    BY <2>1, <2>2, <2>3, <2>4
<1>9. ASSUME NEW a \in 0..(W - 1), a \div B = q
      PROVE  \E i \in 1..B : a = Base(n, B) + i - 1
  <2>1. a \in Nat /\ q * B <= a /\ a < q * B + B
    <3>1. a \in Nat
      BY <1>2
    <3>2. (a \div B) * B <= a /\ a < (a \div B) * B + B
      BY <1>2, <3>1, Divides
    <3> QED
      BY <1>9, <3>1, <3>2
  <2> DEFINE z == q * B
  <2>2. z \in Nat /\ Base(n, B) = z /\ z <= a /\ a < z + B
    BY <1>5, <1>7, <2>1
  <2> HIDE DEF z
  <2>3. a - z + 1 \in 1..B /\ a = z + (a - z + 1) - 1
    BY <1>2, <2>1, <2>2
  <2> QED
    BY <2>2, <2>3
<1>10. Base(n, B) \in Nat
  BY <1>5, <1>7
<1> QED
  BY <1>2, <1>8, <1>9, <1>10 DEF B, W, q

-----------------------------------------------------------------------------
(* The targets of a text are the addresses it means. *)

Exact(targets, text, addresses) ==
  LET sockets == Sockets(targets)
  IN /\ {s.ip : s \in ToSet(sockets)} = Meant(text, addresses)
     /\ \A s \in ToSet(sockets) : s.scope = ScopeMeant(text)
     /\ text.form \in {"host", "row"} => Len(sockets) = Len(addresses)
     /\ text.form \notin {"host", "row"} \/ IsInjective(addresses) => IsInjective(sockets)

(* The sockets of the targets are those of the first n addresses of a list. *)
Are(sockets, n, ips, scope) ==
  /\ DOMAIN sockets = 1..n /\ Len(sockets) = n
  /\ {s.ip : s \in ToSet(sockets)} = {ips[i] : i \in 1..n}
  /\ \A s \in ToSet(sockets) : s.scope = scope
  /\ (\A i, j \in 1..n : ips[i] = ips[j] => i = j) => IsInjective(sockets)

LEMMA SocketsOf ==
  ASSUME NEW n \in Nat, NEW ips, NEW scope, NEW targets, DOMAIN targets = 1..n,
         \A i \in 1..n : Socket(targets[i], 0) = [ip |-> ips[i], port |-> 0, scope |-> scope]
  PROVE  Are(Sockets(targets), n, ips, scope)
<1> DEFINE sockets == Sockets(targets)
<1>1. sockets = [i \in 1..n |-> [ip |-> ips[i], port |-> 0, scope |-> scope]]
  BY DEF Sockets
<1> HIDE DEF sockets
<1>2. DOMAIN sockets = 1..n /\ Len(sockets) = n
  BY <1>1
<1>3. ToSet(sockets) = {[ip |-> ips[i], port |-> 0, scope |-> scope] : i \in 1..n}
  BY <1>1, <1>2 DEF ToSet
<1>4. {s.ip : s \in ToSet(sockets)} = {ips[i] : i \in 1..n}
  BY <1>3
<1>5. (\A i, j \in 1..n : ips[i] = ips[j] => i = j) => IsInjective(sockets)
  BY <1>1, <1>2 DEF IsInjective
<1> QED
  BY <1>2, <1>3, <1>4, <1>5 DEF sockets, Are

(* An address is one of four or of six, so a socket's scope is its zone's. *)
LEMMA PlainSocket ==
  ASSUME NEW ip, NEW display
  PROVE  Socket(Target(ip, NoZone, display), 0) = [ip |-> ip, port |-> 0, scope |-> 0]
  BY DEF Socket, Target

LEMMA ParseForms ==
  ASSUME NEW text, IsText(text), NEW addresses, ParseTargets(text, addresses).ok
  PROVE  /\ text.form \in {"literal", "zoned", "cidr", "host"}
         /\ text.form = "literal" =>
              ParseTargets(text, addresses).targets = <<Target(text.ip, NoZone, text)>>
         /\ text.form = "zoned" =>
              ParseTargets(text, addresses).targets = <<Target(text.ip, text.zone, text)>>
         /\ text.form = "cidr" =>
              /\ text.ip[1] = 4 /\ text.mask <= AddrBits
              /\ ParseTargets(text, addresses).targets = Expand(text.ip[2], Count(text.mask))
         /\ text.form = "host" =>
              /\ addresses # <<>>
              /\ ParseTargets(text, addresses).targets =
                   [i \in DOMAIN addresses |-> Target(addresses[i], NoZone, Shown(text.host, addresses[i]))]
<1>1. text.form \in {"literal", "zoned", "cidr", "host", "shown", "blank"}
  BY DEF IsText
<1>2. CASE text.form = "literal"
  BY <1>2 DEF ParseTargets, Ok
<1>3. CASE text.form = "zoned"
  BY <1>3 DEF ParseTargets, Ok
<1>4. CASE text.form = "cidr"
  <2>1. text.mask <= MaxMask /\ ParseTargets(text, addresses) = ParseCidr(text.ip, text.mask)
    BY <1>4 DEF ParseTargets, Err
  <2> QED
    BY <1>4, <2>1 DEF ParseCidr, Ok, Err
<1>5. CASE text.form = "host"
  <2>1. addresses # <<>>
    BY <1>5 DEF ParseTargets, Err
  <2> QED
    BY <1>5, <2>1 DEF ParseTargets, Ok
<1>6. CASE text.form \in {"shown", "blank"}
  BY <1>6 DEF ParseTargets, Err
<1> QED
  BY <1>1, <1>2, <1>3, <1>4, <1>5, <1>6

LEMMA OneExact ==
  ASSUME NEW text, text.form \in {"literal", "zoned"}, NEW addresses, NEW t,
         Socket(t, 0) = [ip |-> text.ip, port |-> 0, scope |-> ScopeMeant(text)]
  PROVE  Exact(<<t>>, text, addresses)
<1> DEFINE ips == <<text.ip>>
           targets == <<t>>
<1>0. DOMAIN targets = 1..1 /\ targets[1] = t /\ ips[1] = text.ip
  OBVIOUS
<1>2. {ips[i] : i \in 1..1} = {text.ip}
  OBVIOUS
<1> HIDE DEF targets, ips
<1>5. \A i \in 1..1 : Socket(targets[i], 0) = [ip |-> ips[i], port |-> 0, scope |-> ScopeMeant(text)]
  BY <1>0
<1>1. Are(Sockets(targets), 1, ips, ScopeMeant(text))
  BY <1>0, <1>5, SocketsOf
<1>3. IsInjective(Sockets(targets))
  BY <1>1 DEF Are
<1>4. Meant(text, addresses) = {text.ip}
  BY DEF Meant
<1> QED
  BY <1>1, <1>2, <1>3, <1>4 DEF Exact, Are, targets

LEMMA ListExact ==
  ASSUME NEW text, text.form \in {"host", "row"}, NEW addresses \in Seq(Address), NEW targets,
         DOMAIN targets = DOMAIN addresses,
         \A i \in DOMAIN addresses : Socket(targets[i], 0) = [ip |-> addresses[i], port |-> 0, scope |-> 0]
  PROVE  Exact(targets, text, addresses)
<1> DEFINE n == Len(addresses)
<1>1. n \in Nat /\ DOMAIN addresses = 1..n
  OBVIOUS
<1>2. Are(Sockets(targets), n, addresses, 0)
  BY <1>1, SocketsOf
<1>3. Meant(text, addresses) = {addresses[i] : i \in 1..n} /\ ScopeMeant(text) = 0
  BY <1>1 DEF Meant, ScopeMeant, ToSet
<1> QED
  BY <1>1, <1>2, <1>3 DEF Exact, Are, IsInjective

LEMMA BlockExact ==
  ASSUME NEW text, IsText(text), text.form = "cidr",
         text.ip[1] = 4, text.mask <= AddrBits, NEW addresses
  PROVE  Exact(Expand(text.ip[2], Count(text.mask)), text, addresses)
<1> DEFINE n == text.ip[2]
           B == Count(text.mask)
           W == Shl(AddrBits)
           base == Base(n, B)
           targets == Expand(n, B)
           ips == [i \in 1..B |-> <<4, base + i - 1>>]
<1>1. text.mask \in 0..AddrBits /\ n \in 0..(W - 1)
  BY TargetsAssumption DEF IsText, Address
<1>2. /\ B \in Nat \ {0} /\ base \in Nat
      /\ \A i \in 1..B : /\ base + i - 1 \in 0..(W - 1)
                         /\ (base + i - 1) % W = base + i - 1
                         /\ (base + i - 1) \div B = n \div B
      /\ \A a \in 0..(W - 1) : a \div B = n \div B => \E i \in 1..B : a = base + i - 1
  BY <1>1, BlockFacts
<1>3. targets = [i \in 1..B |-> LET a == (base + i - 1) % W IN Target(<<4, a>>, NoZone, Literal(<<4, a>>))]
  BY DEF Expand
<1> HIDE DEF targets, base, B, W
<1>4. DOMAIN targets = 1..B
  BY <1>3
<1>5. \A i \in 1..B : targets[i] = Target(<<4, base + i - 1>>, NoZone, Literal(<<4, base + i - 1>>))
  BY <1>2, <1>3
<1>6. \A i \in 1..B : Socket(targets[i], 0) = [ip |-> ips[i], port |-> 0, scope |-> 0]
  BY <1>5, PlainSocket
<1>7. \A i, j \in 1..B : ips[i] = ips[j] => i = j
  <2> SUFFICES ASSUME NEW i \in 1..B, NEW j \in 1..B, ips[i] = ips[j] PROVE i = j
    OBVIOUS
  <2>1. base + i - 1 = base + j - 1
    OBVIOUS
  <2> QED
    BY <1>2, <2>1
<1>8. Are(Sockets(targets), B, ips, 0)
  <2> HIDE DEF ips
  <2>1. B \in Nat
    BY <1>2
  <2> QED
    BY <1>4, <1>6, <2>1, SocketsOf
<1>9. Meant(text, addresses) = {<<4, a>> : a \in {a \in 0..(W - 1) : a \div B = n \div B}}
  BY DEF Meant, B, W
<1>10. {ips[i] : i \in 1..B} = {<<4, a>> : a \in {a \in 0..(W - 1) : a \div B = n \div B}}
  <2>1. \A i \in 1..B : ips[i] = <<4, base + i - 1>>
    OBVIOUS
  <2> HIDE DEF ips
  <2>2. ASSUME NEW i \in 1..B
        PROVE  ips[i] \in {<<4, a>> : a \in {a \in 0..(W - 1) : a \div B = n \div B}}
    BY <1>2, <2>1
  <2>3. ASSUME NEW a \in 0..(W - 1), a \div B = n \div B
        PROVE  <<4, a>> \in {ips[i] : i \in 1..B}
    <3>1. PICK i \in 1..B : a = base + i - 1
      BY <1>2, <2>3
    <3>2. ips[i] = <<4, a>>
      BY <2>1, <3>1
    <3> QED
      BY <3>2
  <2> QED
    BY <2>2, <2>3
<1>11. ScopeMeant(text) = 0
  BY DEF ScopeMeant
<1> QED
  BY <1>7, <1>8, <1>9, <1>10, <1>11 DEF Exact, Are, targets, B

(* Whatever the user writes, the scan's targets are what it means. *)
LEMMA TargetsExact ==
  ASSUME NEW text, IsText(text), NEW addresses \in Seq(Address),
         ParseTargets(text, addresses).ok
  PROVE  Exact(ParseTargets(text, addresses).targets, text, addresses)
<1>1. CASE text.form = "literal"
  <2>1. Socket(Target(text.ip, NoZone, text), 0) = [ip |-> text.ip, port |-> 0, scope |-> ScopeMeant(text)]
    BY <1>1, PlainSocket DEF ScopeMeant
  <2>2. Exact(<<Target(text.ip, NoZone, text)>>, text, addresses)
    BY <1>1, <2>1, OneExact
  <2> QED
    BY <1>1, <2>2, ParseForms
<1>2. CASE text.form = "zoned"
  <2>1. text.ip[1] = 6 /\ text.zone \in Nat
    BY <1>2 DEF IsText
  <2>2. Socket(Target(text.ip, text.zone, text), 0) = [ip |-> text.ip, port |-> 0, scope |-> ScopeMeant(text)]
    BY <1>2, <2>1 DEF ScopeMeant, Socket, Target, NoZone
  <2>3. Exact(<<Target(text.ip, text.zone, text)>>, text, addresses)
    BY <1>2, <2>2, OneExact
  <2> QED
    BY <1>2, <2>3, ParseForms
<1>3. CASE text.form = "cidr"
  <2>1. /\ text.ip[1] = 4 /\ text.mask <= AddrBits
        /\ ParseTargets(text, addresses).targets = Expand(text.ip[2], Count(text.mask))
    BY <1>3, ParseForms
  <2> QED
    BY <1>3, <2>1, BlockExact
<1>4. CASE text.form = "host"
  <2> DEFINE targets == ParseTargets(text, addresses).targets
  <2>1. targets = [i \in DOMAIN addresses |-> Target(addresses[i], NoZone, Shown(text.host, addresses[i]))]
    BY <1>4, ParseForms
  <2> HIDE DEF targets
  <2>2. \A i \in DOMAIN addresses : Socket(targets[i], 0) = [ip |-> addresses[i], port |-> 0, scope |-> 0]
    BY <2>1, PlainSocket
  <2>3. Exact(targets, text, addresses)
    BY <1>4, <2>1, <2>2, ListExact
  <2> QED
    BY <2>3 DEF targets
<1>5. text.form \in {"literal", "zoned", "cidr", "host"}
  BY ParseForms
<1> QED
  BY <1>1, <1>2, <1>3, <1>4, <1>5

LEMMA RowExact ==
  ASSUME NEW ips \in Seq(Address)
  PROVE  Exact([i \in DOMAIN ips |-> RowTarget(ips[i])], [form |-> "row"], ips)
<1>1. \A ip : Socket(RowTarget(ip), 0) = [ip |-> ip, port |-> 0, scope |-> 0]
  BY DEF Socket, RowTarget, Target
<1> DEFINE text == [form |-> "row"]
           targets == [i \in DOMAIN ips |-> RowTarget(ips[i])]
<1>2. /\ text.form = "row" /\ DOMAIN targets = DOMAIN ips
      /\ \A i \in DOMAIN ips : Socket(targets[i], 0) = [ip |-> ips[i], port |-> 0, scope |-> 0]
  BY <1>1
<1> HIDE DEF text, targets
<1>3. Exact(targets, text, ips)
  BY <1>2, ListExact
<1> QED
  BY <1>3 DEF text, targets

-----------------------------------------------------------------------------
(* default_ports and the ranges. *)

LEMMA IntervalSize ==
  ASSUME NEW n \in Nat
  PROVE  IsFiniteSet(1..n) /\ Cardinality(1..n) = n
<1>1. 1 \in Int /\ n \in Int /\ (1 > n => n = 0) /\ n - 1 + 1 = n
  OBVIOUS
<1> QED
  BY <1>1, FS_Interval

(* A list without repetitions has as many elements as its range. *)
LEMMA DistinctLen ==
  ASSUME NEW s \in Seq(Nat), IsInjective(s)
  PROVE  Cardinality(ToSet(s)) = Len(s)
<1> DEFINE f == [i \in 1..Len(s) |-> s[i]]
<1>1. Len(s) \in Nat /\ DOMAIN s = 1..Len(s)
  OBVIOUS
<1>2. f \in [1..Len(s) -> ToSet(s)]
  BY <1>1 DEF ToSet
<1>3. f \in Bijection(1..Len(s), ToSet(s))
  BY <1>1, <1>2 DEF Bijection, Injection, IsInjective, Surjection, ToSet
<1>4. ExistsBijection(1..Len(s), ToSet(s))
  BY <1>3 DEF ExistsBijection
<1>5. IsFiniteSet(1..Len(s)) /\ Cardinality(1..Len(s)) = Len(s)
  BY <1>1, IntervalSize
<1> QED
  BY <1>4, <1>5, FS_Bijection

(* The ports of a set, once each and in the documented order up to a rank. *)
Listed(v, ports, rank) ==
  /\ v \in Seq(Nat) /\ ToSet(v) = ports
  /\ IsInjective(v) /\ Ranked(v)
  /\ \A p \in ports : Rank(p) <= rank

LEMMA RankTypes == \A p : Rank(p) \in 1..4
  BY DEF Rank

LEMMA PushListed ==
  ASSUME NEW v, NEW ports, NEW rank \in 1..4, Listed(v, ports, rank), NEW p \in Nat,
         p \in ports \/ Rank(p) = rank
  PROVE  Listed(Push(v, p), ports \union {p}, rank)
<1>1. /\ v \in Seq(Nat) /\ ToSet(v) = ports /\ Len(v) \in Nat /\ DOMAIN v = 1..Len(v)
      /\ \A i, j \in 1..Len(v) : v[i] = v[j] => i = j
      /\ \A i, j \in 1..Len(v) : i < j => Rank(v[i]) <= Rank(v[j])
      /\ \A q \in ports : Rank(q) <= rank
  BY DEF Listed, IsInjective, Ranked
<1>2. Contains(v, p) <=> p \in ports
  BY <1>1 DEF Contains, ToSet
<1>3. CASE p \in ports
  <2>1. Push(v, p) = v /\ ports \union {p} = ports
    BY <1>2, <1>3 DEF Push
  <2> QED
    BY <2>1
<1>4. CASE p \notin ports
  <2> DEFINE w == Append(v, p)
             n == Len(v)
  <2>1. /\ w \in Seq(Nat) /\ DOMAIN w = 1..(n + 1) /\ w[n + 1] = p
        /\ \A i \in 1..n : w[i] = v[i] /\ v[i] \in ports
    BY <1>1 DEF ToSet
  <2>2. Push(v, p) = w
    BY <1>2, <1>4 DEF Push
  <2> HIDE DEF w, n
  <2>3. n \in Nat /\ \A i \in 1..(n + 1) : i \in 1..n \/ i = n + 1
    BY <1>1 DEF n
  <2>4. ToSet(w) = ports \union {p}
    <3>1. \A q \in ports : \E i \in 1..n : v[i] = q
      BY <1>1 DEF ToSet, n
    <3> QED
      BY <2>1, <2>3, <3>1 DEF ToSet
  <2>5. \A i, j \in 1..n : v[i] = v[j] => i = j
    BY <1>1 DEF n
  <2>6. IsInjective(w)
    BY <1>4, <2>1, <2>3, <2>5 DEF IsInjective
  <2>7. \A q \in ports \union {p} : Rank(q) <= rank
    BY <1>1, <1>4, RankTypes
  <2>8. Ranked(w)
    <3> SUFFICES ASSUME NEW i \in 1..(n + 1), NEW j \in 1..(n + 1), i < j
                 PROVE  Rank(w[i]) <= Rank(w[j])
      BY <2>1 DEF Ranked
    <3>1. i \in 1..n
      BY <2>3
    <3>2. CASE j \in 1..n
      BY <1>1, <2>1, <3>1, <3>2 DEF n
    <3>3. CASE j = n + 1
      BY <1>4, <2>1, <2>7, <3>1, <3>3
    <3> QED
      BY <2>3, <3>2, <3>3
  <2> QED
    BY <2>1, <2>2, <2>4, <2>6, <2>7, <2>8 DEF Listed
<1> QED
  BY <1>3, <1>4

(* The list after n turns of a loop that pushes the ports from `from`. *)
Loop(v, from, m) ==
  CHOOSE after : after = [n \in 0..m |-> IF n = 0 THEN v ELSE Push(after[n - 1], from + n - 1)]

LEMMA LoopUnfolds ==
  ASSUME NEW v \in Seq(Nat), NEW from \in Nat, NEW m \in Nat
  PROVE  /\ Loop(v, from, m)[0] = v
         /\ \A n \in 1..m : Loop(v, from, m)[n] = Push(Loop(v, from, m)[n - 1], from + n - 1)
<1> DEFINE step == [x \in Seq(Nat) \X Nat |-> IF x[2] = 0 THEN x[1] ELSE Push(x[1], from + x[2] - 1)]
           Body(f) == [n \in 0..m |-> IF n = 0 THEN v ELSE Push(f[n - 1], from + n - 1)]
<1>1. ASSUME NEW s \in Seq(Nat), NEW n \in Nat, n # 0
      PROVE  step[<<s, n>>] = Push(s, from + n - 1) /\ Push(s, from + n - 1) \in Seq(Nat)
  <2>1. from + n - 1 \in Nat
    BY <1>1
  <2>2. Push(s, from + n - 1) \in Seq(Nat)
    BY <2>1 DEF Push
  <2> QED
    BY <1>1, <2>2
<1>2. step \in [Seq(Nat) \X Nat -> Seq(Nat)]
  BY <1>1
<1> HIDE DEF step
<1>3. PICK f : IsIterated(f, m, Seq(Nat), v, step)
  BY <1>2, Iterates
<1>4. f = Body(f)
  <2>1. f \in [0..m -> Seq(Nat)] /\ f[0] = v
    BY <1>3 DEF IsIterated
  <2>2. ASSUME NEW n \in 1..m PROVE f[n] = Push(f[n - 1], from + n - 1)
    <3>1. f[n] = step[<<f[n - 1], n>>]
      BY <1>3 DEF IsIterated
    <3>2. n - 1 \in 0..m /\ n \in Nat /\ n # 0
      OBVIOUS
    <3>3. f[n - 1] \in Seq(Nat)
      BY <2>1, <3>2
    <3> QED
      BY <1>1, <3>1, <3>2, <3>3
  <2>3. \A n \in 0..m : f[n] = IF n = 0 THEN v ELSE Push(f[n - 1], from + n - 1)
    BY <2>1, <2>2
  <2> QED
    BY <2>1, <2>3
<1>5. Loop(v, from, m) = Body(Loop(v, from, m))
  <2>1. \E g : g = Body(g)
    BY <1>4
  <2> QED
    BY <2>1 DEF Loop
<1> DEFINE loop == Loop(v, from, m)
<1>6. loop = [n \in 0..m |-> IF n = 0 THEN v ELSE Push(loop[n - 1], from + n - 1)]
  BY <1>5
<1> HIDE DEF loop
<1>7. loop[0] = v /\ \A n \in 1..m : loop[n] = Push(loop[n - 1], from + n - 1)
  BY <1>6
<1> QED
  BY <1>7 DEF loop

LEMMA PushAllListed ==
  ASSUME NEW v, NEW ports, NEW rank \in 1..4, Listed(v, ports, rank),
         NEW from \in Nat, NEW to \in Nat, from <= to,
         \A p \in from..to : p \in ports \/ Rank(p) = rank
  PROVE  Listed(PushAll(v, from, to), ports \union (from..to), rank)
<1> DEFINE m == to - from + 1
           loop == Loop(v, from, m)
           Good(n) == Listed(loop[n], ports \union (from..(from + n - 1)), rank)
           N == {n \in Nat : n <= m => Good(n)}
<1>1. m \in Nat /\ from + m - 1 = to /\ v \in Seq(Nat)
  BY DEF Listed
<1> HIDE DEF m
<1>2. loop[0] = v /\ \A n \in 1..m : loop[n] = Push(loop[n - 1], from + n - 1)
  BY <1>1, LoopUnfolds
<1> HIDE DEF loop
<1>3. 0 \in N
  <2>1. ports \union (from..(from + 0 - 1)) = ports
    OBVIOUS
  <2> QED
    BY <1>2, <2>1
<1>4. ASSUME NEW n \in Nat, n \in N PROVE n + 1 \in N
  <2> SUFFICES ASSUME n + 1 <= m PROVE Good(n + 1)
    <3> HIDE DEF Good
    <3> QED
      OBVIOUS
  <2> DEFINE S == ports \union (from..(from + n - 1))
  <2>1. n + 1 \in 1..m /\ (n + 1) - 1 = n /\ n <= m /\ from + (n + 1) - 1 = from + n
        /\ from + n \in Nat /\ from + n \in from..to
    BY <1>1
  <2>2. Listed(loop[n], S, rank)
    BY <1>4, <2>1
  <2>3. loop[n + 1] = Push(loop[n], from + n)
    BY <1>2, <2>1
  <2>4. from + n \in S \/ Rank(from + n) = rank
    BY <2>1
  <2>5. Listed(Push(loop[n], from + n), S \union {from + n}, rank)
    <3> HIDE DEF S
    <3> QED
      BY <2>1, <2>2, <2>4, PushListed
  <2>6. S \union {from + n} = ports \union (from..(from + n))
    <3>1. (from..(from + n - 1)) \union {from + n} = from..(from + n)
      OBVIOUS
    <3> QED
      BY <3>1
  <2> HIDE DEF S
  <2> QED
    BY <2>1, <2>3, <2>5, <2>6
<1> HIDE DEF N
<1>5. m \in N
  BY <1>1, <1>3, <1>4, Counting
<1>6. PushAll(v, from, to) = loop[m]
  BY DEF PushAll, Loop, loop, m
<1>7. Listed(loop[m], ports \union (from..(from + m - 1)), rank)
  BY <1>1, <1>5 DEF N
<1> QED
  BY <1>1, <1>6, <1>7

LEMMA ListedMore ==
  ASSUME NEW v, NEW ports, NEW rank \in 1..4, Listed(v, ports, rank), NEW more \in 1..4, rank <= more
  PROVE  Listed(v, ports, more)
  BY RankTypes DEF Listed

Pushed(v, k) == PushAll(v, Segments[k][1], Segments[k][2])

(* A segment all of whose ports are listed already or of the rank. *)
LEMMA SegmentListed ==
  ASSUME NEW v, NEW ports, NEW rank \in 1..4, Listed(v, ports, rank), NEW k \in 1..4,
         \A p \in Segment(k) : p \in ports \/ Rank(p) = rank
  PROVE  Listed(Pushed(v, k), ports \union Segment(k), rank)
<1>1. Segments[k] \in (1..MaxPort) \X (1..MaxPort) /\ Segments[k][1] <= Segments[k][2] /\ MaxPort \in Nat
  BY TargetsAssumption
<1>2. Segments[k][1] \in Nat /\ Segments[k][2] \in Nat
  BY <1>1
<1> QED
  BY <1>1, <1>2, PushAllListed DEF Segment, Pushed

(* The first list has every port once, in the documented order. *)
LEMMA DefaultListed == Listed(DefaultPorts, 1..MaxPort, 4)
<1> DEFINE v0 == Push(<<>>, AdbPort)
           v1 == Pushed(v0, 1)
           v2 == Pushed(v1, 2)
           v3 == Pushed(v2, 3)
           v4 == Pushed(v3, 4)
<1>0. DefaultPorts = v4
  BY DEF DefaultPorts, Pushed
<1>1. /\ AdbPort \in Nat /\ AdbPort \in 1..MaxPort
      /\ \A k \in 1..4 : Segment(k) \subseteq 1..MaxPort
      /\ \A p \in 1..MaxPort : \E k \in 1..4 : \A j \in 1..4 : p \in Segment(j) <=> j = k
  <2>1. \A k \in 1..4 : Segments[k] \in (1..MaxPort) \X (1..MaxPort)
    BY TargetsAssumption
  <2>2. \A k \in 1..4 : Segments[k][1] \in 1..MaxPort /\ Segments[k][2] \in 1..MaxPort
    BY <2>1
  <2>3. MaxPort \in Nat /\ AdbPort \in 1..MaxPort
    BY TargetsAssumption
  <2>4. \A k \in 1..4 : Segment(k) \subseteq 1..MaxPort
    BY <2>2, <2>3 DEF Segment
  <2> QED
    BY <2>3, <2>4, TargetsAssumption
<1>2. /\ \A p \in Segment(1) : p \notin Segment(2) /\ p \notin Segment(3) /\ p \notin Segment(4)
      /\ \A p \in Segment(2) : p \notin Segment(1) /\ p \notin Segment(4)
      /\ \A p \in Segment(3) : p \notin Segment(1) /\ p \notin Segment(4)
      /\ \A p \in Segment(4) : p \notin Segment(1)
      /\ \A p \in 1..MaxPort : p \in Segment(1) \/ p \in Segment(2) \/ p \in Segment(3) \/ p \in Segment(4)
  BY <1>1
<1>3. /\ Rank(AdbPort) = 1
      /\ \A p \in Segment(1) : p # AdbPort => Rank(p) = 2
      /\ \A p \in Segment(2) \union Segment(3) : p # AdbPort => Rank(p) = 3
      /\ \A p \in Segment(4) : p # AdbPort => Rank(p) = 4
  BY <1>2 DEF Rank
<1>4. Listed(v0, {AdbPort}, 2)
  <2>1. Listed(<<>>, {}, 1)
    BY DEF Listed, ToSet, IsInjective, Ranked
  <2>2. Listed(v0, {} \union {AdbPort}, 1)
    BY <1>1, <1>3, <2>1, PushListed
  <2>3. {} \union {AdbPort} = {AdbPort}
    OBVIOUS
  <2> HIDE DEF v0
  <2> QED
    BY <2>2, <2>3, ListedMore
<1> HIDE DEF v0
<1>5. 1 \in 1..4 /\ 2 \in 1..4 /\ 3 \in 1..4 /\ 4 \in 1..4
  OBVIOUS
<1>6. Listed(v1, {AdbPort} \union Segment(1), 3)
  <2> DEFINE ports == {AdbPort}
  <2>1. \A p \in Segment(1) : p \in ports \/ Rank(p) = 2
    BY <1>3
  <2>2. Listed(v0, ports, 2)
    BY <1>4
  <2>3. Listed(v1, ports \union Segment(1), 2)
    <3> HIDE DEF ports
    <3> QED
      BY <1>5, <2>1, <2>2, SegmentListed, Zenon
  <2> HIDE DEF v1
  <2> QED
    BY <2>3, ListedMore
<1> HIDE DEF v1
<1>7. Listed(v2, {AdbPort} \union Segment(1) \union Segment(2), 3)
  <2> DEFINE ports == {AdbPort} \union Segment(1)
  <2>1. \A p \in Segment(2) : p \in ports \/ Rank(p) = 3
    BY <1>3
  <2>2. Listed(v1, ports, 3)
    BY <1>6
  <2>3. Listed(v2, ports \union Segment(2), 3)
    <3> HIDE DEF ports
    <3> QED
      BY <1>5, <2>1, <2>2, SegmentListed, Zenon
  <2> QED
    BY <2>3
<1> HIDE DEF v2
<1>8. Listed(v3, {AdbPort} \union Segment(1) \union Segment(2) \union Segment(3), 4)
  <2> DEFINE ports == {AdbPort} \union Segment(1) \union Segment(2)
  <2>1. \A p \in Segment(3) : p \in ports \/ Rank(p) = 3
    BY <1>3
  <2>2. Listed(v2, ports, 3)
    BY <1>7
  <2>3. Listed(v3, ports \union Segment(3), 3)
    <3> HIDE DEF ports
    <3> QED
      BY <1>5, <2>1, <2>2, SegmentListed, Zenon
  <2> HIDE DEF v3
  <2> QED
    BY <2>3, ListedMore
<1> HIDE DEF v3
<1>9. Listed(v4, {AdbPort} \union Segment(1) \union Segment(2) \union Segment(3) \union Segment(4), 4)
  <2> DEFINE ports == {AdbPort} \union Segment(1) \union Segment(2) \union Segment(3)
  <2>1. \A p \in Segment(4) : p \in ports \/ Rank(p) = 4
    BY <1>3
  <2>2. Listed(v3, ports, 4)
    BY <1>8
  <2>3. Listed(v4, ports \union Segment(4), 4)
    <3> HIDE DEF ports
    <3> QED
      BY <1>5, <2>1, <2>2, SegmentListed, Zenon
  <2> QED
    BY <2>3
<1>10. {AdbPort} \union Segment(1) \union Segment(2) \union Segment(3) \union Segment(4) = 1..MaxPort
  <2>1. Segment(1) \subseteq 1..MaxPort /\ Segment(2) \subseteq 1..MaxPort
        /\ Segment(3) \subseteq 1..MaxPort /\ Segment(4) \subseteq 1..MaxPort
    BY <1>1
  <2> QED
    BY <1>1, <1>2, <2>1
<1> HIDE DEF v4
<1> QED
  BY <1>0, <1>9, <1>10

LEMMA DefaultLen == Len(DefaultPorts) = MaxPort
<1>1. DefaultPorts \in Seq(Nat) /\ IsInjective(DefaultPorts) /\ ToSet(DefaultPorts) = 1..MaxPort
  BY DefaultListed DEF Listed
<1>2. MaxPort \in Nat
  BY TargetsAssumption
<1>3. Cardinality(1..MaxPort) = MaxPort
  BY <1>2, IntervalSize
<1> QED
  BY <1>1, <1>3, DistinctLen

(* A range has each of its ports once, in rising order. *)
LEMMA RangeFacts ==
  ASSUME NEW from \in Nat, NEW to \in Nat, from <= to
  PROVE  /\ Span(from, to) \in Seq(Nat) /\ Len(Span(from, to)) = to - from + 1
         /\ Span(from, to)[1] = from /\ Span(from, to)[Len(Span(from, to))] = to
         /\ ToSet(Span(from, to)) = from..to
         /\ IsInjective(Span(from, to)) /\ Rising(Span(from, to))
<1> DEFINE m == to - from + 1
           v == Span(from, to)
<1>1. m \in Nat /\ m # 0 /\ from + m - 1 = to /\ 1 \in 1..m /\ m \in 1..m /\ from + 1 - 1 = from
  OBVIOUS
<1>2. v = [i \in 1..m |-> from + i - 1]
  BY DEF Span
<1> HIDE DEF m, v
<1>3. v \in Seq(Nat) /\ Len(v) = m /\ DOMAIN v = 1..m /\ v[1] = from /\ v[m] = to
  <2>1. \A i \in 1..m : from + i - 1 \in Nat
    BY <1>1
  <2> QED
    BY <1>1, <1>2, <2>1
<1>4. ToSet(v) = from..to
  <2>1. \A i \in 1..m : v[i] \in from..to
    BY <1>1, <1>2
  <2>2. ASSUME NEW p \in from..to PROVE \E i \in 1..m : v[i] = p
    <3>1. p - from + 1 \in 1..m /\ from + (p - from + 1) - 1 = p
      BY <1>1
    <3> QED
      BY <1>2, <3>1
  <2> QED
    BY <1>3, <2>1, <2>2 DEF ToSet
<1>5. IsInjective(v)
  BY <1>1, <1>2, <1>3 DEF IsInjective
<1>6. Rising(v)
  BY <1>1, <1>2, <1>3 DEF Rising
<1> QED
  BY <1>3, <1>4, <1>5, <1>6 DEF v, m

-----------------------------------------------------------------------------
(* The last argument that speaks of something, and what it says. *)

LastSpeaker(g, flags) == SelectLastInSeq(g, LAMBDA a : a.flag \in flags)

LastOf(g, flags, default) ==
  IF LastSpeaker(g, flags) = 0 THEN default ELSE Word(g[LastSpeaker(g, flags)])

Heard(g, s) ==
  /\ DOMAIN s = DOMAIN Defaults
  /\ \A f \in DOMAIN Speakers : s[f] = LastOf(g, Speakers[f], Defaults[f])

(* The one target of a command line. *)
Said(g, text) ==
  /\ IsText(text)
  /\ \E i \in DOMAIN g : g[i].flag = "target"
  /\ \A i \in DOMAIN g : g[i].flag = "target" => g[i].value = text

(***************************************************************************)
(* The inductive invariant: what parse_args has heard, what the window was *)
(* opened with, what is in its fields, and what the scan was made of.      *)
(***************************************************************************)
TypeOfSession ==
  /\ pc \in {"args", "exit", "window"}
  /\ given \in Seq(Arguments)
  /\ DOMAIN fields = {"target", "range", "settings"} /\ IsText(fields.target)
  /\ pc = "exit" => options = NoOptions /\ scan = NoScan

Parsing ==
  pc = "args" =>
    /\ options = NoOptions /\ scan = NoScan
    /\ Heard(given, args.settings)
    /\ IF args.target = NoTarget
       THEN \A i \in DOMAIN given : given[i].flag # "target"
       ELSE Said(given, args.target)
    /\ args.range = NoRange \/ ValidRange(args.range)

Opened ==
  options # NoOptions =>
    /\ pc = "window"
    /\ Heard(given, options.settings)
    /\ \E i \in DOMAIN given, addresses \in Resolutions :
         LET text == given[i].value
             parsed == ParseTargets(text, addresses)
         IN /\ given[i].flag = "target" /\ Said(given, text) /\ parsed.ok
            /\ options.targets = parsed.targets
            /\ fields.target = parsed.targets[1].display
    /\ \/ options.ports = DefaultPorts
       \/ \E from, to \in 0..MaxPort : from <= to /\ options.ports = Span(from, to)
    /\ fields.range = RangeOf(options.ports)
    /\ fields.settings = options.settings

Launched ==
  scan # NoScan =>
    /\ pc = "window"
    /\ Exact(scan.targets, asked.text, asked.addresses)
    /\ IF Whole(asked.range)
       THEN scan.ports = DefaultPorts
       ELSE ValidRange(asked.range) /\ scan.ports = PortRange(asked.range)

Refilled ==
  scan # NoScan /\ options # NoOptions =>
    /\ asked.range = fields.range
    /\ LET parsed == ParseTargets(fields.target, asked.addresses)
       IN parsed.ok /\ scan = Cfg(parsed.targets, scan.ports, fields.settings)

SessionInv == TypeOfSession /\ Parsing /\ Opened /\ Launched /\ Refilled

-----------------------------------------------------------------------------
(* What has been heard when one more argument is. *)

LEMMA MaxFacts ==
  ASSUME NEW n \in Nat, NEW T, T \subseteq 1..n, T # {}
  PROVE  Max(T) \in T /\ \A y \in T : y <= Max(T)
<1> DEFINE U == {n - x : x \in T}
<1>1. U \subseteq Nat /\ U # {} /\ \A x \in T : x \in Int
  <2>1. \A x \in T : x \in 1..n
    OBVIOUS
  <2>2. \A x \in T : x \in Int /\ n - x \in Nat
    BY <2>1
  <2>3. \A x \in T : n - x \in U
    OBVIOUS
  <2> QED
    BY <2>2, <2>3
<1>2. PICK u \in U : \A v \in U : u <= v
  <2> HIDE DEF U
  <2> QED
    BY <1>1, LeastNat
<1>3. PICK x \in T : u = n - x
  BY <1>2
<1>4. \A y \in T : n - y \in U /\ y \in Int /\ x \in Int
  BY <1>1
<1>5. \A y \in T : y <= x
  BY <1>2, <1>3, <1>4
<1> QED
  BY <1>1, <1>5 DEF Max

LEMMA LastFacts ==
  ASSUME NEW S, NEW g \in Seq(S), NEW flags
  PROVE  /\ LastSpeaker(g, flags) \in 0..Len(g)
         /\ LastSpeaker(g, flags) = 0 <=> \A i \in 1..Len(g) : g[i].flag \notin flags
         /\ LastSpeaker(g, flags) # 0 =>
              /\ g[LastSpeaker(g, flags)].flag \in flags
              /\ \A i \in 1..Len(g) : g[i].flag \in flags => i <= LastSpeaker(g, flags)
<1> DEFINE I == {i \in 1..Len(g) : g[i].flag \in flags}
           last == LastSpeaker(g, flags)
<1>1. last = IF I # {} THEN Max(I) ELSE 0
  BY DEF LastSpeaker, SelectLastInSeq
<1>2. Len(g) \in Nat
  OBVIOUS
<1>3. I # {} => Max(I) \in I /\ \A y \in I : y <= Max(I)
  <2>1. I \subseteq 1..Len(g)
    OBVIOUS
  <2> HIDE DEF I
  <2> QED
    BY <1>2, <2>1, MaxFacts
<1> HIDE DEF last
<1>4. CASE I = {}
  BY <1>1, <1>2, <1>4 DEF last
<1>5. CASE I # {}
  <2>1. last \in I /\ \A y \in I : y <= last
    BY <1>1, <1>3, <1>5
  <2>2. last \in 1..Len(g) /\ g[last].flag \in flags /\ last # 0
    BY <1>2, <2>1
  <2>3. \A i \in 1..Len(g) : g[i].flag \in flags => i <= last
    BY <2>1
  <2> QED
    BY <1>2, <2>2, <2>3 DEF last
<1> QED
  BY <1>4, <1>5

LEMMA LastAppended ==
  ASSUME NEW S, NEW g \in Seq(S), NEW a \in S, NEW flags, NEW default
  PROVE  LastOf(Append(g, a), flags, default) =
           IF a.flag \in flags THEN Word(a) ELSE LastOf(g, flags, default)
<1> DEFINE h == Append(g, a)
           n == Len(g)
           old == LastSpeaker(g, flags)
           new == LastSpeaker(h, flags)
<1>1. /\ n \in Nat /\ h \in Seq(S) /\ Len(h) = n + 1 /\ h[n + 1] = a
      /\ \A i \in 1..n : h[i] = g[i]
  OBVIOUS
<1>2. /\ new \in 0..(n + 1)
      /\ new = 0 <=> \A i \in 1..(n + 1) : h[i].flag \notin flags
      /\ new # 0 => h[new].flag \in flags /\ \A i \in 1..(n + 1) : h[i].flag \in flags => i <= new
  <2> HIDE DEF h
  <2> QED
    BY <1>1, LastFacts
<1>3. /\ old \in 0..n
      /\ old = 0 <=> \A i \in 1..n : g[i].flag \notin flags
      /\ old # 0 => g[old].flag \in flags /\ \A i \in 1..n : g[i].flag \in flags => i <= old
  BY LastFacts
<1>4. /\ LastOf(h, flags, default) = IF new = 0 THEN default ELSE Word(h[new])
      /\ LastOf(g, flags, default) = IF old = 0 THEN default ELSE Word(g[old])
  BY DEF LastOf
<1> HIDE DEF h, n, old, new
<1>5. n + 1 \in 1..(n + 1) /\ \A i \in 1..(n + 1) : i = n + 1 \/ i \in 1..n
  BY <1>1
<1>6. CASE a.flag \in flags
  <2>1. new = n + 1
    BY <1>1, <1>2, <1>5, <1>6
  <2> QED
    BY <1>1, <1>4, <1>6, <2>1 DEF h
<1>7. CASE a.flag \notin flags /\ old = 0
  <2>1. new = 0
    BY <1>1, <1>2, <1>3, <1>5, <1>7
  <2> QED
    BY <1>4, <1>7, <2>1 DEF h
<1>8. CASE a.flag \notin flags /\ old # 0
  <2>1. old \in 1..n /\ h[old].flag \in flags
    BY <1>1, <1>3, <1>8
  <2>2. new # 0 /\ old <= new
    BY <1>1, <1>2, <1>5, <2>1
  <2>3. new \in 1..n /\ g[new].flag \in flags
    BY <1>1, <1>2, <1>5, <1>8, <2>2
  <2>4. new = old
    BY <1>1, <1>3, <1>8, <2>1, <2>2, <2>3
  <2> QED
    BY <1>1, <1>4, <1>8, <2>1, <2>2, <2>4 DEF h
<1> QED
  BY <1>6, <1>7, <1>8

LEMMA NothingHeard ==
  ASSUME NEW flags, NEW default
  PROVE  LastOf(<<>>, flags, default) = default
<1>1. <<>> \in Seq(Nat) /\ Len(<<>>) = 0
  OBVIOUS
<1>2. LastSpeaker(<<>>, flags) \in 0..Len(<<>>)
  BY <1>1, LastFacts
<1>3. LastSpeaker(<<>>, flags) = 0
  BY <1>1, <1>2
<1> QED
  BY <1>3 DEF LastOf

LEMMA HeardMore ==
  ASSUME NEW S, NEW g \in Seq(S), NEW a \in S, NEW s, Heard(g, s)
  PROVE  Heard(Append(g, a), Set(s, a))
<1> DEFINE h == Append(g, a)
           r == Set(s, a)
           fs == {"threads", "fast", "slow", "verify", "stop"}
<1>1. DOMAIN Speakers = fs /\ DOMAIN Defaults = fs /\ DOMAIN s = fs
  BY DEF Speakers, Defaults, Heard
<1>2. \A f \in fs :
        LastOf(h, Speakers[f], Defaults[f]) = IF a.flag \in Speakers[f] THEN Word(a) ELSE s[f]
  BY <1>1, LastAppended DEF Heard
<1> HIDE DEF h
<1>3. /\ Speakers["threads"] = {"--threads"}
      /\ Speakers["fast"] = {"--timeout-fast", "--timeout"}
      /\ Speakers["slow"] = {"--timeout-slow", "--timeout"}
      /\ Speakers["verify"] = {"--verify", "--no-verify"}
      /\ Speakers["stop"] = {"--first", "--all"}
  BY DEF Speakers
<1>4. /\ r["threads"] = IF a.flag = "--threads" THEN a.value ELSE s["threads"]
      /\ r["fast"] = IF a.flag \in {"--timeout-fast", "--timeout"} THEN a.value ELSE s["fast"]
      /\ r["slow"] = IF a.flag \in {"--timeout-slow", "--timeout"} THEN a.value ELSE s["slow"]
  BY <1>1 DEF Set, BothTimeouts
<1>5. /\ r["verify"] = IF a.flag \in {"--verify", "--no-verify"} THEN a.flag = "--verify" ELSE s["verify"]
      /\ r["stop"] = IF a.flag \in {"--first", "--all"} THEN a.flag = "--first" ELSE s["stop"]
      /\ DOMAIN r = fs
  BY <1>1 DEF Set, BothTimeouts
<1> HIDE DEF r
<1>6. /\ a.flag \notin {"--verify", "--no-verify", "--first", "--all"} => Word(a) = a.value
      /\ a.flag \in {"--verify", "--first"} => Word(a) = TRUE
      /\ a.flag \in {"--no-verify", "--all"} => Word(a) = FALSE
  BY DEF Word
<1>7. \A f \in fs : r[f] = IF a.flag \in Speakers[f] THEN Word(a) ELSE s[f]
  <2>1. r["threads"] = IF a.flag \in Speakers["threads"] THEN Word(a) ELSE s["threads"]
    BY <1>3, <1>4, <1>6
  <2>2. r["fast"] = IF a.flag \in Speakers["fast"] THEN Word(a) ELSE s["fast"]
    BY <1>3, <1>4, <1>6
  <2>3. r["slow"] = IF a.flag \in Speakers["slow"] THEN Word(a) ELSE s["slow"]
    BY <1>3, <1>4, <1>6
  <2>4. r["verify"] = IF a.flag \in Speakers["verify"] THEN Word(a) ELSE s["verify"]
    BY <1>3, <1>5, <1>6
  <2>5. r["stop"] = IF a.flag \in Speakers["stop"] THEN Word(a) ELSE s["stop"]
    BY <1>3, <1>5, <1>6
  <2> QED
    BY <2>1, <2>2, <2>3, <2>4, <2>5
<1> QED
  BY <1>1, <1>2, <1>5, <1>7 DEF Heard, h, r

LEMMA HeardNothing == Heard(<<>>, Defaults)
  BY NothingHeard DEF Heard, Defaults, Speakers

LEMMA Appended ==
  ASSUME NEW S, NEW g \in Seq(S), NEW a \in S
  PROVE  /\ Append(g, a) \in Seq(S)
         /\ DOMAIN Append(g, a) = 1..(Len(g) + 1) /\ DOMAIN g = 1..Len(g) /\ Len(g) \in Nat
         /\ Append(g, a)[Len(g) + 1] = a
         /\ \A i \in 1..Len(g) : Append(g, a)[i] = g[i]
  OBVIOUS

(* A second target ends the program, so there is one at the most. *)
LEMMA SaidOnce ==
  ASSUME NEW S, NEW g \in Seq(S), NEW a \in S
  PROVE  /\ a.flag = "target" /\ IsText(a.value) /\ (\A i \in DOMAIN g : g[i].flag # "target")
              => Said(Append(g, a), a.value)
         /\ a.flag # "target" =>
              /\ \A text : Said(g, text) => Said(Append(g, a), text)
              /\ (\A i \in DOMAIN g : g[i].flag # "target")
                   => \A i \in DOMAIN Append(g, a) : Append(g, a)[i].flag # "target"
<1> DEFINE h == Append(g, a)
           n == Len(g)
<1>1. /\ DOMAIN h = 1..(n + 1) /\ DOMAIN g = 1..n /\ n \in Nat
      /\ h[n + 1] = a /\ \A i \in 1..n : h[i] = g[i]
  BY Appended
<1> HIDE DEF h, n
<1>2. /\ n + 1 \in 1..(n + 1) /\ 1..n \subseteq 1..(n + 1)
      /\ \A i \in 1..(n + 1) : i = n + 1 \/ i \in 1..n
  BY <1>1
<1>3. ASSUME a.flag = "target", IsText(a.value), \A i \in DOMAIN g : g[i].flag # "target"
      PROVE  Said(h, a.value)
  BY <1>1, <1>2, <1>3 DEF Said
<1>4. ASSUME a.flag # "target", NEW text, Said(g, text)
      PROVE  Said(h, text)
  BY <1>1, <1>2, <1>4 DEF Said
<1>5. ASSUME a.flag # "target", \A i \in DOMAIN g : g[i].flag # "target"
      PROVE  \A i \in DOMAIN h : h[i].flag # "target"
  BY <1>1, <1>2, <1>5
<1> QED
  BY <1>3, <1>4, <1>5 DEF h

-----------------------------------------------------------------------------
(* The fields that are filled from the options. *)

(* The display of the first target parses to that target, unless it is that *)
(* of a resolved host.                                                      *)
LEMMA DisplayFacts ==
  ASSUME NEW text, IsText(text), NEW addresses \in Seq(Address), ParseTargets(text, addresses).ok,
         NEW targets, targets = ParseTargets(text, addresses).targets
  PROVE  /\ 1 \in DOMAIN targets /\ IsText(targets[1].display)
         /\ text.form = "host" => \A other : ~ParseTargets(targets[1].display, other).ok
         /\ text.form # "host" => \A other :
              ParseTargets(targets[1].display, other) = Ok(<<targets[1]>>)
<1>1. CASE text.form = "literal"
  <2>1. targets = <<Target(text.ip, NoZone, text)>>
    BY <1>1, ParseForms
  <2>2. 1 \in DOMAIN targets /\ targets[1] = Target(text.ip, NoZone, text) /\ targets[1].display = text
    BY <2>1 DEF Target
  <2>3. \A other : ParseTargets(text, other) = Ok(<<Target(text.ip, NoZone, text)>>)
    BY <1>1 DEF ParseTargets
  <2> QED
    BY <1>1, <2>2, <2>3
<1>2. CASE text.form = "zoned"
  <2>1. targets = <<Target(text.ip, text.zone, text)>>
    BY <1>2, ParseForms
  <2>2. 1 \in DOMAIN targets /\ targets[1] = Target(text.ip, text.zone, text) /\ targets[1].display = text
    BY <2>1 DEF Target
  <2>3. \A other : ParseTargets(text, other) = Ok(<<Target(text.ip, text.zone, text)>>)
    BY <1>2 DEF ParseTargets
  <2> QED
    BY <1>2, <2>2, <2>3
<1>3. CASE text.form = "cidr"
  <2> DEFINE B == Count(text.mask)
             a == (Base(text.ip[2], B) + 1 - 1) % Shl(AddrBits)
             first == Target(<<4, a>>, NoZone, Literal(<<4, a>>))
  <2>1. targets = Expand(text.ip[2], B) /\ text.ip[1] = 4 /\ text.mask <= AddrBits
    BY <1>3, ParseForms
  <2>2. text.mask \in 0..AddrBits /\ text.ip[2] \in 0..(Shl(AddrBits) - 1)
    BY <1>3, <2>1, TargetsAssumption DEF IsText, Address
  <2>3. B \in Nat \ {0} /\ Base(text.ip[2], B) \in Nat /\ Shl(AddrBits) \in Nat \ {0}
    BY <2>2, BlockFacts, ShlFacts, TargetsAssumption
  <2>4. 1 \in DOMAIN targets /\ targets[1] = first
    <3>1. 1 \in 1..B
      BY <2>3
    <3> QED
      BY <2>1, <3>1 DEF Expand
  <2>5. a \in 0..(Shl(AddrBits) - 1)
    BY <2>3
  <2> HIDE DEF a
  <2>6. first.display = Literal(<<4, a>>) /\ Literal(<<4, a>>).form = "literal" /\ Literal(<<4, a>>).ip = <<4, a>>
    BY DEF Target, Literal
  <2>7. IsText(Literal(<<4, a>>))
    BY <2>5, <2>6 DEF IsText, Address
  <2>8. \A other : ParseTargets(Literal(<<4, a>>), other) = Ok(<<first>>)
    BY <2>6 DEF ParseTargets
  <2> HIDE DEF first
  <2> QED
    BY <1>3, <2>4, <2>6, <2>7, <2>8
<1>4. CASE text.form = "host"
  <2> DEFINE first == Target(addresses[1], NoZone, Shown(text.host, addresses[1]))
             display == Shown(text.host, addresses[1])
  <2>1. addresses # <<>> /\ targets = [i \in DOMAIN addresses |->
                              Target(addresses[i], NoZone, Shown(text.host, addresses[i]))]
    BY <1>4, ParseForms
  <2>2. 1 \in DOMAIN addresses
    BY <2>1
  <2>3. 1 \in DOMAIN targets /\ targets[1] = first
    BY <2>1, <2>2
  <2>4. first.display = display /\ display.form = "shown"
    BY DEF Target, Shown
  <2> HIDE DEF first, display
  <2>5. IsText(display)
    BY <2>4 DEF IsText
  <2>6. \A other : ~ParseTargets(display, other).ok
    BY <2>4 DEF ParseTargets, Err
  <2> QED
    BY <1>4, <2>3, <2>4, <2>5, <2>6
<1>5. text.form \in {"literal", "zoned", "cidr", "host"}
  BY ParseForms
<1> QED
  BY <1>1, <1>2, <1>3, <1>4, <1>5

(* The range of the options' ports gives them back, unless it has as many *)
(* ports as the whole.                                                    *)
LEMMA RangeOfFacts ==
  ASSUME NEW ports,
         \/ ports = DefaultPorts
         \/ \E from, to \in 0..MaxPort : from <= to /\ ports = Span(from, to)
  PROVE  /\ Whole(RangeOf(ports)) <=> Len(ports) = MaxPort
         /\ ~Whole(RangeOf(ports)) =>
              ValidRange(RangeOf(ports)) /\ PortRange(RangeOf(ports)) = ports
         /\ Len(ports) = MaxPort /\ 0 \notin ToSet(ports) => ToSet(ports) = ToSet(DefaultPorts)
<1>1. MaxPort \in Nat /\ Len(DefaultPorts) = MaxPort /\ ToSet(DefaultPorts) = 1..MaxPort
  BY DefaultLen, DefaultListed, TargetsAssumption DEF Listed
<1>2. CASE Len(ports) = MaxPort
  <2>1. Whole(RangeOf(ports))
    BY <1>1, <1>2 DEF RangeOf, Whole
  <2>2. ASSUME NEW from \in 0..MaxPort, NEW to \in 0..MaxPort, from <= to, ports = Span(from, to),
               0 \notin ToSet(ports)
        PROVE  ToSet(ports) = 1..MaxPort
    <3>1. from \in Nat /\ to \in Nat
      BY <1>1
    <3>2. ToSet(ports) = from..to /\ Len(ports) = to - from + 1
      BY <2>2, <3>1, RangeFacts
    <3>3. from # 0
      BY <2>2, <3>1, <3>2
    <3>4. from = 1 /\ to = MaxPort
      BY <1>1, <1>2, <3>1, <3>2, <3>3
    <3> QED
      BY <3>2, <3>4
  <2> QED
    BY <1>1, <1>2, <2>1, <2>2
<1>3. CASE Len(ports) # MaxPort
  <2>1. PICK from \in 0..MaxPort, to \in 0..MaxPort : from <= to /\ ports = Span(from, to)
    BY <1>1, <1>3
  <2>2. from \in Nat /\ to \in Nat
    BY <1>1
  <2>3. Len(ports) = to - from + 1 /\ ports[1] = from /\ ports[Len(ports)] = to
    BY <2>1, <2>2, RangeFacts
  <2> DEFINE r == <<from, to>>
  <2>4. RangeOf(ports) = r
    BY <1>1, <1>3, <2>3 DEF RangeOf
  <2>5. r # WholeRange
    BY <1>1, <1>3, <2>2, <2>3 DEF WholeRange
  <2>6. r # BlankRange
    BY DEF BlankRange
  <2>7. ValidRange(r) /\ PortRange(r) = ports
    BY <2>1 DEF ValidRange, PortRange
  <2> QED
    BY <1>3, <2>4, <2>5, <2>6, <2>7 DEF Whole
<1> QED
  BY <1>2, <1>3

-----------------------------------------------------------------------------
(* Every step keeps the invariant. *)

LEMMA SessionInit == Init => SessionInv
<1> SUFFICES ASSUME Init PROVE SessionInv
  OBVIOUS
<1>1. /\ pc = "args" /\ given = <<>> /\ options = NoOptions /\ scan = NoScan
      /\ DOMAIN fields = {"target", "range", "settings"} /\ fields.target = Blank /\ args.settings = Defaults /\ args.target = NoTarget /\ args.range = NoRange
  BY DEF Init, NoArgs
<1>2. IsText(Blank)
  BY DEF IsText, Blank
<1>3. TypeOfSession
  BY <1>1, <1>2 DEF TypeOfSession
<1>4. Parsing
  BY <1>1, HeardNothing DEF Parsing
<1> QED
  BY <1>1, <1>3, <1>4 DEF SessionInv, Opened, Launched, Refilled

LEMMA ParseArgStep ==
  ASSUME SessionInv, NEW a \in Arguments, ParseArg(a)
  PROVE  SessionInv'
<1>1. /\ pc = "args" /\ UNCHANGED <<fields, scan, options, asked>>
      /\ options = NoOptions /\ scan = NoScan /\ given \in Seq(Arguments) /\ IsText(fields.target)
  BY DEF ParseArg, SessionInv, TypeOfSession, Parsing
<1>2. CASE pc' = "exit" /\ UNCHANGED <<args, given>>
  BY <1>1, <1>2 DEF SessionInv, TypeOfSession, Parsing, Opened, Launched, Refilled
<1>3. CASE ~Refused(a) /\ pc' = pc
  <2>1. /\ given' = Append(given, a)
        /\ args'.target = IF a.flag = "target" THEN a.value ELSE args.target
        /\ args'.range = IF a.flag = "--range" THEN a.value ELSE args.range
        /\ args'.settings = Set(args.settings, a)
    BY <1>1, <1>3 DEF ParseArg
  <2>2. Heard(given', args'.settings)
    BY <1>1, <2>1, HeardMore DEF SessionInv, Parsing
  <2>3. args'.range = NoRange \/ ValidRange(args'.range)
    BY <1>1, <1>3, <2>1 DEF SessionInv, Parsing, Refused
  <2>4. IF args'.target = NoTarget
        THEN \A i \in DOMAIN given' : given'[i].flag # "target"
        ELSE Said(given', args'.target)
    <3>1. CASE a.flag = "target"
      <4>1. args.target = NoTarget /\ IsText(a.value) /\ args'.target = a.value
        BY <1>3, <2>1, <3>1, SessionAssumption DEF Refused
      <4>2. a.value # NoTarget
        BY <4>1 DEF IsText, NoTarget
      <4>3. \A i \in DOMAIN given : given[i].flag # "target"
        BY <1>1, <4>1 DEF SessionInv, Parsing
      <4>4. Said(given', a.value)
        BY <1>1, <2>1, <3>1, <4>1, <4>3, SaidOnce
      <4> QED
        BY <4>1, <4>2, <4>4
    <3>2. CASE a.flag # "target"
      <4>1. args'.target = args.target
        BY <2>1, <3>2
      <4>2. IF args.target = NoTarget
            THEN \A i \in DOMAIN given : given[i].flag # "target"
            ELSE Said(given, args.target)
        BY <1>1 DEF SessionInv, Parsing
      <4> QED
        BY <1>1, <2>1, <3>2, <4>1, <4>2, SaidOnce
    <3> QED
      BY <3>1, <3>2
  <2>5. given' \in Seq(Arguments)
    BY <1>1, <2>1
  <2> QED
    BY <1>1, <1>3, <2>2, <2>3, <2>4, <2>5
    DEF SessionInv, TypeOfSession, Parsing, Opened, Launched, Refilled
<1> QED
  BY <1>2, <1>3 DEF ParseArg

LEMMA ExitStep ==
  ASSUME SessionInv, pc = "args", Exit
  PROVE  SessionInv'
  BY DEF Exit, SessionInv, TypeOfSession, Parsing, Opened, Launched, Refilled

LEMMA WithTargetStep ==
  ASSUME SessionInv, WithTarget
  PROVE  SessionInv'
<1>1. /\ pc = "args" /\ args.target # NoTarget /\ options = NoOptions /\ scan = NoScan
      /\ given \in Seq(Arguments) /\ Said(given, args.target) /\ Heard(given, args.settings)
      /\ args.range = NoRange \/ ValidRange(args.range)
  BY DEF WithTarget, SessionInv, TypeOfSession, Parsing
<1>2. PICK addresses \in Resolutions :
        LET parsed == ParseTargets(args.target, addresses)
        IN \/ ~parsed.ok /\ Exit
           \/ /\ parsed.ok
              /\ options' = [targets |-> parsed.targets, ports |-> Ports,
                             settings |-> args.settings]
              /\ fields' = [target |-> parsed.targets[1].display, range |-> RangeOf(Ports),
                            settings |-> args.settings]
              /\ OpenWindow
  BY DEF WithTarget
<1> DEFINE parsed == ParseTargets(args.target, addresses)
<1>3. CASE ~parsed.ok /\ Exit
  BY <1>1, <1>3, ExitStep
<1>4. CASE parsed.ok /\ ~(~parsed.ok /\ Exit)
  <2>1. /\ options'.targets = parsed.targets /\ options'.ports = Ports
        /\ options'.settings = args.settings
        /\ fields'.target = parsed.targets[1].display /\ fields'.range = RangeOf(Ports)
        /\ fields'.settings = args.settings /\ DOMAIN fields' = {"target", "range", "settings"}
        /\ pc' = "window" /\ given' = given /\ scan' = NoScan
    BY <1>1, <1>2, <1>4 DEF OpenWindow
  <2>2. addresses \in Seq(Address) /\ IsText(args.target)
    BY <1>1, SessionAssumption DEF Said
  <2>3. IsText(parsed.targets[1].display)
    BY <1>4, <2>2, DisplayFacts
  <2>4. PICK i \in DOMAIN given : given[i].flag = "target" /\ given[i].value = args.target
    BY <1>1 DEF Said
  <2>5. \/ Ports = DefaultPorts
        \/ \E from, to \in 0..MaxPort : from <= to /\ Ports = Span(from, to)
    BY <1>1 DEF Ports, ValidRange, PortRange
  <2>6. TypeOfSession'
    BY <1>1, <2>1, <2>3 DEF TypeOfSession
  <2>7. Opened'
    <3>1. \E j \in DOMAIN given', other \in Resolutions :
            LET text == given'[j].value
                again == ParseTargets(text, other)
            IN /\ given'[j].flag = "target" /\ Said(given', text) /\ again.ok
               /\ options'.targets = again.targets
               /\ fields'.target = again.targets[1].display
      <4> HIDE DEF parsed
      <4>1. ParseTargets(given'[i].value, addresses) = parsed /\ Said(given', given'[i].value)
            /\ i \in DOMAIN given' /\ given'[i].flag = "target"
        BY <1>1, <2>1, <2>4 DEF parsed
      <4> QED
        BY <1>4, <2>1, <4>1
    <3>2. Heard(given', options'.settings)
      BY <1>1, <2>1
    <3> QED
      BY <2>1, <2>5, <3>1, <3>2 DEF Opened
  <2> QED
    BY <2>1, <2>6, <2>7 DEF SessionInv, Parsing, Launched, Refilled
<1> QED
  BY <1>2, <1>3, <1>4

LEMMA WithoutTargetStep ==
  ASSUME SessionInv, WithoutTarget
  PROVE  SessionInv'
<1>1. pc = "args"
  BY DEF WithoutTarget
<1>2. CASE Exit
  BY <1>1, <1>2, ExitStep
<1>3. CASE UNCHANGED <<options, fields>> /\ OpenWindow
  BY <1>1, <1>3
  DEF OpenWindow, SessionInv, TypeOfSession, Parsing, Opened, Launched, Refilled
<1> QED
  BY <1>2, <1>3 DEF WithoutTarget

(* A scan is launched from targets that are exactly what a text means. *)
LEMMA LaunchStep ==
  ASSUME Launched, pc = "window", pc' = "window",
         NEW targets, NEW text, NEW addresses, Exact(targets, text, addresses),
         StartPortScan(targets, text, addresses)
  PROVE  Launched'
<1>1. CASE UNCHANGED <<scan, asked>>
  BY <1>1 DEF Launched
<1>2. CASE ~UNCHANGED <<scan, asked>>
  <2>1. /\ PortsOk /\ scan' = Cfg(targets, ParsePorts, fields.settings)
        /\ asked' = [text |-> text, addresses |-> addresses, range |-> fields.range]
    BY <1>2 DEF StartPortScan
  <2>2. /\ scan'.targets = targets /\ scan'.ports = ParsePorts
        /\ asked'.text = text /\ asked'.addresses = addresses /\ asked'.range = fields.range
    BY <2>1 DEF Cfg
  <2>3. IF Whole(fields.range)
        THEN ParsePorts = DefaultPorts
        ELSE ValidRange(fields.range) /\ ParsePorts = PortRange(fields.range)
    BY <2>1 DEF PortsOk, ParsePorts
  <2> QED
    BY <2>2, <2>3 DEF Launched
<1> QED
  BY <1>1, <1>2

LEMMA ManualScanStep ==
  ASSUME SessionInv, ManualScan
  PROVE  SessionInv'
<1>1. /\ UNCHANGED <<pc, args, fields, given, options, touches>>
      /\ pc = "window" /\ IsText(fields.target)
  BY DEF ManualScan, SessionInv, TypeOfSession
<1>2. TypeOfSession' /\ Parsing' /\ Opened'
  <2>1. TypeOfSession'
    BY <1>1 DEF SessionInv, TypeOfSession
  <2>2. Parsing'
    BY <1>1 DEF Parsing
  <2>3. Opened'
    BY <1>1 DEF SessionInv, Opened
  <2> QED
    BY <2>1, <2>2, <2>3
<1>3. CASE UNCHANGED <<scan, asked>>
  BY <1>1, <1>2, <1>3 DEF SessionInv, Launched, Refilled
<1>4. CASE ~UNCHANGED <<scan, asked>>
  <2>1. PICK addresses \in Resolutions :
          /\ ParseTargets(fields.target, addresses).ok
          /\ StartPortScan(ParseTargets(fields.target, addresses).targets, fields.target, addresses)
    BY <1>4 DEF ManualScan
  <2> DEFINE targets == ParseTargets(fields.target, addresses).targets
  <2>2. Exact(targets, fields.target, addresses)
    <3>1. addresses \in Seq(Address)
      BY SessionAssumption
    <3> QED
      BY <1>1, <2>1, <3>1, TargetsExact
  <2>3. Launched'
    <3> HIDE DEF targets
    <3>1. StartPortScan(targets, fields.target, addresses)
      BY <2>1 DEF targets
    <3> QED
      BY <1>1, <2>2, <3>1, LaunchStep DEF SessionInv
  <2>4. Refilled'
    <3>1. /\ scan' = Cfg(targets, ParsePorts, fields.settings)
          /\ asked' = [text |-> fields.target, addresses |-> addresses, range |-> fields.range]
      BY <1>4, <2>1 DEF StartPortScan
    <3>2. /\ asked'.range = fields'.range /\ asked'.addresses = addresses
          /\ scan'.ports = ParsePorts
      BY <1>1, <3>1 DEF Cfg
    <3> QED
      BY <1>1, <2>1, <3>1, <3>2 DEF Refilled
  <2> QED
    BY <1>2, <2>3, <2>4 DEF SessionInv
<1> QED
  BY <1>3, <1>4

(* A change of a field: what the command line said is of no interest then. *)
LEMMA TouchStep ==
  ASSUME SessionInv, Touch, IsText(fields'.target), DOMAIN fields' = DOMAIN fields, Launched'
  PROVE  SessionInv'
<1>1. pc = "window" /\ pc' = "window" /\ given' = <<>> /\ options' = NoOptions
  BY DEF Touch
<1>2. TypeOfSession'
  BY <1>1 DEF SessionInv, TypeOfSession
<1> QED
  BY <1>1, <1>2 DEF SessionInv, Parsing, Opened, Refilled

LEMMA RowScanStep ==
  ASSUME SessionInv, NEW ips \in Rows, RowScan(ips)
  PROVE  SessionInv'
<1> DEFINE targets == [i \in DOMAIN ips |-> RowTarget(ips[i])]
<1>1. /\ Touch /\ StartPortScan(targets, [form |-> "row"], ips)
      /\ fields' = [fields EXCEPT !.target = Literal(ips[1])]
  BY DEF RowScan
<1>2. ips \in Seq(Address) /\ ips # <<>>
  BY SessionAssumption
<1>3. IsText(Literal(ips[1]))
  <2>1. ips[1] \in Address
    BY <1>2
  <2> QED
    BY <2>1 DEF IsText, Literal
<1>4. Exact(targets, [form |-> "row"], ips)
  BY <1>2, RowExact
<1>5. Launched'
  <2>1. pc = "window" /\ pc' = "window" /\ Launched
    BY <1>1 DEF Touch, SessionInv
  <2> HIDE DEF targets
  <2> QED
    BY <1>1, <1>4, <2>1, LaunchStep
<1>6. IsText(fields'.target) /\ DOMAIN fields' = DOMAIN fields
  BY <1>1, <1>3 DEF SessionInv, TypeOfSession
<1> QED
  BY <1>1, <1>5, <1>6, TouchStep

LEMMA EditStep ==
  ASSUME SessionInv, (\E text \in Edits : EditTarget(text)) \/ SettingsPanel
  PROVE  SessionInv'
<1>1. Touch /\ UNCHANGED <<scan, asked>>
  BY DEF EditTarget, SettingsPanel
<1>2. IsText(fields'.target) /\ DOMAIN fields' = DOMAIN fields
  <2>1. CASE \E text \in Edits : EditTarget(text)
    BY <2>1, SessionAssumption DEF EditTarget, SessionInv, TypeOfSession
  <2>2. CASE SettingsPanel
    BY <2>2 DEF SettingsPanel, SessionInv, TypeOfSession
  <2> QED
    BY <2>1, <2>2
<1>3. Launched'
  BY <1>1 DEF Touch, SessionInv, Launched
<1> QED
  BY <1>1, <1>2, <1>3, TouchStep

LEMMA JobStep ==
  ASSUME SessionInv, JobEnds \/ Rediscover
  PROVE  SessionInv'
<1>1. /\ pc = "window" /\ UNCHANGED <<pc, args, fields, given, options>>
      /\ scan' = NoScan \/ UNCHANGED <<scan, asked>>
  BY DEF JobEnds, Rediscover
<1>2. TypeOfSession' /\ Parsing'
  BY <1>1 DEF SessionInv, TypeOfSession, Parsing
<1>3. Opened'
  BY <1>1 DEF SessionInv, Opened
<1>4. Launched' /\ Refilled'
  BY <1>1 DEF SessionInv, Launched, Refilled
<1> QED
  BY <1>2, <1>3, <1>4 DEF SessionInv

LEMMA SessionStep == SessionInv /\ [Next]_vars => SessionInv'
<1> SUFFICES ASSUME SessionInv, [Next]_vars PROVE SessionInv'
  OBVIOUS
<1>1. CASE \E a \in Arguments : ParseArg(a)
  BY <1>1, ParseArgStep
<1>2. CASE WithTarget
  BY <1>2, WithTargetStep
<1>3. CASE WithoutTarget
  BY <1>3, WithoutTargetStep
<1>4. CASE ManualScan
  BY <1>4, ManualScanStep
<1>5. CASE \E ips \in Rows : RowScan(ips)
  BY <1>5, RowScanStep
<1>6. CASE (\E text \in Edits : EditTarget(text)) \/ SettingsPanel
  BY <1>6, EditStep
<1>7. CASE JobEnds \/ Rediscover
  BY <1>7, JobStep
<1>8. CASE UNCHANGED vars
  <2>1. UNCHANGED <<pc, args, fields, scan, given, options, asked>>
    BY <1>8 DEF vars
  <2> QED
    BY <2>1 DEF SessionInv, TypeOfSession, Parsing, Opened, Launched, Refilled
<1> QED
  BY <1>1, <1>2, <1>3, <1>4, <1>5, <1>6, <1>7, <1>8 DEF Next, CommandLine, Window

(***************************************************************************)
(* The invariant holds in every state of a session (cli.rs:99-220,         *)
(* gui.rs:94-127 and :208-300).                                            *)
(***************************************************************************)
THEOREM SessionInvariant == Spec => []SessionInv
  BY SessionInit, SessionStep, PTL DEF Spec

-----------------------------------------------------------------------------
(* What the invariant says of a session. *)

LEMMA InvLastWord == SessionInv => LastWordCounts
<1>1. \A flags, default : LastWord(flags, default) = LastOf(given, flags, default)
  BY DEF LastWord, LastOf, LastSpeaker
<1> QED
  BY <1>1 DEF SessionInv, Opened, Heard, LastWordCounts

LEMMA InvWork == SessionInv => WorkExact
<1> SUFFICES ASSUME SessionInv, scan # NoScan PROVE WorkExact
  BY DEF WorkExact
<1>1. Exact(scan.targets, asked.text, asked.addresses)
  BY DEF SessionInv, Launched
<1>2. CASE Whole(asked.range)
  <2>1. scan.ports = DefaultPorts
    BY <1>2 DEF SessionInv, Launched
  <2>2. IsInjective(scan.ports) /\ ToSet(scan.ports) = 1..MaxPort /\ Ranked(scan.ports)
    BY <2>1, DefaultListed DEF Listed
  <2> QED
    BY <1>1, <1>2, <2>2 DEF WorkExact, Exact
<1>3. CASE ~Whole(asked.range)
  <2> DEFINE from == asked.range[1]
             to == asked.range[2]
  <2>1. ValidRange(asked.range) /\ scan.ports = Span(from, to)
    BY <1>3 DEF SessionInv, Launched, PortRange
  <2>2. from \in Nat /\ to \in Nat /\ from <= to
    BY <2>1 DEF ValidRange
  <2> HIDE DEF from, to
  <2>3. IsInjective(scan.ports) /\ ToSet(scan.ports) = from..to /\ Rising(scan.ports)
    BY <2>1, <2>2, RangeFacts
  <2> QED
    BY <1>1, <1>3, <2>3 DEF WorkExact, Exact, from, to
<1> QED
  BY <1>2, <1>3

LEMMA InvPrefilled == SessionInv => PrefilledScan
<1> SUFFICES ASSUME SessionInv, options # NoOptions PROVE PrefilledScan
  BY DEF PrefilledScan
<1> DEFINE asGiven == CfgBuilder(options)
           whole == Len(options.ports) = MaxPort
<1>1. PICK i \in DOMAIN given, addresses \in Resolutions :
        LET text == given[i].value
            parsed == ParseTargets(text, addresses)
        IN /\ given[i].flag = "target" /\ Said(given, text) /\ parsed.ok
           /\ options.targets = parsed.targets
           /\ fields.target = parsed.targets[1].display
  BY DEF SessionInv, Opened
<1> DEFINE text == given[i].value
           targets == options.targets
<1>2. /\ given[i].flag = "target" /\ Said(given, text) /\ ParseTargets(text, addresses).ok
      /\ targets = ParseTargets(text, addresses).targets /\ fields.target = targets[1].display
  BY <1>1
<1>3. addresses \in Seq(Address) /\ IsText(text)
  BY <1>2, SessionAssumption DEF Said
<1> HIDE DEF text
<1>4. /\ 1 \in DOMAIN targets
      /\ text.form = "host" => \A other : ~ParseTargets(fields.target, other).ok
      /\ text.form # "host" => \A other : ParseTargets(fields.target, other) = Ok(<<targets[1]>>)
  BY <1>2, <1>3, DisplayFacts
<1>5. /\ Whole(fields.range) <=> whole
      /\ ~Whole(fields.range) => ValidRange(fields.range) /\ PortRange(fields.range) = options.ports
      /\ whole /\ 0 \notin ToSet(options.ports) => ToSet(options.ports) = ToSet(DefaultPorts)
  BY RangeOfFacts DEF SessionInv, Opened
<1>6. PortsOk
  BY <1>5 DEF PortsOk
<1>9. ToSet(options.ports) \ {0} \subseteq ToSet(DefaultPorts)
  <2>1. MaxPort \in Nat /\ ToSet(DefaultPorts) = 1..MaxPort
    BY DefaultListed, TargetsAssumption DEF Listed
  <2>2. ASSUME NEW from \in 0..MaxPort, NEW to \in 0..MaxPort, from <= to
        PROVE  ToSet(Span(from, to)) \ {0} \subseteq 1..MaxPort
    <3>1. from \in Nat /\ to \in Nat
      BY <2>1
    <3>2. ToSet(Span(from, to)) = from..to
      BY <2>2, <3>1, RangeFacts
    <3> QED
      BY <2>1, <3>1, <3>2
  <2> QED
    BY <2>1, <2>2 DEF SessionInv, Opened
<1>7. ASSUME NEW other \in Resolutions, NEW j \in DOMAIN given, given[j].flag = "target",
             given[j].value.form \in {"literal", "zoned"}
      PROVE  ParseTargets(fields.target, other).ok
  <2>1. given[j].value = text
    BY <1>2, <1>7 DEF Said
  <2>2. text.form # "host"
    BY <1>7, <2>1
  <2> QED
    BY <1>4, <2>2 DEF Ok
<1>8. ASSUME scan # NoScan
      PROVE  /\ Others(scan) = Others(asGiven)
             /\ ToSet(Sockets(scan.targets)) \subseteq ToSet(Sockets(asGiven.targets))
             /\ ToSet(asGiven.ports) \ {0} \subseteq ToSet(scan.ports)
  <2>1. /\ asked.range = fields.range
        /\ ParseTargets(fields.target, asked.addresses).ok
        /\ scan = Cfg(ParseTargets(fields.target, asked.addresses).targets, scan.ports, options.settings)
    BY <1>8 DEF SessionInv, Opened, Refilled
  <2>2. ParseTargets(fields.target, asked.addresses) = Ok(<<targets[1]>>)
    BY <1>4, <2>1
  <2>3. scan = Cfg(<<targets[1]>>, scan.ports, options.settings)
    BY <2>1, <2>2 DEF Ok
  <2>4. scan.targets = <<targets[1]>> /\ asGiven.targets = targets /\ asGiven.ports = options.ports
    BY <2>3 DEF Cfg, CfgBuilder
  <2>5. ToSet(Sockets(scan.targets)) \subseteq ToSet(Sockets(asGiven.targets))
    <3> HIDE DEF asGiven
    <3>1. 1 \in DOMAIN Sockets(asGiven.targets) /\ Sockets(asGiven.targets)[1] = Socket(targets[1], 0)
      BY <1>4, <2>4 DEF Sockets
    <3>2. Sockets(<<targets[1]>>) = <<Socket(targets[1], 0)>>
      BY DEF Sockets
    <3>3. ToSet(Sockets(scan.targets)) = {Socket(targets[1], 0)}
      BY <2>4, <3>2 DEF ToSet
    <3> QED
      BY <3>1, <3>3 DEF ToSet
  <2>6. Others(scan) = Others(asGiven)
    <3> DEFINE s == options.settings
               rest == [threads |-> s.threads, fast |-> s.fast, slow |-> s.slow, probe |-> s.slow,
                        verify |-> s.verify, stop |-> s.stop]
    <3>1. \A t, p : Others(Cfg(t, p, s)) = rest
      BY DEF Others, Cfg, VerifyTimeout
    <3>2. Others(asGiven) = rest
      BY DEF Others, CfgBuilder
    <3> QED
      BY <2>3, <3>1, <3>2
  <2>7. IF Whole(fields.range) THEN scan.ports = DefaultPorts
                               ELSE scan.ports = PortRange(fields.range)
    BY <1>8, <2>1 DEF SessionInv, Launched
  <2>8. ToSet(asGiven.ports) \ {0} \subseteq ToSet(scan.ports)
    <3>1. CASE Whole(fields.range)
      BY <2>4, <2>7, <3>1, <1>9
    <3>2. CASE ~Whole(fields.range)
      BY <1>5, <2>4, <2>7, <3>2
    <3> QED
      BY <3>1, <3>2
  <2> HIDE DEF asGiven
  <2> QED
    BY <2>5, <2>6, <2>8
<1> HIDE DEF asGiven, whole
<1> QED
  BY <1>6, <1>7, <1>8 DEF PrefilledScan, asGiven

(***************************************************************************)
(* Each setting is what the last argument that speaks of it said, in every *)
(* command line of every length (cli.rs:110-179).                          *)
(***************************************************************************)
THEOREM LastWordTheorem == Spec => []LastWordCounts
  BY SessionInvariant, InvLastWord, PTL

(***************************************************************************)
(* The scan of a window whose fields nobody has changed stays within what  *)
(* the command line said, for all widths of addresses and every table of   *)
(* ports (gui.rs:110-127, :208-269).                                       *)
(***************************************************************************)
THEOREM PrefilledTheorem == Spec => []PrefilledScan
  BY SessionInvariant, InvPrefilled, PTL

(***************************************************************************)
(* A scan tries exactly the addresses and ports that were asked for, each  *)
(* once, for every CIDR block, mask and range and every table of ports     *)
(* (target.rs:37-128, ports.rs:8-30).                                      *)
(***************************************************************************)
THEOREM WorkTheorem == Spec => []WorkExact
  BY SessionInvariant, InvWork, PTL
============================================================================
