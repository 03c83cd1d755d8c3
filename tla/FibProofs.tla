----------------------------- MODULE FibProofs ------------------------------
(***************************************************************************)
(* Proofs about Fib for any length of addresses, any levels of tables, any *)
(* routes and any number of allocations that fail.                         *)
(*                                                                         *)
(* The invariant says what the spread of an entry over lists and tables    *)
(* amounts to: an entry is in the list of every node of its range and of   *)
(* no other, and the tables that are allocated are those that lead to a    *)
(* list with an entry.                                                     *)
(***************************************************************************)
EXTENDS Fib, TLAPS, SequenceTheorems, FiniteSetTheorems

(* The nodes whose list has the entry r. *)
In(s, r)    == \E i \in DOMAIN s : s[i] = r
Where(l, r) == {n \in Node : In(l[n], r)}

(* The tables that lead to an entry. *)
Needed(l) == {m \in Node : \E n \in Node : Covers(m, n) /\ m # n /\ l[n] # <<>>}

Types ==
  /\ list \in [Node -> Seq(Route)]
  /\ table \subseteq Node
  /\ ref \in [Route -> Nat]
  /\ fails \in 0 .. MaxFail
  /\ fault \in BOOLEAN

Tables == table = Needed(list)

Counts == \A r \in Route : ref[r] = Cardinality(Where(list, r))

(* An entry is in the lists of its range, or in none. *)
Whole == \A r \in Route : Where(list, r) = {} \/ Where(list, r) = NodesOf(r.prefix)

(* There is one entry for a prefix and an id. *)
Distinct ==
  \A r, s \in Route :
    Where(list, r) # {} /\ Where(list, s) # {} /\ RT!SameRoute(r, s) => r = s

(* A list has an entry once, those with longer prefixes first. *)
Ordered(s) == \A i, j \in DOMAIN s : i < j => s[i] # s[j] /\ Len(s[i].prefix) >= Len(s[j].prefix)
Lists == \A n \in Node : Ordered(list[n])

Good == Whole /\ Distinct /\ Lists

IInv == Types /\ Tables /\ Counts /\ (~ fault => Good)

-----------------------------------------------------------------------------
(* Numbers: a set has a smallest element, and if it is bounded a largest. *)
LEMMA MinExists ==
  ASSUME NEW S, S \subseteq Nat, S # {}
  PROVE  \E x \in S : \A y \in S : x <= y
<1>1. PICK x \in S : \A y \in S : ~ (<<y, x>> \in OpToRel(<, Nat))
  BY NatLessThanWellFounded, WFMin, Zenon
<1>2. \A y \in S : ~ (y < x)
  BY <1>1 DEF OpToRel
<1> QED BY <1>2

(* The same for the largest. *)
LEMMA MaxExists ==
  ASSUME NEW N \in Nat, NEW S, S \subseteq 0 .. N, S # {}
  PROVE  \E x \in S : \A y \in S : y <= x
<1> DEFINE T == {N - x : x \in S}
<1>1. T \subseteq Nat
  OBVIOUS
<1>0. T # {}
  OBVIOUS
<1>2. PICK t \in T : \A u \in T : t <= u
  BY <1>1, <1>0, MinExists
<1>3. PICK x \in S : t = N - x
  OBVIOUS
<1>4. \A y \in S : N - y \in T
  OBVIOUS
<1> HIDE DEF T
<1> QED BY <1>2, <1>3, <1>4

(* The depths. *)
LEMMA DepthFacts ==
  /\ Depth \subseteq Nat \ {0} /\ AddrLen \in Depth /\ AddrLen \in Nat
  /\ \A d \in Depth : First <= d /\ d <= AddrLen
BY FibAssumption DEF Depth

(* A multiple and what lies between it and the next. *)
LEMMA Multiples ==
  ASSUME NEW s \in Nat \ {0}, NEW a \in Nat, NEW b \in Nat, a % s = 0, b % s = 0, a < b
  PROVE  a + s <= b /\ (a + s) % s = 0
<1> DEFINE p == a \div s
           q == b \div s
<1>1. a = s * p /\ p \in Int
  OBVIOUS
<1>2. b = s * q /\ q \in Int
  OBVIOUS
<1> HIDE DEF p, q
<1>3. p < q
  BY <1>1, <1>2
<1>4. s * p + s <= s * q
  BY <1>1, <1>2, <1>3
<1>5. a + s = s * (p + 1) /\ p + 1 \in Int
  BY <1>1
<1>6. (s * (p + 1)) % s = 0
  BY <1>5, SMTT(40)
<1> QED BY <1>1, <1>2, <1>4, <1>5, <1>6

(* Of two depths the deeper one is at least a stride below the other. *)
LEMMA DepthNext ==
  ASSUME NEW c \in Depth, NEW d \in Depth, c < d
  PROVE  c + Stride \in Depth /\ c + Stride <= d
<1>1. /\ Stride \in Nat \ {0} /\ First \in Nat /\ c \in Nat /\ d \in Nat
      /\ c - First \in Nat /\ d - First \in Nat
      /\ (c - First) % Stride = 0 /\ (d - First) % Stride = 0 /\ d <= AddrLen
  BY FibAssumption, DepthFacts DEF Depth
<1> DEFINE a == c - First
           b == d - First
<1>2. a + Stride <= b /\ (a + Stride) % Stride = 0
  <2>1. a \in Nat /\ b \in Nat /\ a < b /\ a % Stride = 0 /\ b % Stride = 0
    BY <1>1
  <2> HIDE DEF a, b
  <2> QED BY <1>1, <2>1, Multiples
<1>3. (c + Stride) - First = (c - First) + Stride /\ c + Stride \in First .. AddrLen
  BY <1>1, <1>2, DepthFacts
<1> QED BY <1>1, <1>2, <1>3 DEF Depth

(* The depth of a prefix is the first that is long enough. *)
LEMMA EntryDepthFacts ==
  ASSUME NEW len \in 0 .. AddrLen
  PROVE  /\ EntryDepth(len) \in Depth /\ EntryDepth(len) \in Nat /\ len <= EntryDepth(len)
         /\ \A c \in Depth : c >= len => EntryDepth(len) <= c
<1> DEFINE S == {d \in Depth : d >= len}
<1>1. S \subseteq Nat
  BY DepthFacts
<1>0. AddrLen \in S
  BY DepthFacts
<1>2. \E d \in S : \A c \in S : d <= c
  BY <1>1, <1>0, MinExists
<1>3. \E d \in Depth : d >= len /\ \A c \in Depth : c >= len => d <= c
  BY <1>2
<1> QED BY <1>3, DepthFacts DEF EntryDepth

-----------------------------------------------------------------------------
(* Sequences of bits. *)
LEMMA BitSeq ==
  ASSUME NEW n, NEW d \in Nat
  PROVE  n \in [1 .. d -> Bit] <=> n \in Seq(Bit) /\ Len(n) = d
<1>1. ASSUME n \in [1 .. d -> Bit] PROVE n \in Seq(Bit) /\ Len(n) = d
  BY <1>1
<1>2. ASSUME n \in Seq(Bit), Len(n) = d PROVE n \in [1 .. d -> Bit]
  BY <1>2, LenProperties
<1> QED BY <1>1, <1>2

(* The nodes. *)
LEMMA NodeFacts ==
  \A n : n \in Node <=> n \in Seq(Bit) /\ Len(n) \in Depth
<1>1. ASSUME NEW n \in Node PROVE n \in Seq(Bit) /\ Len(n) \in Depth
  <2>1. PICK d \in Depth : n \in [1 .. d -> Bit]
    BY DEF Node
  <2> QED BY <2>1, BitSeq, DepthFacts
<1>2. ASSUME NEW n \in Seq(Bit), Len(n) \in Depth PROVE n \in Node
  <2>1. n \in [1 .. Len(n) -> Bit]
    BY <1>2, BitSeq, DepthFacts
  <2> QED BY <1>2, <2>1 DEF Node
<1> QED BY <1>1, <1>2

(* The prefixes of the routes. *)
LEMMA PrefixFacts ==
  ASSUME NEW r \in Route
  PROVE  r.prefix \in Seq(Bit) /\ Len(r.prefix) \in 0 .. AddrLen
<1>1. PICK n \in 0 .. AddrLen : r.prefix \in [1 .. n -> Bit]
  BY FibAssumption
<1>2. n \in Nat
  BY DepthFacts
<1> QED BY <1>1, <1>2, BitSeq

(* One sequence starts with another. *)
LEMMA CoversFacts ==
  ASSUME NEW p \in Seq(Bit), NEW q \in Seq(Bit), NEW a \in Seq(Bit)
  PROVE  /\ Covers(p, p)
         /\ Covers(p, q) /\ Covers(q, a) => Covers(p, a)
         /\ Covers(p, a) /\ Covers(q, a) /\ Len(p) <= Len(q) => Covers(p, q)
         /\ Covers(p, q) /\ Len(p) = Len(q) => p = q
         /\ Covers(p, q) /\ p # q => Len(p) < Len(q)
<1>0. Len(p) \in Nat /\ Len(q) \in Nat /\ Len(a) \in Nat
  OBVIOUS
<1>1. Covers(p, q) /\ Len(p) = Len(q) => p = q
  BY SeqEqual DEF Covers
<1>2. Covers(p, q) /\ p # q => Len(p) < Len(q)
  BY <1>0, <1>1 DEF Covers
<1> QED BY <1>0, <1>1, <1>2 DEF Covers

(* The first bits of a sequence. *)
LEMMA FirstBits ==
  ASSUME NEW a \in Seq(Bit), NEW d \in 0 .. Len(a)
  PROVE  LET m == SubSeq(a, 1, d)
         IN  /\ m \in Seq(Bit) /\ Len(m) = d /\ Covers(m, a)
             /\ \A q \in Seq(Bit) : Covers(q, a) /\ Len(q) = d => q = m
<1> DEFINE m == SubSeq(a, 1, d)
<1>1. m \in Seq(Bit) /\ Len(m) = d /\ \A i \in 1 .. d : m[i] = a[i]
  <2>1. \A i \in 1 .. d : a[i] \in Bit
    OBVIOUS
  <2> QED BY <2>1, SubSeqProperties
<1>2. Covers(m, a)
  BY <1>1 DEF Covers
<1>3. ASSUME NEW q \in Seq(Bit), Covers(q, a), Len(q) = d PROVE q = m
  BY <1>1, <1>3, SeqEqual DEF Covers
<1> QED BY <1>1, <1>2, <1>3

-----------------------------------------------------------------------------
(* The nodes of the range of a prefix. *)
LEMMA NodesOfFacts ==
  ASSUME NEW p \in Seq(Bit), Len(p) \in 0 .. AddrLen
  PROVE  /\ \A n : n \in NodesOf(p) <=> n \in Node /\ Len(n) = EntryDepth(Len(p)) /\ Covers(p, n)
         /\ NodesOf(p) # {}
<1> DEFINE D == EntryDepth(Len(p))
<1>1. D \in Depth /\ D \in Nat /\ Len(p) <= D /\ Len(p) \in Nat
  BY EntryDepthFacts
<1> HIDE DEF D
<1>2. \A n : n \in [1 .. D -> Bit] <=> n \in Node /\ Len(n) = D
  BY <1>1, BitSeq, NodeFacts
<1>3. NodesOf(p) = {n \in [1 .. D -> Bit] : Covers(p, n)}
  BY DEF NodesOf, D
<1>4. NodesOf(p) # {}
  <2> DEFINE n == [i \in 1 .. D |-> IF i <= Len(p) THEN p[i] ELSE 0]
  <2>1. n \in [1 .. D -> Bit]
    BY <1>1 DEF Bit
  <2>2. Len(n) = D
    BY <1>1, <2>1, BitSeq
  <2>3. Covers(p, n)
    BY <1>1, <2>2 DEF Covers
  <2> QED BY <1>3, <2>1, <2>3
<1> QED BY <1>2, <1>3, <1>4 DEF D

(* The tables above them. *)
LEMMA TablesOfFacts ==
  ASSUME NEW p \in Seq(Bit), Len(p) \in 0 .. AddrLen
  PROVE  /\ \A m : m \in TablesOf(p) <=>
                     m \in Node /\ Covers(m, p) /\ Len(m) < EntryDepth(Len(p))
         /\ \A n \in NodesOf(p), m \in Node :
              Covers(m, n) /\ m # n <=> m \in TablesOf(p)
<1> DEFINE D == EntryDepth(Len(p))
<1>1. /\ D \in Depth /\ D \in Nat /\ Len(p) <= D /\ Len(p) \in Nat
      /\ \A c \in Depth : c \in Nat /\ (c < D => c < Len(p))
  BY EntryDepthFacts, DepthFacts
<1>2. \A n : n \in NodesOf(p) <=> n \in Node /\ Len(n) = D /\ Covers(p, n)
  BY NodesOfFacts
<1>3. TablesOf(p) = {SubSeq(p, 1, d) : d \in {c \in Depth : c < D}}
  BY DEF TablesOf
<1> HIDE DEF D
<1>4. ASSUME NEW m PROVE m \in TablesOf(p) <=> m \in Node /\ Covers(m, p) /\ Len(m) < D
  <2>1. ASSUME NEW d \in Depth, d < D, m = SubSeq(p, 1, d)
        PROVE  m \in Node /\ Covers(m, p) /\ Len(m) < D
    <3>1. d \in 0 .. Len(p) /\ d \in Nat
      BY <1>1, <2>1
    <3>2. m \in Seq(Bit) /\ Len(m) = d /\ Covers(m, p)
      BY <2>1, <3>1, FirstBits
    <3> QED BY <2>1, <3>2, NodeFacts
  <2>2. ASSUME m \in Node, Covers(m, p), Len(m) < D
        PROVE  m \in TablesOf(p)
    <3>1. Len(m) \in Depth /\ m \in Seq(Bit) /\ Len(m) \in 0 .. Len(p)
      BY <1>1, <2>2, NodeFacts
    <3>2. m = SubSeq(p, 1, Len(m))
      BY <2>2, <3>1, FirstBits
    <3> QED BY <1>3, <2>2, <3>1, <3>2
  <2> QED BY <1>3, <2>1, <2>2
<1>5. ASSUME NEW n \in NodesOf(p), NEW m \in Node
      PROVE  Covers(m, n) /\ m # n <=> m \in TablesOf(p)
  <2>1. /\ n \in Seq(Bit) /\ m \in Seq(Bit) /\ Len(n) = D /\ Covers(p, n)
        /\ Len(m) \in Depth /\ Len(m) \in Nat
    BY <1>1, <1>2, NodeFacts
  <2>2. ASSUME Covers(m, n), m # n PROVE Covers(m, p) /\ Len(m) < D
    <3>1. Len(m) < D
      BY <2>1, <2>2, CoversFacts
    <3>2. Len(m) <= Len(p)
      BY <1>1, <2>1, <3>1
    <3> QED BY <2>1, <2>2, <3>1, <3>2, CoversFacts
  <2>3. ASSUME Covers(m, p), Len(m) < D PROVE Covers(m, n) /\ m # n
    BY <1>1, <2>1, <2>3, CoversFacts
  <2> QED BY <1>4, <2>2, <2>3
<1> QED BY <1>4, <1>5 DEF D

(* There are finitely many nodes: a node is known by its length and the    *)
(* places of its ones.                                                     *)
LEMMA NodesFinite == IsFiniteSet(Node)
<1> DEFINE T == (0 .. AddrLen) \X SUBSET (1 .. AddrLen)
           Code == [n \in Node |-> <<Len(n), {i \in 1 .. AddrLen : i <= Len(n) /\ n[i] = 1}>>]
<1>0. AddrLen \in Nat /\ \A d \in Depth : d \in Nat /\ d <= AddrLen
  BY DepthFacts
<1>1. IsFiniteSet(T)
  <2>1. IsFiniteSet(0 .. AddrLen) /\ IsFiniteSet(1 .. AddrLen)
    BY <1>0, FS_Interval
  <2>2. IsFiniteSet(SUBSET (1 .. AddrLen))
    BY <2>1, FS_SUBSET
  <2> QED BY <2>1, <2>2, FS_Product
<1>2. Code \in [Node -> T]
  BY <1>0, NodeFacts
<1>3. ASSUME NEW m \in Node, NEW n \in Node, Code[m] = Code[n] PROVE m = n
  <2>1. /\ Len(m) = Len(n) /\ m \in Seq(Bit) /\ n \in Seq(Bit) /\ Len(m) \in Nat /\ Len(m) <= AddrLen
        /\ {i \in 1 .. AddrLen : i <= Len(m) /\ m[i] = 1} = {i \in 1 .. AddrLen : i <= Len(n) /\ n[i] = 1}
    BY <1>0, <1>3, NodeFacts
  <2>2. ASSUME NEW i \in 1 .. Len(m) PROVE m[i] = n[i]
    <3>1. m[i] \in Bit /\ n[i] \in Bit /\ i \in 1 .. AddrLen
      BY <1>0, <2>1
    <3>2. m[i] = 1 <=> n[i] = 1
      BY <2>1, <3>1
    <3> QED BY <3>1, <3>2 DEF Bit
  <2> QED BY <2>1, <2>2, SeqEqual
<1> HIDE DEF T, Code
<1>4. Code \in Injection(Node, T)
  BY <1>2, <1>3 DEF Injection, IsInjective
<1> QED BY <1>1, <1>4, FS_Injection

-----------------------------------------------------------------------------
(* lpm_entry_insert adds the entry and keeps the order. *)
LEMMA InsertFacts ==
  ASSUME NEW s \in Seq(Route), NEW r \in Route
  PROVE  LET t == lpm_entry_insert(s, r)
         IN  /\ t \in Seq(Route) /\ t # <<>>
             /\ \A e : In(t, e) <=> In(s, e) \/ e = r
             /\ Ordered(s) /\ ~ In(s, r) => Ordered(t)
<1> DEFINE prior == {i \in DOMAIN s : Len(s[i].prefix) > Len(r.prefix)}
           k == CHOOSE i \in prior \union {0} : \A j \in prior : j <= i
           t == [i \in 1 .. Len(s) + 1 |->
                   IF i <= k THEN s[i] ELSE IF i = k + 1 THEN r ELSE s[i - 1]]
<1>0. lpm_entry_insert(s, r) = t
  BY DEF lpm_entry_insert
<1>1. Len(s) \in Nat /\ DOMAIN s = 1 .. Len(s) /\ \A i \in 1 .. Len(s) : s[i] \in Route
  BY LenProperties, ElementOfSeq
<1>2. k \in 0 .. Len(s) /\ k \in prior \union {0} /\ \A j \in prior : j <= k
  <2>1. prior \union {0} \subseteq 0 .. Len(s)
    BY <1>1
  <2>2. \E x \in prior \union {0} : \A y \in prior \union {0} : y <= x
    BY <1>1, <2>1, MaxExists
  <2>3. \E i \in prior \union {0} : \A j \in prior : j <= i
    BY <2>2
  <2>4. k \in prior \union {0} /\ \A j \in prior : j <= k
    BY <2>3
  <2> QED BY <2>1, <2>4
<1>3. \A i \in 1 .. Len(s) : i <= k /\ Ordered(s) => Len(s[i].prefix) > Len(r.prefix)
  <2> SUFFICES ASSUME NEW i \in 1 .. Len(s), i <= k, Ordered(s)
               PROVE  Len(s[i].prefix) > Len(r.prefix)
    OBVIOUS
  <2>1. k \in prior
    BY <1>1, <1>2
  <2>2. \A j \in 1 .. Len(s) : Len(s[j].prefix) \in Nat
    BY <1>1, PrefixFacts, DepthFacts
  <2>3. Len(r.prefix) \in Nat
    BY PrefixFacts, DepthFacts
  <2> HIDE DEF k
  <2>4. k \in 1 .. Len(s) /\ Len(s[k].prefix) > Len(r.prefix)
    BY <2>1, <1>1
  <2>5. CASE i = k
    BY <2>4, <2>5
  <2>6. CASE i < k
    <3>1. Len(s[i].prefix) >= Len(s[k].prefix)
      BY <1>1, <2>4, <2>6 DEF Ordered
    <3> QED BY <2>2, <2>3, <2>4, <3>1
  <2> QED BY <2>4, <2>5, <2>6
<1>4. \A i \in 1 .. Len(s) : i > k => Len(s[i].prefix) <= Len(r.prefix)
  <2> SUFFICES ASSUME NEW i \in 1 .. Len(s), i > k PROVE Len(s[i].prefix) <= Len(r.prefix)
    OBVIOUS
  <2> HIDE DEF k
  <2>1. i \notin prior
    <3> HIDE DEF prior
    <3> QED BY <1>2
  <2> QED BY <2>1, <1>1, PrefixFacts, DepthFacts
<1> HIDE DEF k, prior
<1>5. /\ \A i \in 1 .. Len(s) + 1 : /\ i <= k => i \in 1 .. Len(s) /\ t[i] = s[i]
                                    /\ i = k + 1 => t[i] = r
                                    /\ i > k + 1 => i - 1 \in 1 .. Len(s) /\ t[i] = s[i - 1]
      /\ t \in [1 .. Len(s) + 1 -> Route]
  BY <1>1, <1>2
<1> HIDE DEF t
<1>6. t \in Seq(Route) /\ Len(t) = Len(s) + 1 /\ DOMAIN t = 1 .. Len(s) + 1
  BY <1>1, <1>5
<1>7. ASSUME NEW e PROVE In(t, e) <=> In(s, e) \/ e = r
  <2>1. ASSUME NEW i \in DOMAIN t, t[i] = e PROVE In(s, e) \/ e = r
    BY <1>1, <1>2, <1>5, <1>6, <2>1, SMTT(40) DEF In
  <2>2. ASSUME NEW i \in DOMAIN s, s[i] = e PROVE In(t, e)
    <3>1. CASE i <= k
      BY <1>1, <1>2, <1>5, <1>6, <2>2, <3>1 DEF In
    <3>2. CASE i > k
      <4>1. i + 1 \in 1 .. Len(s) + 1 /\ i + 1 > k + 1 /\ (i + 1) - 1 = i
        BY <1>1, <1>2, <3>2
      <4>2. t[i + 1] = s[i]
        BY <1>5, <4>1
      <4> QED BY <1>6, <2>2, <4>1, <4>2 DEF In
    <3> QED BY <1>1, <1>2, <3>1, <3>2
  <2>3. In(t, r)
    <3>1. k + 1 \in 1 .. Len(s) + 1
      BY <1>1, <1>2
    <3> QED BY <1>5, <1>6, <3>1 DEF In
  <2> QED BY <2>1, <2>2, <2>3 DEF In
<1>8. ASSUME Ordered(s), ~ In(s, r) PROVE Ordered(t)
  <2> SUFFICES ASSUME NEW i \in 1 .. Len(s) + 1, NEW j \in 1 .. Len(s) + 1, i < j
               PROVE  t[i] # t[j] /\ Len(t[i].prefix) >= Len(t[j].prefix)
    BY <1>6 DEF Ordered
  <2>0. /\ \A a \in 1 .. Len(s) : s[a] # r /\ Len(s[a].prefix) \in Nat
        /\ Len(r.prefix) \in Nat
    BY <1>1, <1>8, PrefixFacts, DepthFacts DEF In
  <2>1. CASE j <= k
    BY <1>1, <1>2, <1>5, <1>8, <2>1, SMTT(40) DEF Ordered
  <2>2. CASE j = k + 1
    BY <1>1, <1>2, <1>3, <1>5, <1>8, <2>0, <2>2, SMTT(40)
  <2>3. CASE j > k + 1
    <3> DEFINE b == j - 1
    <3>0. b \in 1 .. Len(s) /\ b > k /\ t[j] = s[b] /\ i <= b
      BY <1>1, <1>2, <1>5, <2>3
    <3> HIDE DEF b
    <3>1. CASE i <= k
      <4>1. i \in 1 .. Len(s) /\ t[i] = s[i] /\ i < b
        BY <1>1, <1>2, <1>5, <3>0, <3>1
      <4> QED BY <1>1, <1>8, <3>0, <4>1 DEF Ordered
    <3>2. CASE i = k + 1
      BY <1>4, <1>5, <2>0, <3>0, <3>2
    <3>3. CASE i > k + 1
      <4> DEFINE a == i - 1
      <4>1. a \in 1 .. Len(s) /\ t[i] = s[a]
        BY <1>1, <1>2, <1>5, <3>3
      <4>2. a < b
        BY <1>1, <1>2, <2>3, <3>3 DEF b
      <4> HIDE DEF a
      <4> QED BY <1>1, <1>8, <3>0, <4>1, <4>2 DEF Ordered
    <3> QED BY <1>1, <1>2, <3>1, <3>2, <3>3
  <2> QED BY <1>1, <1>2, <2>1, <2>2, <2>3
<1>9. t # <<>>
  BY <1>1, <1>6
<1> QED BY <1>0, <1>6, <1>7, <1>8, <1>9

(* lpm_entry_delete takes the first match out and keeps the order. *)
LEMMA DeleteFacts ==
  ASSUME NEW s \in Seq(Route), NEW r \in Route, Matches(s, r) # {}, Ordered(s)
  PROVE  LET t == lpm_entry_delete(s, r)
             f == FirstMatch(s, r)
         IN  /\ f \in DOMAIN s /\ fib_entry_identify(s[f], r) /\ s[f] \in Route
             /\ t \in Seq(Route) /\ Ordered(t)
             /\ \A e : In(t, e) <=> In(s, e) /\ e # s[f]
<1> DEFINE f == FirstMatch(s, r)
           n == Len(s) - 1
           t == [i \in 1 .. n |-> IF i < f THEN s[i] ELSE s[i + 1]]
<1>0. lpm_entry_delete(s, r) = t
  BY DEF lpm_entry_delete
<1>1. Len(s) \in Nat /\ DOMAIN s = 1 .. Len(s) /\ \A i \in 1 .. Len(s) : s[i] \in Route
  BY LenProperties, ElementOfSeq
<1>2. f \in Matches(s, r)
  <2>1. Matches(s, r) \subseteq Nat
    BY <1>1 DEF Matches
  <2>2. \E i \in Matches(s, r) : \A j \in Matches(s, r) : i <= j
    BY <2>1, MinExists
  <2> QED BY <2>2 DEF FirstMatch
<1> HIDE DEF f
<1>3. f \in 1 .. Len(s) /\ fib_entry_identify(s[f], r)
  BY <1>1, <1>2 DEF Matches
<1>4. /\ \A i \in 1 .. n : /\ i < f => i \in 1 .. Len(s) /\ t[i] = s[i]
                           /\ i >= f => i + 1 \in 1 .. Len(s) /\ t[i] = s[i + 1]
      /\ t \in [1 .. n -> Route] /\ n \in Nat /\ Len(s) = n + 1
  BY <1>1, <1>3
<1> HIDE DEF t, n
<1>5. t \in Seq(Route) /\ Len(t) = n /\ DOMAIN t = 1 .. n
  BY <1>4
<1>6. Ordered(t)
  <2> SUFFICES ASSUME NEW i \in 1 .. n, NEW j \in 1 .. n, i < j
               PROVE  t[i] # t[j] /\ Len(t[i].prefix) >= Len(t[j].prefix)
    BY <1>5 DEF Ordered
  <2>1. \E a, b \in 1 .. Len(s) : a < b /\ t[i] = s[a] /\ t[j] = s[b]
    <3>1. CASE j < f
      BY <1>3, <1>4, <3>1
    <3>2. CASE i < f /\ j >= f
      BY <1>3, <1>4, <3>2
    <3>3. CASE i >= f
      BY <1>3, <1>4, <3>3
    <3> QED BY <1>3, <1>4, <3>1, <3>2, <3>3
  <2> QED BY <1>1, <2>1 DEF Ordered
<1>7. ASSUME NEW e PROVE In(t, e) <=> In(s, e) /\ e # s[f]
  <2>1. ASSUME NEW i \in DOMAIN t, t[i] = e PROVE In(s, e) /\ e # s[f]
    <3>1. CASE i < f
      BY <1>1, <1>3, <1>4, <1>5, <2>1, <3>1 DEF In, Ordered
    <3>2. CASE i >= f
      <4>1. i + 1 \in DOMAIN s /\ t[i] = s[i + 1] /\ f < i + 1 /\ f \in DOMAIN s
        BY <1>1, <1>3, <1>4, <1>5, <3>2
      <4> QED BY <2>1, <4>1 DEF In, Ordered
    <3> QED BY <1>3, <1>5, <3>1, <3>2
  <2>2. ASSUME NEW i \in DOMAIN s, s[i] = e, e # s[f] PROVE In(t, e)
    <3>1. CASE i < f
      BY <1>1, <1>3, <1>4, <1>5, <2>2, <3>1 DEF In
    <3>2. CASE i > f
      <4>1. i - 1 \in 1 .. n /\ i - 1 >= f /\ (i - 1) + 1 = i
        BY <1>1, <1>3, <1>4, <3>2
      <4>2. t[i - 1] = s[i]
        BY <1>4, <4>1
      <4> QED BY <1>5, <2>2, <4>1, <4>2 DEF In
    <3> QED BY <1>1, <1>3, <2>2, <3>1, <3>2
  <2> QED BY <2>1, <2>2 DEF In
<1>8. s[f] \in Route
  BY <1>1, <1>3
<1> QED BY <1>0, <1>1, <1>3, <1>5, <1>6, <1>7, <1>8 DEF f

-----------------------------------------------------------------------------
(* Pruning frees of the tables on the path those that lead to no entry, if *)
(* before it no other table is idle and none is missing.                   *)
LEMMA PruneFacts ==
  ASSUME NEW lists, NEW tables, tables \subseteq Node, NEW path, path \subseteq tables,
         NEW p \in Seq(Bit), \A k \in path : Covers(k, p),
         Needed(lists) \subseteq tables, tables \ path \subseteq Needed(lists)
  PROVE  Pruned(lists, tables, path) = Needed(lists)
<1> DEFINE Child(k) == {n \in Node : Len(n) = Len(k) + Stride /\ Covers(k, n)}
           Kept(m)  == \E k \in path : /\ Len(k) >= Len(m)
                                       /\ \E n \in Child(k) :
                                            lists[n] # <<>> \/ n \in tables \ path
<1>1. Pruned(lists, tables, path) = tables \ {m \in path : ~ Kept(m)}
  BY DEF Pruned
<1>2. \A n \in Node : n \in Seq(Bit) /\ Len(n) \in Depth /\ Len(n) \in Nat
  BY NodeFacts, DepthFacts
<1>3. Stride \in Nat \ {0}
  BY FibAssumption
<1>4. ASSUME NEW m \in path, Kept(m) PROVE m \in Needed(lists)
  <2>0. PICK k \in path : /\ Len(k) >= Len(m)
                          /\ \E n \in Child(k) : lists[n] # <<>> \/ n \in tables \ path
    BY <1>4
  <2>1. PICK n \in Child(k) : Len(k) >= Len(m) /\ (lists[n] # <<>> \/ n \in tables \ path)
    BY <2>0
  <2>2. /\ k \in Node /\ m \in Node /\ n \in Node /\ Len(n) = Len(k) + Stride /\ Covers(k, n)
        /\ Covers(m, p) /\ Covers(k, p)
    OBVIOUS
  <2>3. Covers(m, n) /\ Len(m) < Len(n)
    <3>1. Covers(m, k)
      BY <1>2, <2>1, <2>2, CoversFacts
    <3> QED BY <1>2, <1>3, <2>1, <2>2, <3>1, CoversFacts
  <2>4. m # n
    BY <1>2, <2>2, <2>3
  <2>5. CASE lists[n] # <<>>
    BY <2>2, <2>3, <2>4, <2>5 DEF Needed
  <2>6. CASE n \in tables \ path
    <3>1. PICK o \in Node : Covers(n, o) /\ n # o /\ lists[o] # <<>>
      BY <2>6 DEF Needed
    <3>2. Covers(m, o)
      BY <1>2, <2>2, <2>3, <3>1, CoversFacts
    <3>3. Len(n) < Len(o)
      BY <1>2, <2>2, <3>1, CoversFacts
    <3>4. m # o
      BY <1>2, <2>2, <2>3, <3>3
    <3> QED BY <2>2, <3>1, <3>2, <3>4 DEF Needed
  <2> QED BY <2>1, <2>5, <2>6
<1>5. ASSUME NEW m \in path, m \in Needed(lists) PROVE Kept(m)
  <2>1. PICK n \in Node : Covers(m, n) /\ m # n /\ lists[n] # <<>>
    BY <1>5 DEF Needed
  <2> DEFINE S == {Len(k) : k \in {j \in path : Covers(j, n) /\ j # n}}
  <2>2. Len(m) \in S /\ S \subseteq 0 .. Len(n)
    <3>1. ASSUME NEW k \in path, Covers(k, n), k # n PROVE Len(k) \in 0 .. Len(n)
      BY <1>2, <3>1, CoversFacts
    <3> QED BY <2>1, <3>1
  <2>3. PICK x \in S : \A y \in S : y <= x
    <3>1. S # {} /\ Len(n) \in Nat
      BY <1>2, <2>2
    <3> HIDE DEF S
    <3> QED BY <2>2, <3>1, MaxExists
  <2>4. PICK k \in path : x = Len(k) /\ Covers(k, n) /\ k # n
    OBVIOUS
  <2>5. Len(m) <= Len(k) /\ \A j \in path : Covers(j, n) /\ j # n => Len(j) <= Len(k)
    BY <2>2, <2>3, <2>4
  <2> HIDE DEF S
  <2>6. k \in Node /\ m \in Node /\ Len(k) < Len(n)
    BY <1>2, <2>4, CoversFacts
  <2> DEFINE d == Len(k) + Stride
             c == SubSeq(n, 1, d)
  <2>7. d \in Depth /\ d \in 0 .. Len(n) /\ d > Len(k)
    <3>1. Len(k) \in Depth /\ Len(n) \in Depth /\ Len(k) \in Nat /\ Len(n) \in Nat
      BY <1>2, <2>6
    <3>2. d \in Depth /\ d <= Len(n)
      BY <2>6, <3>1, DepthNext
    <3> QED BY <1>3, <3>1, <3>2
  <2>8. c \in Seq(Bit) /\ Len(c) = d /\ Covers(c, n)
    BY <1>2, <2>7, FirstBits
  <2>9. c \in Node
    BY <2>7, <2>8, NodeFacts
  <2>10. Covers(k, c)
    <3> HIDE DEF c
    <3>1. k \in Seq(Bit) /\ n \in Seq(Bit) /\ Len(k) \in Nat /\ Len(k) <= Len(c)
      BY <1>2, <2>6, <2>7, <2>8
    <3> QED BY <2>4, <2>8, <3>1, CoversFacts
  <2>11. c \in Child(k)
    BY <2>8, <2>9, <2>10
  <2> HIDE DEF c
  <2>12. lists[c] # <<>> \/ c \in tables \ path
    <3>1. CASE c = n
      BY <2>1, <3>1
    <3>2. CASE c # n
      <4>1. c \in Needed(lists)
        BY <2>1, <2>8, <2>9, <3>2 DEF Needed
      <4>2. c \notin path
        BY <1>2, <2>5, <2>6, <2>7, <2>8, <3>2
      <4> QED BY <4>1, <4>2
    <3> QED BY <3>1, <3>2
  <2>13. Len(k) >= Len(m)
    BY <1>2, <2>5, <2>6
  <2> QED BY <2>11, <2>12, <2>13
<1> QED BY <1>1, <1>4, <1>5

-----------------------------------------------------------------------------
(* The list of a node. *)
LEMMA ListFacts ==
  ASSUME Types, NEW n \in Node
  PROVE  /\ list[n] \in Seq(Route)
         /\ \A i \in DOMAIN list[n] : list[n][i] \in Route
         /\ \A e : In(list[n], e) => e \in Route
         /\ list[n] # <<>> <=> \E e : In(list[n], e)
<1>1. list[n] \in Seq(Route)
  BY DEF Types
<1>2. \A i \in DOMAIN list[n] : list[n][i] \in Route
  BY <1>1, LenProperties, ElementOfSeq
<1>3. list[n] # <<>> => 1 \in DOMAIN list[n]
  BY <1>1, EmptySeq, LenProperties
<1>4. list[n] = <<>> => DOMAIN list[n] = {}
  OBVIOUS
<1> QED BY <1>1, <1>2, <1>3, <1>4 DEF In

(* The ranges of the routes. *)
LEMMA RouteFacts ==
  ASSUME NEW r \in Route
  PROVE  /\ r.prefix \in Seq(Bit) /\ Len(r.prefix) \in 0 .. AddrLen /\ Len(r.prefix) \in Nat
         /\ NodesOf(r.prefix) \subseteq Node /\ NodesOf(r.prefix) # {}
         /\ TablesOf(r.prefix) \subseteq Node
         /\ \A k \in TablesOf(r.prefix) : Covers(k, r.prefix)
         /\ \A n \in NodesOf(r.prefix), m \in Node :
              Covers(m, n) /\ m # n <=> m \in TablesOf(r.prefix)
<1>1. r.prefix \in Seq(Bit) /\ Len(r.prefix) \in 0 .. AddrLen /\ Len(r.prefix) \in Nat
  BY PrefixFacts, DepthFacts
<1> QED BY <1>1, NodesOfFacts, TablesOfFacts

(* An entry in a list is in those of its range. *)
LEMMA EntryFacts ==
  ASSUME Types, Whole, NEW n \in Node, NEW e, In(list[n], e)
  PROVE  e \in Route /\ Where(list, e) = NodesOf(e.prefix) /\ n \in NodesOf(e.prefix)
<1>1. e \in Route /\ n \in Where(list, e)
  BY ListFacts DEF Where
<1> QED BY <1>1 DEF Whole

(* fib_entry_identify compares the prefixes as well, though not by itself: *)
(* in the list of a node there is one prefix of a length.                  *)
LEMMA IdentifyFacts ==
  ASSUME Types, Whole, NEW r \in Route, NEW n \in NodesOf(r.prefix), NEW i \in DOMAIN list[n]
  PROVE  fib_entry_identify(list[n][i], r) <=> RT!SameRoute(r, list[n][i])
<1> DEFINE e == list[n][i]
<1>1. n \in Node /\ n \in Seq(Bit)
  BY RouteFacts, NodeFacts
<1>2. e \in Route /\ n \in NodesOf(e.prefix)
  BY <1>1, EntryFacts DEF In
<1>3. r.prefix \in Seq(Bit) /\ e.prefix \in Seq(Bit) /\ Covers(r.prefix, n) /\ Covers(e.prefix, n)
  BY <1>2, RouteFacts, NodesOfFacts
<1> HIDE DEF e
<1>4. Len(e.prefix) = Len(r.prefix) => e.prefix = r.prefix
  <2>1. Len(r.prefix) \in Nat
    BY RouteFacts
  <2> QED BY <1>1, <1>3, <2>1, CoversFacts
<1>5. fib_entry_identify(e, r) <=> RT!SameRoute(r, e)
  BY <1>4 DEF fib_entry_identify, RT!SameRoute
<1> QED BY <1>5 DEF e

(* What lpm_add and lpm_delete find on the nodes of a range: nothing, or   *)
(* the one entry with this prefix and id, everywhere.                      *)
LEMMA HoldingFacts ==
  ASSUME Types, Good, NEW r \in Route
  PROVE  /\ Holding(r) = {} \/ Holding(r) = NodesOf(r.prefix)
         /\ Holding(r) = {} <=> \A s \in Route : RT!SameRoute(r, s) => Where(list, s) = {}
         /\ Holding(r) # {} => \E s \in Route :
              /\ RT!SameRoute(r, s) /\ Where(list, s) = NodesOf(r.prefix)
              /\ \A n \in NodesOf(r.prefix) :
                   Matches(list[n], r) # {} /\ list[n][FirstMatch(list[n], r)] = s
<1> USE DEF Good
<1>0. NodesOf(r.prefix) \subseteq Node /\ NodesOf(r.prefix) # {}
  BY RouteFacts
<1>1. ASSUME NEW s \in Route, RT!SameRoute(r, s), Where(list, s) # {}
      PROVE  /\ Where(list, s) = NodesOf(r.prefix) /\ Holding(r) = NodesOf(r.prefix)
             /\ \A n \in NodesOf(r.prefix) :
                  Matches(list[n], r) # {} /\ list[n][FirstMatch(list[n], r)] = s
  <2>1. s.prefix = r.prefix /\ Where(list, s) = NodesOf(r.prefix)
    BY <1>1 DEF Whole, RT!SameRoute
  <2>2. ASSUME NEW n \in NodesOf(r.prefix)
        PROVE  Matches(list[n], r) # {} /\ list[n][FirstMatch(list[n], r)] = s
    <3>1. PICK i \in DOMAIN list[n] : list[n][i] = s
      BY <2>1 DEF Where, In
    <3>2. i \in Matches(list[n], r)
      BY <1>1, <3>1, IdentifyFacts DEF Matches
    <3>3. n \in Node /\ list[n] \in Seq(Route) /\ Ordered(list[n])
      BY <1>0, ListFacts DEF Lists
    <3> DEFINE f == FirstMatch(list[n], r)
    <3>4. f \in DOMAIN list[n] /\ fib_entry_identify(list[n][f], r) /\ list[n][f] \in Route
      BY <3>2, <3>3, DeleteFacts
    <3> HIDE DEF f
    <3>5. RT!SameRoute(r, list[n][f]) /\ Where(list, list[n][f]) # {}
      BY <3>3, <3>4, IdentifyFacts DEF Where, In
    <3>6. list[n][f] = s
      BY <1>1, <3>4, <3>5 DEF Distinct, RT!SameRoute
    <3> QED BY <3>2, <3>6 DEF f
  <2>3. Holding(r) = NodesOf(r.prefix)
    BY <2>2 DEF Holding
  <2> QED BY <2>1, <2>2, <2>3
<1>2. ASSUME Holding(r) # {} PROVE \E s \in Route : RT!SameRoute(r, s) /\ Where(list, s) # {}
  <2>1. PICK n \in NodesOf(r.prefix) : Matches(list[n], r) # {}
    BY <1>2 DEF Holding
  <2>2. PICK i \in DOMAIN list[n] : fib_entry_identify(list[n][i], r)
    BY <2>1 DEF Matches
  <2>3. list[n][i] \in Route /\ n \in Where(list, list[n][i])
    BY <1>0, ListFacts DEF Where, In
  <2> QED BY <2>2, <2>3, IdentifyFacts
<1> QED BY <1>0, <1>1, <1>2

(* The routes installed are those in the lists. *)
LEMMA InstalledFacts ==
  ASSUME Types, Counts
  PROVE  \A r \in Route : r \in Installed <=> Where(list, r) # {}
<1> SUFFICES ASSUME NEW r \in Route PROVE ref[r] > 0 <=> Where(list, r) # {}
  BY DEF Installed
<1>1. IsFiniteSet(Where(list, r))
  BY NodesFinite, FS_Subset DEF Where
<1>2. Cardinality(Where(list, r)) \in Nat /\ (Cardinality(Where(list, r)) = 0 <=> Where(list, r) = {})
  BY <1>1, FS_CardinalityType, FS_EmptySet
<1> QED BY <1>2 DEF Counts

(* The same of the next state. *)
LEMMA InstalledNext ==
  ASSUME Types', Counts'
  PROVE  \A r \in Route : r \in Installed' <=> Where(list', r) # {}
<1> SUFFICES ASSUME NEW r \in Route PROVE ref'[r] > 0 <=> Where(list', r) # {}
  BY DEF Installed
<1>1. IsFiniteSet(Where(list', r))
  BY NodesFinite, FS_Subset DEF Where
<1>2. Cardinality(Where(list', r)) \in Nat /\ (Cardinality(Where(list', r)) = 0 <=> Where(list', r) = {})
  BY <1>1, FS_CardinalityType, FS_EmptySet
<1> QED BY <1>2 DEF Counts

-----------------------------------------------------------------------------
(* An entry is inserted in lists of its range that do not have it. *)
LEMMA InsertedFacts ==
  ASSUME Types, Counts, NEW r \in Route, NEW at, at \subseteq NodesOf(r.prefix),
         \A n \in at : ~ In(list[n], r),
         list' = Inserted(r, at), ref' = [ref EXCEPT ![r] = @ + Cardinality(at)]
  PROVE  /\ list' \in [Node -> Seq(Route)] /\ ref' \in [Route -> Nat]
         /\ Where(list', r) = Where(list, r) \union at
         /\ \A e : e # r => Where(list', e) = Where(list, e)
         /\ Counts'
         /\ Lists => Lists'
         /\ at # {} => Needed(list') = Needed(list) \union TablesOf(r.prefix)
<1>0. at \subseteq Node /\ list \in [Node -> Seq(Route)]
  BY RouteFacts DEF Types
<1>1. \A n \in Node : /\ n \in at => list'[n] = lpm_entry_insert(list[n], r)
                      /\ n \notin at => list'[n] = list[n]
  BY DEF Inserted
<1>2. ASSUME NEW n \in Node
      PROVE  /\ list'[n] \in Seq(Route)
             /\ \A e : In(list'[n], e) <=> In(list[n], e) \/ (n \in at /\ e = r)
             /\ Ordered(list[n]) => Ordered(list'[n])
             /\ list'[n] # <<>> <=> list[n] # <<>> \/ n \in at
  <2>1. list[n] \in Seq(Route)
    BY <1>0
  <2>2. CASE n \in at
    <3>1. list'[n] = lpm_entry_insert(list[n], r) /\ ~ In(list[n], r)
      BY <1>1, <2>2
    <3> DEFINE t == lpm_entry_insert(list[n], r)
    <3>2. /\ t \in Seq(Route) /\ t # <<>> /\ \A e : In(t, e) <=> In(list[n], e) \/ e = r
          /\ Ordered(list[n]) /\ ~ In(list[n], r) => Ordered(t)
      BY <2>1, InsertFacts
    <3> HIDE DEF t
    <3>3. list'[n] = t
      BY <3>1 DEF t
    <3> QED BY <2>2, <3>1, <3>2, <3>3
  <2>3. CASE n \notin at
    BY <1>1, <2>1, <2>3
  <2> QED BY <2>2, <2>3
<1>3. list' \in [Node -> Seq(Route)]
  <2>1. list' = [n \in Node |-> list'[n]]
    BY DEF Inserted
  <2> QED BY <1>2, <2>1
<1>4. Where(list', r) = Where(list, r) \union at
  BY <1>0, <1>2 DEF Where
<1>5. ASSUME NEW e, e # r PROVE Where(list', e) = Where(list, e)
  <2>1. \A n \in Node : In(list'[n], e) <=> In(list[n], e)
    BY <1>2, <1>5
  <2> QED BY <2>1 DEF Where
<1>6. Lists => Lists'
  BY <1>2 DEF Lists
<1>7. IsFiniteSet(at) /\ IsFiniteSet(Where(list, r)) /\ Where(list, r) \intersect at = {}
  <2>1. Where(list, r) \subseteq Node
    BY DEF Where
  <2> QED BY <1>0, <2>1, NodesFinite, FS_Subset DEF Where
<1>8. /\ Cardinality(at) \in Nat
      /\ Cardinality(Where(list, r) \union at) = Cardinality(Where(list, r)) + Cardinality(at)
  <2>1. Cardinality(at) \in Nat /\ Cardinality(Where(list, r)) \in Nat
    BY <1>7, FS_CardinalityType
  <2>2. Cardinality(Where(list, r) \union at) =
          Cardinality(Where(list, r)) + Cardinality(at) - Cardinality(Where(list, r) \intersect at)
    BY <1>7, FS_Union
  <2>3. Cardinality(Where(list, r) \intersect at) = 0
    BY <1>7, FS_EmptySet
  <2> QED BY <2>1, <2>2, <2>3
<1>9. ref' \in [Route -> Nat]
  BY <1>8 DEF Types
<1>10. Counts'
  <2> SUFFICES ASSUME NEW e \in Route PROVE ref'[e] = Cardinality(Where(list', e))
    BY DEF Counts, Where, In
  <2>1. CASE e = r
    BY <1>4, <1>8, <2>1 DEF Counts, Types
  <2>2. CASE e # r
    BY <1>5, <2>2 DEF Counts, Types
  <2> QED BY <2>1, <2>2
<1>11. ASSUME at # {} PROVE Needed(list') = Needed(list) \union TablesOf(r.prefix)
  <2>1. \A n \in at, m \in Node : Covers(m, n) /\ m # n <=> m \in TablesOf(r.prefix)
    BY RouteFacts
  <2>2. TablesOf(r.prefix) \subseteq Node
    BY RouteFacts
  <2> QED BY <1>0, <1>2, <1>11, <2>1, <2>2 DEF Needed
<1> QED BY <1>3, <1>4, <1>5, <1>6, <1>9, <1>10, <1>11

(* A route is new: it becomes installed, in every list of its range. *)
LEMMA UpdateFacts ==
  ASSUME IInv, NEW r \in Route, fib_route_update(r)
  PROVE  IInv' /\ RT!Install(r)
<1> USE DEF IInv
<1>0. ~ fault /\ Good /\ fault' = fault /\ fails' = fails /\ Holding(r) = {}
      /\ list' = Inserted(r, NodesOf(r.prefix))
      /\ ref' = [ref EXCEPT ![r] = @ + Cardinality(NodesOf(r.prefix))]
      /\ table' = table \union TablesOf(r.prefix)
  BY DEF fib_route_update
<1>1. \A e \in Route : RT!SameRoute(r, e) => Where(list, e) = {}
  BY <1>0, HoldingFacts
<1>2. Where(list, r) = {}
  BY <1>1 DEF RT!SameRoute
<1>3. NodesOf(r.prefix) \subseteq Node /\ NodesOf(r.prefix) # {} /\ TablesOf(r.prefix) \subseteq Node
  BY RouteFacts
<1>4. \A n \in NodesOf(r.prefix) : ~ In(list[n], r)
  BY <1>2, <1>3 DEF Where
<1>5. /\ list' \in [Node -> Seq(Route)] /\ ref' \in [Route -> Nat]
      /\ Where(list', r) = NodesOf(r.prefix)
      /\ \A e : e # r => Where(list', e) = Where(list, e)
      /\ Counts' /\ Lists'
      /\ Needed(list') = Needed(list) \union TablesOf(r.prefix)
  <2> DEFINE at == NodesOf(r.prefix)
  <2>1. at \subseteq NodesOf(r.prefix) /\ at # {} /\ Types /\ Counts /\ Lists
    BY <1>0, <1>3 DEF Good
  <2>2. list' = Inserted(r, at) /\ ref' = [ref EXCEPT ![r] = @ + Cardinality(at)]
    BY <1>0
  <2>3. \A n \in at : ~ In(list[n], r)
    BY <1>4
  <2> HIDE DEF at
  <2>4. /\ list' \in [Node -> Seq(Route)] /\ ref' \in [Route -> Nat]
        /\ Where(list', r) = Where(list, r) \union at
        /\ \A e : e # r => Where(list', e) = Where(list, e)
        /\ Counts' /\ Lists'
        /\ Needed(list') = Needed(list) \union TablesOf(r.prefix)
    BY <2>1, <2>2, <2>3, InsertedFacts
  <2>5. Where(list, r) \union at = NodesOf(r.prefix)
    BY <1>2 DEF at
  <2> QED BY <2>4, <2>5
<1>6. Types' /\ Tables'
  BY <1>0, <1>3, <1>5 DEF Types, Tables
<1>7. Whole'
  <2>1. \A e \in Route : Where(list', e) = {} \/ Where(list', e) = NodesOf(e.prefix)
    BY <1>0, <1>5 DEF Good, Whole
  <2> QED BY <2>1 DEF Whole, Where, In, NodesOf, EntryDepth
<1>8. Distinct'
  <2>1. \A e, g \in Route : Where(list', e) # {} /\ Where(list', g) # {} /\ RT!SameRoute(e, g) => e = g
    BY <1>0, <1>1, <1>5 DEF Good, Distinct, RT!SameRoute
  <2> QED BY <2>1 DEF Distinct, Where, In, RT!SameRoute
<1>9. IInv'
  BY <1>5, <1>6, <1>7, <1>8 DEF Good
<1>10. \A e \in Route : e \in Installed <=> Where(list, e) # {}
  BY InstalledFacts
<1>11. \A e \in Route : e \in Installed' <=> Where(list', e) # {}
  BY <1>5, <1>9, InstalledNext
<1>12. Installed' = Installed \union {r}
  <2>1. Installed \subseteq Route /\ Installed' \subseteq Route
    BY DEF Installed
  <2> QED BY <1>3, <1>5, <1>10, <1>11, <2>1
<1>13. RT!Install(r)
  BY <1>1, <1>10, <1>12 DEF RT!Install, Installed
<1> QED BY <1>9, <1>13

(* Nothing but the counter of failures and fault change. *)
LEMMA SameFacts ==
  ASSUME IInv, ~ fault, UNCHANGED <<list, table, ref>>,
         fails' \in 0 .. MaxFail, fault' \in BOOLEAN
  PROVE  IInv' /\ Installed' = Installed
<1>1. list' = list /\ table' = table /\ ref' = ref
  OBVIOUS
<1>2. Types' /\ Tables' /\ Counts'
  <2>1. Types'
    BY <1>1 DEF IInv, Types
  <2>2. Tables'
    BY <1>1 DEF IInv, Tables
  <2>3. Counts'
    BY <1>1 DEF IInv, Counts
  <2> QED BY <2>1, <2>2, <2>3
<1>3. Whole' /\ Distinct' /\ Lists'
  BY <1>1 DEF IInv, Good, Whole, Distinct, Lists, Ordered, Where, In, NodesOf, RT!SameRoute
<1>4. Installed' = Installed
  BY <1>1 DEF Installed
<1> QED BY <1>2, <1>3, <1>4 DEF IInv, Good

(* Tables on the way to a node are allocated and freed again. *)
LEMMA PathFacts ==
  ASSUME Types, Tables, NEW r \in Route, NEW path, path \subseteq TablesOf(r.prefix)
  PROVE  Pruned(list, table \union path, path) = table
<1> DEFINE tables == table \union path
<1>1. path \subseteq Node /\ \A k \in path : Covers(k, r.prefix)
  BY RouteFacts
<1>2. tables \subseteq Node /\ path \subseteq tables
  BY <1>1 DEF Types
<1>3. Needed(list) \subseteq tables /\ tables \ path \subseteq Needed(list)
  BY DEF Tables
<1>4. r.prefix \in Seq(Bit)
  BY RouteFacts
<1> HIDE DEF tables
<1>5. Pruned(list, tables, path) = Needed(list)
  BY <1>1, <1>2, <1>3, <1>4, PruneFacts
<1> QED BY <1>5 DEF Tables, tables

(* lpm_add stops at the first node: nothing happened. *)
LEMMA StopFirst ==
  ASSUME Types, Tables, NEW r \in Route, NEW n, NodesBefore(n, r.prefix) = {}, StopAt(r, n)
  PROVE  UNCHANGED <<list, table, ref>> /\ fault' = FALSE
<1>1. fault' = FALSE
  BY DEF StopAt
<1>2. CASE Len(r.prefix) <= First
  BY <1>1, <1>2 DEF StopAt
<1>3. CASE ~ (Len(r.prefix) <= First)
  <2>1. /\ list' = Inserted(r, {})
        /\ ref' = [ref EXCEPT ![r] = @ + Cardinality({})]
        /\ table' = Pruned(list', table \union TablesOf(r.prefix), TablesOf(r.prefix))
    BY <1>3 DEF StopAt
  <2>2. list' = list
    BY <2>1 DEF Inserted, Types
  <2>3. ref' = ref
    BY <2>1, FS_EmptySet DEF Types
  <2>4. table' = table
    BY <2>1, <2>2, PathFacts
  <2> QED BY <1>1, <2>2, <2>3, <2>4
<1> QED BY <1>2, <1>3

(* The route is there: it is refused at the first node. *)
LEMMA ExistsFacts ==
  ASSUME IInv, NEW r \in Route, UpdateExists(r)
  PROVE  /\ IInv' /\ Installed' = Installed
         /\ \E s \in Installed : RT!SameRoute(r, s)
<1> USE DEF IInv
<1>1. ~ fault /\ fails' = fails /\ Good
  BY DEF UpdateExists
<1>2. PICK n \in Holding(r) : (\A m \in Holding(r) : ~ Before(m, n)) /\ StopAt(r, n)
  BY DEF UpdateExists
<1>3. Holding(r) = NodesOf(r.prefix)
  BY <1>1, <1>2, HoldingFacts
<1>4. NodesBefore(n, r.prefix) = {}
  BY <1>2, <1>3 DEF NodesBefore
<1>5. UNCHANGED <<list, table, ref>> /\ fault' = FALSE
  BY <1>2, <1>4, StopFirst
<1>6. fails' \in 0 .. MaxFail /\ fault' \in BOOLEAN
  BY <1>1, <1>5 DEF Types
<1>7. IInv' /\ Installed' = Installed
  <2> HIDE DEF IInv
  <2> QED BY <1>1, <1>5, <1>6, SameFacts
<1>8. PICK s \in Route : RT!SameRoute(r, s) /\ Where(list, s) = NodesOf(r.prefix)
  BY <1>1, <1>2, HoldingFacts
<1>9. s \in Installed
  BY <1>8, InstalledFacts, RouteFacts
<1> QED BY <1>7, <1>8, <1>9

(* There is no memory for an lpm_entry. *)
LEMMA NoEntryFacts ==
  ASSUME IInv, NEW r \in Route, UpdateNoEntry(r)
  PROVE  /\ IInv' /\ (Installed' = Installed \/ RT!Install(r))
         /\ ~ fault' => UNCHANGED <<list, table, ref>>
<1> USE DEF IInv
<1>1. /\ ~ fault /\ Good /\ fails < MaxFail /\ fails' = fails + 1
  BY DEF UpdateNoEntry
<1>2. PICK n \in NodesOf(r.prefix) : (\A m \in Holding(r) : ~ Before(m, n)) /\ StopAt(r, n)
  BY DEF UpdateNoEntry
<1>3. fails' \in 0 .. MaxFail
  BY <1>1, FibAssumption DEF Types
<1> DEFINE done == NodesBefore(n, r.prefix)
<1>4. fault' = (done # {}) /\ fault' \in BOOLEAN
  BY <1>2 DEF StopAt
<1>5. CASE done = {}
  <2>1. UNCHANGED <<list, table, ref>>
    BY <1>2, <1>5, StopFirst
  <2> HIDE DEF IInv
  <2> QED BY <1>1, <1>3, <1>4, <2>1, SameFacts
<1>6. CASE done # {} /\ Len(r.prefix) <= First
  <2>1. UNCHANGED <<list, table, ref>>
    BY <1>2, <1>6 DEF StopAt
  <2> HIDE DEF IInv, done
  <2> QED BY <1>1, <1>3, <1>4, <1>6, <2>1, SameFacts
<1>7. CASE done # {} /\ ~ (Len(r.prefix) <= First)
  <2>1. /\ list' = Inserted(r, done)
        /\ ref' = [ref EXCEPT ![r] = @ + Cardinality(done)]
        /\ table' = Pruned(list', table \union TablesOf(r.prefix), TablesOf(r.prefix))
    BY <1>2, <1>7 DEF StopAt
  <2>2. done \subseteq NodesOf(r.prefix) /\ done \intersect Holding(r) = {}
    BY <1>2 DEF NodesBefore
  <2>3. fault'
    BY <1>4, <1>7
  <2> HIDE DEF done
  <2>4. \A e \in Route : RT!SameRoute(r, e) => Where(list, e) = {}
    BY <1>1, <1>7, <2>2, HoldingFacts
  <2>5. Where(list, r) = {}
    BY <2>4 DEF RT!SameRoute
  <2>6. \A m \in done : ~ In(list[m], r)
    BY <2>2, <2>5, RouteFacts DEF Where
  <2>7. /\ list' \in [Node -> Seq(Route)] /\ ref' \in [Route -> Nat]
        /\ Where(list', r) = Where(list, r) \union done
        /\ \A e : e # r => Where(list', e) = Where(list, e)
        /\ Counts'
        /\ Needed(list') = Needed(list) \union TablesOf(r.prefix)
    BY <1>7, <2>1, <2>2, <2>6, InsertedFacts
  <2>8. table' = Needed(list')
    <3> DEFINE path == TablesOf(r.prefix)
               tables == table \union path
    <3>1. tables \subseteq Node /\ path \subseteq tables /\ \A k \in path : Covers(k, r.prefix)
      BY RouteFacts DEF Types
    <3>2. Needed(list') = tables
      BY <2>7 DEF Tables
    <3>3. table' = Pruned(list', tables, path)
      BY <2>1
    <3> HIDE DEF path, tables
    <3> QED BY <3>1, <3>2, <3>3, RouteFacts, PruneFacts
  <2>9. Types' /\ Tables'
    <3>1. table' \subseteq Node
      BY <2>8 DEF Needed
    <3> QED BY <1>3, <1>4, <2>7, <2>8, <3>1 DEF Types, Tables
  <2>10. IInv'
    BY <2>3, <2>7, <2>9
  <2>11. \A e \in Route : e \in Installed <=> Where(list, e) # {}
    BY InstalledFacts
  <2>12. \A e \in Route : e \in Installed' <=> Where(list', e) # {}
    BY <2>7, <2>9, InstalledNext
  <2>13. Installed' = Installed \union {r}
    <3>1. Installed \subseteq Route /\ Installed' \subseteq Route
      BY DEF Installed
    <3> QED BY <1>7, <2>7, <2>11, <2>12, <3>1
  <2>14. RT!Install(r)
    BY <2>4, <2>11, <2>13 DEF RT!Install, Installed
  <2> QED BY <2>3, <2>10, <2>14
<1> QED BY <1>5, <1>6, <1>7

(* There is no memory for a table: those allocated before are freed. *)
LEMMA NoTableFacts ==
  ASSUME IInv, NEW r \in Route, UpdateNoTable(r)
  PROVE  IInv' /\ Installed' = Installed /\ UNCHANGED <<list, table, ref>>
<1>1. ~ fault /\ fails < MaxFail /\ fails' = fails + 1 /\ list' = list /\ ref' = ref /\ fault' = fault
  BY DEF UpdateNoTable
<1>2. table' = table
  <2>1. PICK m \in TablesOf(r.prefix) \ table :
          LET path == {k \in TablesOf(r.prefix) : Len(k) < Len(m)}
          IN  table' = Pruned(list, table \union path, path)
    BY DEF UpdateNoTable
  <2> DEFINE path == {k \in TablesOf(r.prefix) : Len(k) < Len(m)}
  <2>2. path \subseteq TablesOf(r.prefix) /\ table' = Pruned(list, table \union path, path)
    BY <2>1
  <2> HIDE DEF path
  <2> QED BY <2>2, PathFacts DEF IInv
<1>3. fails' \in 0 .. MaxFail /\ fault' \in BOOLEAN
  BY <1>1, FibAssumption DEF IInv, Types
<1>4. UNCHANGED <<list, table, ref>>
  BY <1>1, <1>2
<1> QED BY <1>1, <1>3, <1>4, SameFacts

(* The route with this prefix and id is taken out of every list of its     *)
(* range.                                                                  *)
LEMMA RouteDeleteFacts ==
  ASSUME IInv, NEW r \in Route, fib_route_delete(r)
  PROVE  IInv' /\ RT!Remove(r)
<1> USE DEF IInv
<1> DEFINE at == NodesOf(r.prefix)
<1>0. /\ ~ fault /\ Good /\ fault' = fault /\ fails' = fails /\ Holding(r) = at
      /\ list' = [n \in Node |-> IF n \in at THEN lpm_entry_delete(list[n], r) ELSE list[n]]
      /\ ref' = [e \in Route |->
                   ref[e] - Cardinality({n \in at : list[n][FirstMatch(list[n], r)] = e})]
      /\ table' = Pruned(list', table, TablesOf(r.prefix)) /\ TablesOf(r.prefix) \subseteq table
  BY DEF fib_route_delete, Deleted
<1>1. at \subseteq Node /\ at # {}
  BY RouteFacts
<1>2. PICK s \in Route :
        /\ RT!SameRoute(r, s) /\ Where(list, s) = at
        /\ \A n \in at : Matches(list[n], r) # {} /\ list[n][FirstMatch(list[n], r)] = s
  BY <1>0, <1>1, HoldingFacts
<1> HIDE DEF at
<1>3. ASSUME NEW n \in Node
      PROVE  /\ list'[n] \in Seq(Route) /\ Ordered(list'[n])
             /\ \A e : In(list'[n], e) <=> In(list[n], e) /\ ~ (n \in at /\ e = s)
             /\ n \notin at => list'[n] = list[n]
  <2>1. list[n] \in Seq(Route) /\ Ordered(list[n])
    BY <1>0, ListFacts DEF Good, Lists
  <2>2. CASE n \in at
    <3> DEFINE t == lpm_entry_delete(list[n], r)
    <3>1. list'[n] = t
      BY <1>0, <2>2
    <3>2. Matches(list[n], r) # {} /\ list[n][FirstMatch(list[n], r)] = s
      BY <1>2, <2>2
    <3>3. /\ t \in Seq(Route) /\ Ordered(t)
          /\ \A e : In(t, e) <=> In(list[n], e) /\ e # s
      BY <2>1, <3>2, DeleteFacts
    <3> HIDE DEF t
    <3> QED BY <2>2, <3>1, <3>3
  <2>3. CASE n \notin at
    BY <1>0, <2>1, <2>3
  <2> QED BY <2>2, <2>3
<1>4. list' \in [Node -> Seq(Route)]
  <2>1. list' = [n \in Node |-> list'[n]]
    BY <1>0
  <2> QED BY <1>3, <2>1
<1>5. Where(list', s) = {}
  BY <1>2, <1>3 DEF Where
<1>6. ASSUME NEW e, e # s PROVE Where(list', e) = Where(list, e)
  <2>1. \A n \in Node : In(list'[n], e) <=> In(list[n], e)
    BY <1>3, <1>6
  <2> QED BY <2>1 DEF Where
<1>7. ASSUME NEW e \in Route
      PROVE  /\ ref'[e] = Cardinality(Where(list', e)) /\ ref'[e] \in Nat
  <2> DEFINE gone == {n \in at : list[n][FirstMatch(list[n], r)] = e}
  <2>1. ref'[e] = ref[e] - Cardinality(gone)
    BY <1>0
  <2>2. ref[e] = Cardinality(Where(list, e)) /\ ref[e] \in Nat
    BY DEF Counts, Types
  <2>3. CASE e = s
    <3>1. gone = Where(list, e)
      BY <1>2, <2>3
    <3>2. Cardinality(Where(list', e)) = 0
      BY <1>5, <2>3, FS_EmptySet
    <3> HIDE DEF gone
    <3> QED BY <2>1, <2>2, <3>1, <3>2
  <2>4. CASE e # s
    <3>1. gone = {}
      BY <1>2, <2>4
    <3>2. Cardinality(gone) = 0
      BY <3>1, FS_EmptySet
    <3> HIDE DEF gone
    <3> QED BY <1>6, <2>1, <2>2, <2>4, <3>2
  <2> QED BY <2>3, <2>4
<1>8. ref' \in [Route -> Nat] /\ Counts'
  <2>1. ref' = [e \in Route |-> ref'[e]]
    BY <1>0
  <2> QED BY <1>7, <2>1 DEF Counts, Where, In
<1>9. table' = Needed(list')
  <2> DEFINE path == TablesOf(r.prefix)
  <2>1. /\ table \subseteq Node /\ path \subseteq table /\ table' = Pruned(list', table, path)
        /\ \A k \in path : Covers(k, r.prefix)
    BY <1>0, RouteFacts DEF Types
  <2>2. ASSUME NEW n \in Node, list'[n] # <<>> PROVE list[n] # <<>>
    <3>1. list'[n] \in Seq(Route) /\ list'[n][1] \in Route /\ 1 \in DOMAIN list'[n]
      BY <1>3, <2>2, EmptySeq, LenProperties
    <3>2. In(list[n], list'[n][1])
      BY <1>3, <3>1 DEF In
    <3> QED BY <3>2, ListFacts
  <2>3. Needed(list') \subseteq table
    BY <2>2 DEF Tables, Needed
  <2>4. ASSUME NEW m \in table \ path PROVE m \in Needed(list')
    <3>1. PICK n \in Node : Covers(m, n) /\ m # n /\ list[n] # <<>>
      BY DEF Tables, Needed
    <3>2. n \notin at
      BY <2>1, <3>1, RouteFacts DEF at
    <3>3. list'[n] # <<>>
      BY <1>3, <3>1, <3>2
    <3> QED BY <2>1, <3>1, <3>3 DEF Needed
  <2> HIDE DEF path
  <2> QED BY <2>1, <2>3, <2>4, RouteFacts, PruneFacts
<1>10. Types' /\ Tables'
  <2>1. table' \subseteq Node
    BY <1>9 DEF Needed
  <2> QED BY <1>0, <1>4, <1>8, <1>9, <2>1 DEF Types, Tables
<1>11. Whole'
  <2>1. \A e \in Route : Where(list', e) = {} \/ Where(list', e) = NodesOf(e.prefix)
    BY <1>0, <1>5, <1>6 DEF Good, Whole
  <2> QED BY <2>1 DEF Whole, Where, In, NodesOf, EntryDepth
<1>12. Distinct'
  <2>1. \A e, g \in Route : Where(list', e) # {} /\ Where(list', g) # {} /\ RT!SameRoute(e, g) => e = g
    BY <1>0, <1>5, <1>6 DEF Good, Distinct
  <2> QED BY <2>1 DEF Distinct, Where, In, RT!SameRoute
<1>13. Lists'
  BY <1>3 DEF Lists
<1>14. IInv'
  BY <1>8, <1>10, <1>11, <1>12, <1>13 DEF Good
<1>15. \A e \in Route : e \in Installed <=> Where(list, e) # {}
  BY InstalledFacts
<1>16. \A e \in Route : e \in Installed' <=> Where(list', e) # {}
  BY <1>8, <1>10, InstalledNext
<1>17. \A e \in Route : e \in Installed' <=> e \in Installed /\ ~ RT!SameRoute(r, e)
  <2>1. \A e \in Route : Where(list, e) # {} /\ RT!SameRoute(r, e) => e = s
    BY <1>0, <1>1, <1>2 DEF Good, Distinct, RT!SameRoute
  <2> QED BY <1>2, <1>5, <1>6, <1>15, <1>16, <2>1
<1>18. Installed \subseteq Route /\ Installed' \subseteq Route
  BY DEF Installed
<1>19. Installed' = {e \in Installed : ~ RT!SameRoute(r, e)}
  BY <1>17, <1>18
<1> QED BY <1>14, <1>19 DEF RT!Remove, RT!SameRoute

(* No such route: nothing is taken out. *)
LEMMA MissingFacts ==
  ASSUME IInv, NEW r \in Route, DeleteMissing(r)
  PROVE  IInv' /\ Installed' = Installed /\ RT!Remove(r)
<1> USE DEF IInv
<1>1. ~ fault /\ Good /\ table' = table /\ fails' = fails /\ fault' = fault
  BY DEF DeleteMissing
<1>2. list' = list /\ ref' = ref /\ Holding(r) = {}
  <2>1. CASE TablesOf(r.prefix) \subseteq table
    <3>1. PICK m \in NodesOf(r.prefix) \ Holding(r) :
            /\ NodesBefore(m, r.prefix) \subseteq Holding(r)
            /\ Deleted(r, NodesBefore(m, r.prefix))
      BY <2>1 DEF DeleteMissing
    <3>2. Holding(r) = {}
      BY <1>1, <3>1, HoldingFacts
    <3>3. Deleted(r, {})
      BY <3>1, <3>2
    <3>4. list' = list
      BY <3>3 DEF Deleted, Types
    <3>5. ref' = [e \in Route |-> ref[e] - Cardinality({n \in {} : list[n][FirstMatch(list[n], r)] = e})]
      BY <3>3 DEF Deleted
    <3>6. \A e \in Route : ref[e] - Cardinality({n \in {} : list[n][FirstMatch(list[n], r)] = e}) = ref[e]
      <4>1. \A e : {n \in {} : list[n][FirstMatch(list[n], r)] = e} = {}
        OBVIOUS
      <4> QED BY <4>1, FS_EmptySet DEF Types
    <3>7. ref' = ref
      BY <3>5, <3>6 DEF Types
    <3> QED BY <3>2, <3>4, <3>7
  <2>2. CASE ~ (TablesOf(r.prefix) \subseteq table)
    <3>1. list' = list /\ ref' = ref
      BY <2>2 DEF DeleteMissing
    <3>2. ASSUME Holding(r) # {} PROVE FALSE
      <4>1. PICK s \in Route : Where(list, s) = NodesOf(r.prefix)
        BY <1>1, <3>2, HoldingFacts
      <4>2. PICK n \in NodesOf(r.prefix) : n \in Node /\ In(list[n], s)
        BY <4>1, RouteFacts DEF Where
      <4>3. list[n] # <<>>
        BY <4>2, ListFacts
      <4>4. TablesOf(r.prefix) \subseteq Needed(list)
        BY <4>2, <4>3, RouteFacts DEF Needed
      <4> QED BY <2>2, <4>4 DEF Tables
    <3> QED BY <3>1, <3>2
  <2> QED BY <2>1, <2>2
<1>3. fails' \in 0 .. MaxFail /\ fault' \in BOOLEAN /\ UNCHANGED <<list, table, ref>>
  BY <1>1, <1>2 DEF Types
<1>4. IInv' /\ Installed' = Installed
  <2> HIDE DEF IInv
  <2> QED BY <1>1, <1>3, SameFacts
<1>5. \A s \in Installed : ~ RT!SameRoute(r, s)
  <2>1. \A s \in Route : RT!SameRoute(r, s) => Where(list, s) = {}
    BY <1>1, <1>2, HoldingFacts
  <2> QED BY <2>1, InstalledFacts DEF Installed
<1>6. RT!Remove(r)
  <2>1. Installed' = {s \in Installed : ~ RT!SameRoute(r, s)}
    BY <1>4, <1>5
  <2> QED BY <2>1 DEF RT!Remove, RT!SameRoute
<1> QED BY <1>4, <1>6

(* fib_release reaches every list with an entry and every table. *)
LEMMA ReleaseFacts ==
  ASSUME IInv, fib_release
  PROVE  IInv' /\ RT!Clear
<1> USE DEF IInv
<1> DEFINE reached == {n \in Node : \A d \in Depth : d < Len(n) => SubSeq(n, 1, d) \in table}
<1>0. /\ ~ fault /\ Good /\ fault' = fault /\ fails' = fails
      /\ list' = [n \in Node |-> IF n \in reached THEN <<>> ELSE list[n]]
      /\ table' = table \ reached
      /\ ref' = [e \in Route |->
                   ref[e] - Cardinality({n \in reached : \E i \in DOMAIN list[n] : list[n][i] = e})]
  BY DEF fib_release
<1>1. ASSUME NEW n \in Node,
             \A m \in Node : Covers(m, n) /\ m # n => m \in table
      PROVE  n \in reached
  <2> SUFFICES ASSUME NEW d \in Depth, d < Len(n) PROVE SubSeq(n, 1, d) \in table
    OBVIOUS
  <2> DEFINE m == SubSeq(n, 1, d)
  <2>1. n \in Seq(Bit) /\ Len(n) \in Nat /\ d \in Nat /\ d \in 0 .. Len(n)
    BY NodeFacts, DepthFacts
  <2>2. m \in Seq(Bit) /\ Len(m) = d /\ Covers(m, n)
    BY <2>1, FirstBits
  <2> HIDE DEF m
  <2>3. m \in Node /\ m # n
    BY <2>1, <2>2, NodeFacts
  <2>4. m \in table
    BY <1>1, <2>2, <2>3
  <2> QED BY <2>4 DEF m
<1> HIDE DEF reached
<1>2. ASSUME NEW n \in Node, list[n] # <<>> PROVE n \in reached
  BY <1>1, <1>2 DEF Tables, Needed
<1>3. ASSUME NEW n \in table PROVE n \in reached
  <2>1. PICK o \in Node : Covers(n, o) /\ n # o /\ list[o] # <<>>
    BY DEF Tables, Needed
  <2>2. ASSUME NEW m \in Node, Covers(m, n), m # n PROVE m \in table
    <3>1. m \in Seq(Bit) /\ n \in Seq(Bit) /\ o \in Seq(Bit) /\ Len(n) \in Nat /\ Len(m) \in Nat
          /\ Len(o) \in Nat
      BY NodeFacts DEF Types
    <3>2. Len(m) < Len(n) /\ Len(n) < Len(o) /\ Covers(m, o)
      BY <2>1, <2>2, <3>1, CoversFacts
    <3>3. m # o
      BY <3>1, <3>2
    <3> QED BY <2>1, <3>2, <3>3 DEF Tables, Needed
  <2> QED BY <1>1, <2>2 DEF Types
<1>4. \A n \in Node : list'[n] = <<>>
  BY <1>0, <1>2
<1>5. list' \in [Node -> Seq(Route)]
  <2>1. list' = [n \in Node |-> list'[n]]
    BY <1>0
  <2> QED BY <1>4, <2>1, EmptySeq
<1>6. table' = {} /\ Needed(list') = {}
  BY <1>0, <1>3, <1>4 DEF Needed
<1>7. \A e : Where(list', e) = {}
  BY <1>4 DEF Where, In
<1>8. ASSUME NEW e \in Route PROVE ref'[e] = 0
  <2> DEFINE gone == {n \in reached : \E i \in DOMAIN list[n] : list[n][i] = e}
  <2>1. ref'[e] = ref[e] - Cardinality(gone)
    BY <1>0
  <2>2. gone = Where(list, e)
    <3>1. \A n \in Node : In(list[n], e) => n \in reached
      BY <1>2, ListFacts
    <3>2. reached \subseteq Node
      BY DEF reached
    <3> QED BY <3>1, <3>2 DEF Where, In
  <2>3. ref[e] = Cardinality(Where(list, e)) /\ ref[e] \in Nat
    BY DEF Counts, Types
  <2> HIDE DEF gone
  <2> QED BY <2>1, <2>2, <2>3
<1>9. ref' \in [Route -> Nat] /\ Counts'
  <2>1. ref' = [e \in Route |-> ref'[e]]
    BY <1>0
  <2>2. ref' \in [Route -> Nat]
    BY <1>8, <2>1
  <2>3. \A e \in Route : ref'[e] = Cardinality(Where(list', e))
    BY <1>7, <1>8, FS_EmptySet
  <2> QED BY <2>2, <2>3 DEF Counts
<1>10. Types' /\ Tables'
  BY <1>0, <1>5, <1>6, <1>9 DEF Types, Tables
<1>11. Whole' /\ Distinct'
  BY <1>7 DEF Whole, Distinct
<1>12. Lists'
  BY <1>4 DEF Lists, Ordered
<1>13. Installed' = {}
  BY <1>8 DEF Installed
<1> QED BY <1>9, <1>10, <1>11, <1>12, <1>13 DEF Good, RT!Clear

(* The empty table. *)
LEMMA InitIInv == Init => IInv /\ RT!Init
<1> SUFFICES ASSUME Init PROVE IInv /\ RT!Init
  OBVIOUS
<1> USE DEF Init
<1>1. Types
  <2>1. list \in [Node -> Seq(Route)]
    BY EmptySeq
  <2>2. fault \in BOOLEAN
    OBVIOUS
  <2> QED BY <2>1, <2>2, FibAssumption DEF Types
<1>2. \A e : Where(list, e) = {}
  BY DEF Where, In
<1>3. Tables
  BY DEF Tables, Needed
<1>4. Counts
  BY <1>2, FS_EmptySet DEF Counts
<1>5. Good
  BY <1>2 DEF Good, Whole, Distinct, Lists, Ordered
<1>6. Installed = {}
  BY DEF Installed
<1> QED BY <1>1, <1>3, <1>4, <1>5, <1>6 DEF IInv, RT!Init

(* Every call keeps the invariant and is a step of the route table. *)
LEMMA StepIInv == IInv /\ [Next]_vars => IInv' /\ [RT!Next]_Installed
<1> SUFFICES ASSUME IInv, [Next]_vars PROVE IInv' /\ (RT!Next \/ Installed' = Installed)
  OBVIOUS
<1>1. ASSUME NEW r \in Route, fib_route_update(r) \/ UpdateExists(r) \/ UpdateNoEntry(r)
             \/ UpdateNoTable(r) \/ fib_route_delete(r) \/ DeleteMissing(r)
      PROVE  IInv' /\ (RT!Next \/ Installed' = Installed)
  <2>1. CASE fib_route_update(r)
    BY <2>1, UpdateFacts DEF RT!Next
  <2>2. CASE UpdateExists(r)
    BY <2>2, ExistsFacts
  <2>3. CASE UpdateNoEntry(r)
    BY <2>3, NoEntryFacts DEF RT!Next
  <2>4. CASE UpdateNoTable(r)
    BY <2>4, NoTableFacts
  <2>5. CASE fib_route_delete(r)
    BY <2>5, RouteDeleteFacts DEF RT!Next
  <2>6. CASE DeleteMissing(r)
    BY <2>6, MissingFacts
  <2> QED BY <1>1, <2>1, <2>2, <2>3, <2>4, <2>5, <2>6
<1>2. CASE fib_release
  BY <1>2, ReleaseFacts DEF RT!Next
<1>3. CASE UNCHANGED vars
  <2>1. list' = list /\ table' = table /\ ref' = ref /\ fails' = fails /\ fault' = fault
    BY <1>3 DEF vars
  <2>2. Types' /\ Tables' /\ Counts'
    BY <2>1 DEF IInv, Types, Tables, Counts
  <2>3. Good => Good'
    BY <2>1 DEF Good, Whole, Distinct, Lists
  <2>4. Installed' = Installed
    BY <2>1 DEF Installed
  <2> QED BY <2>1, <2>2, <2>3, <2>4 DEF IInv
<1> QED BY <1>1, <1>2, <1>3 DEF Next

(* The invariant of the lists, the tables and the reference counts. *)
THEOREM FibInvariant == Spec => []IInv
<1>1. Init => IInv
  BY InitIInv
<1>2. IInv /\ [Next]_vars => IInv'
  BY StepIInv
<1> QED BY <1>1, <1>2, PTL DEF Spec

(* The FIB implements the abstract route table: a call installs, removes   *)
(* or refuses a route as a whole.                                          *)
THEOREM FibRefines == Spec => Refines
<1>1. Init => RT!Init
  BY InitIInv
<1>2. IInv /\ [Next]_vars => [RT!Next]_Installed
  BY StepIInv
<1> QED BY <1>1, <1>2, FibInvariant, PTL DEF Spec, Refines, RT!Spec

(* What the invariant says of the counts and the tables. *)
LEMMA InvCounts == IInv => RefcountExact /\ NoEmptyTable
<1> SUFFICES ASSUME IInv PROVE RefcountExact /\ NoEmptyTable
  OBVIOUS
<1>1. TypeOK
  BY ListFacts DEF IInv, Types, TypeOK
<1>2. RefcountExact
  BY <1>1 DEF IInv, Counts, RefcountExact, Where, In
<1>3. ASSUME NEW m \in table, NEW k \in Node, Covers(k, m), k # m PROVE k \in table
  <2>1. PICK n \in Node : Covers(m, n) /\ m # n /\ list[n] # <<>>
    BY DEF IInv, Tables, Needed
  <2>2. m \in Seq(Bit) /\ k \in Seq(Bit) /\ n \in Seq(Bit)
        /\ Len(k) \in Nat /\ Len(m) \in Nat /\ Len(n) \in Nat
    BY NodeFacts DEF IInv, Types
  <2>3. Len(k) < Len(m) /\ Len(m) < Len(n) /\ Covers(k, n)
    BY <1>3, <2>1, <2>2, CoversFacts
  <2>4. k # n
    BY <2>2, <2>3
  <2> QED BY <2>1, <2>3, <2>4 DEF IInv, Tables, Needed
<1>4. \A m \in table : \E n \in Node : Covers(m, n) /\ m # n /\ list[n] # <<>>
  BY DEF IInv, Tables, Needed
<1> QED BY <1>2, <1>3, <1>4 DEF NoEmptyTable

(* The reference count of a fib_entry is the number of lists it is in, so  *)
(* fib_entry_put frees it with the last one.                               *)
THEOREM FibRefcountExact == Spec => []RefcountExact
BY FibInvariant, InvCounts, PTL

(* A table is allocated only while an entry hangs below it, and never      *)
(* under a table that was freed.                                           *)
THEOREM FibNoEmptyTable == Spec => []NoEmptyTable
BY FibInvariant, InvCounts, PTL

-----------------------------------------------------------------------------
(* A route that matches an address is in the list of a node on its way,    *)
(* which lpm_lookup reaches.                                               *)
LEMMA OnTheWay ==
  ASSUME Types, Tables, Whole, NEW a \in Addr, NEW r \in Route, Where(list, r) # {}, Covers(r.prefix, a)
  PROVE  LET n == SubSeq(a, 1, EntryDepth(Len(r.prefix)))
         IN  /\ n \in NodesOf(r.prefix) /\ In(list[n], r)
             /\ \A m \in Node : Covers(m, n) /\ m # n => m \in table
<1> DEFINE D == EntryDepth(Len(r.prefix))
           n == SubSeq(a, 1, D)
<1>1. a \in Seq(Bit) /\ Len(a) = AddrLen
  BY BitSeq, DepthFacts DEF Addr
<1>2. D \in Depth /\ D \in 0 .. Len(a) /\ Len(r.prefix) <= D /\ Len(r.prefix) \in Nat /\ D \in Nat
  BY <1>1, RouteFacts, EntryDepthFacts, DepthFacts
<1>3. n \in Seq(Bit) /\ Len(n) = D /\ Covers(n, a)
  BY <1>1, <1>2, FirstBits
<1> HIDE DEF n
<1>4. n \in NodesOf(r.prefix)
  <2>1. Covers(r.prefix, n)
    BY <1>1, <1>2, <1>3, RouteFacts, CoversFacts
  <2>2. n \in Node
    BY <1>2, <1>3, NodeFacts
  <2> QED BY <1>3, <2>1, <2>2, RouteFacts, NodesOfFacts
<1>5. n \in Node /\ In(list[n], r)
  BY <1>4 DEF Whole, Where
<1>6. \A m \in Node : Covers(m, n) /\ m # n => m \in table
  BY <1>5, ListFacts DEF Tables, Needed
<1> QED BY <1>4, <1>5, <1>6 DEF n

(* A longer prefix is not kept at a shallower depth. *)
LEMMA EntryDepthOrder ==
  ASSUME NEW j \in 0 .. AddrLen, NEW k \in 0 .. AddrLen, j <= k
  PROVE  EntryDepth(j) <= EntryDepth(k)
<1>1. EntryDepth(k) \in Depth /\ EntryDepth(k) \in Nat /\ k <= EntryDepth(k)
  BY EntryDepthFacts
<1>2. \A c \in Depth : c >= j => EntryDepth(j) <= c
  BY EntryDepthFacts
<1>3. EntryDepth(k) >= j
  BY <1>1, DepthFacts
<1> QED BY <1>1, <1>2, <1>3

(* What the invariant says of fib_lookup. *)
LEMMA InvLookup == IInv => LookupLongest
<1> SUFFICES ASSUME IInv, ~ fault, NEW a \in Addr
             PROVE  /\ fib_lookup(a) \subseteq RT!Best(a)
                    /\ RT!Best(a) # {} => fib_lookup(a) # {}
  BY DEF LookupLongest
<1>0. Types /\ Tables /\ Counts /\ Whole /\ Lists
  BY DEF IInv, Good
<1> DEFINE way     == {SubSeq(a, 1, d) : d \in Depth}
           reached == {n \in way : \A m \in way : Len(m) < Len(n) => m \in table}
           hit     == {n \in reached : list[n] # <<>>}
           deepest == {k \in hit : \A m \in hit : Len(m) <= Len(k)}
<1>1. fib_lookup(a) = {list[n][1] : n \in deepest}
  BY DEF fib_lookup
<1>2. a \in Seq(Bit) /\ Len(a) = AddrLen /\ AddrLen \in Nat
  BY BitSeq, DepthFacts DEF Addr
<1>3. \A n \in way : n \in Node /\ n \in Seq(Bit) /\ Len(n) \in Depth /\ Len(n) \in 0 .. AddrLen /\ Covers(n, a)
  <2> SUFFICES ASSUME NEW d \in Depth
               PROVE  LET n == SubSeq(a, 1, d)
                      IN  n \in Node /\ n \in Seq(Bit) /\ Len(n) \in Depth /\ Len(n) \in 0 .. AddrLen
                          /\ Covers(n, a)
    OBVIOUS
  <2>1. d \in 0 .. Len(a)
    BY <1>2, DepthFacts
  <2> QED BY <1>2, <2>1, FirstBits, NodeFacts
<1>4. RT!Matching(a) = {r \in Installed : Covers(r.prefix, a)}
  BY DEF RT!Matching, RT!Covers, Covers
<1>5. \A r \in Route : r \in Installed <=> Where(list, r) # {}
  BY <1>0, InstalledFacts
<1>6. ASSUME NEW r \in RT!Matching(a)
      PROVE  /\ r \in Route /\ Len(r.prefix) \in 0 .. AddrLen
             /\ \E n \in hit : In(list[n], r) /\ Len(n) = EntryDepth(Len(r.prefix))
  <2>1. r \in Route /\ Where(list, r) # {} /\ Covers(r.prefix, a)
    BY <1>4, <1>5, <1>6 DEF Installed
  <2> DEFINE n == SubSeq(a, 1, EntryDepth(Len(r.prefix)))
  <2>2. EntryDepth(Len(r.prefix)) \in Depth
    BY <2>1, RouteFacts, EntryDepthFacts
  <2>3. n \in way
    BY <2>2
  <2>4. /\ n \in NodesOf(r.prefix) /\ In(list[n], r)
        /\ \A m \in Node : Covers(m, n) /\ m # n => m \in table
    BY <1>0, <2>1, OnTheWay
  <2> HIDE DEF n, way
  <2>5. Len(n) = EntryDepth(Len(r.prefix))
    BY <2>1, <2>4, RouteFacts, NodesOfFacts
  <2>6. ASSUME NEW m \in way, Len(m) < Len(n) PROVE m \in table
    <3>1. /\ m \in Seq(Bit) /\ n \in Seq(Bit) /\ Len(m) \in Nat /\ Len(n) \in Nat
          /\ Covers(m, a) /\ Covers(n, a) /\ m \in Node
      BY <1>2, <1>3, <2>3
    <3>2. Covers(m, n) /\ m # n
      BY <1>2, <2>6, <3>1, CoversFacts
    <3> QED BY <2>4, <3>1, <3>2
  <2>7. list[n] # <<>>
    BY <1>0, <1>3, <2>3, <2>4, ListFacts
  <2>8. n \in hit
    BY <2>3, <2>6, <2>7
  <2> QED BY <2>1, <2>4, <2>5, <2>8, RouteFacts
<1>7. ASSUME NEW n \in deepest PROVE list[n][1] \in RT!Best(a)
  <2> DEFINE e == list[n][1]
  <2>1. n \in Node /\ n \in Seq(Bit) /\ list[n] # <<>> /\ Covers(n, a) /\ Len(n) \in Nat
    BY <1>2, <1>3
  <2>2. 1 \in DOMAIN list[n] /\ DOMAIN list[n] = 1 .. Len(list[n]) /\ Len(list[n]) \in Nat
    BY <1>0, <2>1, ListFacts, EmptySeq, LenProperties
  <2>3. In(list[n], e)
    BY <2>2 DEF In
  <2> HIDE DEF e, deepest
  <2>4. e \in Route /\ Where(list, e) = NodesOf(e.prefix) /\ n \in NodesOf(e.prefix)
    BY <1>0, <2>1, <2>3, EntryFacts
  <2>5. /\ Len(n) = EntryDepth(Len(e.prefix)) /\ Covers(e.prefix, n)
        /\ e.prefix \in Seq(Bit) /\ Len(e.prefix) \in 0 .. AddrLen
    BY <2>4, RouteFacts, NodesOfFacts
  <2>6. e \in RT!Matching(a)
    <3>1. e \in Installed
      BY <1>5, <2>4
    <3>2. Covers(e.prefix, a)
      BY <1>2, <2>1, <2>5, CoversFacts
    <3> QED BY <1>4, <3>1, <3>2
  <2>7. ASSUME NEW r \in RT!Matching(a) PROVE Len(r.prefix) <= Len(e.prefix)
    <3>1. r \in Route /\ Len(r.prefix) \in 0 .. AddrLen
      BY <1>6
    <3>2. PICK m \in hit : In(list[m], r) /\ Len(m) = EntryDepth(Len(r.prefix))
      BY <1>6
    <3>3. Len(m) <= Len(n) /\ m \in Seq(Bit) /\ Covers(m, a) /\ Len(m) \in Nat
      BY <1>2, <1>3, <1>7 DEF deepest
    <3>4. CASE Len(m) = Len(n)
      <4>1. m = n
        BY <1>2, <2>1, <3>3, <3>4, CoversFacts
      <4>2. PICK i \in DOMAIN list[n] : list[n][i] = r
        BY <3>2, <4>1 DEF In
      <4>3. i = 1 \/ Len(e.prefix) >= Len(r.prefix)
        <5>1. Ordered(list[n])
          BY <1>0, <2>1 DEF Lists
        <5>2. i = 1 \/ 1 < i
          BY <2>2
        <5> QED BY <2>2, <4>2, <5>1, <5>2 DEF Ordered, e
      <4> QED BY <2>5, <3>1, <4>2, <4>3, <1>2 DEF e
    <3>5. CASE Len(m) < Len(n)
      <4>1. ~ (EntryDepth(Len(e.prefix)) <= EntryDepth(Len(r.prefix)))
        BY <2>1, <2>5, <3>2, <3>3, <3>5
      <4>2. ~ (Len(e.prefix) <= Len(r.prefix))
        BY <2>5, <3>1, <4>1, EntryDepthOrder
      <4> QED BY <1>2, <2>5, <3>1, <4>2
    <3> QED BY <2>1, <3>3, <3>4, <3>5
  <2> QED BY <2>6, <2>7 DEF RT!Best, e
<1>8. ASSUME RT!Best(a) # {} PROVE deepest # {}
  <2>1. PICK r : r \in RT!Matching(a)
    BY <1>8 DEF RT!Best
  <2>2. hit # {}
    BY <1>6, <2>1
  <2> DEFINE S == {Len(n) : n \in hit}
  <2>3. S # {} /\ S \subseteq 0 .. AddrLen
    BY <1>3, <2>2
  <2> HIDE DEF S
  <2>4. PICK x \in S : \A y \in S : y <= x
    BY <1>2, <2>3, MaxExists
  <2>5. PICK k \in hit : x = Len(k)
    BY DEF S
  <2>6. \A m \in hit : Len(m) <= Len(k)
    BY <2>4, <2>5 DEF S
  <2> QED BY <2>5, <2>6
<1> HIDE DEF deepest
<1> QED BY <1>1, <1>7, <1>8

(* fib_lookup finds a route with the longest of the prefixes that match,   *)
(* and none only if none matches.                                          *)
THEOREM FibLookupLongest == Spec => []LookupLongest
BY FibInvariant, InvLookup, PTL

(* What the nodes of a range show of a route that is installed, or of one  *)
(* that is not.                                                            *)
LEMMA InvRefused == IInv => RefusedAsMeant
<1> SUFFICES ASSUME IInv, ~ fault, NEW r \in Route
             PROVE  IF \E s \in Installed : RT!SameRoute(r, s)
                      THEN Holding(r) = NodesOf(r.prefix) /\ TablesOf(r.prefix) \subseteq table
                      ELSE Holding(r) = {}
  BY DEF RefusedAsMeant
<1>0. Types /\ Tables /\ Counts /\ Good
  BY DEF IInv
<1>1. \A s \in Route : s \in Installed <=> Where(list, s) # {}
  BY <1>0, InstalledFacts
<1>2. Holding(r) = {} <=> ~ \E s \in Installed : RT!SameRoute(r, s)
  BY <1>0, <1>1, HoldingFacts DEF Installed
<1>3. Holding(r) # {} => Holding(r) = NodesOf(r.prefix)
  BY <1>0, HoldingFacts
<1>4. ASSUME Holding(r) # {}, NEW m \in TablesOf(r.prefix) PROVE m \in table
  <2>1. PICK n \in NodesOf(r.prefix) : Matches(list[n], r) # {}
    BY <1>4 DEF Holding
  <2>2. list[n] # <<>>
    BY <2>1 DEF Matches
  <2>3. n \in Node /\ m \in Node /\ Covers(m, n) /\ m # n
    BY RouteFacts
  <2> QED BY <1>0, <2>2, <2>3 DEF Tables, Needed
<1> QED BY <1>2, <1>3, <1>4

(* fib_route_update refuses a route, and fib_route_delete finds it, if and *)
(* only if one with its prefix and id is installed: at every node of the   *)
(* range, never at some of them.                                           *)
THEOREM FibRefusedAsMeant == Spec => []RefusedAsMeant
BY FibInvariant, InvRefused, PTL

(* A fib_route_update that succeeds adds its route, and a fib_route_delete *)
(* that succeeds takes out the one with its prefix and id and no other.    *)
THEOREM FibRouteMeant == Spec => RouteMeant
<1> DEFINE Meant ==
      \A r \in Route :
        /\ fib_route_update(r) => RT!Install(r)
        /\ fib_route_delete(r) => RT!Remove(r)
<1>1. IInv => Meant
  BY UpdateFacts, RouteDeleteFacts
<1>2. RouteMeant <=> [][Meant]_vars
  BY DEF RouteMeant
<1> HIDE DEF Meant
<1> QED BY <1>1, <1>2, FibInvariant, PTL

(* An update that fails for want of memory, and not in the middle of a     *)
(* range, leaves everything as it was.                                     *)
THEOREM FibFailedUpdateHarmless == Spec => FailedUpdateHarmless
<1> DEFINE Harmless == fails' # fails /\ ~ fault' => UNCHANGED <<list, table, ref>>
<1>1. IInv /\ [Next]_vars => Harmless
  <2> SUFFICES ASSUME IInv, [Next]_vars PROVE Harmless
    OBVIOUS
  <2>1. ASSUME NEW r \in Route, fib_route_update(r) \/ UpdateExists(r) \/ fib_route_delete(r)
               \/ DeleteMissing(r)
        PROVE  fails' = fails
    BY <2>1 DEF fib_route_update, UpdateExists, fib_route_delete, DeleteMissing
  <2>2. ASSUME NEW r \in Route, UpdateNoEntry(r) PROVE Harmless
    BY <2>2, NoEntryFacts
  <2>3. ASSUME NEW r \in Route, UpdateNoTable(r) PROVE Harmless
    BY <2>3, NoTableFacts
  <2>4. ASSUME fib_release \/ UNCHANGED vars PROVE fails' = fails
    BY <2>4 DEF fib_release, vars
  <2> QED BY <2>1, <2>2, <2>3, <2>4 DEF Next
<1>2. FailedUpdateHarmless <=> [][Harmless]_vars
  BY DEF FailedUpdateHarmless
<1> HIDE DEF Harmless
<1> QED BY <1>1, <1>2, FibInvariant, PTL DEF Spec
=============================================================================
