-------------------------- MODULE LifecycleProgram --------------------------
(***************************************************************************)
(* What the program of Lifecycle looks like for any number of ports and    *)
(* cores: which steps Startup and ReleaseOrder consist of and which come   *)
(* before which, and that Unwind keeps the order that matters.  The        *)
(* sequences are put together by FlattenSeq and Only, so what these two do *)
(* to a chain (a sequence ordered by a relation) comes first.              *)
(***************************************************************************)
EXTENDS Lifecycle, TLAPS, NaturalsInduction, WellFoundedInduction

Members(s) == {s[k] : k \in 1 .. Len(s)}

\* R holds between every element of s and each later one.
Chain(s, R) == \A j, k \in 1 .. Len(s) : j < k => <<s[j], s[k]>> \in R

-----------------------------------------------------------------------------
(* A set of naturals that is not empty has a least element. *)
LEMMA LeastExists ==
  ASSUME NEW A, A \subseteq Nat, A # {}
  PROVE  \E x \in A : \A y \in A : x <= y
<1>1. PICK x \in A : \A y \in A : <<y, x>> \notin OpToRel(<, Nat)
  BY NatLessThanWellFounded, WFMin, Zenon
<1>2. \A y \in A : ~ (y < x)
  BY <1>1 DEF OpToRel
<1> QED BY <1>2

(* What \o does to chains. *)
LEMMA ConcatFacts ==
  ASSUME NEW X, NEW a \in Seq(X), NEW b \in Seq(X)
  PROVE  /\ a \o b \in Seq(X)
         /\ Members(a \o b) = Members(a) \cup Members(b)
         /\ \A R : /\ Chain(a, R) /\ Chain(b, R)
                   /\ \A x \in Members(a), y \in Members(b) : <<x, y>> \in R
                   => Chain(a \o b, R)
<1>1. /\ a \o b \in Seq(X)
      /\ Len(a \o b) = Len(a) + Len(b)
      /\ Len(a) \in Nat /\ Len(b) \in Nat
      /\ \A k \in 1 .. Len(a) : (a \o b)[k] = a[k]
      /\ \A k \in 1 .. Len(b) : (a \o b)[Len(a) + k] = b[k]
  OBVIOUS
<1>2. \A k \in 1 .. Len(a \o b) : k \in 1 .. Len(a) \/ k - Len(a) \in 1 .. Len(b)
  BY <1>1
<1>3. \A k \in 1 .. Len(a \o b) : k - Len(a) \in 1 .. Len(b) => (a \o b)[k] = b[k - Len(a)]
  BY <1>1
<1>4. Members(a \o b) = Members(a) \cup Members(b)
  <2>1. ASSUME NEW x \in Members(a \o b) PROVE x \in Members(a) \cup Members(b)
    BY <1>1, <1>2, <1>3 DEF Members
  <2>2. ASSUME NEW x \in Members(a) PROVE x \in Members(a \o b)
    <3>1. PICK k \in 1 .. Len(a) : x = a[k]
      BY DEF Members
    <3>2. k \in 1 .. Len(a \o b) /\ x = (a \o b)[k]
      BY <3>1, <1>1
    <3> QED BY <3>2 DEF Members
  <2>3. ASSUME NEW x \in Members(b) PROVE x \in Members(a \o b)
    <3>1. PICK k \in 1 .. Len(b) : x = b[k]
      BY DEF Members
    <3>2. Len(a) + k \in 1 .. Len(a \o b) /\ x = (a \o b)[Len(a) + k]
      BY <3>1, <1>1
    <3> QED BY <3>2 DEF Members
  <2> QED BY <2>1, <2>2, <2>3
<1>5. ASSUME NEW R, Chain(a, R), Chain(b, R),
             \A x \in Members(a), y \in Members(b) : <<x, y>> \in R
      PROVE  Chain(a \o b, R)
  <2> DEFINE ab == a \o b
  <2> SUFFICES ASSUME NEW j \in 1 .. Len(ab), NEW k \in 1 .. Len(ab), j < k
               PROVE  <<ab[j], ab[k]>> \in R
    BY DEF Chain
  <2>0. Len(a) \in Nat /\ Len(b) \in Nat /\ Len(ab) \in Nat
    BY <1>1
  <2>1. CASE k \in 1 .. Len(a)
    <3>1. j \in 1 .. Len(a) /\ ab[j] = a[j] /\ ab[k] = a[k]
      BY <2>0, <2>1, <1>1
    <3> QED BY <3>1, <2>1, <1>5 DEF Chain
  <2>2. CASE j - Len(a) \in 1 .. Len(b)
    <3>1. k - Len(a) \in 1 .. Len(b)
      BY <2>0, <2>2, <1>1
    <3>2. ab[j] = b[j - Len(a)] /\ ab[k] = b[k - Len(a)]
      BY <3>1, <2>2, <1>3
    <3>3. j - Len(a) < k - Len(a)
      BY <2>0
    <3> QED BY <3>1, <3>2, <3>3, <2>2, <1>5 DEF Chain
  <2>3. CASE j \in 1 .. Len(a) /\ k - Len(a) \in 1 .. Len(b)
    <3>1. ab[j] = a[j] /\ ab[k] = b[k - Len(a)]
      BY <2>3, <1>1, <1>3
    <3>2. a[j] \in Members(a) /\ b[k - Len(a)] \in Members(b)
      BY <2>3, SMTT(40) DEF Members
    <3> QED BY <3>1, <3>2, <1>5
  <2> QED BY <2>1, <2>2, <2>3, <1>2
<1> QED BY <1>1, <1>4, <1>5

(* The same for one relation. *)
LEMMA ConcatChain ==
  ASSUME NEW X, NEW a \in Seq(X), NEW b \in Seq(X), NEW R, Chain(a, R), Chain(b, R),
         \A x \in Members(a), y \in Members(b) : <<x, y>> \in R,
         NEW d, d = a \o b
  PROVE  /\ d \in Seq(X) /\ Chain(d, R)
         /\ \A x : x \in Members(d) <=> x \in Members(a) \/ x \in Members(b)
BY ConcatFacts, SMTT(40)

(* FlattenSeq is the last of the partial concatenations. *)
LEMMA FlattenDef ==
  ASSUME NEW X, NEW n \in Nat \ {0}, NEW f \in [1 .. n -> Seq(X)]
  PROVE  \E g \in [1 .. n -> Seq(X)] :
            /\ g = [i \in 1 .. n |-> IF i = 1 THEN f[i] ELSE g[i - 1] \o f[i]]
            /\ FlattenSeq(f) = g[n]
<1> DEFINE E(m, g) == g = [i \in 1 .. m |-> IF i = 1 THEN f[i] ELSE g[i - 1] \o f[i]]
           Bad == {m \in 1 .. n : ~ \E g \in [1 .. m -> Seq(X)] : E(m, g)}
<1>1. Bad = {}
  <2> SUFFICES ASSUME Bad # {} PROVE FALSE
    OBVIOUS
  <2>1. PICK m \in Bad : \A y \in Bad : m <= y
    <3>1. Bad \subseteq Nat
      <4> HIDE DEF E
      <4> QED OBVIOUS
    <3> HIDE DEF Bad
    <3> QED BY <3>1, LeastExists
  <2>2. CASE m = 1
    <3> DEFINE g == [i \in 1 .. 1 |-> f[1]]
    <3>1. g \in [1 .. 1 -> Seq(X)] /\ E(1, g)
      OBVIOUS
    <3> QED BY <3>1, <2>2
  <2>3. CASE m # 1
    <3>1. m - 1 \in 1 .. n /\ m \in 1 .. n /\ m - 1 < m
      <4>1. m \in 1 .. n
        OBVIOUS
      <4> QED BY <4>1, <2>3
    <3>2. m - 1 \notin Bad
      <4> HIDE DEF Bad
      <4> QED BY <3>1, <2>1
    <3>3. PICK h \in [1 .. m - 1 -> Seq(X)] : E(m - 1, h)
      <4> HIDE DEF E
      <4> QED BY <3>1, <3>2
    <3> DEFINE g == [i \in 1 .. m |-> IF i < m THEN h[i] ELSE h[m - 1] \o f[m]]
    <3>4. g \in [1 .. m -> Seq(X)]
      <4>1. h[m - 1] \o f[m] \in Seq(X)
        BY <3>1
      <4>2. \A i \in 1 .. m : i < m => i \in 1 .. m - 1
        BY <3>1
      <4> QED BY <4>1, <4>2
    <3>5. E(m, g)
      <4>1. ASSUME NEW i \in 1 .. m
            PROVE  g[i] = IF i = 1 THEN f[i] ELSE g[i - 1] \o f[i]
        <5>1. CASE i < m /\ i = 1
          BY <5>1, <3>1, <3>3
        <5>2. CASE i < m /\ i # 1
          <6>1. i - 1 \in 1 .. m /\ i - 1 < m /\ i \in 1 .. m - 1 /\ g[i - 1] = h[i - 1]
            BY <5>2, <3>1
          <6> QED BY <6>1, <5>2, <3>3
        <5>3. CASE i = m
          <6>1. m - 1 \in 1 .. m /\ m - 1 < m /\ g[m - 1] = h[m - 1]
            BY <3>1
          <6> QED BY <6>1, <5>3, <3>1, <2>3
        <5> QED BY <5>1, <5>2, <5>3
      <4> QED BY <4>1
    <3> QED BY <3>4, <3>5
  <2> QED BY <2>2, <2>3
<1>2. PICK g0 \in [1 .. n -> Seq(X)] : E(n, g0)
  <2> HIDE DEF E
  <2>1. n \in 1 .. n /\ n \notin Bad
    BY <1>1, SMTT(40)
  <2> QED BY <2>1
<1>3. E(n, CHOOSE g : E(n, g))
  <2>1. \E g : E(n, g)
    BY <1>2
  <2> HIDE DEF E
  <2> QED BY <2>1, Zenon
<1> DEFINE g == CHOOSE h : E(n, h)
<1>4. Len(f) = n /\ Len(f) # 0
  <2>1. f \in Seq(Seq(X))
    OBVIOUS
  <2> QED BY <2>1
<1>5. FlattenSeq(f) = g[n]
  <2>1. g = CHOOSE h : h = [i \in 1 .. Len(f) |-> IF i = 1 THEN f[i] ELSE h[i - 1] \o f[i]]
    BY <1>4
  <2> QED BY <2>1, <1>4, Zenon DEF FlattenSeq
<1>6. g \in [1 .. n -> Seq(X)]
  <2> DEFINE Worse == {m \in 1 .. n : g[m] \notin Seq(X)}
  <2> HIDE DEF g
  <2>1. ASSUME Worse # {} PROVE FALSE
    <3>1. PICK m \in Worse : \A y \in Worse : m <= y
      <4>1. Worse \subseteq Nat
        OBVIOUS
      <4> HIDE DEF Worse
      <4> QED BY <4>1, <2>1, LeastExists
    <3>2. g[m] = IF m = 1 THEN f[m] ELSE g[m - 1] \o f[m]
      <4>1. g = [i \in 1 .. n |-> IF i = 1 THEN f[i] ELSE g[i - 1] \o f[i]]
        BY <1>3, Zenon DEF g
      <4> QED BY <4>1, <3>1
    <3>3. CASE m = 1
      BY <3>2, <3>3
    <3>4. CASE m # 1
      <4>1. m - 1 \in 1 .. n /\ m - 1 \notin Worse
        BY <3>1, <3>4
      <4>2. g[m - 1] \in Seq(X) /\ f[m] \in Seq(X)
        BY <4>1
      <4>3. g[m - 1] \o f[m] \in Seq(X)
        BY <4>2
      <4> QED BY <4>3, <3>2, <3>4
    <3> QED BY <3>3, <3>4
  <2>2. g = [i \in 1 .. n |-> IF i = 1 THEN f[i] ELSE g[i - 1] \o f[i]]
    BY <1>3, Zenon DEF g
  <2> QED BY <2>1, <2>2
<1> HIDE DEF g
<1> QED BY <1>3, <1>5, <1>6 DEF g

(* FlattenSeq has the elements of all its parts, and is a chain if its     *)
(* parts are and every earlier one is before every later one.              *)
LEMMA FlattenFacts ==
  ASSUME NEW X, NEW n \in Nat \ {0}, NEW f \in [1 .. n -> Seq(X)]
  PROVE  /\ FlattenSeq(f) \in Seq(X)
         /\ \A x : x \in Members(FlattenSeq(f)) <=> \E i \in 1 .. n : x \in Members(f[i])
         /\ \A R : /\ \A i \in 1 .. n : Chain(f[i], R)
                   /\ \A i, j \in 1 .. n : i < j =>
                         \A x \in Members(f[i]), y \in Members(f[j]) : <<x, y>> \in R
                   => Chain(FlattenSeq(f), R)
<1>1. PICK g \in [1 .. n -> Seq(X)] :
            /\ g = [i \in 1 .. n |-> IF i = 1 THEN f[i] ELSE g[i - 1] \o f[i]]
            /\ FlattenSeq(f) = g[n]
  BY FlattenDef
<1>2. g[1] = f[1]
  BY <1>1
<1>3. ASSUME NEW m \in 1 .. n, m # 1
      PROVE  m - 1 \in 1 .. n /\ m - 1 < m /\ g[m] = g[m - 1] \o f[m]
  <2>1. m - 1 \in 1 .. n /\ m - 1 < m
    BY <1>3
  <2> QED BY <2>1, <1>1, <1>3
<1> DEFINE Mem(m) == \A x : x \in Members(g[m]) <=> \E i \in 1 .. m : x \in Members(f[i])
<1>4. \A m \in 1 .. n : Mem(m)
  <2> DEFINE Bad == {m \in 1 .. n : ~ Mem(m)}
  <2> SUFFICES ASSUME Bad # {} PROVE FALSE
    OBVIOUS
  <2>1. Bad \subseteq Nat
    <3> HIDE DEF Mem
    <3> QED OBVIOUS
  <2>2. PICK m \in Bad : \A y \in Bad : m <= y
    <3> HIDE DEF Bad
    <3> QED BY <2>1, LeastExists
  <2>3. m \in 1 .. n /\ ~ Mem(m)
    <3> HIDE DEF Mem
    <3> QED OBVIOUS
  <2>4. CASE m = 1
    BY <2>3, <2>4, <1>2
  <2>5. CASE m # 1
    <3>1. m - 1 \in 1 .. n /\ m - 1 < m /\ g[m] = g[m - 1] \o f[m]
      BY <2>3, <2>5, <1>3
    <3>2. m - 1 \notin Bad
      <4> HIDE DEF Bad
      <4> QED BY <2>2, <2>3, <3>1
    <3>3. Mem(m - 1)
      <4> HIDE DEF Mem
      <4> QED BY <3>1, <3>2
    <3>4. Members(g[m]) = Members(g[m - 1]) \cup Members(f[m])
      <4>1. g[m - 1] \in Seq(X) /\ f[m] \in Seq(X)
        BY <3>1, <2>3
      <4> QED BY <4>1, <3>1, ConcatFacts
    <3>5. \A i : i \in 1 .. m <=> i \in 1 .. m - 1 \/ i = m
      <4>1. m \in Nat \ {0}
        BY <2>3, <3>1
      <4> QED BY <4>1, SMTT(40)
    <3> QED BY <3>3, <3>4, <3>5, <2>3
  <2> QED BY <2>4, <2>5
<1>5. ASSUME NEW R, \A i \in 1 .. n : Chain(f[i], R),
             \A i, j \in 1 .. n : i < j =>
                \A x \in Members(f[i]), y \in Members(f[j]) : <<x, y>> \in R
      PROVE  \A m \in 1 .. n : Chain(g[m], R)
  <2> DEFINE Bad == {m \in 1 .. n : ~ Chain(g[m], R)}
  <2> SUFFICES ASSUME Bad # {} PROVE FALSE
    OBVIOUS
  <2>2. PICK m \in Bad : \A y \in Bad : m <= y
    <3>1. Bad \subseteq Nat
      OBVIOUS
    <3> HIDE DEF Bad
    <3> QED BY <3>1, LeastExists
  <2>3. m \in 1 .. n /\ ~ Chain(g[m], R)
    OBVIOUS
  <2>4. CASE m = 1
    BY <2>3, <2>4, <1>2, <1>5
  <2>5. CASE m # 1
    <3>1. m - 1 \in 1 .. n /\ m - 1 < m /\ g[m] = g[m - 1] \o f[m]
      BY <2>3, <2>5, <1>3
    <3>2. Chain(g[m - 1], R)
      BY <2>2, <2>3, <3>1
    <3>3. g[m - 1] \in Seq(X) /\ f[m] \in Seq(X)
      BY <3>1, <2>3
    <3>4. ASSUME NEW x \in Members(g[m - 1]), NEW y \in Members(f[m])
          PROVE  <<x, y>> \in R
      <4>1. PICK i \in 1 .. m - 1 : x \in Members(f[i])
        BY <1>4, <3>1
      <4>2. i \in 1 .. n /\ i < m
        BY <2>3, <3>1
      <4> QED BY <4>1, <4>2, <2>3, <1>5
    <3>5. Chain(f[m], R)
      BY <2>3, <1>5
    <3> QED BY <3>1, <3>2, <3>3, <3>4, <3>5, <2>3, ConcatFacts, SMTT(40)
  <2> QED BY <2>4, <2>5
<1>6. n \in 1 .. n
  OBVIOUS
<1>7. FlattenSeq(f) \in Seq(X)
  BY <1>1, <1>6
<1>8. Mem(n)
  BY <1>4, <1>6
<1> QED BY <1>1, <1>5, <1>6, <1>7, <1>8

\* g has the results of Only for all beginnings of s.
OnlySoFar(g, s, T) ==
  g = [k \in 0 .. Len(s) |->
         IF k = 0 THEN <<>>
         ELSE IF s[k] \in T THEN Append(g[k - 1], s[k]) ELSE g[k - 1]]

(* Only is the last of its partial results. *)
LEMMA OnlyDef ==
  ASSUME NEW X, NEW s \in Seq(X), NEW T
  PROVE  \E g \in [0 .. Len(s) -> Seq(X)] :
            OnlySoFar(g, s, T) /\ Only(s, T) = g[Len(s)]
<1> DEFINE n == Len(s)
           E(m, g) == g = [k \in 0 .. m |->
                        IF k = 0 THEN <<>>
                        ELSE IF s[k] \in T THEN Append(g[k - 1], s[k]) ELSE g[k - 1]]
           Bad == {m \in 0 .. n : ~ \E g \in [0 .. m -> Seq(X)] : E(m, g)}
<1>0. n \in Nat /\ \A k \in 1 .. n : s[k] \in X
  OBVIOUS
<1>1. Bad = {}
  <2> SUFFICES ASSUME Bad # {} PROVE FALSE
    OBVIOUS
  <2>1. PICK m \in Bad : \A y \in Bad : m <= y
    <3>1. Bad \subseteq Nat
      <4> HIDE DEF E, n
      <4> QED BY <1>0
    <3> HIDE DEF Bad
    <3> QED BY <3>1, LeastExists
  <2>0. m \in 0 .. n
    <3> HIDE DEF E, n
    <3> QED OBVIOUS
  <2>2. CASE m = 0
    <3> DEFINE g == [i \in 0 .. 0 |-> <<>>]
    <3>1. g \in [0 .. 0 -> Seq(X)] /\ E(0, g)
      OBVIOUS
    <3> QED BY <3>1, <2>2
  <2>3. CASE m # 0
    <3>1. m - 1 \in 0 .. n /\ m - 1 < m /\ m \in 1 .. n
      BY <2>0, <2>3, <1>0
    <3>2. m - 1 \notin Bad
      <4> HIDE DEF Bad
      <4> QED BY <3>1, <2>1
    <3>3. PICK h \in [0 .. m - 1 -> Seq(X)] : E(m - 1, h)
      <4> HIDE DEF E
      <4> QED BY <3>1, <3>2
    <3> DEFINE g == [i \in 0 .. m |-> IF i < m THEN h[i]
                        ELSE IF s[m] \in T THEN Append(h[m - 1], s[m]) ELSE h[m - 1]]
    <3>4. g \in [0 .. m -> Seq(X)]
      <4>1. h[m - 1] \in Seq(X) /\ s[m] \in X
        BY <3>1, <1>0
      <4>2. Append(h[m - 1], s[m]) \in Seq(X)
        BY <4>1
      <4>3. \A i \in 0 .. m : i < m => i \in 0 .. m - 1
        BY <3>1
      <4> QED BY <4>1, <4>2, <4>3
    <3>5. E(m, g)
      <4>1. ASSUME NEW i \in 0 .. m
            PROVE  g[i] = IF i = 0 THEN <<>>
                          ELSE IF s[i] \in T THEN Append(g[i - 1], s[i]) ELSE g[i - 1]
        <5>1. CASE i < m /\ i = 0
          <6>1. 0 \in 0 .. m - 1
            BY <3>1
          <6>2. h[0] = <<>>
            BY <6>1, <3>3
          <6> QED BY <5>1, <6>2
        <5>2. CASE i < m /\ i # 0
          <6>1. i - 1 \in 0 .. m /\ i - 1 < m /\ i \in 0 .. m - 1 /\ g[i - 1] = h[i - 1]
            BY <5>2, <3>1
          <6>2. h[i] = IF s[i] \in T THEN Append(h[i - 1], s[i]) ELSE h[i - 1]
            BY <6>1, <5>2, <3>3
          <6> QED BY <6>1, <6>2, <5>2
        <5>3. CASE i = m
          <6>1. m - 1 \in 0 .. m /\ m - 1 < m /\ g[m - 1] = h[m - 1]
            BY <3>1
          <6> QED BY <6>1, <5>3, <3>1, <2>3
        <5>4. i < m \/ i = m
          BY <3>1
        <5> QED BY <5>1, <5>2, <5>3, <5>4
      <4> QED BY <4>1
    <3> QED BY <3>4, <3>5
  <2> QED BY <2>2, <2>3
<1>2. PICK g0 \in [0 .. n -> Seq(X)] : E(n, g0)
  <2> HIDE DEF E
  <2>1. n \in 0 .. n /\ n \notin Bad
    BY <1>0, <1>1
  <2> QED BY <2>1
<1>3. E(n, CHOOSE g : E(n, g))
  <2>1. \E g : E(n, g)
    BY <1>2
  <2> HIDE DEF E
  <2> QED BY <2>1, Zenon
<1> DEFINE g == CHOOSE h : E(n, h)
<1>5. Only(s, T) = g[n]
  BY Zenon DEF Only
<1>6. g = [k \in 0 .. n |-> IF k = 0 THEN <<>>
              ELSE IF s[k] \in T THEN Append(g[k - 1], s[k]) ELSE g[k - 1]]
  BY <1>3, Zenon
<1> HIDE DEF g
<1>7. g \in [0 .. n -> Seq(X)]
  <2> DEFINE Worse == {m \in 0 .. n : g[m] \notin Seq(X)}
  <2>1. ASSUME Worse # {} PROVE FALSE
    <3>1. PICK m \in Worse : \A y \in Worse : m <= y
      <4>1. Worse \subseteq Nat
        BY <1>0
      <4> HIDE DEF Worse
      <4> QED BY <4>1, <2>1, LeastExists
    <3>2. g[m] = IF m = 0 THEN <<>>
                 ELSE IF s[m] \in T THEN Append(g[m - 1], s[m]) ELSE g[m - 1]
      BY <1>6, <3>1
    <3>3. CASE m = 0
      BY <3>2, <3>3, SMTT(40)
    <3>4. CASE m # 0
      <4>1. m - 1 \in 0 .. n /\ m - 1 \notin Worse /\ m \in 1 .. n
        BY <3>1, <3>4, <1>0
      <4>2. g[m - 1] \in Seq(X) /\ s[m] \in X
        BY <4>1, <1>0
      <4>3. Append(g[m - 1], s[m]) \in Seq(X)
        BY <4>2
      <4> QED BY <4>2, <4>3, <3>2, <3>4
    <3> QED BY <3>3, <3>4
  <2> QED BY <2>1, <1>6
<1>8. OnlySoFar(g, s, T)
  BY <1>6, Zenon DEF OnlySoFar
<1> QED BY <1>5, <1>7, <1>8

(* What Append does to chains. *)
LEMMA AppendFacts ==
  ASSUME NEW X, NEW a \in Seq(X), NEW e \in X
  PROVE  /\ Append(a, e) \in Seq(X)
         /\ \A x : x \in Members(Append(a, e)) <=> x \in Members(a) \/ x = e
         /\ \A R : Chain(a, R) /\ (\A x \in Members(a) : <<x, e>> \in R) => Chain(Append(a, e), R)
<1> DEFINE b == Append(a, e)
<1>1. b \in Seq(X) /\ Len(a) \in Nat /\ Len(b) = Len(a) + 1 /\ b[Len(b)] = e
  OBVIOUS
<1>2. \A k \in 1 .. Len(a) : k \in 1 .. Len(b) /\ b[k] = a[k]
  OBVIOUS
<1> HIDE DEF b
<1>3. \A k \in 1 .. Len(b) : k \in 1 .. Len(a) \/ k = Len(b)
  BY <1>1
<1>4. Len(b) \in 1 .. Len(b)
  BY <1>1
<1>5. ASSUME NEW x PROVE x \in Members(b) <=> x \in Members(a) \/ x = e
  <2>1. ASSUME x \in Members(b) PROVE x \in Members(a) \/ x = e
    BY <2>1, <1>1, <1>2, <1>3 DEF Members
  <2>2. ASSUME x \in Members(a) PROVE x \in Members(b)
    BY <2>2, <1>2 DEF Members
  <2>3. e \in Members(b)
    BY <1>1, <1>4 DEF Members
  <2> QED BY <2>1, <2>2, <2>3
<1>6. ASSUME NEW R, Chain(a, R), \A x \in Members(a) : <<x, e>> \in R PROVE Chain(b, R)
  <2> SUFFICES ASSUME NEW j \in 1 .. Len(b), NEW k \in 1 .. Len(b), j < k
               PROVE  <<b[j], b[k]>> \in R
    BY DEF Chain
  <2>1. j \in 1 .. Len(a) /\ b[j] = a[j] /\ a[j] \in Members(a)
    BY <1>1, <1>2 DEF Members
  <2>2. CASE k = Len(b)
    BY <2>1, <2>2, <1>1, <1>6
  <2>3. CASE k \in 1 .. Len(a)
    BY <2>1, <2>3, <1>2, <1>6 DEF Chain
  <2> QED BY <2>2, <2>3, <1>3
<1> QED BY <1>1, <1>5, <1>6 DEF b

(* Only keeps the elements that are in the set, and their order. *)
LEMMA OnlyFacts ==
  ASSUME NEW X, NEW s \in Seq(X), NEW T
  PROVE  /\ Only(s, T) \in Seq(X)
         /\ Members(Only(s, T)) = Members(s) \cap T
         /\ \A R : Chain(s, R) => Chain(Only(s, T), R)
<1>1. PICK g \in [0 .. Len(s) -> Seq(X)] :
            OnlySoFar(g, s, T) /\ Only(s, T) = g[Len(s)]
  BY OnlyDef
<1> DEFINE n == Len(s)
<1>0. n \in Nat /\ n \in 0 .. n /\ \A k \in 1 .. n : s[k] \in X
  OBVIOUS
<1>2. g[0] = <<>>
  BY <1>0, <1>1 DEF OnlySoFar
<1>3. ASSUME NEW m \in 0 .. n, m # 0
      PROVE  /\ m - 1 \in 0 .. n /\ m - 1 < m /\ m \in 1 .. n
             /\ g[m] = IF s[m] \in T THEN Append(g[m - 1], s[m]) ELSE g[m - 1]
  <2>1. m - 1 \in 0 .. n /\ m - 1 < m /\ m \in 1 .. n
    BY <1>3, <1>0
  <2> QED BY <2>1, <1>1, <1>3 DEF OnlySoFar
<1> DEFINE Mem(m) == \A x : x \in Members(g[m]) <=> \E i \in 1 .. m : x = s[i] /\ x \in T
<1>4. \A m \in 0 .. n : Mem(m)
  <2> DEFINE Bad == {m \in 0 .. n : ~ Mem(m)}
  <2> SUFFICES ASSUME Bad # {} PROVE FALSE
    OBVIOUS
  <2>1. Bad \subseteq Nat
    <3> HIDE DEF Mem, n
    <3> QED BY <1>0
  <2>2. PICK m \in Bad : \A y \in Bad : m <= y
    <3> HIDE DEF Bad
    <3> QED BY <2>1, LeastExists
  <2>3. m \in 0 .. n /\ ~ Mem(m)
    <3> HIDE DEF Mem
    <3> QED OBVIOUS
  <2>4. CASE m = 0
    <3>1. Members(<<>>) = {}
      BY DEF Members
    <3> QED BY <3>1, <2>3, <2>4, <1>2
  <2>5. CASE m # 0
    <3>1. /\ m - 1 \in 0 .. n /\ m - 1 < m /\ m \in 1 .. n
          /\ g[m] = IF s[m] \in T THEN Append(g[m - 1], s[m]) ELSE g[m - 1]
      BY <2>3, <2>5, <1>3
    <3>2. m - 1 \notin Bad
      <4> HIDE DEF Bad
      <4> QED BY <2>2, <2>3, <3>1
    <3>3. Mem(m - 1)
      <4> HIDE DEF Mem
      <4> QED BY <3>1, <3>2
    <3>4. \A x : x \in Members(g[m]) <=> x \in Members(g[m - 1]) \/ (x = s[m] /\ x \in T)
      <4>1. g[m - 1] \in Seq(X) /\ s[m] \in X
        BY <3>1, <1>0
      <4>2. PICK a : a = Append(g[m - 1], s[m])
        OBVIOUS
      <4>5. \A x : x \in Members(a) <=> x \in Members(g[m - 1]) \/ x = s[m]
        BY <4>1, <4>2, AppendFacts
      <4>3. s[m] \in T => g[m] = a
        BY <3>1, <4>2
      <4>4. s[m] \notin T => g[m] = g[m - 1]
        BY <3>1
      <4> QED BY <4>3, <4>4, <4>5
    <3>5. \A i : i \in 1 .. m <=> i \in 1 .. m - 1 \/ i = m
      <4>1. m \in Nat \ {0}
        BY <2>3, <3>1
      <4> QED BY <4>1
    <3> QED BY <3>3, <3>4, <3>5, <2>3
  <2> QED BY <2>4, <2>5
<1>5. ASSUME NEW R, Chain(s, R) PROVE \A m \in 0 .. n : Chain(g[m], R)
  <2> DEFINE Bad == {m \in 0 .. n : ~ Chain(g[m], R)}
  <2> SUFFICES ASSUME Bad # {} PROVE FALSE
    OBVIOUS
  <2>2. PICK m \in Bad : \A y \in Bad : m <= y
    <3>1. Bad \subseteq Nat
      BY <1>0
    <3> HIDE DEF Bad
    <3> QED BY <3>1, LeastExists
  <2>3. m \in 0 .. n /\ ~ Chain(g[m], R)
    OBVIOUS
  <2>4. CASE m = 0
    <3>1. Chain(<<>>, R)
      BY DEF Chain
    <3> QED BY <3>1, <2>3, <2>4, <1>2
  <2>5. CASE m # 0
    <3>1. /\ m - 1 \in 0 .. n /\ m - 1 < m /\ m \in 1 .. n
          /\ g[m] = IF s[m] \in T THEN Append(g[m - 1], s[m]) ELSE g[m - 1]
      BY <2>3, <2>5, <1>3
    <3>2. Chain(g[m - 1], R)
      BY <2>2, <2>3, <3>1
    <3>3. g[m - 1] \in Seq(X) /\ s[m] \in X
      BY <3>1, <1>0
    <3>4. ASSUME NEW x \in Members(g[m - 1]) PROVE <<x, s[m]>> \in R
      <4>1. PICK i \in 1 .. m - 1 : x = s[i]
        BY <1>4, <3>1, SMTT(40)
      <4>2. i \in 1 .. n /\ i < m
        BY <2>3, <3>1
      <4> QED BY <4>1, <4>2, <3>1, <1>5 DEF Chain
    <3>5. Chain(Append(g[m - 1], s[m]), R)
      BY <3>2, <3>3, <3>4, AppendFacts
    <3> QED BY <3>1, <3>2, <3>5, <2>3
  <2> QED BY <2>4, <2>5
<1>6. Members(g[n]) = Members(s) \cap T
  <2>1. Mem(n)
    BY <1>0, <1>4
  <2> QED BY <2>1 DEF Members
<1> QED BY <1>0, <1>1, <1>5, <1>6

(* A sequence of one element. *)
LEMMA OneSeq ==
  ASSUME NEW X, NEW x \in X
  PROVE  /\ <<x>> \in Seq(X) /\ Members(<<x>>) = {x}
         /\ \A R : Chain(<<x>>, R)
BY DEF Members, Chain

(* A sequence of one, and of two. *)
LEMMA ShortSeqs ==
  ASSUME NEW X, NEW x \in X, NEW y \in X
  PROVE  /\ <<x>> \in Seq(X) /\ Members(<<x>>) = {x}
         /\ <<x, y>> \in Seq(X) /\ Members(<<x, y>>) = {x, y}
         /\ \A R : Chain(<<x>>, R) /\ (<<x, y>> \in R => Chain(<<x, y>>, R))
BY DEF Members, Chain

(* FlattenSeq of what a loop over 0 .. n - 1 makes: the iteration i makes  *)
(* the elements M[i].                                                      *)
LEMMA LoopFacts ==
  ASSUME NEW X, NEW n \in Nat \ {0}, NEW f \in [1 .. n -> Seq(X)], NEW M, NEW R,
         \A k \in 1 .. n : Members(f[k]) = M[k - 1] /\ Chain(f[k], R),
         \A i, j \in 0 .. n - 1 : i < j => \A x \in M[i], y \in M[j] : <<x, y>> \in R
  PROVE  /\ FlattenSeq(f) \in Seq(X)
         /\ \A x : x \in Members(FlattenSeq(f)) <=> \E i \in 0 .. n - 1 : x \in M[i]
         /\ Chain(FlattenSeq(f), R)
<1>1. \A k \in 1 .. n : k - 1 \in 0 .. n - 1
  OBVIOUS
<1>2. \A i \in 0 .. n - 1 : i + 1 \in 1 .. n /\ (i + 1) - 1 = i
  OBVIOUS
<1>3. \A i, j \in 1 .. n : i < j => \A x \in Members(f[i]), y \in Members(f[j]) : <<x, y>> \in R
  <2> SUFFICES ASSUME NEW i \in 1 .. n, NEW j \in 1 .. n, i < j,
                      NEW x \in Members(f[i]), NEW y \in Members(f[j])
               PROVE  <<x, y>> \in R
    OBVIOUS
  <2>1. x \in M[i - 1] /\ y \in M[j - 1] /\ i - 1 < j - 1
    OBVIOUS
  <2> QED BY <2>1, <1>1
<1>4. /\ FlattenSeq(f) \in Seq(X)
      /\ \A x : x \in Members(FlattenSeq(f)) <=> \E i \in 1 .. n : x \in Members(f[i])
      /\ Chain(FlattenSeq(f), R)
  BY <1>3, FlattenFacts
<1>5. ASSUME NEW x
      PROVE  (\E i \in 1 .. n : x \in Members(f[i])) <=> \E i \in 0 .. n - 1 : x \in M[i]
  <2>1. ASSUME NEW i \in 1 .. n, x \in Members(f[i]) PROVE \E k \in 0 .. n - 1 : x \in M[k]
    BY <2>1, <1>1
  <2>2. ASSUME NEW i \in 0 .. n - 1, x \in M[i] PROVE \E k \in 1 .. n : x \in Members(f[k])
    <3>1. i + 1 \in 1 .. n /\ x \in Members(f[i + 1])
      BY <2>2, <1>2
    <3> QED BY <3>1
  <2> QED BY <2>1, <2>2
<1> QED BY <1>4, <1>5

-----------------------------------------------------------------------------
(* The order of main.                                                      *)

Call == {"open", "desc", "configure", "tun", "signal", "buf", "plane", "tunplane", "thread"}
Act == {"file", "up", "bar", "rings", "mmap", "rxring", "txring", "pool", "registers", "queue",
        "mask", "buffer", "slots", "rxirq", "txirq", "alloc", "thread", "kill", "down"}
AnyStep == [call : Call, act : Act, core : Nat, port : Nat]

\* The part of main a step is in, the iteration of the outer loop there, the
\* place in the body, the iteration of the inner loop, and the place in that.
Stage(s) == CASE s.call = "open" -> 1 [] s.call = "desc" -> 2 [] s.call = "configure" -> 3
              [] s.call = "tun" -> 4 [] s.call = "signal" -> 5 [] OTHER -> 6
Outer(s) == IF s.call \in {"open", "configure", "tun"} THEN s.port ELSE s.core
Place(s) == CASE s.act \in {"file", "mmap"} -> 1
              [] s.act \in {"up", "rxring", "txring", "buffer"} -> 2
              [] s.act \in {"bar", "pool", "slots"} -> 3
              [] s.act \in {"rings", "rxirq", "txirq"} -> 4
              [] s.act = "alloc" -> 5 [] s.act = "thread" -> 6 [] OTHER -> 0
Inner(s) == IF s.call = "tun" THEN s.core ELSE s.port
Second(s) == IF s.act \in {"txring", "txirq"} THEN 1 ELSE 0

Before(x, y) ==
  \/ Stage(x) < Stage(y)
  \/ /\ Stage(x) = Stage(y)
     /\ \/ Outer(x) < Outer(y)
        \/ /\ Outer(x) = Outer(y)
           /\ \/ Place(x) < Place(y)
              \/ /\ Place(x) = Place(y)
                 /\ \/ Inner(x) < Inner(y)
                    \/ Inner(x) = Inner(y) /\ Second(x) < Second(y)

Earlier == {xy \in AnyStep \X AnyStep : Before(xy[1], xy[2])}

\* The steps of each part.
OpenIn(i) == {S("open", a, 0, i) : a \in {"file", "up", "bar", "rings"}}
DescIn(c) == {S("desc", a, c, 0) : a \in {"mmap", "pool"}}
             \cup {S("desc", "rxring", c, i) : i \in Port} \cup {S("desc", "txring", c, i) : i \in Port}
TunIn(i) == {S("tun", "queue", c, i) : c \in Core}
BufIn(c) == {S("buf", a, c, 0) : a \in {"mmap", "slots"}} \cup {S("buf", "buffer", c, i) : i \in Port}
PlaneIn(c) == {S("plane", "rxirq", c, i) : i \in Port} \cup {S("plane", "txirq", c, i) : i \in Port}
CoreIn(c) == BufIn(c) \cup PlaneIn(c)
             \cup {S("tunplane", "alloc", c, 0), S("thread", "thread", c, 0)}

-----------------------------------------------------------------------------
(* Numbers of ports and cores. *)
LEMMA Sizes ==
  /\ NumPorts \in Nat \ {0} /\ NumCores \in Nat \ {0}
  /\ Port \subseteq Nat /\ Core \subseteq Nat /\ 0 \in Port /\ 0 \in Core
  /\ \A i \in 1 .. NumPorts : i - 1 \in Port
  /\ \A i \in Port : i + 1 \in 1 .. NumPorts /\ (i + 1) - 1 = i
  /\ \A c \in 1 .. NumCores : c - 1 \in Core
  /\ \A c \in Core : c + 1 \in 1 .. NumCores /\ (c + 1) - 1 = c
<1>1. NumPorts \in Nat \ {0} /\ NumCores \in Nat \ {0}
  BY LifecycleAssumption, AdapterAssumption
<1> QED BY <1>1 DEF Port, Core

(* The fields of a step. *)
LEMMA StepFields ==
  ASSUME NEW a \in Call, NEW b \in Act, NEW c \in Nat, NEW i \in Nat
  PROVE  /\ S(a, b, c, i) \in AnyStep
         /\ S(a, b, c, i).call = a /\ S(a, b, c, i).act = b
         /\ S(a, b, c, i).core = c /\ S(a, b, c, i).port = i
BY DEF S, AnyStep

(* Steps are in Earlier if one is before the other. *)
LEMMA EarlierIff ==
  ASSUME NEW x \in AnyStep, NEW y \in AnyStep
  PROVE  <<x, y>> \in Earlier <=> Before(x, y)
BY DEF Earlier

(* Every step of main is a step. *)
LEMMA StepsAreSteps ==
  ASSUME NEW c \in Core, NEW i \in Port
  PROVE  /\ OpenIn(i) \subseteq AnyStep /\ DescIn(c) \subseteq AnyStep /\ TunIn(i) \subseteq AnyStep
         /\ BufIn(c) \subseteq AnyStep /\ PlaneIn(c) \subseteq AnyStep /\ CoreIn(c) \subseteq AnyStep
<1>1. c \in Nat /\ i \in Nat /\ Port \subseteq Nat /\ Core \subseteq Nat
  BY Sizes
<1>2. OpenIn(i) \subseteq AnyStep
  BY <1>1 DEF OpenIn, AnyStep, S, Call, Act
<1>3. DescIn(c) \subseteq AnyStep
  BY <1>1 DEF DescIn, AnyStep, S, Call, Act
<1>4. TunIn(i) \subseteq AnyStep
  BY <1>1 DEF TunIn, AnyStep, S, Call, Act
<1>5. BufIn(c) \subseteq AnyStep
  BY <1>1 DEF BufIn, AnyStep, S, Call, Act
<1>6. PlaneIn(c) \subseteq AnyStep
  BY <1>1 DEF PlaneIn, AnyStep, S, Call, Act
<1>7. S("tunplane", "alloc", c, 0) \in AnyStep /\ S("thread", "thread", c, 0) \in AnyStep
  BY <1>1 DEF AnyStep, S, Call, Act
<1> QED BY <1>2, <1>3, <1>4, <1>5, <1>6, <1>7 DEF CoreIn

(* ixmap_open for one port. *)
LEMMA OpenPart ==
  ASSUME NEW i \in Port
  PROVE  /\ OpenSteps(i) \in Seq(AnyStep)
         /\ Members(OpenSteps(i)) = OpenIn(i)
         /\ Chain(OpenSteps(i), Earlier)
<1>1. i \in Nat
  BY Sizes
<1> DEFINE o(a) == S("open", a, 0, i)
<1>2. o("file") \in AnyStep /\ o("up") \in AnyStep /\ o("bar") \in AnyStep /\ o("rings") \in AnyStep
  BY <1>1 DEF S, AnyStep, Call, Act
<1>3. OpenSteps(i) = <<o("file"), o("up"), o("bar"), o("rings")>>
  BY DEF OpenSteps
<1>4. /\ Before(o("file"), o("up")) /\ Before(o("file"), o("bar")) /\ Before(o("file"), o("rings"))
      /\ Before(o("up"), o("bar")) /\ Before(o("up"), o("rings")) /\ Before(o("bar"), o("rings"))
  BY <1>1 DEF Before, Stage, Outer, Place, S
<1>5. OpenIn(i) = {o("file"), o("up"), o("bar"), o("rings")}
  BY DEF OpenIn
<1> HIDE DEF o
<1>6. Members(OpenSteps(i)) = OpenIn(i)
  BY <1>3, <1>5 DEF Members
<1>7. Chain(OpenSteps(i), Earlier)
  BY <1>2, <1>3, <1>4, EarlierIff DEF Chain
<1> QED BY <1>2, <1>3, <1>6, <1>7

(* All calls of ixmap_open. *)
LEMMA OpenAll ==
  /\ OverPorts(OpenSteps) \in Seq(AnyStep)
  /\ \A x : x \in Members(OverPorts(OpenSteps)) <=> \E i \in Port : x \in OpenIn(i)
  /\ Chain(OverPorts(OpenSteps), Earlier)
<1> DEFINE f == [i \in 1 .. NumPorts |-> OpenSteps(i - 1)]
           M == [i \in Port |-> OpenIn(i)]
<1>1. OverPorts(OpenSteps) = FlattenSeq(f) /\ Port = 0 .. NumPorts - 1
  BY DEF OverPorts, Port
<1>2. \A k \in 1 .. NumPorts : /\ f[k] \in Seq(AnyStep) /\ Members(f[k]) = M[k - 1]
                               /\ Chain(f[k], Earlier)
  BY Sizes, OpenPart
<1>3. f \in [1 .. NumPorts -> Seq(AnyStep)]
  BY <1>2
<1>4. ASSUME NEW i \in Port, NEW j \in Port, i < j, NEW x \in M[i], NEW y \in M[j]
      PROVE  <<x, y>> \in Earlier
  <2>1. x \in OpenIn(i) /\ y \in OpenIn(j) /\ i \in Nat /\ j \in Nat
    BY Sizes
  <2>2. x \in AnyStep /\ y \in AnyStep
    BY <2>1, Sizes, StepsAreSteps
  <2>3. Before(x, y)
    BY <2>1, <1>4 DEF OpenIn, S, Before, Stage, Outer
  <2> QED BY <2>2, <2>3, EarlierIff
<1>5. NumPorts \in Nat \ {0} /\ \A i \in Port : M[i] = OpenIn(i)
  BY Sizes
<1> HIDE DEF f, M
<1>6. \A i, j \in 0 .. NumPorts - 1 : i < j => \A x \in M[i], y \in M[j] : <<x, y>> \in Earlier
  BY <1>1, <1>4
<1>7. \A k \in 1 .. NumPorts : Members(f[k]) = M[k - 1] /\ Chain(f[k], Earlier)
  BY <1>2
<1>8. /\ FlattenSeq(f) \in Seq(AnyStep)
      /\ \A x : x \in Members(FlattenSeq(f)) <=> \E i \in 0 .. NumPorts - 1 : x \in M[i]
      /\ Chain(FlattenSeq(f), Earlier)
  BY <1>3, <1>5, <1>6, <1>7, LoopFacts
<1> QED BY <1>1, <1>5, <1>8

(* ixmap_desc_alloc for one core. *)
LEMMA DescPart ==
  ASSUME NEW c \in Core
  PROVE  /\ DescSteps(c) \in Seq(AnyStep)
         /\ Members(DescSteps(c)) = DescIn(c)
         /\ Chain(DescSteps(c), Earlier)
<1> DEFINE rx(i) == S("desc", "rxring", c, i)
           tx(i) == S("desc", "txring", c, i)
           f == [i \in 1 .. NumPorts |-> <<rx(i - 1), tx(i - 1)>>]
           M == [i \in Port |-> {rx(i), tx(i)}]
           m == S("desc", "mmap", c, 0)
           o == S("desc", "pool", c, 0)
           rings == FlattenSeq(f)
<1>0. c \in Nat /\ Port \subseteq Nat
  BY Sizes
<1>1. DescSteps(c) = (<<m>> \o rings) \o <<o>> /\ Port = 0 .. NumPorts - 1
  BY DEF DescSteps, OverPorts, Port
<1>2. ASSUME NEW i \in Port PROVE rx(i) \in AnyStep /\ tx(i) \in AnyStep
  BY <1>0 DEF S, AnyStep, Call, Act
<1>3. ASSUME NEW i \in Port, NEW j \in Port
      PROVE  /\ Before(rx(i), tx(i))
             /\ i < j => /\ Before(rx(i), rx(j)) /\ Before(rx(i), tx(j))
                         /\ Before(tx(i), rx(j)) /\ Before(tx(i), tx(j))
             /\ Before(m, rx(i)) /\ Before(m, tx(i)) /\ Before(rx(i), o) /\ Before(tx(i), o)
             /\ Before(m, o)
  BY <1>0 DEF S, Before, Stage, Outer, Place, Inner, Second
<1>4. m \in AnyStep /\ o \in AnyStep
  BY <1>0 DEF S, AnyStep, Call, Act
<1>5. \A x : x \in DescIn(c) <=> x = m \/ x = o \/ \E i \in Port : x = rx(i) \/ x = tx(i)
  BY DEF DescIn
<1> HIDE DEF rx, tx, m, o
<1>6. \A k \in 1 .. NumPorts : /\ f[k] \in Seq(AnyStep) /\ Members(f[k]) = M[k - 1]
                               /\ Chain(f[k], Earlier)
  BY <1>2, <1>3, Sizes, ShortSeqs, EarlierIff
<1>7. f \in [1 .. NumPorts -> Seq(AnyStep)]
  BY <1>6
<1>8. ASSUME NEW i \in Port, NEW j \in Port, i < j, NEW x \in M[i], NEW y \in M[j]
      PROVE  <<x, y>> \in Earlier
  BY <1>2, <1>3, <1>8, EarlierIff
<1>9. NumPorts \in Nat \ {0} /\ \A i \in Port : M[i] = {rx(i), tx(i)}
  BY Sizes
<1>10. /\ rings \in Seq(AnyStep)
       /\ \A x : x \in Members(rings) <=> \E i \in Port : x \in M[i]
       /\ Chain(rings, Earlier)
  <2> HIDE DEF f, M
  <2>1. \A i, j \in 0 .. NumPorts - 1 : i < j => \A x \in M[i], y \in M[j] : <<x, y>> \in Earlier
    BY <1>1, <1>8
  <2>2. \A k \in 1 .. NumPorts : Members(f[k]) = M[k - 1] /\ Chain(f[k], Earlier)
    BY <1>6
  <2>3. /\ FlattenSeq(f) \in Seq(AnyStep)
        /\ \A x : x \in Members(FlattenSeq(f)) <=> \E i \in 0 .. NumPorts - 1 : x \in M[i]
        /\ Chain(FlattenSeq(f), Earlier)
    BY <2>1, <2>2, <1>7, <1>9, LoopFacts
  <2> QED BY <2>3, <1>1
<1>11. \A x : x \in Members(rings) <=> \E i \in Port : x = rx(i) \/ x = tx(i)
  <2> HIDE DEF M, rings
  <2> QED BY <1>9, <1>10
<1> HIDE DEF rings, f, M
<1>20. PICK first, last : first = <<m>> /\ last = <<o>>
  OBVIOUS
<1>12. /\ first \in Seq(AnyStep) /\ Members(first) = {m} /\ Chain(first, Earlier)
       /\ last \in Seq(AnyStep) /\ Members(last) = {o} /\ Chain(last, Earlier)
  BY <1>4, <1>20, ShortSeqs
<1>13. \A x \in Members(rings) : <<m, x>> \in Earlier /\ <<x, o>> \in Earlier
  BY <1>2, <1>3, <1>4, <1>11, EarlierIff
<1>14. <<m, o>> \in Earlier
  BY <1>3, <1>4, EarlierIff, Sizes
<1>15. PICK a : a = first \o rings
  OBVIOUS
<1>16. /\ a \in Seq(AnyStep) /\ Chain(a, Earlier)
       /\ \A x : x \in Members(a) <=> x \in Members(first) \/ x \in Members(rings)
  <2>1. \A x \in Members(first), y \in Members(rings) : <<x, y>> \in Earlier
    BY <1>12, <1>13
  <2> QED BY <2>1, <1>10, <1>12, <1>15, ConcatChain, ZenonT(60)
<1>17. PICK b : b = a \o last
  OBVIOUS
<1>18. /\ b \in Seq(AnyStep) /\ Chain(b, Earlier)
       /\ \A x : x \in Members(b) <=> x \in Members(a) \/ x \in Members(last)
  <2>1. \A x \in Members(a), y \in Members(last) : <<x, y>> \in Earlier
    BY <1>12, <1>13, <1>14, <1>16
  <2>2. a \in Seq(AnyStep) /\ Chain(a, Earlier) /\ last \in Seq(AnyStep) /\ Chain(last, Earlier)
    BY <1>12, <1>16
  <2> QED BY <2>1, <2>2, <1>17, ConcatChain
<1>19. DescSteps(c) = b
  BY <1>1, <1>15, <1>17, <1>20
<1> QED BY <1>5, <1>11, <1>12, <1>16, <1>18, <1>19

(* All calls of ixmap_desc_alloc. *)
LEMMA DescAll ==
  /\ OverCores(DescSteps) \in Seq(AnyStep)
  /\ \A x : x \in Members(OverCores(DescSteps)) <=> \E i \in Core : x \in DescIn(i)
  /\ Chain(OverCores(DescSteps), Earlier)
<1> DEFINE f == [i \in 1 .. NumCores |-> DescSteps(i - 1)]
           M == [i \in Core |-> DescIn(i)]
<1>1. OverCores(DescSteps) = FlattenSeq(f) /\ Core = 0 .. NumCores - 1
  BY DEF OverCores, Core
<1>2. \A k \in 1 .. NumCores : /\ f[k] \in Seq(AnyStep) /\ Members(f[k]) = M[k - 1]
                               /\ Chain(f[k], Earlier)
  BY Sizes, DescPart
<1>3. f \in [1 .. NumCores -> Seq(AnyStep)]
  BY <1>2
<1>4. ASSUME NEW i \in Core, NEW j \in Core, i < j, NEW x \in M[i], NEW y \in M[j]
      PROVE  <<x, y>> \in Earlier
  <2>1. x \in DescIn(i) /\ y \in DescIn(j) /\ i \in Nat /\ j \in Nat /\ Port \subseteq Nat /\ Core \subseteq Nat
    BY Sizes
  <2>2. x \in AnyStep /\ y \in AnyStep
    BY <2>1, Sizes, StepsAreSteps
  <2>3. Before(x, y)
    BY <2>1, <1>4 DEF DescIn, S, Before, Stage, Outer
  <2> QED BY <2>2, <2>3, EarlierIff
<1>5. NumCores \in Nat \ {0} /\ \A i \in Core : M[i] = DescIn(i)
  BY Sizes
<1> HIDE DEF f, M
<1>6. \A i, j \in 0 .. NumCores - 1 : i < j => \A x \in M[i], y \in M[j] : <<x, y>> \in Earlier
  BY <1>1, <1>4
<1>7. \A k \in 1 .. NumCores : Members(f[k]) = M[k - 1] /\ Chain(f[k], Earlier)
  BY <1>2
<1>8. /\ FlattenSeq(f) \in Seq(AnyStep)
      /\ \A x : x \in Members(FlattenSeq(f)) <=> \E i \in 0 .. NumCores - 1 : x \in M[i]
      /\ Chain(FlattenSeq(f), Earlier)
  BY <1>3, <1>5, <1>6, <1>7, LoopFacts
<1> QED BY <1>1, <1>5, <1>8

(* tun_open for one port. *)
LEMMA TunPart ==
  ASSUME NEW i \in Port
  PROVE  /\ TunSteps(i) \in Seq(AnyStep)
         /\ Members(TunSteps(i)) = TunIn(i)
         /\ Chain(TunSteps(i), Earlier)
<1> DEFINE q(c) == S("tun", "queue", c, i)
           f == [c \in 1 .. NumCores |-> <<q(c - 1)>>]
           M == [c \in Core |-> {q(c)}]
<1>0. i \in Nat /\ Core \subseteq Nat
  BY Sizes
<1>1. TunSteps(i) = FlattenSeq(f) /\ Core = 0 .. NumCores - 1
  BY DEF TunSteps, OverCores, Core
<1>2. ASSUME NEW c \in Core PROVE q(c) \in AnyStep
  BY <1>0 DEF S, AnyStep, Call, Act
<1>3. ASSUME NEW c \in Core, NEW d \in Core, c < d PROVE Before(q(c), q(d))
  BY <1>0, <1>3 DEF S, Before, Stage, Outer, Place, Inner
<1>4. \A x : x \in TunIn(i) <=> \E c \in Core : x = q(c)
  BY DEF TunIn
<1> HIDE DEF q
<1>5. \A k \in 1 .. NumCores : /\ f[k] \in Seq(AnyStep) /\ Members(f[k]) = M[k - 1]
                               /\ Chain(f[k], Earlier)
  BY <1>2, Sizes, OneSeq
<1>6. f \in [1 .. NumCores -> Seq(AnyStep)]
  BY <1>5
<1>7. NumCores \in Nat \ {0} /\ \A c \in Core : M[c] = {q(c)}
  BY Sizes
<1> HIDE DEF f, M
<1>8. \A c, d \in 0 .. NumCores - 1 : c < d => \A x \in M[c], y \in M[d] : <<x, y>> \in Earlier
  BY <1>1, <1>2, <1>3, <1>7, EarlierIff
<1>9. \A k \in 1 .. NumCores : Members(f[k]) = M[k - 1] /\ Chain(f[k], Earlier)
  BY <1>5
<1>10. /\ FlattenSeq(f) \in Seq(AnyStep)
       /\ \A x : x \in Members(FlattenSeq(f)) <=> \E c \in 0 .. NumCores - 1 : x \in M[c]
       /\ Chain(FlattenSeq(f), Earlier)
  BY <1>6, <1>7, <1>8, <1>9, LoopFacts
<1>11. \A x : x \in Members(FlattenSeq(f)) <=> x \in TunIn(i)
  BY <1>1, <1>4, <1>7, <1>10
<1> QED BY <1>1, <1>10, <1>11

(* All calls of tun_open. *)
LEMMA TunAll ==
  /\ OverPorts(TunSteps) \in Seq(AnyStep)
  /\ \A x : x \in Members(OverPorts(TunSteps)) <=> \E i \in Port : x \in TunIn(i)
  /\ Chain(OverPorts(TunSteps), Earlier)
<1> DEFINE f == [i \in 1 .. NumPorts |-> TunSteps(i - 1)]
           M == [i \in Port |-> TunIn(i)]
<1>1. OverPorts(TunSteps) = FlattenSeq(f) /\ Port = 0 .. NumPorts - 1
  BY DEF OverPorts, Port
<1>2. \A k \in 1 .. NumPorts : /\ f[k] \in Seq(AnyStep) /\ Members(f[k]) = M[k - 1]
                               /\ Chain(f[k], Earlier)
  BY Sizes, TunPart
<1>3. f \in [1 .. NumPorts -> Seq(AnyStep)]
  BY <1>2
<1>4. ASSUME NEW i \in Port, NEW j \in Port, i < j, NEW x \in M[i], NEW y \in M[j]
      PROVE  <<x, y>> \in Earlier
  <2>1. x \in TunIn(i) /\ y \in TunIn(j) /\ i \in Nat /\ j \in Nat /\ Port \subseteq Nat /\ Core \subseteq Nat
    BY Sizes
  <2>2. x \in AnyStep /\ y \in AnyStep
    BY <2>1, Sizes, StepsAreSteps
  <2>3. Before(x, y)
    BY <2>1, <1>4 DEF TunIn, S, Before, Stage, Outer
  <2> QED BY <2>2, <2>3, EarlierIff
<1>5. NumPorts \in Nat \ {0} /\ \A i \in Port : M[i] = TunIn(i)
  BY Sizes
<1> HIDE DEF f, M
<1>6. \A i, j \in 0 .. NumPorts - 1 : i < j => \A x \in M[i], y \in M[j] : <<x, y>> \in Earlier
  BY <1>1, <1>4
<1>7. \A k \in 1 .. NumPorts : Members(f[k]) = M[k - 1] /\ Chain(f[k], Earlier)
  BY <1>2
<1>8. /\ FlattenSeq(f) \in Seq(AnyStep)
      /\ \A x : x \in Members(FlattenSeq(f)) <=> \E i \in 0 .. NumPorts - 1 : x \in M[i]
      /\ Chain(FlattenSeq(f), Earlier)
  BY <1>3, <1>5, <1>6, <1>7, LoopFacts
<1> QED BY <1>1, <1>5, <1>8

(* ixmap_buf_alloc for one core. *)
LEMMA BufPart ==
  ASSUME NEW c \in Core
  PROVE  /\ BufSteps(c) \in Seq(AnyStep)
         /\ \A x : x \in Members(BufSteps(c)) <=> x \in BufIn(c)
         /\ Chain(BufSteps(c), Earlier)
<1> DEFINE q(i) == S("buf", "buffer", c, i)
           f == [i \in 1 .. NumPorts |-> <<q(i - 1)>>]
           M == [i \in Port |-> {q(i)}]
           m == S("buf", "mmap", c, 0)
           o == S("buf", "slots", c, 0)
<1>0. c \in Nat /\ Port \subseteq Nat
  BY Sizes
<1>1. BufSteps(c) = (<<m>> \o FlattenSeq(f)) \o <<o>> /\ Port = 0 .. NumPorts - 1
  BY DEF BufSteps, OverPorts, Port
<1>2. ASSUME NEW i \in Port PROVE q(i) \in AnyStep
  BY <1>0 DEF S, AnyStep, Call, Act
<1>3. ASSUME NEW i \in Port, NEW j \in Port
      PROVE  /\ i < j => Before(q(i), q(j))
             /\ Before(m, q(i)) /\ Before(q(i), o) /\ Before(m, o)
  BY <1>0 DEF S, Before, Stage, Outer, Place, Inner
<1>4. m \in AnyStep /\ o \in AnyStep
  BY <1>0 DEF S, AnyStep, Call, Act
<1>5. \A x : x \in BufIn(c) <=> x = m \/ x = o \/ \E i \in Port : x = q(i)
  BY DEF BufIn
<1> HIDE DEF q, m, o
<1>6. \A k \in 1 .. NumPorts : /\ f[k] \in Seq(AnyStep) /\ Members(f[k]) = M[k - 1]
                               /\ Chain(f[k], Earlier)
  BY <1>2, Sizes, OneSeq
<1>7. f \in [1 .. NumPorts -> Seq(AnyStep)]
  BY <1>6
<1>8. NumPorts \in Nat \ {0} /\ \A i \in Port : M[i] = {q(i)}
  BY Sizes
<1> HIDE DEF f, M
<1>9. PICK g : g = FlattenSeq(f)
  OBVIOUS
<1>10. /\ g \in Seq(AnyStep) /\ Chain(g, Earlier)
       /\ \A x : x \in Members(g) <=> \E i \in Port : x = q(i)
  <2>1. \A i, j \in 0 .. NumPorts - 1 : i < j => \A x \in M[i], y \in M[j] : <<x, y>> \in Earlier
    BY <1>1, <1>2, <1>3, <1>8, EarlierIff
  <2>2. \A k \in 1 .. NumPorts : Members(f[k]) = M[k - 1] /\ Chain(f[k], Earlier)
    BY <1>6
  <2>3. /\ FlattenSeq(f) \in Seq(AnyStep)
        /\ \A x : x \in Members(FlattenSeq(f)) <=> \E i \in 0 .. NumPorts - 1 : x \in M[i]
        /\ Chain(FlattenSeq(f), Earlier)
    BY <2>1, <2>2, <1>7, <1>8, LoopFacts
  <2>4. \A x : x \in Members(g) <=> \E i \in Port : x \in M[i]
    BY <2>3, <1>1, <1>9
  <2>5. g \in Seq(AnyStep) /\ Chain(g, Earlier)
    BY <2>3, <1>9
  <2> QED BY <2>4, <2>5, <1>8
<1>11. PICK first, last : first = <<m>> /\ last = <<o>>
  OBVIOUS
<1>12. /\ first \in Seq(AnyStep) /\ Members(first) = {m} /\ Chain(first, Earlier)
       /\ last \in Seq(AnyStep) /\ Members(last) = {o} /\ Chain(last, Earlier)
  BY <1>4, <1>11, ShortSeqs
<1>13. \A x \in Members(g) : <<m, x>> \in Earlier /\ <<x, o>> \in Earlier
  BY <1>2, <1>3, <1>4, <1>10, EarlierIff
<1>14. <<m, o>> \in Earlier
  BY <1>3, <1>4, EarlierIff, Sizes
<1>15. PICK a : a = first \o g
  OBVIOUS
<1>16. /\ a \in Seq(AnyStep) /\ Chain(a, Earlier)
       /\ \A x : x \in Members(a) <=> x \in Members(first) \/ x \in Members(g)
  <2>1. \A x \in Members(first), y \in Members(g) : <<x, y>> \in Earlier
    BY <1>12, <1>13
  <2>2. first \in Seq(AnyStep) /\ Chain(first, Earlier) /\ g \in Seq(AnyStep) /\ Chain(g, Earlier)
    BY <1>10, <1>12
  <2> QED BY <2>1, <2>2, <1>15, ConcatChain
<1>17. PICK b : b = a \o last
  OBVIOUS
<1>18. /\ b \in Seq(AnyStep) /\ Chain(b, Earlier)
       /\ \A x : x \in Members(b) <=> x \in Members(a) \/ x \in Members(last)
  <2>1. \A x \in Members(a), y \in Members(last) : <<x, y>> \in Earlier
    BY <1>12, <1>13, <1>14, <1>16
  <2>2. a \in Seq(AnyStep) /\ Chain(a, Earlier) /\ last \in Seq(AnyStep) /\ Chain(last, Earlier)
    BY <1>12, <1>16
  <2> QED BY <2>1, <2>2, <1>17, ConcatChain
<1>19. BufSteps(c) = b
  BY <1>1, <1>9, <1>11, <1>15, <1>17
<1> QED BY <1>5, <1>10, <1>12, <1>16, <1>18, <1>19

(* ixmap_plane_alloc for one core. *)
LEMMA PlanePart ==
  ASSUME NEW c \in Core
  PROVE  /\ PlaneSteps(c) \in Seq(AnyStep)
         /\ \A x : x \in Members(PlaneSteps(c)) <=> x \in PlaneIn(c)
         /\ Chain(PlaneSteps(c), Earlier)
<1> DEFINE rx(i) == S("plane", "rxirq", c, i)
           tx(i) == S("plane", "txirq", c, i)
           f == [i \in 1 .. NumPorts |-> <<rx(i - 1), tx(i - 1)>>]
           M == [i \in Port |-> {rx(i), tx(i)}]
<1>0. c \in Nat /\ Port \subseteq Nat
  BY Sizes
<1>1. PlaneSteps(c) = FlattenSeq(f) /\ Port = 0 .. NumPorts - 1
  BY DEF PlaneSteps, OverPorts, Port
<1>2. ASSUME NEW i \in Port PROVE rx(i) \in AnyStep /\ tx(i) \in AnyStep
  BY <1>0 DEF S, AnyStep, Call, Act
<1>3. ASSUME NEW i \in Port, NEW j \in Port
      PROVE  /\ Before(rx(i), tx(i))
             /\ i < j => /\ Before(rx(i), rx(j)) /\ Before(rx(i), tx(j))
                         /\ Before(tx(i), rx(j)) /\ Before(tx(i), tx(j))
  BY <1>0 DEF S, Before, Stage, Outer, Place, Inner, Second
<1>5. \A x : x \in PlaneIn(c) <=> \E i \in Port : x = rx(i) \/ x = tx(i)
  BY DEF PlaneIn
<1> HIDE DEF rx, tx
<1>6. \A k \in 1 .. NumPorts : /\ f[k] \in Seq(AnyStep) /\ Members(f[k]) = M[k - 1]
                               /\ Chain(f[k], Earlier)
  BY <1>2, <1>3, Sizes, ShortSeqs, EarlierIff
<1>7. f \in [1 .. NumPorts -> Seq(AnyStep)]
  BY <1>6
<1>8. NumPorts \in Nat \ {0} /\ \A i \in Port : M[i] = {rx(i), tx(i)}
  BY Sizes
<1> HIDE DEF f, M
<1>9. \A i, j \in 0 .. NumPorts - 1 : i < j => \A x \in M[i], y \in M[j] : <<x, y>> \in Earlier
  BY <1>1, <1>2, <1>3, <1>8, EarlierIff, ZenonT(60)
<1>10. \A k \in 1 .. NumPorts : Members(f[k]) = M[k - 1] /\ Chain(f[k], Earlier)
  BY <1>6
<1>11. /\ FlattenSeq(f) \in Seq(AnyStep)
       /\ \A x : x \in Members(FlattenSeq(f)) <=> \E i \in 0 .. NumPorts - 1 : x \in M[i]
       /\ Chain(FlattenSeq(f), Earlier)
  BY <1>7, <1>8, <1>9, <1>10, LoopFacts
<1>12. \A x : x \in Members(FlattenSeq(f)) <=> x \in PlaneIn(c)
  BY <1>1, <1>5, <1>8, <1>11
<1> QED BY <1>1, <1>11, <1>12

(* The loop over the cores in main, one iteration. *)
LEMMA CorePart ==
  ASSUME NEW c \in Core
  PROVE  /\ CoreSteps(c) \in Seq(AnyStep)
         /\ Members(CoreSteps(c)) = CoreIn(c)
         /\ Chain(CoreSteps(c), Earlier)
<1> DEFINE al == S("tunplane", "alloc", c, 0)
           th == S("thread", "thread", c, 0)
<1>0. c \in Nat /\ Port \subseteq Nat
  BY Sizes
<1>1. PICK bs, ps, last : bs = BufSteps(c) /\ ps = PlaneSteps(c) /\ last = <<al, th>>
  OBVIOUS
<1>2. CoreSteps(c) = (bs \o ps) \o last
  BY <1>1 DEF CoreSteps
<1>3. al \in AnyStep /\ th \in AnyStep
  BY <1>0 DEF S, AnyStep, Call, Act
<1>4. ASSUME NEW x \in BufIn(c), NEW y \in PlaneIn(c)
      PROVE  /\ Before(x, y) /\ Before(x, al) /\ Before(x, th)
             /\ Before(y, al) /\ Before(y, th) /\ Before(al, th)
  BY <1>0 DEF BufIn, PlaneIn, S, Before, Stage, Outer, Place
<1>5. BufIn(c) \subseteq AnyStep /\ PlaneIn(c) \subseteq AnyStep
  BY Sizes, StepsAreSteps
<1>6. BufIn(c) # {} /\ PlaneIn(c) # {}
  BY Sizes DEF BufIn, PlaneIn
<1>7. CoreIn(c) = BufIn(c) \cup PlaneIn(c) \cup {al, th}
  BY DEF CoreIn
<1> HIDE DEF al, th
<1>8. \A x \in BufIn(c), y \in PlaneIn(c) :
         /\ <<x, y>> \in Earlier /\ <<x, al>> \in Earlier /\ <<x, th>> \in Earlier
         /\ <<y, al>> \in Earlier /\ <<y, th>> \in Earlier /\ <<al, th>> \in Earlier
  BY <1>3, <1>4, <1>5, EarlierIff
<1>9. last \in Seq(AnyStep) /\ Members(last) = {al, th} /\ Chain(last, Earlier)
  BY <1>1, <1>3, <1>6, <1>8, ShortSeqs
<1>10. /\ bs \in Seq(AnyStep) /\ (\A x : x \in Members(bs) <=> x \in BufIn(c)) /\ Chain(bs, Earlier)
       /\ ps \in Seq(AnyStep) /\ (\A x : x \in Members(ps) <=> x \in PlaneIn(c)) /\ Chain(ps, Earlier)
  BY <1>1, BufPart, PlanePart
<1>15. PICK a : a = bs \o ps
  OBVIOUS
<1>16. /\ a \in Seq(AnyStep) /\ Chain(a, Earlier)
       /\ \A x : x \in Members(a) <=> x \in Members(bs) \/ x \in Members(ps)
  <2>1. \A x \in Members(bs), y \in Members(ps) : <<x, y>> \in Earlier
    BY <1>8, <1>10
  <2>2. bs \in Seq(AnyStep) /\ Chain(bs, Earlier) /\ ps \in Seq(AnyStep) /\ Chain(ps, Earlier)
    BY <1>10
  <2> QED BY <2>1, <2>2, <1>15, ConcatChain
<1>17. PICK b : b = a \o last
  OBVIOUS
<1>18. /\ b \in Seq(AnyStep) /\ Chain(b, Earlier)
       /\ \A x : x \in Members(b) <=> x \in Members(a) \/ x \in Members(last)
  <2>1. \A x \in Members(a), y \in Members(last) : <<x, y>> \in Earlier
    BY <1>6, <1>8, <1>9, <1>10, <1>16
  <2>2. a \in Seq(AnyStep) /\ Chain(a, Earlier) /\ last \in Seq(AnyStep) /\ Chain(last, Earlier)
    BY <1>9, <1>16
  <2> QED BY <2>1, <2>2, <1>17, ConcatChain
<1>19. CoreSteps(c) = b
  BY <1>2, <1>15, <1>17
<1> QED BY <1>7, <1>9, <1>10, <1>16, <1>18, <1>19

(* The loop over the cores in main. *)
LEMMA CoreAll ==
  /\ OverCores(CoreSteps) \in Seq(AnyStep)
  /\ \A x : x \in Members(OverCores(CoreSteps)) <=> \E i \in Core : x \in CoreIn(i)
  /\ Chain(OverCores(CoreSteps), Earlier)
<1> DEFINE f == [i \in 1 .. NumCores |-> CoreSteps(i - 1)]
           M == [i \in Core |-> CoreIn(i)]
<1>1. OverCores(CoreSteps) = FlattenSeq(f) /\ Core = 0 .. NumCores - 1
  BY DEF OverCores, Core
<1>2. \A k \in 1 .. NumCores : /\ f[k] \in Seq(AnyStep) /\ Members(f[k]) = M[k - 1]
                               /\ Chain(f[k], Earlier)
  BY Sizes, CorePart
<1>3. f \in [1 .. NumCores -> Seq(AnyStep)]
  BY <1>2
<1>4. ASSUME NEW i \in Core, NEW j \in Core, i < j, NEW x \in M[i], NEW y \in M[j]
      PROVE  <<x, y>> \in Earlier
  <2>1. x \in CoreIn(i) /\ y \in CoreIn(j) /\ i \in Nat /\ j \in Nat /\ Port \subseteq Nat /\ Core \subseteq Nat
    BY Sizes
  <2>2. x \in AnyStep /\ y \in AnyStep
    BY <2>1, Sizes, StepsAreSteps
  <2>3. Before(x, y)
    BY <2>1, <1>4 DEF CoreIn, S, Before, BufIn, PlaneIn, Stage, Outer
  <2> QED BY <2>2, <2>3, EarlierIff
<1>5. NumCores \in Nat \ {0} /\ \A i \in Core : M[i] = CoreIn(i)
  BY Sizes
<1> HIDE DEF f, M
<1>6. \A i, j \in 0 .. NumCores - 1 : i < j => \A x \in M[i], y \in M[j] : <<x, y>> \in Earlier
  BY <1>1, <1>4
<1>7. \A k \in 1 .. NumCores : Members(f[k]) = M[k - 1] /\ Chain(f[k], Earlier)
  BY <1>2
<1>8. /\ FlattenSeq(f) \in Seq(AnyStep)
      /\ \A x : x \in Members(FlattenSeq(f)) <=> \E i \in 0 .. NumCores - 1 : x \in M[i]
      /\ Chain(FlattenSeq(f), Earlier)
  BY <1>3, <1>5, <1>6, <1>7, LoopFacts
<1> QED BY <1>1, <1>5, <1>8

\* The steps of main.
ConfigIn == {S("configure", "registers", 0, i) : i \in Port}
MaskStep == S("signal", "mask", 0, 0)
StartStep == {x \in AnyStep :
                \/ \E i \in Port : x \in OpenIn(i)
                \/ \E c \in Core : x \in DescIn(c)
                \/ x \in ConfigIn
                \/ \E i \in Port : x \in TunIn(i)
                \/ x = MaskStep
                \/ \E c \in Core : x \in CoreIn(c)}

(* ixmap_configure_rx and ixmap_configure_tx for all ports. *)
LEMMA ConfigAll ==
  LET configure_port(i) == <<S("configure", "registers", 0, i)>>
  IN  /\ OverPorts(configure_port) \in Seq(AnyStep)
      /\ \A x : x \in Members(OverPorts(configure_port)) <=> x \in ConfigIn
      /\ Chain(OverPorts(configure_port), Earlier)
<1> DEFINE q(i) == S("configure", "registers", 0, i)
           f == [i \in 1 .. NumPorts |-> <<q(i - 1)>>]
           M == [i \in Port |-> {q(i)}]
           configure_port(i) == <<S("configure", "registers", 0, i)>>
<1>0. Port \subseteq Nat
  BY Sizes
<1>1. OverPorts(configure_port) = FlattenSeq(f) /\ Port = 0 .. NumPorts - 1
  BY DEF OverPorts, Port
<1>2. ASSUME NEW i \in Port PROVE q(i) \in AnyStep
  BY <1>0 DEF S, AnyStep, Call, Act
<1>3. ASSUME NEW i \in Port, NEW j \in Port, i < j PROVE Before(q(i), q(j))
  BY <1>0, <1>3 DEF S, Before, Stage, Outer
<1>4. \A x : x \in ConfigIn <=> \E i \in Port : x = q(i)
  BY DEF ConfigIn
<1> HIDE DEF q
<1>5. \A k \in 1 .. NumPorts : /\ f[k] \in Seq(AnyStep) /\ Members(f[k]) = M[k - 1]
                               /\ Chain(f[k], Earlier)
  BY <1>2, Sizes, OneSeq
<1>6. f \in [1 .. NumPorts -> Seq(AnyStep)]
  BY <1>5
<1>7. NumPorts \in Nat \ {0} /\ \A i \in Port : M[i] = {q(i)}
  BY Sizes
<1> HIDE DEF f, M
<1>8. \A i, j \in 0 .. NumPorts - 1 : i < j => \A x \in M[i], y \in M[j] : <<x, y>> \in Earlier
  BY <1>1, <1>2, <1>3, <1>7, EarlierIff
<1>9. \A k \in 1 .. NumPorts : Members(f[k]) = M[k - 1] /\ Chain(f[k], Earlier)
  BY <1>5
<1>10. /\ FlattenSeq(f) \in Seq(AnyStep)
       /\ \A x : x \in Members(FlattenSeq(f)) <=> \E i \in 0 .. NumPorts - 1 : x \in M[i]
       /\ Chain(FlattenSeq(f), Earlier)
  BY <1>6, <1>7, <1>8, <1>9, LoopFacts
<1>11. \A x : x \in Members(FlattenSeq(f)) <=> x \in ConfigIn
  <2>1. PICK g : g = FlattenSeq(f)
    OBVIOUS
  <2>2. \A x : x \in Members(g) <=> \E i \in Port : x \in M[i]
    BY <2>1, <1>1, <1>10
  <2>3. \A x : x \in Members(g) <=> \E i \in Port : x = q(i)
    BY <2>2, <1>7
  <2> QED BY <2>1, <2>3, <1>4
<1> QED BY <1>1, <1>10, <1>11

(* The part of main that a step is in. *)
LEMMA Stages ==
  /\ \A i \in Port : \A x \in OpenIn(i) : x \in AnyStep /\ Stage(x) = 1
  /\ \A c \in Core : \A x \in DescIn(c) : x \in AnyStep /\ Stage(x) = 2
  /\ \A x \in ConfigIn : x \in AnyStep /\ Stage(x) = 3
  /\ \A i \in Port : \A x \in TunIn(i) : x \in AnyStep /\ Stage(x) = 4
  /\ MaskStep \in AnyStep /\ Stage(MaskStep) = 5
  /\ \A c \in Core : \A x \in CoreIn(c) : x \in AnyStep /\ Stage(x) = 6
<1>1. Port \subseteq Nat /\ Core \subseteq Nat
  BY Sizes
<1>2. ASSUME NEW i \in Port, NEW x \in OpenIn(i) PROVE x \in AnyStep /\ Stage(x) = 1
  <2>1. x \in AnyStep
    BY StepsAreSteps, Sizes
  <2>2. Stage(x) = 1
    BY DEF OpenIn, S, Stage
  <2> QED BY <2>1, <2>2
<1>3. ASSUME NEW c \in Core, NEW x \in DescIn(c) PROVE x \in AnyStep /\ Stage(x) = 2
  <2>1. x \in AnyStep
    BY StepsAreSteps, Sizes
  <2>2. Stage(x) = 2
    BY DEF DescIn, S, Stage
  <2> QED BY <2>1, <2>2
<1>4. ASSUME NEW x \in ConfigIn PROVE x \in AnyStep /\ Stage(x) = 3
  <2>1. x \in AnyStep
    BY <1>1 DEF ConfigIn, S, AnyStep, Call, Act
  <2>2. Stage(x) = 3
    BY DEF ConfigIn, S, Stage
  <2> QED BY <2>1, <2>2
<1>5. ASSUME NEW i \in Port, NEW x \in TunIn(i) PROVE x \in AnyStep /\ Stage(x) = 4
  <2>1. x \in AnyStep
    BY StepsAreSteps, Sizes
  <2>2. Stage(x) = 4
    BY DEF TunIn, S, Stage
  <2> QED BY <2>1, <2>2
<1>6. MaskStep \in AnyStep /\ Stage(MaskStep) = 5
  BY DEF MaskStep, S, AnyStep, Call, Act, Stage
<1>7. ASSUME NEW c \in Core, NEW x \in CoreIn(c) PROVE x \in AnyStep /\ Stage(x) = 6
  <2>1. x \in AnyStep
    BY StepsAreSteps, Sizes
  <2>2. Stage(x) = 6
    BY DEF CoreIn, BufIn, PlaneIn, S, Stage
  <2> QED BY <2>1, <2>2
<1> QED BY <1>2, <1>3, <1>4, <1>5, <1>6, <1>7

(* The steps of earlier parts are before those of a later part. *)
LEMMA StageEarlier ==
  ASSUME NEW A, NEW B, NEW n \in Nat,
         \A x \in A : x \in AnyStep /\ Stage(x) \in 1 .. n,
         \A y \in B : y \in AnyStep /\ Stage(y) = n + 1
  PROVE  \A x \in A, y \in B : <<x, y>> \in Earlier
<1> SUFFICES ASSUME NEW x \in A, NEW y \in B PROVE <<x, y>> \in Earlier
  OBVIOUS
<1>1. Stage(x) < Stage(y)
  OBVIOUS
<1>2. Before(x, y)
  BY <1>1 DEF Before
<1> QED BY <1>2, EarlierIff

(* main executes the steps of StartStep, in the order of Before. *)
LEMMA StartupFacts ==
  /\ Startup \in Seq(AnyStep)
  /\ \A x : x \in Members(Startup) <=> x \in StartStep
  /\ Chain(Startup, Earlier)
<1> DEFINE configure_port(i) == <<S("configure", "registers", 0, i)>>
<1>1. PICK o, d, g, t, m, c : /\ o = OverPorts(OpenSteps) /\ d = OverCores(DescSteps)
                              /\ g = OverPorts(configure_port) /\ t = OverPorts(TunSteps)
                              /\ m = <<MaskStep>> /\ c = OverCores(CoreSteps)
  OBVIOUS
<1>2. Startup = o \o d \o g \o t \o m \o c
  BY <1>1 DEF Startup, MaskStep
<1>3. /\ o \in Seq(AnyStep) /\ d \in Seq(AnyStep) /\ g \in Seq(AnyStep)
      /\ t \in Seq(AnyStep) /\ m \in Seq(AnyStep) /\ c \in Seq(AnyStep)
      /\ Chain(o, Earlier) /\ Chain(d, Earlier) /\ Chain(g, Earlier)
      /\ Chain(t, Earlier) /\ Chain(m, Earlier) /\ Chain(c, Earlier)
  BY <1>1, OpenAll, DescAll, ConfigAll, TunAll, CoreAll, Stages, OneSeq
<1>4. /\ \A x : x \in Members(o) <=> \E i \in Port : x \in OpenIn(i)
      /\ \A x : x \in Members(d) <=> \E i \in Core : x \in DescIn(i)
      /\ \A x : x \in Members(g) <=> x \in ConfigIn
      /\ \A x : x \in Members(t) <=> \E i \in Port : x \in TunIn(i)
      /\ \A x : x \in Members(m) <=> x = MaskStep
      /\ \A x : x \in Members(c) <=> \E i \in Core : x \in CoreIn(i)
  <2>1. Members(m) = {MaskStep}
    BY <1>1, Stages, OneSeq
  <2> QED BY <2>1, <1>1, OpenAll, DescAll, ConfigAll, TunAll, CoreAll
<1>5. /\ \A x \in Members(o) : x \in AnyStep /\ Stage(x) = 1
      /\ \A x \in Members(d) : x \in AnyStep /\ Stage(x) = 2
      /\ \A x \in Members(g) : x \in AnyStep /\ Stage(x) = 3
      /\ \A x \in Members(t) : x \in AnyStep /\ Stage(x) = 4
      /\ \A x \in Members(m) : x \in AnyStep /\ Stage(x) = 5
      /\ \A x \in Members(c) : x \in AnyStep /\ Stage(x) = 6
  BY <1>4, Stages
<1>6. PICK a1 : a1 = o \o d
  OBVIOUS
<1>7. /\ a1 \in Seq(AnyStep) /\ Chain(a1, Earlier)
      /\ \A x : x \in Members(a1) <=> x \in Members(o) \/ x \in Members(d)
  <2>0. /\ \A x \in Members(o) : x \in AnyStep /\ Stage(x) \in 1 .. 1
        /\ \A x \in Members(d) : x \in AnyStep /\ Stage(x) = 1 + 1
    BY <1>5
  <2>1. \A x \in Members(o), y \in Members(d) : <<x, y>> \in Earlier
    BY <2>0, StageEarlier
  <2> QED BY <2>1, <1>3, <1>6, ConcatChain
<1>8. PICK a2 : a2 = a1 \o g
  OBVIOUS
<1>9. /\ a2 \in Seq(AnyStep) /\ Chain(a2, Earlier)
      /\ \A x : x \in Members(a2) <=> x \in Members(a1) \/ x \in Members(g)
  <2>0. /\ \A x \in Members(a1) : x \in AnyStep /\ Stage(x) \in 1 .. 2
        /\ \A x \in Members(g) : x \in AnyStep /\ Stage(x) = 2 + 1
    BY <1>5, <1>7
  <2>1. \A x \in Members(a1), y \in Members(g) : <<x, y>> \in Earlier
    BY <2>0, StageEarlier
  <2> QED BY <2>1, <1>3, <1>7, <1>8, ConcatChain
<1>10. PICK a3 : a3 = a2 \o t
  OBVIOUS
<1>11. /\ a3 \in Seq(AnyStep) /\ Chain(a3, Earlier)
       /\ \A x : x \in Members(a3) <=> x \in Members(a2) \/ x \in Members(t)
  <2>0. /\ \A x \in Members(a2) : x \in AnyStep /\ Stage(x) \in 1 .. 3
        /\ \A x \in Members(t) : x \in AnyStep /\ Stage(x) = 3 + 1
    BY <1>5, <1>7, <1>9
  <2>1. \A x \in Members(a2), y \in Members(t) : <<x, y>> \in Earlier
    BY <2>0, StageEarlier
  <2> QED BY <2>1, <1>3, <1>9, <1>10, ConcatChain
<1>12. PICK a4 : a4 = a3 \o m
  OBVIOUS
<1>13. /\ a4 \in Seq(AnyStep) /\ Chain(a4, Earlier)
       /\ \A x : x \in Members(a4) <=> x \in Members(a3) \/ x \in Members(m)
  <2>0. /\ \A x \in Members(a3) : x \in AnyStep /\ Stage(x) \in 1 .. 4
        /\ \A x \in Members(m) : x \in AnyStep /\ Stage(x) = 4 + 1
    BY <1>5, <1>7, <1>9, <1>11
  <2>1. \A x \in Members(a3), y \in Members(m) : <<x, y>> \in Earlier
    BY <2>0, StageEarlier
  <2> QED BY <2>1, <1>3, <1>11, <1>12, ConcatChain
<1>14. PICK a5 : a5 = a4 \o c
  OBVIOUS
<1>15. /\ a5 \in Seq(AnyStep) /\ Chain(a5, Earlier)
       /\ \A x : x \in Members(a5) <=> x \in Members(a4) \/ x \in Members(c)
  <2>0. /\ \A x \in Members(a4) : x \in AnyStep /\ Stage(x) \in 1 .. 5
        /\ \A x \in Members(c) : x \in AnyStep /\ Stage(x) = 5 + 1
    BY <1>5, <1>7, <1>9, <1>11, <1>13
  <2>1. \A x \in Members(a4), y \in Members(c) : <<x, y>> \in Earlier
    BY <2>0, StageEarlier
  <2> QED BY <2>1, <1>3, <1>13, <1>14, ConcatChain
<1>16. Startup = a5
  BY <1>2, <1>6, <1>8, <1>10, <1>12, <1>14
<1>17. \A x : x \in Members(a5) <=> x \in StartStep
  <2>1. \A x : x \in Members(a5) <=> \/ x \in Members(o) \/ x \in Members(d) \/ x \in Members(g)
                                    \/ x \in Members(t) \/ x \in Members(m) \/ x \in Members(c)
    BY <1>7, <1>9, <1>11, <1>13, <1>15
  <2>2. \A x : x \in StartStep <=>
                \/ \E i \in Port : x \in OpenIn(i)
                \/ \E i \in Core : x \in DescIn(i)
                \/ x \in ConfigIn
                \/ \E i \in Port : x \in TunIn(i)
                \/ x = MaskStep
                \/ \E i \in Core : x \in CoreIn(i)
    BY Stages DEF StartStep
  <2> QED BY <2>1, <2>2, <1>4
<1> QED BY <1>15, <1>16, <1>17

-----------------------------------------------------------------------------
(* The order of the release.                                               *)

\* x has to be released before y: a thread, which is asked to end before main
\* waits for it, before what it works with; an area before its pages and
\* before the file of its device; and a file is closed in two halves.
Dep(x, y) ==
  \/ x.act = "kill" /\ y.act = "thread" /\ x.core = y.core
  \/ /\ x.act = "thread"
     /\ \/ y.call \in {"plane", "buf"} /\ y.core = x.core
        \/ y.call \in {"tun", "desc", "open"}
  \/ x.act = "buffer" /\ (y.call = "open" \/ (y.call = "buf" /\ y.act = "mmap" /\ y.core = x.core))
  \/ /\ x.act \in {"rxring", "txring"}
     /\ \/ y.call = "open"
        \/ y.call = "desc" /\ y.act = "mmap" /\ y.core = x.core
  \/ x.act = "down" /\ y.act = "file" /\ x.port = y.port

\* Steps in the order x, y that no dependency forbids.
Allowed == {xy \in AnyStep \X AnyStep : ~ Dep(xy[2], xy[1]) /\ xy[1] # xy[2]}

ThreadOut(c) == {S("thread", "kill", c, 0), S("thread", "thread", c, 0)}
BufOut(c) == {S("buf", "buffer", c, i) : i \in Port} \cup {S("buf", "mmap", c, 0)}
CoreOut(c) == ThreadOut(c) \cup PlaneIn(c) \cup BufOut(c)
DescOut(c) == {S("desc", "txring", c, i) : i \in Port} \cup {S("desc", "rxring", c, i) : i \in Port}
              \cup {S("desc", "mmap", c, 0)}
CloseOut(i) == {S("open", "down", 0, i), S("open", "file", 0, i)}

(* Two steps no dependency forbids are in Allowed. *)
LEMMA AllowedIff ==
  ASSUME NEW x \in AnyStep, NEW y \in AnyStep
  PROVE  <<x, y>> \in Allowed <=> ~ Dep(y, x) /\ x # y
BY DEF Allowed

(* Every step of the release is a step. *)
LEMMA OutsAreSteps ==
  ASSUME NEW c \in Core, NEW i \in Port
  PROVE  /\ ThreadOut(c) \subseteq AnyStep /\ BufOut(c) \subseteq AnyStep
         /\ CoreOut(c) \subseteq AnyStep /\ DescOut(c) \subseteq AnyStep
         /\ CloseOut(i) \subseteq AnyStep
<1>1. c \in Nat /\ i \in Nat /\ Port \subseteq Nat /\ Core \subseteq Nat
  BY Sizes
<1>2. ThreadOut(c) \subseteq AnyStep
  BY <1>1 DEF ThreadOut, AnyStep, S, Call, Act
<1>3. BufOut(c) \subseteq AnyStep
  BY <1>1 DEF BufOut, AnyStep, S, Call, Act
<1>4. DescOut(c) \subseteq AnyStep
  BY <1>1 DEF DescOut, AnyStep, S, Call, Act
<1>5. CloseOut(i) \subseteq AnyStep
  BY <1>1 DEF CloseOut, AnyStep, S, Call, Act
<1> QED BY <1>2, <1>3, <1>4, <1>5, StepsAreSteps DEF CoreOut

(* ixmap_plane_release for one core. *)
LEMMA PlaneOutPart ==
  ASSUME NEW c \in Core
  PROVE  /\ PlaneRelease(c) \in Seq(AnyStep)
         /\ \A x : x \in Members(PlaneRelease(c)) <=> x \in PlaneIn(c)
         /\ Chain(PlaneRelease(c), Allowed)
<1> DEFINE rx(i) == S("plane", "rxirq", c, i)
           tx(i) == S("plane", "txirq", c, i)
           f == [i \in 1 .. NumPorts |-> <<rx(i - 1), tx(i - 1)>>]
           M == [i \in Port |-> {rx(i), tx(i)}]
<1>0. c \in Nat /\ Port \subseteq Nat /\ Core \subseteq Nat
  BY Sizes
<1>1. PlaneRelease(c) = FlattenSeq(f) /\ Port = 0 .. NumPorts - 1
  BY DEF PlaneRelease, OverPorts, Port
<1>2. ASSUME NEW i \in Port PROVE rx(i) \in AnyStep /\ tx(i) \in AnyStep
  BY <1>0 DEF S, AnyStep, Call, Act
<1>3. ASSUME NEW i \in Port, NEW j \in Port
      PROVE  /\ ~ Dep(tx(i), rx(i)) /\ rx(i) # tx(i)
             /\ i < j => /\ ~ Dep(rx(j), rx(i)) /\ rx(i) # rx(j)
                     /\ ~ Dep(tx(j), rx(i)) /\ rx(i) # tx(j)
                     /\ ~ Dep(rx(j), tx(i)) /\ tx(i) # rx(j)
                     /\ ~ Dep(tx(j), tx(i)) /\ tx(i) # tx(j)
  BY <1>0 DEF S, Dep
<1>4. \A x : x \in PlaneIn(c) <=> \E i \in Port : x = rx(i) \/ x = tx(i)
  BY DEF PlaneIn
<1> HIDE DEF rx, tx
<1>5. \A k \in 1 .. NumPorts : /\ f[k] \in Seq(AnyStep) /\ Members(f[k]) = M[k - 1]
                               /\ Chain(f[k], Allowed)
  BY <1>2, <1>3, Sizes, ShortSeqs, AllowedIff
<1>6. f \in [1 .. NumPorts -> Seq(AnyStep)]
  BY <1>5
<1>7. NumPorts \in Nat \ {0} /\ \A i \in Port : M[i] = {rx(i), tx(i)}
  BY Sizes
<1> HIDE DEF f, M
<1>8. \A i, j \in 0 .. NumPorts - 1 : i < j => \A x \in M[i], y \in M[j] : <<x, y>> \in Allowed
  <2> SUFFICES ASSUME NEW i \in Port, NEW j \in Port, i < j, NEW x \in M[i], NEW y \in M[j]
               PROVE  <<x, y>> \in Allowed
    BY <1>1
  <2>1. x \in AnyStep /\ y \in AnyStep
    BY <1>2, <1>7
  <2>2. ~ Dep(y, x) /\ x # y
    BY <1>3, <1>7
  <2> QED BY <2>1, <2>2, AllowedIff
<1>9. \A k \in 1 .. NumPorts : Members(f[k]) = M[k - 1] /\ Chain(f[k], Allowed)
  BY <1>5
<1>10. /\ FlattenSeq(f) \in Seq(AnyStep)
       /\ \A x : x \in Members(FlattenSeq(f)) <=> \E k \in 0 .. NumPorts - 1 : x \in M[k]
       /\ Chain(FlattenSeq(f), Allowed)
  BY <1>6, <1>7, <1>8, <1>9, LoopFacts
<1>11. \A x : x \in Members(FlattenSeq(f)) <=> x \in PlaneIn(c)
  <2>1. PICK g : g = FlattenSeq(f)
    OBVIOUS
  <2>2. \A x : x \in Members(g) <=> \E k \in Port : x \in M[k]
    BY <2>1, <1>1, <1>10
  <2>3. \A x : x \in Members(g) <=> \E i \in Port : x = rx(i) \/ x = tx(i)
    BY <2>2, <1>7
  <2> QED BY <2>1, <2>3, <1>4
<1> QED BY <1>1, <1>10, <1>11

(* ixmap_buf_release: the buffers of one core. *)
LEMMA BuffersOut ==
  ASSUME NEW c \in Core
  PROVE  LET one(i) == <<S("buf", "buffer", c, i)>> IN
         /\ OverPorts(one) \in Seq(AnyStep)
         /\ \A x : x \in Members(OverPorts(one)) <=> (\E i \in Port : x = S("buf", "buffer", c, i))
         /\ Chain(OverPorts(one), Allowed)
<1> DEFINE one(i) == <<S("buf", "buffer", c, i)>>
           q(i) == S("buf", "buffer", c, i)
           f == [i \in 1 .. NumPorts |-> <<q(i - 1)>>]
           M == [i \in Port |-> {q(i)}]
<1>0. c \in Nat /\ Port \subseteq Nat /\ Core \subseteq Nat
  BY Sizes
<1>1. OverPorts(one) = FlattenSeq(f) /\ Port = 0 .. NumPorts - 1
  BY DEF OverPorts, Port
<1>2. ASSUME NEW i \in Port PROVE q(i) \in AnyStep
  BY <1>0 DEF S, AnyStep, Call, Act
<1>3. ASSUME NEW i \in Port, NEW j \in Port
      PROVE  /\ i < j => /\ ~ Dep(q(j), q(i)) /\ q(i) # q(j)
  BY <1>0 DEF S, Dep
<1>4. \A x : (\E i \in Port : x = S("buf", "buffer", c, i)) <=> \E i \in Port : x = q(i)
  BY DEF q
<1> HIDE DEF q
<1>5. \A k \in 1 .. NumPorts : /\ f[k] \in Seq(AnyStep) /\ Members(f[k]) = M[k - 1]
                               /\ Chain(f[k], Allowed)
  BY <1>2, <1>3, Sizes, OneSeq
<1>6. f \in [1 .. NumPorts -> Seq(AnyStep)]
  BY <1>5
<1>7. NumPorts \in Nat \ {0} /\ \A i \in Port : M[i] = {q(i)}
  BY Sizes
<1> HIDE DEF f, M
<1>8. \A i, j \in 0 .. NumPorts - 1 : i < j => \A x \in M[i], y \in M[j] : <<x, y>> \in Allowed
  <2> SUFFICES ASSUME NEW i \in Port, NEW j \in Port, i < j, NEW x \in M[i], NEW y \in M[j]
               PROVE  <<x, y>> \in Allowed
    BY <1>1
  <2>1. x \in AnyStep /\ y \in AnyStep
    BY <1>2, <1>7
  <2>2. ~ Dep(y, x) /\ x # y
    BY <1>3, <1>7
  <2> QED BY <2>1, <2>2, AllowedIff
<1>9. \A k \in 1 .. NumPorts : Members(f[k]) = M[k - 1] /\ Chain(f[k], Allowed)
  BY <1>5
<1>10. /\ FlattenSeq(f) \in Seq(AnyStep)
       /\ \A x : x \in Members(FlattenSeq(f)) <=> \E k \in 0 .. NumPorts - 1 : x \in M[k]
       /\ Chain(FlattenSeq(f), Allowed)
  BY <1>6, <1>7, <1>8, <1>9, LoopFacts
<1>11. \A x : x \in Members(FlattenSeq(f)) <=> (\E i \in Port : x = S("buf", "buffer", c, i))
  <2>1. PICK g : g = FlattenSeq(f)
    OBVIOUS
  <2>2. \A x : x \in Members(g) <=> \E k \in Port : x \in M[k]
    BY <2>1, <1>1, <1>10
  <2>3. \A x : x \in Members(g) <=> \E i \in Port : x = q(i)
    BY <2>2, <1>7
  <2> QED BY <2>1, <2>3, <1>4
<1> QED BY <1>1, <1>10, <1>11

(* ixmap_buf_release for one core. *)
LEMMA BufOutPart ==
  ASSUME NEW c \in Core
  PROVE  /\ BufRelease(c) \in Seq(AnyStep)
         /\ \A x : x \in Members(BufRelease(c)) <=> x \in BufOut(c)
         /\ Chain(BufRelease(c), Allowed)
<1> DEFINE one(i) == <<S("buf", "buffer", c, i)>>
           m == S("buf", "mmap", c, 0)
<1>0. c \in Nat /\ Port \subseteq Nat
  BY Sizes
<1>1. PICK a, last : a = OverPorts(one) /\ last = <<m>>
  OBVIOUS
<1>2. BufRelease(c) = a \o last
  BY <1>1 DEF BufRelease
<1>3. m \in AnyStep
  BY <1>0 DEF S, AnyStep, Call, Act
<1>4. last \in Seq(AnyStep) /\ Members(last) = {m} /\ Chain(last, Allowed)
  BY <1>1, <1>3, OneSeq
<1>5. /\ a \in Seq(AnyStep) /\ Chain(a, Allowed)
      /\ \A x : x \in Members(a) <=> \E i \in Port : x = S("buf", "buffer", c, i)
  BY <1>1, BuffersOut
<1>6. ASSUME NEW i \in Port
      PROVE  <<S("buf", "buffer", c, i), m>> \in Allowed
  <2>1. ~ Dep(m, S("buf", "buffer", c, i)) /\ S("buf", "buffer", c, i) # m
    BY <1>0 DEF Dep, S
  <2>2. S("buf", "buffer", c, i) \in AnyStep
    BY <1>0 DEF S, AnyStep, Call, Act
  <2> QED BY <2>1, <2>2, <1>3, AllowedIff
<1>7. \A x \in Members(a), y \in Members(last) : <<x, y>> \in Allowed
  BY <1>4, <1>5, <1>6
<1>8. \A x : x \in BufOut(c) <=> x = m \/ \E i \in Port : x = S("buf", "buffer", c, i)
  BY DEF BufOut
<1> HIDE DEF m
<1>9. PICK b : b = a \o last
  OBVIOUS
<1>10. /\ b \in Seq(AnyStep) /\ Chain(b, Allowed)
       /\ \A x : x \in Members(b) <=> x \in Members(a) \/ x \in Members(last)
  BY <1>4, <1>5, <1>7, <1>9, ConcatChain
<1> QED BY <1>2, <1>4, <1>5, <1>8, <1>9, <1>10

(* The end of one core. *)
LEMMA CoreOutPart ==
  ASSUME NEW c \in Core
  PROVE  /\ CoreRelease(c) \in Seq(AnyStep)
         /\ Members(CoreRelease(c)) = CoreOut(c)
         /\ Chain(CoreRelease(c), Allowed)
<1>0. c \in Nat /\ Port \subseteq Nat
  BY Sizes
<1>1. PICK ts, ps, bs : ts = ThreadRelease(c) /\ ps = PlaneRelease(c) /\ bs = BufRelease(c)
  OBVIOUS
<1>2. CoreRelease(c) = (ts \o ps) \o bs
  BY <1>1 DEF CoreRelease
<1>3. ts \in Seq(AnyStep) /\ Members(ts) = ThreadOut(c) /\ Chain(ts, Allowed)
  <2> DEFINE k == S("thread", "kill", c, 0)
             t == S("thread", "thread", c, 0)
  <2>1. k \in AnyStep /\ t \in AnyStep
    BY <1>0 DEF S, AnyStep, Call, Act
  <2>2. ~ Dep(t, k) /\ k # t
    BY <1>0 DEF S, Dep
  <2>3. ts = <<k, t>> /\ ThreadOut(c) = {k, t}
    BY <1>1 DEF ThreadRelease, ThreadOut
  <2> HIDE DEF k, t
  <2> QED BY <2>1, <2>2, <2>3, ShortSeqs, AllowedIff
<1>4. /\ ps \in Seq(AnyStep) /\ (\A x : x \in Members(ps) <=> x \in PlaneIn(c)) /\ Chain(ps, Allowed)
      /\ bs \in Seq(AnyStep) /\ (\A x : x \in Members(bs) <=> x \in BufOut(c)) /\ Chain(bs, Allowed)
  BY <1>1, BufOutPart, PlaneOutPart
<1>5. ThreadOut(c) \subseteq AnyStep /\ PlaneIn(c) \subseteq AnyStep /\ BufOut(c) \subseteq AnyStep
  BY Sizes, StepsAreSteps, OutsAreSteps
<1>6. ASSUME NEW x \in ThreadOut(c), NEW y \in PlaneIn(c), NEW z \in BufOut(c)
      PROVE  <<x, y>> \in Allowed /\ <<x, z>> \in Allowed /\ <<y, z>> \in Allowed
  <2>1. ~ Dep(y, x) /\ x # y
    BY DEF ThreadOut, PlaneIn, Dep, S
  <2>2. ~ Dep(z, x) /\ x # z
    BY DEF ThreadOut, BufOut, Dep, S
  <2>3. ~ Dep(z, y) /\ y # z
    BY DEF PlaneIn, BufOut, Dep, S
  <2> QED BY <2>1, <2>2, <2>3, <1>5, AllowedIff
<1>7. ThreadOut(c) # {} /\ PlaneIn(c) # {} /\ BufOut(c) # {}
  BY Sizes, ZenonT(60) DEF ThreadOut, PlaneIn, BufOut
<1>8. PICK a : a = ts \o ps
  OBVIOUS
<1>9. /\ a \in Seq(AnyStep) /\ Chain(a, Allowed)
      /\ \A x : x \in Members(a) <=> x \in Members(ts) \/ x \in Members(ps)
  <2>1. \A x \in Members(ts), y \in Members(ps) : <<x, y>> \in Allowed
    BY <1>3, <1>4, <1>6, <1>7
  <2>2. ts \in Seq(AnyStep) /\ Chain(ts, Allowed) /\ ps \in Seq(AnyStep) /\ Chain(ps, Allowed)
    BY <1>3, <1>4
  <2> QED BY <2>1, <2>2, <1>8, ConcatChain
<1>10. PICK b : b = a \o bs
  OBVIOUS
<1>11. /\ b \in Seq(AnyStep) /\ Chain(b, Allowed)
       /\ \A x : x \in Members(b) <=> x \in Members(a) \/ x \in Members(bs)
  <2>1. \A x \in Members(a), y \in Members(bs) : <<x, y>> \in Allowed
    BY <1>3, <1>4, <1>6, <1>7, <1>9
  <2>2. a \in Seq(AnyStep) /\ Chain(a, Allowed) /\ bs \in Seq(AnyStep) /\ Chain(bs, Allowed)
    BY <1>4, <1>9
  <2> QED BY <2>1, <2>2, <1>10, ConcatChain
<1>12. CoreRelease(c) = b
  BY <1>2, <1>8, <1>10
<1>13. \A x : x \in CoreOut(c) <=> x \in ThreadOut(c) \/ x \in PlaneIn(c) \/ x \in BufOut(c)
  BY DEF CoreOut
<1> QED BY <1>3, <1>4, <1>9, <1>11, <1>12, <1>13

(* ixmap_desc_release: the rings of one core. *)
LEMMA RingsOut ==
  ASSUME NEW c \in Core
  PROVE  LET one(i) == <<S("desc", "txring", c, i), S("desc", "rxring", c, i)>> IN
         /\ OverPorts(one) \in Seq(AnyStep)
         /\ \A x : x \in Members(OverPorts(one)) <=> (\E i \in Port : x = S("desc", "txring", c, i) \/ x = S("desc", "rxring", c, i))
         /\ Chain(OverPorts(one), Allowed)
<1> DEFINE one(i) == <<S("desc", "txring", c, i), S("desc", "rxring", c, i)>>
           tx(i) == S("desc", "txring", c, i)
           rx(i) == S("desc", "rxring", c, i)
           f == [i \in 1 .. NumPorts |-> <<tx(i - 1), rx(i - 1)>>]
           M == [i \in Port |-> {tx(i), rx(i)}]
<1>0. c \in Nat /\ Port \subseteq Nat /\ Core \subseteq Nat
  BY Sizes
<1>1. OverPorts(one) = FlattenSeq(f) /\ Port = 0 .. NumPorts - 1
  BY DEF OverPorts, Port
<1>2. ASSUME NEW i \in Port PROVE tx(i) \in AnyStep /\ rx(i) \in AnyStep
  BY <1>0 DEF S, AnyStep, Call, Act
<1>3. ASSUME NEW i \in Port, NEW j \in Port
      PROVE  /\ ~ Dep(rx(i), tx(i)) /\ tx(i) # rx(i)
             /\ i < j => /\ ~ Dep(tx(j), tx(i)) /\ tx(i) # tx(j)
                     /\ ~ Dep(rx(j), tx(i)) /\ tx(i) # rx(j)
                     /\ ~ Dep(tx(j), rx(i)) /\ rx(i) # tx(j)
                     /\ ~ Dep(rx(j), rx(i)) /\ rx(i) # rx(j)
  BY <1>0 DEF S, Dep
<1>4. \A x : (\E i \in Port : x = S("desc", "txring", c, i) \/ x = S("desc", "rxring", c, i)) <=> \E i \in Port : x = tx(i) \/ x = rx(i)
  BY DEF tx, rx
<1> HIDE DEF tx, rx
<1>5. \A k \in 1 .. NumPorts : /\ f[k] \in Seq(AnyStep) /\ Members(f[k]) = M[k - 1]
                               /\ Chain(f[k], Allowed)
  BY <1>2, <1>3, Sizes, ShortSeqs, AllowedIff
<1>6. f \in [1 .. NumPorts -> Seq(AnyStep)]
  BY <1>5
<1>7. NumPorts \in Nat \ {0} /\ \A i \in Port : M[i] = {tx(i), rx(i)}
  BY Sizes
<1> HIDE DEF f, M
<1>8. \A i, j \in 0 .. NumPorts - 1 : i < j => \A x \in M[i], y \in M[j] : <<x, y>> \in Allowed
  <2> SUFFICES ASSUME NEW i \in Port, NEW j \in Port, i < j, NEW x \in M[i], NEW y \in M[j]
               PROVE  <<x, y>> \in Allowed
    BY <1>1
  <2>1. x \in AnyStep /\ y \in AnyStep
    BY <1>2, <1>7
  <2>2. ~ Dep(y, x) /\ x # y
    BY <1>3, <1>7
  <2> QED BY <2>1, <2>2, AllowedIff
<1>9. \A k \in 1 .. NumPorts : Members(f[k]) = M[k - 1] /\ Chain(f[k], Allowed)
  BY <1>5
<1>10. /\ FlattenSeq(f) \in Seq(AnyStep)
       /\ \A x : x \in Members(FlattenSeq(f)) <=> \E k \in 0 .. NumPorts - 1 : x \in M[k]
       /\ Chain(FlattenSeq(f), Allowed)
  BY <1>6, <1>7, <1>8, <1>9, LoopFacts
<1>11. \A x : x \in Members(FlattenSeq(f)) <=> (\E i \in Port : x = S("desc", "txring", c, i) \/ x = S("desc", "rxring", c, i))
  <2>1. PICK g : g = FlattenSeq(f)
    OBVIOUS
  <2>2. \A x : x \in Members(g) <=> \E k \in Port : x \in M[k]
    BY <2>1, <1>1, <1>10
  <2>3. \A x : x \in Members(g) <=> \E i \in Port : x = tx(i) \/ x = rx(i)
    BY <2>2, <1>7
  <2> QED BY <2>1, <2>3, <1>4
<1> QED BY <1>1, <1>10, <1>11

(* ixmap_desc_release for one core. *)
LEMMA DescOutPart ==
  ASSUME NEW c \in Core
  PROVE  LET one(i) == <<S("desc", "txring", c, i), S("desc", "rxring", c, i)>>
             desc == OverPorts(one) \o <<S("desc", "mmap", c, 0)>>
         IN  /\ desc \in Seq(AnyStep)
             /\ Members(desc) = DescOut(c)
             /\ Chain(desc, Allowed)
<1> DEFINE one(i) == <<S("desc", "txring", c, i), S("desc", "rxring", c, i)>>
           rx(i) == S("desc", "rxring", c, i)
           tx(i) == S("desc", "txring", c, i)
           m == S("desc", "mmap", c, 0)
<1>0. c \in Nat /\ Port \subseteq Nat
  BY Sizes
<1>1. PICK a, last : a = OverPorts(one) /\ last = <<m>>
  OBVIOUS
<1>3. m \in AnyStep
  BY <1>0 DEF S, AnyStep, Call, Act
<1>4. last \in Seq(AnyStep) /\ Members(last) = {m} /\ Chain(last, Allowed)
  BY <1>1, <1>3, OneSeq
<1>5. /\ a \in Seq(AnyStep) /\ Chain(a, Allowed)
      /\ \A x : x \in Members(a) <=> \E i \in Port : x = tx(i) \/ x = rx(i)
  BY <1>1, RingsOut
<1>6. ASSUME NEW i \in Port
      PROVE  <<tx(i), m>> \in Allowed /\ <<rx(i), m>> \in Allowed
  <2>1. ~ Dep(m, tx(i)) /\ tx(i) # m /\ ~ Dep(m, rx(i)) /\ rx(i) # m
    BY <1>0 DEF Dep, S
  <2>2. tx(i) \in AnyStep /\ rx(i) \in AnyStep
    BY <1>0 DEF S, AnyStep, Call, Act
  <2> QED BY <2>1, <2>2, <1>3, AllowedIff
<1>7. \A x \in Members(a), y \in Members(last) : <<x, y>> \in Allowed
  BY <1>4, <1>5, <1>6
<1>8. \A x : x \in DescOut(c) <=> x = m \/ \E i \in Port : x = tx(i) \/ x = rx(i)
  BY DEF DescOut
<1> HIDE DEF m, tx, rx
<1>9. PICK b : b = a \o last
  OBVIOUS
<1>10. /\ b \in Seq(AnyStep) /\ Chain(b, Allowed)
       /\ \A x : x \in Members(b) <=> x \in Members(a) \/ x \in Members(last)
  BY <1>4, <1>5, <1>7, <1>9, ConcatChain
<1>11. Members(b) = DescOut(c)
  BY <1>4, <1>5, <1>8, <1>10
<1>12. OverPorts(one) \o <<m>> = b
  BY <1>1, <1>9
<1> QED BY <1>10, <1>11, <1>12 DEF m

(* The two halves of close(2). *)
LEMMA ClosePart ==
  ASSUME NEW i \in Port
  PROVE  LET close == <<S("open", "down", 0, i), S("open", "file", 0, i)>>
         IN  close \in Seq(AnyStep) /\ Members(close) = CloseOut(i) /\ Chain(close, Allowed)
<1> DEFINE k == S("open", "down", 0, i)
           t == S("open", "file", 0, i)
<1>1. k \in AnyStep /\ t \in AnyStep
  BY Sizes DEF S, AnyStep, Call, Act
<1>2. ~ Dep(t, k) /\ k # t
  BY DEF S, Dep
<1>3. CloseOut(i) = {k, t}
  BY DEF CloseOut
<1>4. <<k, t>> \in Seq(AnyStep) /\ Members(<<k, t>>) = CloseOut(i) /\ Chain(<<k, t>>, Allowed)
  <2> HIDE DEF k, t
  <2> QED BY <1>1, <1>2, <1>3, ShortSeqs, AllowedIff
<1> QED BY <1>4

(* tun_close for one port. *)
LEMMA TunOutPart ==
  ASSUME NEW i \in Port
  PROVE  LET one(c) == <<S("tun", "queue", c, i)>> IN
         /\ OverCores(one) \in Seq(AnyStep)
         /\ \A x : x \in Members(OverCores(one)) <=> x \in TunIn(i)
         /\ Chain(OverCores(one), Allowed)
<1> DEFINE one(c) == <<S("tun", "queue", c, i)>>
           q(c) == S("tun", "queue", c, i)
           f == [c \in 1 .. NumCores |-> <<q(c - 1)>>]
           M == [c \in Core |-> {q(c)}]
<1>0. i \in Nat /\ Port \subseteq Nat /\ Core \subseteq Nat
  BY Sizes
<1>1. OverCores(one) = FlattenSeq(f) /\ Core = 0 .. NumCores - 1
  BY DEF OverCores, Core
<1>2. ASSUME NEW c \in Core PROVE q(c) \in AnyStep
  BY <1>0 DEF S, AnyStep, Call, Act
<1>3. ASSUME NEW k \in Core, NEW j \in Core
      PROVE  /\ k < j => /\ ~ Dep(q(j), q(k)) /\ q(k) # q(j)
  BY <1>0 DEF S, Dep
<1>4. \A x : x \in TunIn(i) <=> \E c \in Core : x = q(c)
  BY DEF TunIn
<1> HIDE DEF q
<1>5. \A k \in 1 .. NumCores : /\ f[k] \in Seq(AnyStep) /\ Members(f[k]) = M[k - 1]
                               /\ Chain(f[k], Allowed)
  BY <1>2, <1>3, Sizes, OneSeq
<1>6. f \in [1 .. NumCores -> Seq(AnyStep)]
  BY <1>5
<1>7. NumCores \in Nat \ {0} /\ \A c \in Core : M[c] = {q(c)}
  BY Sizes
<1> HIDE DEF f, M
<1>8. \A k, j \in 0 .. NumCores - 1 : k < j => \A x \in M[k], y \in M[j] : <<x, y>> \in Allowed
  <2> SUFFICES ASSUME NEW k \in Core, NEW j \in Core, k < j, NEW x \in M[k], NEW y \in M[j]
               PROVE  <<x, y>> \in Allowed
    BY <1>1
  <2>1. x \in AnyStep /\ y \in AnyStep
    BY <1>2, <1>7
  <2>2. ~ Dep(y, x) /\ x # y
    BY <1>3, <1>7
  <2> QED BY <2>1, <2>2, AllowedIff
<1>9. \A k \in 1 .. NumCores : Members(f[k]) = M[k - 1] /\ Chain(f[k], Allowed)
  BY <1>5
<1>10. /\ FlattenSeq(f) \in Seq(AnyStep)
       /\ \A x : x \in Members(FlattenSeq(f)) <=> \E k \in 0 .. NumCores - 1 : x \in M[k]
       /\ Chain(FlattenSeq(f), Allowed)
  BY <1>6, <1>7, <1>8, <1>9, LoopFacts
<1>11. \A x : x \in Members(FlattenSeq(f)) <=> x \in TunIn(i)
  <2>1. PICK g : g = FlattenSeq(f)
    OBVIOUS
  <2>2. \A x : x \in Members(g) <=> \E k \in Core : x \in M[k]
    BY <2>1, <1>1, <1>10
  <2>3. \A x : x \in Members(g) <=> \E c \in Core : x = q(c)
    BY <2>2, <1>7
  <2> QED BY <2>1, <2>3, <1>4
<1> QED BY <1>1, <1>10, <1>11

(* The release of all cores. *)
LEMMA CoreOutAll ==
  /\ OverCores(CoreRelease) \in Seq(AnyStep)
  /\ \A x : x \in Members(OverCores(CoreRelease)) <=> \E i \in Core : x \in CoreOut(i)
  /\ Chain(OverCores(CoreRelease), Allowed)
<1> DEFINE f == [i \in 1 .. NumCores |-> CoreRelease(i - 1)]
           M == [i \in Core |-> CoreOut(i)]
<1>1. OverCores(CoreRelease) = FlattenSeq(f) /\ Core = 0 .. NumCores - 1
  BY DEF OverCores, Core
<1>2. \A k \in 1 .. NumCores : /\ f[k] \in Seq(AnyStep) /\ Members(f[k]) = M[k - 1]
                               /\ Chain(f[k], Allowed)
  BY Sizes, CoreOutPart
<1>3. f \in [1 .. NumCores -> Seq(AnyStep)]
  BY <1>2
<1>4. ASSUME NEW i \in Core, NEW j \in Core, i < j, NEW x \in M[i], NEW y \in M[j]
      PROVE  <<x, y>> \in Allowed
  <2>1. x \in CoreOut(i) /\ y \in CoreOut(j) /\ i \in Nat /\ j \in Nat /\ Port \subseteq Nat /\ Core \subseteq Nat
    BY Sizes
  <2>2. x \in AnyStep /\ y \in AnyStep
    BY <2>1, Sizes, OutsAreSteps, StepsAreSteps
  <2>3. ~ Dep(y, x) /\ x # y
    BY <2>1, <1>4 DEF CoreOut, S, Dep, ThreadOut, PlaneIn, BufOut
  <2> QED BY <2>2, <2>3, AllowedIff
<1>5. NumCores \in Nat \ {0} /\ \A i \in Core : M[i] = CoreOut(i)
  BY Sizes
<1> HIDE DEF f, M
<1>6. \A i, j \in 0 .. NumCores - 1 : i < j => \A x \in M[i], y \in M[j] : <<x, y>> \in Allowed
  BY <1>1, <1>4
<1>7. \A k \in 1 .. NumCores : Members(f[k]) = M[k - 1] /\ Chain(f[k], Allowed)
  BY <1>2
<1>8. /\ FlattenSeq(f) \in Seq(AnyStep)
      /\ \A x : x \in Members(FlattenSeq(f)) <=> \E i \in 0 .. NumCores - 1 : x \in M[i]
      /\ Chain(FlattenSeq(f), Allowed)
  BY <1>3, <1>5, <1>6, <1>7, LoopFacts
<1> QED BY <1>1, <1>5, <1>8

(* tun_close for all ports. *)
LEMMA TunOutAll ==
  LET tun(i) == LET one(c) == <<S("tun", "queue", c, i)>> IN OverCores(one)
  IN  /\ OverPorts(tun) \in Seq(AnyStep)
      /\ \A x : x \in Members(OverPorts(tun)) <=> \E i \in Port : x \in TunIn(i)
      /\ Chain(OverPorts(tun), Allowed)
<1> DEFINE tun(i) == LET one(c) == <<S("tun", "queue", c, i)>> IN OverCores(one)
           f == [i \in 1 .. NumPorts |-> tun(i - 1)]
           M == [i \in Port |-> TunIn(i)]
<1>1. OverPorts(tun) = FlattenSeq(f) /\ Port = 0 .. NumPorts - 1
  BY DEF OverPorts, Port
<1>2. \A k \in 1 .. NumPorts : /\ f[k] \in Seq(AnyStep) /\ Members(f[k]) = M[k - 1]
                               /\ Chain(f[k], Allowed)
  BY Sizes, TunOutPart
<1>3. f \in [1 .. NumPorts -> Seq(AnyStep)]
  BY <1>2
<1>4. ASSUME NEW i \in Port, NEW j \in Port, i < j, NEW x \in M[i], NEW y \in M[j]
      PROVE  <<x, y>> \in Allowed
  <2>1. x \in TunIn(i) /\ y \in TunIn(j) /\ i \in Nat /\ j \in Nat /\ Port \subseteq Nat /\ Core \subseteq Nat
    BY Sizes
  <2>2. x \in AnyStep /\ y \in AnyStep
    BY <2>1, Sizes, OutsAreSteps, StepsAreSteps
  <2>3. ~ Dep(y, x) /\ x # y
    BY <2>1, <1>4 DEF TunIn, S, Dep
  <2> QED BY <2>2, <2>3, AllowedIff
<1>5. NumPorts \in Nat \ {0} /\ \A i \in Port : M[i] = TunIn(i)
  BY Sizes
<1> HIDE DEF f, M
<1>6. \A i, j \in 0 .. NumPorts - 1 : i < j => \A x \in M[i], y \in M[j] : <<x, y>> \in Allowed
  BY <1>1, <1>4
<1>7. \A k \in 1 .. NumPorts : Members(f[k]) = M[k - 1] /\ Chain(f[k], Allowed)
  BY <1>2
<1>8. /\ FlattenSeq(f) \in Seq(AnyStep)
      /\ \A x : x \in Members(FlattenSeq(f)) <=> \E i \in 0 .. NumPorts - 1 : x \in M[i]
      /\ Chain(FlattenSeq(f), Allowed)
  BY <1>3, <1>5, <1>6, <1>7, LoopFacts
<1> QED BY <1>1, <1>5, <1>8, ZenonT(60)

(* ixmap_desc_release for all cores. *)
LEMMA DescOutAll ==
  LET desc(c) == LET one(i) == <<S("desc", "txring", c, i), S("desc", "rxring", c, i)>>
                      IN  OverPorts(one) \o <<S("desc", "mmap", c, 0)>>
  IN  /\ OverCores(desc) \in Seq(AnyStep)
      /\ \A x : x \in Members(OverCores(desc)) <=> \E i \in Core : x \in DescOut(i)
      /\ Chain(OverCores(desc), Allowed)
<1> DEFINE desc(c) == LET one(i) == <<S("desc", "txring", c, i), S("desc", "rxring", c, i)>>
                      IN  OverPorts(one) \o <<S("desc", "mmap", c, 0)>>
           f == [i \in 1 .. NumCores |-> desc(i - 1)]
           M == [i \in Core |-> DescOut(i)]
<1>1. OverCores(desc) = FlattenSeq(f) /\ Core = 0 .. NumCores - 1
  BY DEF OverCores, Core
<1>2. \A k \in 1 .. NumCores : /\ f[k] \in Seq(AnyStep) /\ Members(f[k]) = M[k - 1]
                               /\ Chain(f[k], Allowed)
  BY Sizes, DescOutPart
<1>3. f \in [1 .. NumCores -> Seq(AnyStep)]
  BY <1>2
<1>4. ASSUME NEW i \in Core, NEW j \in Core, i < j, NEW x \in M[i], NEW y \in M[j]
      PROVE  <<x, y>> \in Allowed
  <2>1. x \in DescOut(i) /\ y \in DescOut(j) /\ i \in Nat /\ j \in Nat /\ Port \subseteq Nat /\ Core \subseteq Nat
    BY Sizes
  <2>2. x \in AnyStep /\ y \in AnyStep
    BY <2>1, Sizes, OutsAreSteps, StepsAreSteps
  <2>3. ~ Dep(y, x) /\ x # y
    BY <2>1, <1>4 DEF DescOut, S, Dep
  <2> QED BY <2>2, <2>3, AllowedIff
<1>5. NumCores \in Nat \ {0} /\ \A i \in Core : M[i] = DescOut(i)
  BY Sizes
<1> HIDE DEF f, M
<1>6. \A i, j \in 0 .. NumCores - 1 : i < j => \A x \in M[i], y \in M[j] : <<x, y>> \in Allowed
  BY <1>1, <1>4
<1>7. \A k \in 1 .. NumCores : Members(f[k]) = M[k - 1] /\ Chain(f[k], Allowed)
  BY <1>2
<1>8. /\ FlattenSeq(f) \in Seq(AnyStep)
      /\ \A x : x \in Members(FlattenSeq(f)) <=> \E i \in 0 .. NumCores - 1 : x \in M[i]
      /\ Chain(FlattenSeq(f), Allowed)
  BY <1>3, <1>5, <1>6, <1>7, LoopFacts
<1> QED BY <1>1, <1>5, <1>8, ZenonT(60)

(* close(2) of all device files. *)
LEMMA CloseOutAll ==
  LET close(i) == <<S("open", "down", 0, i), S("open", "file", 0, i)>>
  IN  /\ OverPorts(close) \in Seq(AnyStep)
      /\ \A x : x \in Members(OverPorts(close)) <=> \E i \in Port : x \in CloseOut(i)
      /\ Chain(OverPorts(close), Allowed)
<1> DEFINE close(i) == <<S("open", "down", 0, i), S("open", "file", 0, i)>>
           f == [i \in 1 .. NumPorts |-> close(i - 1)]
           M == [i \in Port |-> CloseOut(i)]
<1>1. OverPorts(close) = FlattenSeq(f) /\ Port = 0 .. NumPorts - 1
  BY DEF OverPorts, Port
<1>2. \A k \in 1 .. NumPorts : /\ f[k] \in Seq(AnyStep) /\ Members(f[k]) = M[k - 1]
                               /\ Chain(f[k], Allowed)
  BY Sizes, ClosePart
<1>3. f \in [1 .. NumPorts -> Seq(AnyStep)]
  BY <1>2
<1>4. ASSUME NEW i \in Port, NEW j \in Port, i < j, NEW x \in M[i], NEW y \in M[j]
      PROVE  <<x, y>> \in Allowed
  <2>1. x \in CloseOut(i) /\ y \in CloseOut(j) /\ i \in Nat /\ j \in Nat /\ Port \subseteq Nat /\ Core \subseteq Nat
    BY Sizes
  <2>2. x \in AnyStep /\ y \in AnyStep
    BY <2>1, Sizes, OutsAreSteps, StepsAreSteps
  <2>3. ~ Dep(y, x) /\ x # y
    BY <2>1, <1>4 DEF CloseOut, S, Dep
  <2> QED BY <2>2, <2>3, AllowedIff
<1>5. NumPorts \in Nat \ {0} /\ \A i \in Port : M[i] = CloseOut(i)
  BY Sizes
<1> HIDE DEF f, M
<1>6. \A i, j \in 0 .. NumPorts - 1 : i < j => \A x \in M[i], y \in M[j] : <<x, y>> \in Allowed
  BY <1>1, <1>4
<1>7. \A k \in 1 .. NumPorts : Members(f[k]) = M[k - 1] /\ Chain(f[k], Allowed)
  BY <1>2
<1>8. /\ FlattenSeq(f) \in Seq(AnyStep)
      /\ \A x : x \in Members(FlattenSeq(f)) <=> \E i \in 0 .. NumPorts - 1 : x \in M[i]
      /\ Chain(FlattenSeq(f), Allowed)
  BY <1>3, <1>5, <1>6, <1>7, LoopFacts
<1> QED BY <1>1, <1>5, <1>8, ZenonT(60)

\* Every step of the release.
OutStep == {x \in AnyStep :
              \/ \E c \in Core : x \in CoreOut(c)
              \/ \E i \in Port : x \in TunIn(i)
              \/ \E c \in Core : x \in DescOut(c)
              \/ \E i \in Port : x \in CloseOut(i)}

(* The parts of the release, by their calls. *)
LEMMA OutCalls ==
  /\ \A c \in Core : \A x \in CoreOut(c) : x \in AnyStep /\ x.call \in {"thread", "plane", "buf"}
  /\ \A i \in Port : \A x \in TunIn(i) : x \in AnyStep /\ x.call = "tun" /\ x.act = "queue"
  /\ \A c \in Core : \A x \in DescOut(c) : x \in AnyStep /\ x.call = "desc"
                                           /\ x.act \in {"txring", "rxring", "mmap"}
  /\ \A i \in Port : \A x \in CloseOut(i) : x \in AnyStep /\ x.call = "open" /\ x.act \in {"down", "file"}
<1>1. ASSUME NEW c \in Core, NEW x \in CoreOut(c)
      PROVE  x \in AnyStep /\ x.call \in {"thread", "plane", "buf"}
  <2>1. x \in AnyStep
    BY OutsAreSteps, Sizes
  <2>2. x.call \in {"thread", "plane", "buf"}
    BY DEF CoreOut, ThreadOut, PlaneIn, BufOut, S
  <2> QED BY <2>1, <2>2
<1>2. ASSUME NEW i \in Port, NEW x \in TunIn(i)
      PROVE  x \in AnyStep /\ x.call = "tun" /\ x.act = "queue"
  <2>1. x \in AnyStep
    BY StepsAreSteps, Sizes
  <2>2. x.call = "tun" /\ x.act = "queue"
    BY DEF TunIn, S
  <2> QED BY <2>1, <2>2
<1>3. ASSUME NEW c \in Core, NEW x \in DescOut(c)
      PROVE  x \in AnyStep /\ x.call = "desc" /\ x.act \in {"txring", "rxring", "mmap"}
  <2>1. x \in AnyStep
    BY OutsAreSteps, Sizes
  <2>2. x.call = "desc" /\ x.act \in {"txring", "rxring", "mmap"}
    BY DEF DescOut, S
  <2> QED BY <2>1, <2>2
<1>4. ASSUME NEW i \in Port, NEW x \in CloseOut(i)
      PROVE  x \in AnyStep /\ x.call = "open" /\ x.act \in {"down", "file"}
  <2>1. x \in AnyStep
    BY OutsAreSteps, Sizes
  <2>2. x.call = "open" /\ x.act \in {"down", "file"}
    BY DEF CloseOut, S
  <2> QED BY <2>1, <2>2
<1> QED BY <1>1, <1>2, <1>3, <1>4

(* The acts of the steps of one core. *)
LEMMA CoreActs ==
  ASSUME NEW c \in Core, NEW x \in CoreOut(c)
  PROVE  /\ x.call = "thread" => x.act \in {"kill", "thread"}
         /\ x.call = "plane" => x.act \in {"rxirq", "txirq"}
         /\ x.call = "buf" => x.act \in {"buffer", "mmap"}
         /\ x.core = c
BY DEF CoreOut, ThreadOut, PlaneIn, BufOut, S

(* No dependency leads back from a later part of the release to an earlier. *)
LEMMA PartsAllowed ==
  ASSUME NEW x \in AnyStep, NEW y \in AnyStep,
         \/ /\ x.call = "thread" => x.act \in {"kill", "thread"}
            /\ x.call \in {"thread", "plane", "buf"} /\ y.call \in {"tun", "desc", "open"}
         \/ x.call = "tun" /\ y.call \in {"desc", "open"}
         \/ x.call = "desc" /\ y.call = "open",
         y.call = "tun" => y.act = "queue",
         y.call = "desc" => y.act \in {"txring", "rxring", "mmap"},
         y.call = "open" => y.act \in {"down", "file"},
         x.act = "file" => x.call = "open"
  PROVE  <<x, y>> \in Allowed
<1>1. x # y
  OBVIOUS
<1>2. ~ Dep(y, x)
  BY DEF Dep
<1> QED BY <1>1, <1>2, AllowedIff

(* What the orderly end consists of, and that it respects the              *)
(* dependencies.                                                           *)
LEMMA ReleaseFacts ==
  /\ ReleaseOrder \in Seq(AnyStep)
  /\ \A x : x \in Members(ReleaseOrder) <=> x \in OutStep
  /\ Chain(ReleaseOrder, Allowed)
<1> DEFINE tun(i) == LET one(c) == <<S("tun", "queue", c, i)>> IN OverCores(one)
           desc(c) == LET one(i) == <<S("desc", "txring", c, i), S("desc", "rxring", c, i)>>
                      IN  OverPorts(one) \o <<S("desc", "mmap", c, 0)>>
           close(i) == <<S("open", "down", 0, i), S("open", "file", 0, i)>>
<1>1. PICK c, t, d, o : /\ c = OverCores(CoreRelease) /\ t = OverPorts(tun)
                        /\ d = OverCores(desc) /\ o = OverPorts(close)
  OBVIOUS
<1>2. ReleaseOrder = ((c \o t) \o d) \o o
  BY <1>1 DEF ReleaseOrder
<1> HIDE DEF tun, desc, close
<1>3. /\ c \in Seq(AnyStep) /\ Chain(c, Allowed) /\ t \in Seq(AnyStep) /\ Chain(t, Allowed)
      /\ d \in Seq(AnyStep) /\ Chain(d, Allowed) /\ o \in Seq(AnyStep) /\ Chain(o, Allowed)
  BY <1>1, CoreOutAll, TunOutAll, DescOutAll, CloseOutAll DEF tun, desc, close
<1>4. /\ \A x : x \in Members(c) <=> \E i \in Core : x \in CoreOut(i)
      /\ \A x : x \in Members(t) <=> \E i \in Port : x \in TunIn(i)
      /\ \A x : x \in Members(d) <=> \E i \in Core : x \in DescOut(i)
      /\ \A x : x \in Members(o) <=> \E i \in Port : x \in CloseOut(i)
  BY <1>1, CoreOutAll, TunOutAll, DescOutAll, CloseOutAll DEF tun, desc, close
<1>5. /\ \A x \in Members(c) : /\ x \in AnyStep /\ x.call \in {"thread", "plane", "buf"}
                               /\ x.call = "thread" => x.act \in {"kill", "thread"}
                               /\ x.act # "file"
      /\ \A x \in Members(t) : x \in AnyStep /\ x.call = "tun" /\ x.act = "queue"
      /\ \A x \in Members(d) : x \in AnyStep /\ x.call = "desc" /\ x.act \in {"txring", "rxring", "mmap"}
      /\ \A x \in Members(o) : x \in AnyStep /\ x.call = "open" /\ x.act \in {"down", "file"}
  BY <1>4, OutCalls, CoreActs
<1>6. PICK a1 : a1 = c \o t
  OBVIOUS
<1>7. /\ a1 \in Seq(AnyStep) /\ Chain(a1, Allowed)
      /\ \A x : x \in Members(a1) <=> x \in Members(c) \/ x \in Members(t)
  <2>1. \A x \in Members(c), y \in Members(t) : <<x, y>> \in Allowed
    BY <1>5, PartsAllowed
  <2>2. c \in Seq(AnyStep) /\ t \in Seq(AnyStep) /\ Chain(c, Allowed) /\ Chain(t, Allowed)
    BY <1>3
  <2> QED BY ONLY <2>1, <2>2, <1>6, ConcatChain
<1>8. PICK a2 : a2 = a1 \o d
  OBVIOUS
<1>9. /\ a2 \in Seq(AnyStep) /\ Chain(a2, Allowed)
      /\ \A x : x \in Members(a2) <=> x \in Members(a1) \/ x \in Members(d)
  <2>1. \A x \in Members(a1), y \in Members(d) : <<x, y>> \in Allowed
    BY <1>5, <1>7, PartsAllowed
  <2>2. a1 \in Seq(AnyStep) /\ d \in Seq(AnyStep) /\ Chain(a1, Allowed) /\ Chain(d, Allowed)
    BY <1>3, <1>7
  <2> QED BY ONLY <2>1, <2>2, <1>8, ConcatChain
<1>10. PICK a3 : a3 = a2 \o o
  OBVIOUS
<1>11. /\ a3 \in Seq(AnyStep) /\ Chain(a3, Allowed)
       /\ \A x : x \in Members(a3) <=> x \in Members(a2) \/ x \in Members(o)
  <2>1. \A x \in Members(a2), y \in Members(o) : <<x, y>> \in Allowed
    BY <1>5, <1>7, <1>9, PartsAllowed
  <2>2. a2 \in Seq(AnyStep) /\ o \in Seq(AnyStep) /\ Chain(a2, Allowed) /\ Chain(o, Allowed)
    BY <1>3, <1>9
  <2> QED BY ONLY <2>1, <2>2, <1>10, ConcatChain
<1>12. ReleaseOrder = a3
  BY <1>2, <1>6, <1>8, <1>10
<1>13. \A x : x \in Members(a3) <=> x \in OutStep
  <2>1. \A x : x \in Members(a3) <=> \/ x \in Members(c) \/ x \in Members(t)
                                    \/ x \in Members(d) \/ x \in Members(o)
    BY <1>7, <1>9, <1>11
  <2>2. \A x : x \in OutStep <=> \/ \E i \in Core : x \in CoreOut(i)
                                 \/ \E i \in Port : x \in TunIn(i)
                                 \/ \E i \in Core : x \in DescOut(i)
                                 \/ \E i \in Port : x \in CloseOut(i)
    BY OutCalls DEF OutStep
  <2> QED BY <2>1, <2>2, <1>4
<1> QED BY <1>11, <1>12, <1>13

-----------------------------------------------------------------------------
(* Steps by their fields.                                                  *)

IsResource(x) ==
  \/ x.call = "thread" /\ x.act = "thread" /\ x.core \in Core /\ x.port = 0
  \/ x.call = "plane" /\ x.act \in {"rxirq", "txirq"} /\ x.core \in Core /\ x.port \in Port
  \/ x.call = "buf" /\ x.act = "buffer" /\ x.core \in Core /\ x.port \in Port
  \/ x.call = "tun" /\ x.act = "queue" /\ x.core \in Core /\ x.port \in Port
  \/ x.call = "desc" /\ x.act \in {"rxring", "txring"} /\ x.core \in Core /\ x.port \in Port
  \/ x.call \in {"desc", "buf"} /\ x.act = "mmap" /\ x.core \in Core /\ x.port = 0
  \/ x.call = "open" /\ x.act = "file" /\ x.core = 0 /\ x.port \in Port

\* The release steps that are not themselves resources.
IsHalf(x) ==
  \/ x.call = "thread" /\ x.act = "kill" /\ x.core \in Core /\ x.port = 0
  \/ x.call = "open" /\ x.act = "down" /\ x.core = 0 /\ x.port \in Port

\* The steps of main that hold nothing.
IsPlain(x) ==
  \/ x.call = "open" /\ x.act \in {"up", "bar", "rings"} /\ x.core = 0 /\ x.port \in Port
  \/ x.call = "desc" /\ x.act = "pool" /\ x.core \in Core /\ x.port = 0
  \/ x.call = "configure" /\ x.act = "registers" /\ x.core = 0 /\ x.port \in Port
  \/ x.call = "signal" /\ x.act = "mask" /\ x.core = 0 /\ x.port = 0
  \/ x.call = "buf" /\ x.act = "slots" /\ x.core \in Core /\ x.port = 0
  \/ x.call = "tunplane" /\ x.act = "alloc" /\ x.core \in Core /\ x.port = 0

(* A step is given by its fields. *)
LEMMA StepOf ==
  ASSUME NEW x \in AnyStep
  PROVE  x = S(x.call, x.act, x.core, x.port)
BY DEF AnyStep, S

(* The parts of the release by the fields of their steps. *)
LEMMA PartFields ==
  ASSUME NEW x \in AnyStep
  PROVE  /\ (\E c \in Core : x \in ThreadOut(c)) <=>
               x.call = "thread" /\ x.act \in {"kill", "thread"} /\ x.core \in Core /\ x.port = 0
         /\ (\E c \in Core : x \in PlaneIn(c)) <=>
               x.call = "plane" /\ x.act \in {"rxirq", "txirq"} /\ x.core \in Core /\ x.port \in Port
         /\ (\E c \in Core : x \in BufOut(c)) <=>
               /\ x.call = "buf" /\ x.core \in Core
               /\ \/ x.act = "buffer" /\ x.port \in Port
                  \/ x.act = "mmap" /\ x.port = 0
         /\ (\E i \in Port : x \in TunIn(i)) <=>
               x.call = "tun" /\ x.act = "queue" /\ x.core \in Core /\ x.port \in Port
         /\ (\E c \in Core : x \in DescOut(c)) <=>
               /\ x.call = "desc" /\ x.core \in Core
               /\ \/ x.act \in {"rxring", "txring"} /\ x.port \in Port
                  \/ x.act = "mmap" /\ x.port = 0
         /\ (\E i \in Port : x \in CloseOut(i)) <=>
               x.call = "open" /\ x.act \in {"down", "file"} /\ x.core = 0 /\ x.port \in Port
<1>0. x = S(x.call, x.act, x.core, x.port)
  BY StepOf
<1>1. (\E c \in Core : x \in ThreadOut(c)) <=>
         x.call = "thread" /\ x.act \in {"kill", "thread"} /\ x.core \in Core /\ x.port = 0
  <2>1. ASSUME NEW c \in Core, x \in ThreadOut(c)
        PROVE  x.call = "thread" /\ x.act \in {"kill", "thread"} /\ x.core \in Core /\ x.port = 0
    BY <2>1 DEF ThreadOut, S
  <2> QED BY <2>1, <1>0 DEF ThreadOut
<1>2. (\E c \in Core : x \in PlaneIn(c)) <=>
         x.call = "plane" /\ x.act \in {"rxirq", "txirq"} /\ x.core \in Core /\ x.port \in Port
  <2>1. ASSUME NEW c \in Core, x \in PlaneIn(c)
        PROVE  x.call = "plane" /\ x.act \in {"rxirq", "txirq"} /\ x.core \in Core /\ x.port \in Port
    BY <2>1 DEF PlaneIn, S
  <2> QED BY <2>1, <1>0 DEF PlaneIn
<1>3. (\E c \in Core : x \in BufOut(c)) <=>
         /\ x.call = "buf" /\ x.core \in Core
         /\ \/ x.act = "buffer" /\ x.port \in Port
            \/ x.act = "mmap" /\ x.port = 0
  <2>1. ASSUME NEW c \in Core, x \in BufOut(c)
        PROVE  /\ x.call = "buf" /\ x.core \in Core
               /\ \/ x.act = "buffer" /\ x.port \in Port
                  \/ x.act = "mmap" /\ x.port = 0
    BY <2>1 DEF BufOut, S
  <2> QED BY <2>1, <1>0 DEF BufOut
<1>4. (\E i \in Port : x \in TunIn(i)) <=>
         x.call = "tun" /\ x.act = "queue" /\ x.core \in Core /\ x.port \in Port
  <2>1. ASSUME NEW i \in Port, x \in TunIn(i)
        PROVE  x.call = "tun" /\ x.act = "queue" /\ x.core \in Core /\ x.port \in Port
    BY <2>1 DEF TunIn, S
  <2> QED BY <2>1, <1>0 DEF TunIn
<1>5. (\E c \in Core : x \in DescOut(c)) <=>
         /\ x.call = "desc" /\ x.core \in Core
         /\ \/ x.act \in {"rxring", "txring"} /\ x.port \in Port
            \/ x.act = "mmap" /\ x.port = 0
  <2>1. ASSUME NEW c \in Core, x \in DescOut(c)
        PROVE  /\ x.call = "desc" /\ x.core \in Core
               /\ \/ x.act \in {"rxring", "txring"} /\ x.port \in Port
                  \/ x.act = "mmap" /\ x.port = 0
    BY <2>1 DEF DescOut, S
  <2> QED BY <2>1, <1>0 DEF DescOut
<1>6. (\E i \in Port : x \in CloseOut(i)) <=>
         x.call = "open" /\ x.act \in {"down", "file"} /\ x.core = 0 /\ x.port \in Port
  <2>1. ASSUME NEW i \in Port, x \in CloseOut(i)
        PROVE  x.call = "open" /\ x.act \in {"down", "file"} /\ x.core = 0 /\ x.port \in Port
    BY <2>1 DEF CloseOut, S
  <2> QED BY <2>1, <1>0 DEF CloseOut
<1> QED BY <1>1, <1>2, <1>3, <1>4, <1>5, <1>6

(* The release steps by their fields. *)
LEMMA ReleaseStepIff ==
  \A x : x \in ReleaseStep <=> x \in AnyStep /\ (IsResource(x) \/ IsHalf(x))
<1>1. \A x : x \in ReleaseStep <=> x \in OutStep
  BY ReleaseFacts DEF ReleaseStep, Members
<1>2. ASSUME NEW x \in AnyStep PROVE x \in OutStep <=> IsResource(x) \/ IsHalf(x)
  <2>1. x \in OutStep <=> \/ \E c \in Core : x \in ThreadOut(c)
                          \/ \E c \in Core : x \in PlaneIn(c)
                          \/ \E c \in Core : x \in BufOut(c)
                          \/ \E i \in Port : x \in TunIn(i)
                          \/ \E c \in Core : x \in DescOut(c)
                          \/ \E i \in Port : x \in CloseOut(i)
    BY DEF OutStep, CoreOut
  <2> QED BY <2>1, PartFields DEF IsResource, IsHalf
<1>3. OutStep \subseteq AnyStep
  BY DEF OutStep
<1> QED BY <1>1, <1>2, <1>3

(* What Of does to a release step. *)
LEMMA OfFacts ==
  ASSUME NEW x \in AnyStep
  PROVE  /\ IsResource(x) => Of(x) = x
         /\ IsHalf(x) => /\ Of(x) \in AnyStep /\ IsResource(Of(x))
                         /\ Of(x).call = x.call /\ Of(x).core = x.core /\ Of(x).port = x.port
                         /\ x.act = "kill" => Of(x).act = "thread"
                         /\ x.act = "down" => Of(x).act = "file"
<1>1. ASSUME IsResource(x) PROVE Of(x) = x
  <2>1. x.act # "kill" /\ x.act # "down"
    BY <1>1 DEF IsResource
  <2> QED BY <2>1 DEF Of
<1>2. ASSUME x.act = "kill" PROVE Of(x) = [x EXCEPT !.act = "thread"]
  BY <1>2 DEF Of
<1>3. ASSUME x.act = "down" PROVE Of(x) = [x EXCEPT !.act = "file"]
  BY <1>3 DEF Of
<1>4. ASSUME NEW a \in Act
      PROVE  LET y == [x EXCEPT !.act = a] IN
             /\ y \in AnyStep /\ y.call = x.call /\ y.core = x.core /\ y.port = x.port /\ y.act = a
  BY DEF AnyStep
<1>5. "thread" \in Act /\ "file" \in Act
  BY DEF Act
<1>6. ASSUME IsHalf(x)
      PROVE  /\ Of(x) \in AnyStep
             /\ Of(x).call = x.call /\ Of(x).core = x.core /\ Of(x).port = x.port
             /\ x.act = "kill" => Of(x).act = "thread"
             /\ x.act = "down" => Of(x).act = "file"
  <2>1. x.act = "kill" \/ x.act = "down"
    BY <1>6 DEF IsHalf
  <2>2. CASE x.act = "kill"
    BY <2>2, <1>2, <1>4, <1>5, ZenonT(60)
  <2>3. CASE x.act = "down"
    BY <2>3, <1>3, <1>4, <1>5, ZenonT(60)
  <2> QED BY <2>1, <2>2, <2>3
<1>7. ASSUME IsHalf(x) PROVE IsResource(Of(x))
  BY <1>6, <1>7 DEF IsHalf, IsResource
<1> QED BY <1>1, <1>6, <1>7

(* The resources by their fields. *)
LEMMA ResourceIff ==
  /\ \A x : x \in Resource <=> x \in AnyStep /\ IsResource(x)
  /\ Resource \subseteq ReleaseStep /\ ReleaseStep \subseteq AnyStep
  /\ \A r \in ReleaseStep : Of(r) \in Resource
<1>1. ASSUME NEW r \in ReleaseStep PROVE Of(r) \in AnyStep /\ IsResource(Of(r))
  BY ReleaseStepIff, OfFacts
<1>2. ASSUME NEW x \in AnyStep, IsResource(x) PROVE x \in ReleaseStep /\ Of(x) = x
  BY <1>2, ReleaseStepIff, OfFacts
<1>3. \A x : x \in Resource <=> x \in AnyStep /\ IsResource(x)
  BY <1>1, <1>2 DEF Resource
<1> QED BY <1>1, <1>3, ReleaseStepIff

(* The steps of main by their fields. *)
LEMMA StartStepIff ==
  \A x : x \in StartStep <=> x \in AnyStep /\ (IsResource(x) \/ IsPlain(x))
<1>1. StartStep \subseteq AnyStep
  BY DEF StartStep
<1>2. ASSUME NEW x \in AnyStep PROVE x \in StartStep <=> IsResource(x) \/ IsPlain(x)
  <2>0. x = S(x.call, x.act, x.core, x.port)
    BY StepOf
  <2>1. (\E i \in Port : x \in OpenIn(i)) <=>
          x.call = "open" /\ x.act \in {"file", "up", "bar", "rings"} /\ x.core = 0 /\ x.port \in Port
    <3>1. ASSUME NEW i \in Port, x \in OpenIn(i)
          PROVE  x.call = "open" /\ x.act \in {"file", "up", "bar", "rings"} /\ x.core = 0 /\ x.port \in Port
      BY <3>1 DEF OpenIn, S
    <3> QED BY <3>1, <2>0 DEF OpenIn
  <2>2. (\E c \in Core : x \in DescIn(c)) <=>
          /\ x.call = "desc" /\ x.core \in Core
          /\ \/ x.act \in {"rxring", "txring"} /\ x.port \in Port
             \/ x.act \in {"mmap", "pool"} /\ x.port = 0
    <3>1. ASSUME NEW c \in Core, x \in DescIn(c)
          PROVE  /\ x.call = "desc" /\ x.core \in Core
                 /\ \/ x.act \in {"rxring", "txring"} /\ x.port \in Port
                    \/ x.act \in {"mmap", "pool"} /\ x.port = 0
      BY <3>1 DEF DescIn, S
    <3> QED BY <3>1, <2>0 DEF DescIn
  <2>3. x \in ConfigIn <=>
          x.call = "configure" /\ x.act = "registers" /\ x.core = 0 /\ x.port \in Port
    <3>1. ASSUME x \in ConfigIn
          PROVE  x.call = "configure" /\ x.act = "registers" /\ x.core = 0 /\ x.port \in Port
      BY <3>1 DEF ConfigIn, S
    <3> QED BY <3>1, <2>0 DEF ConfigIn
  <2>4. x = MaskStep <=> x.call = "signal" /\ x.act = "mask" /\ x.core = 0 /\ x.port = 0
    <3>1. ASSUME x = MaskStep
          PROVE  x.call = "signal" /\ x.act = "mask" /\ x.core = 0 /\ x.port = 0
      BY <3>1 DEF MaskStep, S
    <3> QED BY <3>1, <2>0 DEF MaskStep
  <2>5. (\E c \in Core : x \in BufIn(c)) <=>
          /\ x.call = "buf" /\ x.core \in Core
          /\ \/ x.act = "buffer" /\ x.port \in Port
             \/ x.act \in {"mmap", "slots"} /\ x.port = 0
    <3>1. ASSUME NEW c \in Core, x \in BufIn(c)
          PROVE  /\ x.call = "buf" /\ x.core \in Core
                 /\ \/ x.act = "buffer" /\ x.port \in Port
                    \/ x.act \in {"mmap", "slots"} /\ x.port = 0
      BY <3>1 DEF BufIn, S
    <3> QED BY <3>1, <2>0 DEF BufIn
  <2>6. (\E c \in Core : x = S("tunplane", "alloc", c, 0) \/ x = S("thread", "thread", c, 0)) <=>
          /\ x.core \in Core /\ x.port = 0
          /\ \/ x.call = "tunplane" /\ x.act = "alloc"
             \/ x.call = "thread" /\ x.act = "thread"
    <3>1. ASSUME NEW c \in Core, x = S("tunplane", "alloc", c, 0) \/ x = S("thread", "thread", c, 0)
          PROVE  /\ x.core \in Core /\ x.port = 0
                 /\ \/ x.call = "tunplane" /\ x.act = "alloc"
                    \/ x.call = "thread" /\ x.act = "thread"
      BY <3>1 DEF S
    <3> QED BY <3>1, <2>0
  <2>7. x \in StartStep <=>
          \/ \E i \in Port : x \in OpenIn(i)
          \/ \E c \in Core : x \in DescIn(c)
          \/ x \in ConfigIn
          \/ \E i \in Port : x \in TunIn(i)
          \/ x = MaskStep
          \/ \E c \in Core : x \in BufIn(c)
          \/ \E c \in Core : x \in PlaneIn(c)
          \/ \E c \in Core : x = S("tunplane", "alloc", c, 0) \/ x = S("thread", "thread", c, 0)
    BY DEF StartStep, CoreIn
  <2> QED BY <2>1, <2>2, <2>3, <2>4, <2>5, <2>6, <2>7, PartFields DEF IsResource, IsPlain
<1> QED BY <1>1, <1>2

-----------------------------------------------------------------------------
(* Where main is.                                                          *)

(* Before is a strict order. *)
LEMMA BeforeStrict ==
  ASSUME NEW x \in AnyStep, NEW y \in AnyStep, Before(x, y)
  PROVE  ~ Before(y, x) /\ x # y
<1>1. /\ Stage(x) \in Nat /\ Place(x) \in Nat /\ Second(x) \in Nat
      /\ Stage(y) \in Nat /\ Place(y) \in Nat /\ Second(y) \in Nat
  BY DEF Stage, Place, Second
<1>2. Outer(x) \in Nat /\ Inner(x) \in Nat /\ Outer(y) \in Nat /\ Inner(y) \in Nat
  BY DEF Outer, Inner, AnyStep
<1>3. ~ Before(y, x)
  BY <1>1, <1>2 DEF Before
<1> QED BY <1>3

(* The index of a step in Startup tells what comes before it. *)
LEMMA StartupOrder ==
  ASSUME NEW j \in 1 .. Len(Startup), NEW k \in 1 .. Len(Startup)
  PROVE  /\ Startup[j] \in StartStep /\ Startup[j] \in AnyStep
         /\ Before(Startup[j], Startup[k]) <=> j < k
         /\ Startup[j] = Startup[k] => j = k
<1>1. Startup \in Seq(AnyStep) /\ Len(Startup) \in Nat
  BY StartupFacts
<1>2. Startup[j] \in AnyStep /\ Startup[k] \in AnyStep
  BY <1>1
<1>3. Startup[j] \in StartStep
  BY StartupFacts DEF Members
<1>4. ASSUME j < k PROVE Before(Startup[j], Startup[k])
  BY <1>2, <1>4, StartupFacts, EarlierIff DEF Chain
<1>5. ASSUME k < j PROVE Before(Startup[k], Startup[j])
  BY <1>2, <1>5, StartupFacts, EarlierIff DEF Chain
<1>6. j < k \/ j = k \/ k < j
  BY <1>1
<1>7. ~ Before(Startup[j], Startup[j])
  BY <1>2, BeforeStrict
<1>8. Before(Startup[j], Startup[k]) <=> j < k
  BY <1>2, <1>4, <1>5, <1>6, <1>7, BeforeStrict
<1>9. Startup[j] = Startup[k] => j = k
  BY <1>4, <1>5, <1>6, <1>7
<1> QED BY <1>2, <1>3, <1>8, <1>9

(* What is done at the first step, after one more, and at the end. *)
LEMMA Progress ==
  /\ Len(Startup) \in Nat \ {0}
  /\ \A x \in StartStep : ~ Before(x, Startup[1])
  /\ \A k \in 1 .. Len(Startup), x \in StartStep :
        /\ k # Len(Startup) => /\ k + 1 \in 1 .. Len(Startup)
                               /\ Before(x, Startup[k + 1]) <=> Before(x, Startup[k]) \/ x = Startup[k]
        /\ k = Len(Startup) => Before(x, Startup[k]) \/ x = Startup[k]
<1>1. Len(Startup) \in Nat
  BY StartupFacts
<1>2. ASSUME NEW x \in StartStep PROVE \E j \in 1 .. Len(Startup) : x = Startup[j]
  BY StartupFacts DEF Members
<1>3. MaskStep \in StartStep
  BY Stages DEF StartStep
<1>4. Len(Startup) # 0 /\ 1 \in 1 .. Len(Startup)
  BY <1>1, <1>2, <1>3
<1>5. ASSUME NEW x \in StartStep PROVE ~ Before(x, Startup[1])
  <2>1. PICK j \in 1 .. Len(Startup) : x = Startup[j]
    BY <1>2
  <2>2. ~ (j < 1)
    BY <1>1
  <2> QED BY <2>1, <2>2, <1>4, StartupOrder
<1>6. ASSUME NEW k \in 1 .. Len(Startup), NEW x \in StartStep
      PROVE  /\ k # Len(Startup) => /\ k + 1 \in 1 .. Len(Startup)
                                    /\ Before(x, Startup[k + 1]) <=> Before(x, Startup[k]) \/ x = Startup[k]
             /\ k = Len(Startup) => Before(x, Startup[k]) \/ x = Startup[k]
  <2>1. PICK j \in 1 .. Len(Startup) : x = Startup[j]
    BY <1>2
  <2>2. Before(x, Startup[k]) <=> j < k
    BY <2>1, StartupOrder
  <2>3. x = Startup[k] <=> j = k
    BY <2>1, StartupOrder
  <2>4. ASSUME k # Len(Startup)
        PROVE  /\ k + 1 \in 1 .. Len(Startup)
               /\ Before(x, Startup[k + 1]) <=> Before(x, Startup[k]) \/ x = Startup[k]
    <3>1. k + 1 \in 1 .. Len(Startup)
      BY <1>1, <2>4
    <3>2. Before(x, Startup[k + 1]) <=> j < k + 1
      BY <2>1, <3>1, StartupOrder
    <3>3. j < k + 1 <=> j < k \/ j = k
      BY <1>1
    <3> QED BY <3>1, <3>2, <3>3, <2>2, <2>3
  <2>5. ASSUME k = Len(Startup) PROVE j < k \/ j = k
    BY <1>1, <2>5
  <2> QED BY <2>2, <2>3, <2>4, <2>5
<1> QED BY <1>1, <1>4, <1>5, <1>6

(* Main acquires what a resource depends on before the resource. *)
LEMMA DepBefore ==
  ASSUME NEW x \in Resource, NEW y \in Resource, Dep(x, y)
  PROVE  Before(y, x)
<1>1. x \in AnyStep /\ y \in AnyStep /\ IsResource(x) /\ IsResource(y)
  BY ResourceIff
<1>2. \/ Stage(y) = 1 /\ Stage(x) # 1 /\ Stage(x) \in 1 .. 6
      \/ Stage(y) \in {2, 4} /\ Stage(x) = 6
      \/ Stage(y) = Stage(x) /\ Outer(y) = Outer(x) /\ Place(y) < Place(x)
  <2>1. CASE x.act = "thread"
    BY <2>1, <1>1 DEF Dep, IsResource, Stage, Outer, Place
  <2>2. CASE x.act = "buffer"
    BY <2>2, <1>1 DEF Dep, IsResource, Stage, Outer, Place
  <2>3. CASE x.act \in {"rxring", "txring"}
    BY <2>3, <1>1 DEF Dep, IsResource, Stage, Outer, Place
  <2>4. x.act \in {"thread", "buffer", "rxring", "txring"}
    BY <1>1 DEF Dep, IsResource
  <2> QED BY <2>1, <2>2, <2>3, <2>4
<1> QED BY <1>2 DEF Before

-----------------------------------------------------------------------------
(* The error labels.                                                       *)

\* The release steps the failed call takes itself, and those of the rest of
\* its iteration.
OwnLabel(s, x) == x.call = s.call /\ x.core = s.core /\ x.port = s.port /\ x.act # "mmap"
IterationLabel(s, x) == /\ Loop(x) = Loop(s) /\ Loop(s) # "open"
                        /\ IF s.call = "tun" THEN x.port = s.port ELSE x.core = s.core

(* Where main is when it holds a thread, a buffer or a ring. *)
LEMMA HeldWhere ==
  ASSUME NEW s \in StartStep, s.act # "thread", NEW x \in Resource, Before(x, s) \/ x = s
  PROVE  /\ x.act = "thread" => Loop(s) = "core" /\ s.core # x.core
         /\ x.act = "buffer" => Loop(s) = "core"
         /\ x.act \in {"rxring", "txring"} => s.call # "open"
<1>1. /\ x \in AnyStep /\ IsResource(x) /\ s \in AnyStep /\ (IsResource(s) \/ IsPlain(s))
      /\ Core \subseteq Nat /\ Port \subseteq Nat
  BY ResourceIff, StartStepIff, Sizes
<1>2. Stage(s) = 6 => Loop(s) = "core" /\ Outer(s) = s.core /\ Outer(s) \in Nat
  BY <1>1 DEF Stage, Loop, Outer, IsResource, IsPlain
<1>3. ASSUME x.act = "thread" PROVE Loop(s) = "core" /\ s.core # x.core
  <2>1. x # s /\ Stage(x) = 6 /\ Outer(x) = x.core /\ Place(x) = 6 /\ x.core \in Nat
    BY <1>1, <1>3 DEF Stage, Outer, Place, IsResource
  <2>2. Stage(s) \in 1 .. 6 /\ Place(s) \in 0 .. 5
    BY <1>1 DEF Stage, Place, IsResource, IsPlain
  <2>3. Stage(s) = 6 /\ Outer(x) < Outer(s)
    BY <2>1, <2>2 DEF Before
  <2> QED BY <2>1, <2>3, <1>2
<1>4. ASSUME x.act = "buffer" PROVE Loop(s) = "core"
  <2>1. Stage(x) = 6 /\ Stage(s) \in 1 .. 6
    BY <1>1, <1>4 DEF Stage, IsResource
  <2>2. Stage(s) = 6
    BY <2>1 DEF Before
  <2> QED BY <2>2, <1>2
<1>5. ASSUME x.act \in {"rxring", "txring"} PROVE s.call # "open"
  <2>1. Stage(x) = 2 /\ Stage(s) \in 1 .. 6
    BY <1>1, <1>5 DEF Stage, IsResource
  <2>2. Stage(s) # 1
    BY <2>1 DEF Before
  <2> QED BY <2>2 DEF Stage
<1> QED BY <1>3, <1>4, <1>5

(* Of two steps to be released, of which y has to come first, x is not     *)
(* released under an earlier label.                                        *)
LEMMA LabelOrder ==
  ASSUME NEW s \in StartStep, s.act # "thread", NEW x \in ReleaseStep, NEW y \in ReleaseStep,
         Before(Of(y), s) \/ Of(y) = s, Dep(y, x)
  PROVE  /\ OwnLabel(s, x) => OwnLabel(s, y)
         /\ IterationLabel(s, x) => OwnLabel(s, y) \/ IterationLabel(s, y)
         /\ s.act = "rings" => (OwnLabel(s, y) => OwnLabel(s, x))
<1>1. /\ x \in AnyStep /\ (IsResource(x) \/ IsHalf(x)) /\ y \in AnyStep /\ (IsResource(y) \/ IsHalf(y))
      /\ s \in AnyStep /\ (IsResource(s) \/ IsPlain(s))
  BY ReleaseStepIff, StartStepIff
<1>2. Of(y) \in Resource
  BY ResourceIff
<1>3. CASE y.act = "kill"
  <2>1. x.act = "thread" /\ x.call = y.call /\ x.core = y.core /\ x.port = y.port
    BY <1>1, <1>3 DEF Dep, IsResource, IsHalf
  <2> QED BY <2>1, <1>3 DEF OwnLabel, IterationLabel, Loop
<1>4. CASE y.act = "down"
  <2>1. x.act = "file" /\ x.call = y.call /\ x.core = y.core /\ x.port = y.port
    BY <1>1, <1>4 DEF Dep, IsResource, IsHalf
  <2> QED BY <2>1, <1>4 DEF OwnLabel, IterationLabel, Loop
<1>5. CASE y.act = "thread"
  <2>1. Of(y) = y
    BY <1>1, <1>5, OfFacts DEF IsHalf
  <2>2. Loop(s) = "core" /\ s.core # y.core
    BY <2>1, <1>2, <1>5, HeldWhere
  <2>3. \/ x.call \in {"plane", "buf"} /\ x.core = y.core
        \/ x.call \in {"tun", "desc", "open"}
    BY <1>5 DEF Dep
  <2>4. ~ OwnLabel(s, x) /\ ~ IterationLabel(s, x) /\ s.act # "rings"
    BY <2>2, <2>3, <1>1 DEF OwnLabel, IterationLabel, Loop, IsResource, IsPlain
  <2> QED BY <2>4
<1>6. CASE y.act = "buffer"
  <2>1. Of(y) = y /\ y.call = "buf"
    BY <1>1, <1>6, OfFacts DEF IsHalf, IsResource
  <2>2. Loop(s) = "core"
    BY <2>1, <1>2, <1>6, HeldWhere
  <2>3. \/ x.call = "open"
        \/ x.call = "buf" /\ x.act = "mmap" /\ x.core = y.core
    BY <1>6 DEF Dep
  <2>4. ~ OwnLabel(s, x) /\ s.act # "rings"
    BY <2>2, <2>3, <1>1 DEF OwnLabel, Loop, IsResource, IsPlain
  <2>5. IterationLabel(s, x) => IterationLabel(s, y)
    BY <2>1, <2>2, <2>3 DEF IterationLabel, Loop
  <2> QED BY <2>4, <2>5
<1>7. CASE y.act \in {"rxring", "txring"}
  <2>1. Of(y) = y /\ y.call = "desc"
    BY <1>1, <1>7, OfFacts DEF IsHalf, IsResource
  <2>2. s.call # "open"
    BY <2>1, <1>2, <1>7, HeldWhere
  <2>3. \/ x.call = "open"
        \/ x.call = "desc" /\ x.act = "mmap" /\ x.core = y.core
    BY <1>7 DEF Dep
  <2>4. ~ OwnLabel(s, x) /\ s.act # "rings"
    BY <2>2, <2>3, <1>1 DEF OwnLabel, IsResource, IsPlain
  <2>5. IterationLabel(s, x) => IterationLabel(s, y)
    BY <2>1, <2>2, <2>3, <1>1 DEF IterationLabel, Loop
  <2> QED BY <2>4, <2>5
<1>8. y.act \in {"kill", "down", "thread", "buffer", "rxring", "txring"}
  BY DEF Dep
<1> QED BY <1>3, <1>4, <1>5, <1>6, <1>7, <1>8

(* A failed step, whichever it is, gives back exactly what main has, and   *)
(* respects the dependencies.                                              *)
LEMMA UnwindFacts ==
  ASSUME NEW s \in StartStep, s.act # "thread", NEW have, have \subseteq Resource,
         \A x \in have : Before(x, s) \/ x = s
  PROVE  /\ Unwind(s, have) \in Seq(AnyStep)
         /\ \A x : x \in Members(Unwind(s, have)) <=> x \in ReleaseStep /\ Of(x) \in have
         /\ Chain(Unwind(s, have), Allowed)
<1>1. PICK todo : todo = {r \in ReleaseStep : Of(r) \in have}
  OBVIOUS
<1>2. PICK own : own = {r \in todo : OwnLabel(s, r)}
  OBVIOUS
<1>3. PICK iteration : iteration = {r \in todo \ own : IterationLabel(s, r)}
  OBVIOUS
<1>4. PICK rest : rest = todo \ (own \cup iteration)
  OBVIOUS
<1>5. PICK a, b, c : /\ a = Only(ReleaseOrder, own) /\ b = Only(ReleaseOrder, iteration)
                     /\ c = Only(ReleaseOrder, rest)
  OBVIOUS
<1>6. Unwind(s, have) = IF s.act = "rings" THEN c \o a ELSE (a \o b) \o c
  <2>1. own = {r \in todo : r.call = s.call /\ r.core = s.core /\ r.port = s.port /\ r.act # "mmap"}
    BY <1>2 DEF OwnLabel
  <2>2. iteration = {r \in todo \ own : Loop(r) = Loop(s) /\ Loop(s) # "open" /\
                       IF s.call = "tun" THEN r.port = s.port ELSE r.core = s.core}
    BY <1>3 DEF IterationLabel
  <2> QED BY <2>1, <2>2, <1>1, <1>4, <1>5, Zenon DEF Unwind
<1>7. \A r : r \in ReleaseStep <=> r \in Members(ReleaseOrder)
  BY DEF ReleaseStep, Members
<1>8. /\ own \subseteq todo /\ iteration \subseteq todo /\ rest \subseteq todo
      /\ todo \subseteq ReleaseStep /\ todo = own \cup iteration \cup rest
  BY <1>1, <1>2, <1>3, <1>4
<1>9. /\ a \in Seq(AnyStep) /\ Members(a) = own /\ Chain(a, Allowed)
      /\ b \in Seq(AnyStep) /\ Members(b) = iteration /\ Chain(b, Allowed)
      /\ c \in Seq(AnyStep) /\ Members(c) = rest /\ Chain(c, Allowed)
  <2>1. ReleaseOrder \in Seq(AnyStep) /\ Chain(ReleaseOrder, Allowed)
    BY ReleaseFacts
  <2>2. ASSUME NEW T, T \subseteq todo
        PROVE  /\ Only(ReleaseOrder, T) \in Seq(AnyStep)
               /\ Members(Only(ReleaseOrder, T)) = T
               /\ Chain(Only(ReleaseOrder, T), Allowed)
    <3>1. Members(ReleaseOrder) \cap T = T
      BY <2>2, <1>7, <1>8
    <3> QED BY <3>1, <2>1, OnlyFacts
  <2> QED BY <2>2, <1>5, <1>8
<1>10. ASSUME NEW x \in todo, NEW y \in todo, x # y, <<x, y>> \notin Allowed
       PROVE  /\ OwnLabel(s, x) => OwnLabel(s, y)
              /\ IterationLabel(s, x) => OwnLabel(s, y) \/ IterationLabel(s, y)
              /\ s.act = "rings" => (OwnLabel(s, y) => OwnLabel(s, x))
  <2>1. x \in ReleaseStep /\ y \in ReleaseStep /\ Of(y) \in have
    BY <1>1
  <2>2. x \in AnyStep /\ y \in AnyStep
    BY <2>1, ResourceIff
  <2>3. Dep(y, x)
    BY <2>2, <1>10, AllowedIff
  <2> QED BY <2>1, <2>3, LabelOrder
<1>11. CASE s.act = "rings"
  <2>1. s.call = "open"
    BY <1>11, StartStepIff DEF IsResource, IsPlain
  <2>2. iteration = {}
    BY <2>1, <1>3 DEF IterationLabel, Loop
  <2>3. \A x \in rest, y \in own : <<x, y>> \in Allowed
    BY <1>2, <1>4, <1>8, <1>10, <1>11
  <2>4. PICK d : d = c \o a
    OBVIOUS
  <2>5. /\ d \in Seq(AnyStep) /\ Chain(d, Allowed)
        /\ \A x : x \in Members(d) <=> x \in Members(c) \/ x \in Members(a)
    BY <2>3, <2>4, <1>9, ConcatChain
  <2>6. \A x : x \in Members(d) <=> x \in todo
    BY <2>2, <2>5, <1>8, <1>9
  <2> QED BY <2>4, <2>5, <2>6, <1>1, <1>6, <1>11
<1>12. CASE s.act # "rings"
  <2>1. \A x \in own, y \in iteration : <<x, y>> \in Allowed
    BY <1>2, <1>3, <1>8, <1>10
  <2>2. \A x \in own \cup iteration, y \in rest : <<x, y>> \in Allowed
    BY <1>2, <1>3, <1>4, <1>8, <1>10, ZenonT(60)
  <2>3. PICK d : d = a \o b
    OBVIOUS
  <2>4. /\ d \in Seq(AnyStep) /\ Chain(d, Allowed)
        /\ \A x : x \in Members(d) <=> x \in Members(a) \/ x \in Members(b)
    BY <2>1, <2>3, <1>9, ConcatChain
  <2>5. PICK e : e = d \o c
    OBVIOUS
  <2>6. /\ e \in Seq(AnyStep) /\ Chain(e, Allowed)
        /\ \A x : x \in Members(e) <=> x \in Members(d) \/ x \in Members(c)
    <3>1. \A x \in Members(d), y \in Members(c) : <<x, y>> \in Allowed
      BY <2>2, <2>4, <1>9
    <3>2. d \in Seq(AnyStep) /\ c \in Seq(AnyStep) /\ Chain(d, Allowed) /\ Chain(c, Allowed)
      BY <2>4, <1>9
    <3> QED BY ONLY <3>1, <3>2, <2>5, ConcatChain
  <2>7. \A x : x \in Members(e) <=> x \in todo
    BY <2>4, <2>6, <1>8, <1>9
  <2> QED BY <2>3, <2>5, <2>6, <2>7, <1>1, <1>6, <1>12
<1> QED BY <1>11, <1>12
=============================================================================
