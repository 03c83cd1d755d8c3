---------------------------- MODULE MemoryProofs ----------------------------
(***************************************************************************)
(* Proofs about Memory for an arena of any size and any requests.          *)
(***************************************************************************)
EXTENDS Memory, TLAPS, NaturalsInduction, WellFoundedInduction, FiniteSetTheorems

-----------------------------------------------------------------------------
(* Induction and recursion over the numbers of the nodes.                  *)

(* A set of naturals that is not empty has a least element. *)
LEMMA Least ==
  ASSUME NEW A, A \subseteq Nat, A # {}
  PROVE  \E x \in A : \A y \in A : x <= y
<1>1. PICK x \in A : \A y \in A : ~ (<<y, x>> \in OpToRel(<, Nat))
  BY NatLessThanWellFounded, WFMin, Zenon
<1>2. \A y \in A : ~ (y < x)
  BY <1>1 DEF OpToRel
<1> QED BY <1>2

(* Induction from the root down the tree. *)
LEMMA FromRoot ==
  ASSUME NEW N \in Nat, NEW P,
         \A n \in 1 .. N : (\A m \in 1 .. N : m < n => m \in P) => n \in P
  PROVE  \A n \in 1 .. N : n \in P
<1> DEFINE Bad == {n \in 1 .. N : n \notin P}
<1> SUFFICES ASSUME Bad # {} PROVE FALSE
  OBVIOUS
<1>1. Bad \subseteq Nat
  OBVIOUS
<1>2. PICK x \in Bad : \A y \in Bad : x <= y
  <2> HIDE DEF Bad
  <2> QED BY <1>1, Least
<1>3. \A m \in 1 .. N : m < x => m \in P
  BY <1>2
<1> QED BY <1>3

(* Induction from the leaves up the tree. *)
LEMMA FromLeaves ==
  ASSUME NEW N \in Nat, NEW P,
         \A n \in 1 .. N : (\A m \in 1 .. N : n < m => m \in P) => n \in P
  PROVE  \A n \in 1 .. N : n \in P
<1> DEFINE Bad == {k \in 0 .. N : N - k \in 1 .. N /\ N - k \notin P}
<1> SUFFICES ASSUME Bad # {} PROVE FALSE
  <2>1. Bad = {}
    OBVIOUS
  <2> SUFFICES ASSUME NEW n \in 1 .. N, n \notin P PROVE FALSE
    OBVIOUS
  <2>2. N - n \in 0 .. N /\ N - (N - n) = n
    OBVIOUS
  <2>3. N - n \in Bad
    BY <2>2
  <2> QED BY <2>1, <2>3
<1>1. Bad \subseteq Nat
  OBVIOUS
<1>2. PICK x \in Bad : \A y \in Bad : x <= y
  <2> HIDE DEF Bad
  <2> QED BY <1>1, Least
<1>3. x \in 0 .. N /\ N - x \in 1 .. N /\ N - x \notin P
  OBVIOUS
<1>4. ASSUME NEW m \in 1 .. N, N - x < m PROVE m \in P
  <2>1. N - m \in 0 .. N /\ N - (N - m) = m /\ ~ (x <= N - m)
    BY <1>3, <1>4
  <2>2. N - m \notin Bad
    BY <2>1, <1>2
  <2> QED BY <2>1, <2>2
<1> QED BY <1>3, <1>4

(* The number of the parent. *)
LEMMA Half ==
  ASSUME NEW N \in Nat, NEW n \in 1 .. N
  PROVE  /\ n # 1 => n \div 2 \in 1 .. N /\ n \div 2 < n
         /\ n = 2 * (n \div 2) \/ n = 2 * (n \div 2) + 1
         /\ n % 2 = n - 2 * (n \div 2) /\ n % 2 \in {0, 1}
OBVIOUS

\* f is v at the root and what H makes of the parent's value elsewhere.
Halving(f, N, v, H) ==
  f = [n \in 1 .. N |-> IF n = 1 THEN v ELSE H[n][f[n \div 2]]]

(* A function may be defined by what it is at the parent. *)
LEMMA HalvingDefined ==
  ASSUME NEW N \in Nat \ {0}, NEW V, NEW v \in V, NEW H \in [1 .. N -> [V -> V]]
  PROVE  \E f \in [1 .. N -> V] : Halving(f, N, v, H)
<1> DEFINE E(g, n) == g[n] = IF n = 1 THEN v ELSE H[n][g[n \div 2]]
           P == {k \in 1 .. N : \E g \in [1 .. N -> V] : \A n \in 1 .. k : E(g, n)}
<1>1. \A k \in 1 .. N : k \in P
  <2>1. ASSUME NEW k \in 1 .. N, \A m \in 1 .. N : m < k => m \in P
        PROVE  k \in P
    <3>1. PICK h \in [1 .. N -> V] : \A n \in 1 .. k - 1 : E(h, n)
      <4>1. CASE k = 1
        <5> DEFINE h == [n \in 1 .. N |-> v]
        <5>1. h \in [1 .. N -> V]
          OBVIOUS
        <5>2. 1 .. k - 1 = {}
          BY <4>1
        <5> HIDE DEF h, E
        <5> QED BY <5>1, <5>2
      <4>2. CASE k # 1
        <5>1. k - 1 \in 1 .. N /\ k - 1 < k
          BY <4>2
        <5>2. k - 1 \in P
          <6> HIDE DEF P
          <6> QED BY <5>1, <2>1
        <5> HIDE DEF E
        <5> QED BY <5>2
      <4> HIDE DEF E
      <4> QED BY <4>1, <4>2
    <3>2. PICK x : x = IF k = 1 THEN v ELSE H[k][h[k \div 2]]
      OBVIOUS
    <3>3. x \in V
      <4>1. CASE k = 1
        BY <3>2, <4>1
      <4>2. CASE k # 1
        <5>1. k \div 2 \in 1 .. N
          BY <4>2, Half
        <5>2. h[k \div 2] \in V
          BY <5>1
        <5> QED BY <5>2, <4>2, <3>2
      <4> QED BY <4>1, <4>2
    <3> DEFINE g == [h EXCEPT ![k] = x]
    <3>4. g \in [1 .. N -> V]
      BY <3>3
    <3>5. \A n \in 1 .. N : g[n] = IF n = k THEN x ELSE h[n]
      OBVIOUS
    <3> HIDE DEF g
    <3>6. ASSUME NEW n \in 1 .. k PROVE E(g, n)
      <4>0. n \in 1 .. N /\ n \in Nat /\ k \in Nat
        OBVIOUS
      <4>1. n # 1 => n \div 2 \in 1 .. N /\ n \div 2 < n /\ n \div 2 # k
        BY <4>0, Half
      <4>2. n # 1 => g[n \div 2] = h[n \div 2]
        BY <4>1, <3>5
      <4>3. CASE n = k
        BY <4>0, <4>2, <4>3, <3>2, <3>5
      <4>4. CASE n # k
        <5>1. n \in 1 .. k - 1 /\ g[n] = h[n]
          BY <4>0, <4>4, <3>5
        <5>2. E(h, n)
          <6> HIDE DEF E
          <6> QED BY <5>1, <3>1
        <5> QED BY <5>1, <5>2, <4>2
      <4> QED BY <4>3, <4>4
    <3> HIDE DEF E
    <3> QED BY <3>4, <3>6
  <2> HIDE DEF P
  <2> QED BY <2>1, FromRoot
<1>2. N \in P
  <2> HIDE DEF P
  <2> QED BY <1>1
<1>3. PICK g \in [1 .. N -> V] : \A n \in 1 .. N : E(g, n)
  <2> HIDE DEF E
  <2> QED BY <1>2
<1>4. g = [n \in 1 .. N |-> IF n = 1 THEN v ELSE H[n][g[n \div 2]]]
  BY <1>3
<1> QED BY <1>4 DEF Halving

-----------------------------------------------------------------------------
(* Sizes, places and paths.                                                *)

(* The size of a node is half its parent's. *)
LEMMA SizeDef ==
  /\ Size \in [Node -> Nat]
  /\ \A n \in Node : Size[n] = IF n = 1 THEN ArenaSize ELSE Size[n \div 2] \div 2
<1> DEFINE N == 2 * ArenaSize
           E(g) == g = [n \in Node |-> IF n = 1 THEN ArenaSize ELSE g[n \div 2] \div 2]
           H == [n \in 1 .. N |-> [x \in Nat |-> x \div 2]]
<1>0. N \in Nat \ {0} /\ Node = 1 .. N /\ ArenaSize \in Nat
  BY MemoryAssumption DEF Node
<1>1. H \in [1 .. N -> [Nat -> Nat]]
  <2>1. \A x \in Nat : x \div 2 \in Nat
    OBVIOUS
  <2> HIDE DEF N
  <2> QED BY <2>1
<1>2. \A n \in 1 .. N, x \in Nat : H[n][x] = x \div 2
  <2> HIDE DEF N
  <2> QED OBVIOUS
<1> HIDE DEF H, N
<1>3. PICK f \in [1 .. N -> Nat] :
         Halving(f, N, ArenaSize, H)
  <2>1. PICK a : a = ArenaSize
    OBVIOUS
  <2>2. \E g \in [1 .. N -> Nat] : Halving(g, N, a, H)
    BY <2>1, <1>0, <1>1, HalvingDefined, Zenon
  <2> QED BY <2>1, <2>2
<1>4. \A n \in Node : n # 1 => n \div 2 \in 1 .. N
  BY <1>0, Half
<1>5. \A n \in Node : n # 1 => H[n][f[n \div 2]] = f[n \div 2] \div 2
  BY <1>0, <1>2, <1>3, <1>4
<1>6. E(f)
  BY <1>0, <1>3, <1>5 DEF Halving
<1>7. E(CHOOSE g : E(g))
  <2>1. \E g : E(g)
    BY <1>6
  <2> HIDE DEF E
  <2> QED BY <2>1, Zenon
<1>8. Size = CHOOSE g : E(g)
  BY Zenon DEF Size
<1>9. E(Size)
  BY <1>7, <1>8
<1>10. \A n \in Node : Size[n] = IF n = 1 THEN ArenaSize ELSE Size[n \div 2] \div 2
  BY <1>9
<1>11. \A n \in Node : Size[n] \in Nat
  <2> DEFINE P == {n \in Node : Size[n] \in Nat}
  <2>1. ASSUME NEW n \in 1 .. N, \A m \in 1 .. N : m < n => m \in P
        PROVE  n \in P
    <3>1. CASE n = 1
      BY <3>1, <1>0, <1>10
    <3>2. CASE n # 1
      <4>1. n \div 2 \in 1 .. N /\ n \div 2 < n
        BY <3>2, <1>0, Half
      <4>2. Size[n \div 2] \in Nat
        BY <4>1, <2>1
      <4> QED BY <4>2, <3>2, <1>0, <1>10
    <3> QED BY <3>1, <3>2
  <2>2. N \in Nat
    BY <1>0
  <2>3. \A n \in 1 .. N : n \in P
    <3> HIDE DEF P
    <3> QED BY <2>1, <2>2, FromRoot
  <2> QED BY <2>3, <1>0
<1>12. Size \in [Node -> Nat]
  BY <1>9, <1>11
<1> QED BY <1>10, <1>12

(* Children lie one after the other in their parent's memory. *)
LEMMA PtrDef ==
  /\ Ptr \in [Node -> Nat]
  /\ \A n \in Node : Ptr[n] = IF n = 1 THEN 0 ELSE Ptr[n \div 2] + Size[n] * (n % 2)
<1> DEFINE N == 2 * ArenaSize
           E(g) == g = [n \in Node |-> IF n = 1 THEN 0 ELSE g[n \div 2] + Size[n] * (n % 2)]
           H == [n \in 1 .. N |-> [x \in Nat |-> x + Size[n] * (n % 2)]]
<1>0. N \in Nat \ {0} /\ Node = 1 .. N /\ ArenaSize \in Nat
  BY MemoryAssumption DEF Node
<1>a. \A n \in Node : Size[n] * (n % 2) \in Nat
  <2> SUFFICES ASSUME NEW n \in Node PROVE Size[n] * (n % 2) \in Nat
    OBVIOUS
  <2>1. Size[n] \in Nat /\ n % 2 \in {0, 1}
    BY <1>0, SizeDef, Half
  <2> QED BY <2>1
<1>1. H \in [1 .. N -> [Nat -> Nat]]
  <2> HIDE DEF N
  <2>1. \A n \in 1 .. N : [x \in Nat |-> x + Size[n] * (n % 2)] \in [Nat -> Nat]
    <3> SUFFICES ASSUME NEW n \in 1 .. N
                 PROVE  [x \in Nat |-> x + Size[n] * (n % 2)] \in [Nat -> Nat]
      OBVIOUS
    <3>1. PICK d \in Nat : d = Size[n] * (n % 2)
      BY <1>a, <1>0
    <3> QED BY <3>1
  <2> QED BY <2>1
<1>2. \A n \in 1 .. N, x \in Nat : H[n][x] = x + Size[n] * (n % 2)
  <2> HIDE DEF N
  <2> QED OBVIOUS
<1> HIDE DEF H, N
<1>3. PICK f \in [1 .. N -> Nat] :
         Halving(f, N, 0, H)
  <2>1. PICK a : a = 0
    OBVIOUS
  <2>2. a \in Nat
    BY <2>1
  <2>3. \E g \in [1 .. N -> Nat] : Halving(g, N, a, H)
    BY <2>2, <1>0, <1>1, HalvingDefined, Zenon
  <2> QED BY <2>1, <2>3
<1>4. \A n \in Node : n # 1 => n \div 2 \in 1 .. N
  BY <1>0, Half
<1>5. \A n \in Node : n # 1 => H[n][f[n \div 2]] = f[n \div 2] + Size[n] * (n % 2)
  BY <1>0, <1>2, <1>3, <1>4
<1>6. E(f)
  BY <1>0, <1>3, <1>5 DEF Halving
<1>7. E(CHOOSE g : E(g))
  <2>1. \E g : E(g)
    BY <1>6
  <2> HIDE DEF E
  <2> QED BY <2>1, Zenon
<1>8. Ptr = CHOOSE g : E(g)
  BY Zenon DEF Ptr
<1>9. E(Ptr)
  BY <1>7, <1>8
<1>10. \A n \in Node : Ptr[n] = IF n = 1 THEN 0 ELSE Ptr[n \div 2] + Size[n] * (n % 2)
  BY <1>9
<1>11. \A n \in Node : Ptr[n] \in Nat
  <2> DEFINE P == {n \in Node : Ptr[n] \in Nat}
  <2>1. ASSUME NEW n \in 1 .. N, \A m \in 1 .. N : m < n => m \in P
        PROVE  n \in P
    <3>1. CASE n = 1
      BY <3>1, <1>0, <1>10
    <3>2. CASE n # 1
      <4>1. n \div 2 \in 1 .. N /\ n \div 2 < n
        BY <3>2, <1>0, Half
      <4>2. Ptr[n \div 2] \in Nat
        BY <4>1, <2>1
      <4>3. PICK d \in Nat : d = Size[n] * (n % 2)
        BY <1>a, <1>0
      <4>4. Ptr[n] = Ptr[n \div 2] + d
        BY <4>3, <3>2, <1>0, <1>10
      <4> QED BY <4>2, <4>4, <1>0
    <3> QED BY <3>1, <3>2
  <2>2. N \in Nat
    BY <1>0
  <2>3. \A n \in 1 .. N : n \in P
    <3> HIDE DEF P
    <3> QED BY <2>1, <2>2, FromRoot
  <2> QED BY <2>3, <1>0
<1>12. Ptr \in [Node -> Nat]
  BY <1>9, <1>11
<1> QED BY <1>10, <1>12

(* The path of a node is the node and the path of its parent. *)
LEMMA PathDef ==
  /\ Path \in [Node -> SUBSET Node]
  /\ \A n \in Node : Path[n] = IF n = 1 THEN {1} ELSE {n} \union Path[n \div 2]
<1> DEFINE N == 2 * ArenaSize
           E(g) == g = [n \in Node |-> IF n = 1 THEN {1} ELSE {n} \union g[n \div 2]]
           H == [n \in 1 .. N |-> [x \in SUBSET (1 .. N) |-> {n} \union x]]
<1>0. N \in Nat \ {0} /\ Node = 1 .. N /\ 1 \in 1 .. N
  BY MemoryAssumption DEF Node
<1>1. H \in [1 .. N -> [SUBSET (1 .. N) -> SUBSET (1 .. N)]]
  <2> HIDE DEF N
  <2> QED OBVIOUS
<1>2. \A n \in 1 .. N, x \in SUBSET (1 .. N) : H[n][x] = {n} \union x
  <2> HIDE DEF N
  <2> QED OBVIOUS
<1> HIDE DEF H, N
<1>3. PICK f \in [1 .. N -> SUBSET (1 .. N)] :
         Halving(f, N, {1}, H)
  <2>1. PICK a, V : a = {1} /\ V = SUBSET (1 .. N)
    OBVIOUS
  <2>2. a \in V /\ H \in [1 .. N -> [V -> V]]
    BY <2>1, <1>0, <1>1
  <2>3. \E g \in [1 .. N -> V] : Halving(g, N, a, H)
    BY <2>2, <1>0, HalvingDefined, Zenon
  <2> QED BY <2>1, <2>3
<1>4. \A n \in Node : n # 1 => n \div 2 \in 1 .. N
  BY <1>0, Half
<1>5. \A n \in Node : n # 1 => H[n][f[n \div 2]] = {n} \union f[n \div 2]
  BY <1>0, <1>2, <1>3, <1>4
<1>6. E(f)
  BY <1>0, <1>3, <1>5 DEF Halving
<1>7. E(CHOOSE g : E(g))
  <2>1. \E g : E(g)
    BY <1>6
  <2> HIDE DEF E
  <2> QED BY <2>1, Zenon
<1>8. Path = CHOOSE g : E(g)
  BY Zenon DEF Path
<1>9. E(Path)
  BY <1>7, <1>8
<1>10. \A n \in Node : Path[n] = IF n = 1 THEN {1} ELSE {n} \union Path[n \div 2]
  BY <1>9
<1>11. \A n \in Node : Path[n] \in SUBSET Node
  <2> DEFINE P == {n \in Node : Path[n] \in SUBSET Node}
  <2>1. ASSUME NEW n \in 1 .. N, \A m \in 1 .. N : m < n => m \in P
        PROVE  n \in P
    <3>1. CASE n = 1
      <4>1. n \in Node /\ Path[n] = {1} /\ 1 \in Node
        BY <3>1, <1>0, <1>10
      <4> QED BY <4>1
    <3>2. CASE n # 1
      <4>1. n \div 2 \in 1 .. N /\ n \div 2 < n
        BY <3>2, <1>0, Half
      <4>2. Path[n \div 2] \in SUBSET Node
        BY <4>1, <2>1
      <4> QED BY <4>2, <3>2, <1>0, <1>10
    <3> QED BY <3>1, <3>2
  <2>2. N \in Nat
    BY <1>0
  <2>3. \A n \in 1 .. N : n \in P
    <3> HIDE DEF P
    <3> QED BY <2>1, <2>2, FromRoot
  <2> QED BY <2>3, <1>0
<1>12. Path \in [Node -> SUBSET Node]
  BY <1>9, <1>11
<1> QED BY <1>10, <1>12

(* The numbers of the parent and of the buddy. *)
LEMMA NodeFacts ==
  ASSUME NEW n \in Node
  PROVE  /\ n \in Nat /\ n >= 1 /\ n <= 2 * ArenaSize /\ 1 \in Node
         /\ n # 1 => /\ n \div 2 \in Node /\ n \div 2 < n
                     /\ n = 2 * (n \div 2) \/ n = 2 * (n \div 2) + 1
BY MemoryAssumption DEF Node

(* The children of a node: parent, buddy and order of their numbers. *)
LEMMA KidFacts ==
  ASSUME NEW n \in Node
  PROVE  /\ (2 * n) \div 2 = n /\ (2 * n + 1) \div 2 = n
         /\ Buddy(2 * n) = 2 * n + 1 /\ Buddy(2 * n + 1) = 2 * n
         /\ (2 * n) % 2 = 0 /\ (2 * n + 1) % 2 = 1
         /\ n < 2 * n /\ n < 2 * n + 1 /\ 2 * n # 1 /\ 2 * n + 1 # 1
BY MemoryAssumption DEF Node, Buddy

(* The path to a node is the node and the path to its parent. *)
LEMMA PathStep ==
  ASSUME NEW m, NEW n \in Node
  PROVE  m \in Path[n] <=> (m = n \/ (n # 1 /\ m \in Path[n \div 2]))
BY PathDef

(* Nodes above have smaller numbers. *)
LEMMA PathLe ==
  ASSUME NEW n \in Node, NEW m \in Path[n]
  PROVE  m \in Node /\ m <= n
<1> DEFINE P == {k \in Node : \A x \in Path[k] : x <= k}
           N == 2 * ArenaSize
<1>0. N \in Nat /\ Node = 1 .. N
  BY MemoryAssumption DEF Node
<1> HIDE DEF N
<1>1. ASSUME NEW k \in 1 .. N, \A x \in 1 .. N : x < k => x \in P
      PROVE  k \in P
  <2>0. k \in Node
    BY <1>0
  <2> SUFFICES ASSUME NEW x \in Path[k] PROVE x <= k
    BY <2>0
  <2>1. x \in Node
    BY <2>0, PathDef
  <2>2. CASE x = k
    BY <2>2, <2>1, NodeFacts
  <2>3. CASE k # 1 /\ x \in Path[k \div 2]
    <3>1. k \div 2 \in Node /\ k \div 2 < k
      BY <2>3, <2>0, NodeFacts
    <3>2. x <= k \div 2
      BY <3>1, <2>3, <1>1, <1>0
    <3> QED BY <3>1, <3>2, <2>1, <2>0, NodeFacts
  <2> QED BY <2>0, <2>2, <2>3, PathStep
<1>2. \A k \in 1 .. N : k \in P
  <2> HIDE DEF P
  <2> QED BY <1>0, <1>1, FromRoot
<1>3. m \in Node
  BY PathDef
<1> QED BY <1>0, <1>2, <1>3

(* The root is above every node. *)
LEMMA PathRoot ==
  ASSUME NEW n \in Node
  PROVE  1 \in Path[n]
<1> DEFINE P == {k \in Node : 1 \in Path[k]}
           N == 2 * ArenaSize
<1>0. N \in Nat /\ Node = 1 .. N
  BY MemoryAssumption DEF Node
<1> HIDE DEF N
<1>1. ASSUME NEW k \in 1 .. N, \A x \in 1 .. N : x < k => x \in P
      PROVE  k \in P
  <2>0. k \in Node
    BY <1>0
  <2>1. CASE k = 1
    BY <2>0, <2>1, PathStep
  <2>2. CASE k # 1
    <3>1. k \div 2 \in Node /\ k \div 2 < k
      BY <2>2, <2>0, NodeFacts
    <3>2. 1 \in Path[k \div 2]
      BY <3>1, <1>1, <1>0
    <3> QED BY <3>2, <2>0, <2>2, PathStep
  <2> QED BY <2>1, <2>2
<1>2. \A k \in 1 .. N : k \in P
  <2> HIDE DEF P
  <2> QED BY <1>0, <1>1, FromRoot
<1> QED BY <1>0, <1>2

(* What is above a node that is above another is above the other. *)
LEMMA PathTrans ==
  ASSUME NEW c \in Node, NEW b \in Path[c], NEW a \in Path[b]
  PROVE  a \in Path[c]
<1> DEFINE P == {k \in Node : \A y \in Path[k] : \A x \in Path[y] : x \in Path[k]}
           N == 2 * ArenaSize
<1>0. N \in Nat /\ Node = 1 .. N
  BY MemoryAssumption DEF Node
<1> HIDE DEF N
<1>1. ASSUME NEW k \in 1 .. N, \A x \in 1 .. N : x < k => x \in P
      PROVE  k \in P
  <2>0. k \in Node
    BY <1>0
  <2> SUFFICES ASSUME NEW y \in Path[k], NEW x \in Path[y] PROVE x \in Path[k]
    BY <2>0
  <2>1. CASE y = k
    BY <2>1
  <2>2. CASE k # 1 /\ y \in Path[k \div 2]
    <3>1. k \div 2 \in Node /\ k \div 2 < k
      BY <2>2, <2>0, NodeFacts
    <3>2. x \in Path[k \div 2]
      BY <3>1, <2>2, <1>1, <1>0
    <3> QED BY <3>2, <2>0, <2>2, PathStep
  <2> QED BY <2>0, <2>1, <2>2, PathStep
<1>2. \A k \in 1 .. N : k \in P
  <2> HIDE DEF P
  <2> QED BY <1>0, <1>1, FromRoot
<1> QED BY <1>0, <1>2

\* One of the two nodes is above the other.
Related(a, b) == a \in Path[b] \/ b \in Path[a]

(* Two nodes above a third are related. *)
LEMMA PathChain ==
  ASSUME NEW c \in Node, NEW a \in Path[c], NEW b \in Path[c]
  PROVE  Related(a, b)
<1> DEFINE P == {k \in Node : \A x, y \in Path[k] : Related(x, y)}
           N == 2 * ArenaSize
<1>0. N \in Nat /\ Node = 1 .. N
  BY MemoryAssumption DEF Node
<1> HIDE DEF N
<1>1. ASSUME NEW k \in 1 .. N, \A x \in 1 .. N : x < k => x \in P
      PROVE  k \in P
  <2>0. k \in Node
    BY <1>0
  <2> SUFFICES ASSUME NEW x \in Path[k], NEW y \in Path[k] PROVE Related(x, y)
    BY <2>0
  <2>1. CASE x = k \/ y = k
    BY <2>1 DEF Related
  <2>2. CASE k # 1 /\ x \in Path[k \div 2] /\ y \in Path[k \div 2]
    <3>1. k \div 2 \in Node /\ k \div 2 < k
      BY <2>2, <2>0, NodeFacts
    <3> QED BY <3>1, <2>2, <1>1, <1>0
  <2> QED BY <2>0, <2>1, <2>2, PathStep
<1>2. \A k \in 1 .. N : k \in P
  <2> HIDE DEF P
  <2> QED BY <1>0, <1>1, FromRoot
<1> QED BY <1>0, <1>2

(* A node above n is n or has a child above n. *)
LEMMA PathKid ==
  ASSUME NEW n \in Node, NEW m \in Path[n], m # n
  PROVE  2 * m \in Path[n] \/ 2 * m + 1 \in Path[n]
<1> DEFINE Q(m1, k) == 2 * m1 \in Path[k] \/ 2 * m1 + 1 \in Path[k]
           P == {k \in Node : \A x \in Path[k] : x # k => Q(x, k)}
           N == 2 * ArenaSize
<1>0. N \in Nat /\ Node = 1 .. N
  BY MemoryAssumption DEF Node
<1> HIDE DEF N
<1>1. ASSUME NEW k \in 1 .. N, \A x \in 1 .. N : x < k => x \in P
      PROVE  k \in P
  <2>0. k \in Node
    BY <1>0
  <2> SUFFICES ASSUME NEW x \in Path[k], x # k PROVE Q(x, k)
    BY <2>0
  <2>1. k # 1 /\ x \in Path[k \div 2]
    BY <2>0, PathStep
  <2>2. k \div 2 \in Node /\ k \div 2 < k /\ (k = 2 * (k \div 2) \/ k = 2 * (k \div 2) + 1)
    BY <2>1, <2>0, NodeFacts
  <2>3. CASE x = k \div 2
    <3>1. k \in Path[k]
      BY <2>0, PathStep
    <3> QED BY <3>1, <2>2, <2>3
  <2>4. CASE x # k \div 2
    <3>1. Q(x, k \div 2)
      <4> HIDE DEF Q
      <4> QED BY <2>1, <2>2, <2>4, <1>1, <1>0
    <3> QED BY <3>1, <2>0, <2>1, PathStep
  <2> QED BY <2>3, <2>4
<1>2. \A k \in 1 .. N : k \in P
  <2> HIDE DEF P
  <2> QED BY <1>0, <1>1, FromRoot
<1>3. Q(m, n)
  <2> HIDE DEF Q
  <2> QED BY <1>0, <1>2
<1> QED BY <1>3

(* No node is below both children of another. *)
LEMMA PathApart ==
  ASSUME NEW n \in Node, NEW m \in Node, 2 * m \in Path[n], 2 * m + 1 \in Path[n]
  PROVE  FALSE
<1>0. 2 * m \in Node /\ 2 * m + 1 \in Node /\ m \in Nat /\ m >= 1
  BY PathLe, NodeFacts
<1>1. Related(2 * m, 2 * m + 1)
  BY PathChain
<1>2. (2 * m + 1) \div 2 = m /\ 2 * m # 2 * m + 1 /\ 2 * m + 1 # 1
  BY <1>0
<1>3. CASE 2 * m \in Path[2 * m + 1]
  <2>1. 2 * m \in Path[m]
    <3>1. 2 * m \in Path[(2 * m + 1) \div 2]
      BY <1>0, <1>2, <1>3, PathStep
    <3> QED BY <3>1, <1>2
  <2> QED BY <2>1, <1>0, PathLe
<1>4. CASE 2 * m + 1 \in Path[2 * m]
  <2>1. 2 * m + 1 <= 2 * m
    BY <1>0, <1>4, PathLe
  <2> QED BY <2>1, <1>0
<1> QED BY <1>1, <1>3, <1>4 DEF Related

(* Nodes above each other are equal. *)
LEMMA PathSame ==
  ASSUME NEW a \in Node, NEW b \in Node, a \in Path[b], b \in Path[a]
  PROVE  a = b
<1>1. a <= b /\ b <= a
  BY PathLe
<1>2. a \in Nat /\ b \in Nat
  BY NodeFacts
<1> QED BY <1>1, <1>2

-----------------------------------------------------------------------------
(* Where the nodes lie in the arena.                                       *)

(* The deeper a node, the smaller. *)
LEMMA SizeBound ==
  ASSUME NEW n \in Node
  PROVE  (n + 1) * Size[n] <= 2 * ArenaSize
<1> DEFINE P == {k \in Node : (k + 1) * Size[k] <= 2 * ArenaSize}
           N == 2 * ArenaSize
<1>0. N \in Nat /\ Node = 1 .. N /\ ArenaSize \in Nat
  BY MemoryAssumption DEF Node
<1>1. ASSUME NEW k \in 1 .. N, \A x \in 1 .. N : x < k => x \in P
      PROVE  k \in P
  <2>0. k \in Node
    BY <1>0
  <2>1. CASE k = 1
    <3>1. Size[k] = ArenaSize
      BY <2>0, <2>1, SizeDef
    <3> QED BY <3>1, <2>1, <2>0, <1>0
  <2>2. CASE k # 1
    <3>1. PICK p \in Node : /\ p = k \div 2 /\ p < k
                            /\ k = 2 * p \/ k = 2 * p + 1
      BY <2>2, <2>0, NodeFacts
    <3>2. (p + 1) * Size[p] <= 2 * ArenaSize
      BY <3>1, <1>1, <1>0
    <3>3. PICK s \in Nat : s = Size[p]
      BY <3>1, SizeDef
    <3>4. PICK h \in Nat : h = Size[k] /\ 2 * h <= s
      <4>1. Size[k] = s \div 2
        BY <3>1, <3>3, <2>2, <2>0, SizeDef
      <4> QED BY <4>1
    <3>5. p \in Nat /\ k \in Nat /\ k + 1 <= 2 * (p + 1)
      BY <3>1, <2>0, NodeFacts
    <3>6. (k + 1) * h <= (2 * (p + 1)) * h
      <4>1. ASSUME NEW a \in Nat, NEW b \in Nat, NEW c \in Nat, a <= b PROVE a * c <= b * c
        BY <4>1
      <4>2. k + 1 \in Nat /\ 2 * (p + 1) \in Nat
        BY <3>5
      <4> QED BY <4>1, <4>2, <3>5
    <3>7. (2 * (p + 1)) * h = (p + 1) * (2 * h)
      BY <3>5
    <3>8. (p + 1) * (2 * h) <= (p + 1) * s
      <4>1. ASSUME NEW a \in Nat, NEW b \in Nat, NEW c \in Nat, a <= b PROVE c * a <= c * b
        BY <4>1
      <4>2. p + 1 \in Nat /\ 2 * h \in Nat
        BY <3>5
      <4> QED BY <4>1, <4>2, <3>4
    <3>9. (k + 1) * h <= 2 * ArenaSize
      <4>1. PICK u \in Nat, v \in Nat, w \in Nat :
               u = (k + 1) * h /\ v = (2 * (p + 1)) * h /\ w = (p + 1) * s
        BY <3>5
      <4>2. u <= v /\ v <= w
        BY <4>1, <3>6, <3>7, <3>8
      <4>3. w <= 2 * ArenaSize
        BY <4>1, <3>2, <3>3
      <4>4. u <= 2 * ArenaSize
        BY <4>2, <4>3, <1>0
      <4> QED BY <4>1, <4>4
    <3> QED BY <3>9, <3>4, <2>0
  <2> QED BY <2>1, <2>2
<1>2. \A k \in 1 .. N : k \in P
  <2> HIDE DEF P, N
  <2> QED BY <1>0, <1>1, FromRoot
<1> QED BY <1>0, <1>2

(* A node with halves has children. *)
LEMMA KidsExist ==
  ASSUME NEW n \in Node, Size[n] \div 2 >= 1
  PROVE  2 * n \in Node /\ 2 * n + 1 \in Node
<1>1. PICK s \in Nat : s = Size[n]
  BY SizeDef
<1>2. s >= 2 /\ n \in Nat /\ ArenaSize \in Nat /\ n >= 1
  BY <1>1, NodeFacts, MemoryAssumption
<1>3. (n + 1) * s <= 2 * ArenaSize
  BY <1>1, SizeBound
<1>4. (n + 1) * 2 <= (n + 1) * s
  BY <1>2
<1>5. (n + 1) * 2 <= 2 * ArenaSize
  <2>1. PICK u \in Nat, v \in Nat : u = (n + 1) * 2 /\ v = (n + 1) * s
    BY <1>2
  <2> QED BY <2>1, <1>2, <1>3, <1>4
<1> QED BY <1>5, <1>2 DEF Node

(* A node lies within every node above it. *)
LEMMA Inside ==
  ASSUME NEW n \in Node, NEW m \in Path[n]
  PROVE  Ptr[m] <= Ptr[n] /\ Ptr[n] + Size[n] <= Ptr[m] + Size[m]
<1> DEFINE Q(x, k) == Ptr[x] <= Ptr[k] /\ Ptr[k] + Size[k] <= Ptr[x] + Size[x]
           P == {k \in Node : \A x \in Path[k] : Q(x, k)}
           N == 2 * ArenaSize
<1>0. N \in Nat /\ Node = 1 .. N
  BY MemoryAssumption DEF Node
<1> HIDE DEF N
<1>1. ASSUME NEW k \in 1 .. N, \A x \in 1 .. N : x < k => x \in P
      PROVE  k \in P
  <2>0. k \in Node
    BY <1>0
  <2> SUFFICES ASSUME NEW x \in Path[k] PROVE Q(x, k)
    BY <2>0
  <2>1. x \in Node
    BY <2>0, PathDef
  <2>2. PICK px \in Nat, sx \in Nat, pk \in Nat, sk \in Nat :
           px = Ptr[x] /\ sx = Size[x] /\ pk = Ptr[k] /\ sk = Size[k]
    BY <2>0, <2>1, SizeDef, PtrDef
  <2>3. CASE x = k
    BY <2>2, <2>3
  <2>4. CASE k # 1 /\ x \in Path[k \div 2]
    <3>1. PICK p \in Node : p = k \div 2 /\ p < k
      BY <2>4, <2>0, NodeFacts
    <3>2. Q(x, p)
      <4> HIDE DEF Q
      <4> QED BY <3>1, <2>4, <1>1, <1>0
    <3>3. PICK pp \in Nat, sp \in Nat : pp = Ptr[p] /\ sp = Size[p]
      BY <3>1, SizeDef, PtrDef
    <3>4. sk = sp \div 2 /\ pk = pp + sk * (k % 2)
      BY <3>1, <3>3, <2>2, <2>4, <2>0, SizeDef, PtrDef
    <3>5. k % 2 = 0 \/ k % 2 = 1
      BY <1>0, Half
    <3>6. pp <= pk /\ pk + sk <= pp + sp
      <4>1. 2 * sk <= sp
        BY <3>4
      <4> QED BY <4>1, <3>4, <3>5
    <3> QED BY <3>2, <3>3, <3>6, <2>2
  <2> HIDE DEF Q
  <2> QED BY <2>0, <2>3, <2>4, PathStep
<1>2. \A k \in 1 .. N : k \in P
  <2> HIDE DEF P
  <2> QED BY <1>0, <1>1, FromRoot
<1>3. Q(m, n)
  <2> HIDE DEF Q
  <2> QED BY <1>0, <1>2
<1> QED BY <1>3

\* The memory of m and that of n do not overlap.
Disjoint(m, n) == Ptr[m] + Size[m] <= Ptr[n] \/ Ptr[n] + Size[n] <= Ptr[m]

(* Nodes that are not related do not overlap. *)
LEMMA UnrelatedApart ==
  ASSUME NEW m \in Node, NEW n \in Node, ~ Related(m, n)
  PROVE  Disjoint(m, n)
<1> DEFINE P == {c \in Node : \A x, y \in Node :
                    (c \in Path[x] /\ c \in Path[y] /\ ~ Related(x, y)) => Disjoint(x, y)}
           N == 2 * ArenaSize
<1>0. N \in Nat /\ Node = 1 .. N
  BY MemoryAssumption DEF Node
<1> HIDE DEF N
<1>1. ASSUME NEW c \in 1 .. N, \A x \in 1 .. N : c < x => x \in P
      PROVE  c \in P
  <2>0. c \in Node
    BY <1>0
  <2> SUFFICES ASSUME NEW x \in Node, NEW y \in Node,
                      c \in Path[x], c \in Path[y], ~ Related(x, y)
               PROVE  Disjoint(x, y)
    BY <2>0
  <2>1. c # x /\ c # y
    BY DEF Related
  <2>2. 2 * c \in Path[x] \/ 2 * c + 1 \in Path[x]
    BY <2>1, PathKid
  <2>3. 2 * c \in Path[y] \/ 2 * c + 1 \in Path[y]
    BY <2>1, PathKid
  <2>4. ASSUME NEW k \in {2 * c, 2 * c + 1}, k \in Path[x], k \in Path[y]
        PROVE  Disjoint(x, y)
    <3>1. k \in Node /\ c < k
      BY <2>4, <2>0, PathLe, KidFacts
    <3>2. k \in P
      <4> HIDE DEF P
      <4> QED BY <3>1, <1>1, <1>0
    <3> QED BY <3>2, <2>4
  <2>5. ASSUME NEW u \in Node, NEW v \in Node, 2 * c \in Path[u], 2 * c + 1 \in Path[v]
        PROVE  Ptr[u] + Size[u] <= Ptr[v]
    <3>1. PICK l \in Node, r \in Node : l = 2 * c /\ r = 2 * c + 1
      BY <2>5, PathLe
    <3>2. /\ l \div 2 = c /\ r \div 2 = c /\ l # 1 /\ r # 1
          /\ l % 2 = 0 /\ r % 2 = 1
      BY <3>1, <2>0, KidFacts
    <3>3. PICK pc \in Nat, sc \in Nat, pl \in Nat, sl \in Nat, pr \in Nat, sr \in Nat :
             /\ pc = Ptr[c] /\ sc = Size[c] /\ pl = Ptr[l] /\ sl = Size[l]
             /\ pr = Ptr[r] /\ sr = Size[r]
      BY <2>0, SizeDef, PtrDef
    <3>4. sl = sc \div 2 /\ sr = sc \div 2
      BY <3>2, <3>3, SizeDef
    <3>5. pl = pc + sl * 0 /\ pr = pc + sr * 1
      BY <3>2, <3>3, PtrDef
    <3>6. pl + sl <= pr
      BY <3>4, <3>5
    <3>7. Ptr[u] + Size[u] <= pl + sl /\ pr <= Ptr[v]
      BY <2>5, <3>1, <3>3, Inside
    <3>8. Ptr[u] \in Nat /\ Size[u] \in Nat /\ Ptr[v] \in Nat
      BY SizeDef, PtrDef
    <3> QED BY <3>6, <3>7, <3>8
  <2>6. CASE 2 * c \in Path[x] /\ 2 * c + 1 \in Path[y]
    BY <2>5, <2>6 DEF Disjoint
  <2>7. CASE 2 * c \in Path[y] /\ 2 * c + 1 \in Path[x]
    BY <2>5, <2>7 DEF Disjoint
  <2> HIDE DEF P
  <2> QED BY <2>2, <2>3, <2>4, <2>6, <2>7
<1>2. \A c \in 1 .. N : c \in P
  <2> HIDE DEF P
  <2> QED BY <1>0, <1>1, FromLeaves
<1>3. 1 \in Node /\ 1 \in Path[m] /\ 1 \in Path[n]
  BY PathRoot, NodeFacts
<1> QED BY <1>0, <1>2, <1>3

-----------------------------------------------------------------------------
(* The search for a node: what AllocFrom computes.                         *)

\* f is what H makes of the values at the children where there are two.
Doubling(f, N, B, H) ==
  \A n \in 1 .. N : f[n] = IF 2 * n + 1 \in 1 .. N THEN H[n][<<f[2 * n], f[2 * n + 1]>>] ELSE B[n]

(* A function may be defined by what it is at the children. *)
LEMMA DoublingDefined ==
  ASSUME NEW N \in Nat \ {0}, NEW V, NEW B \in [1 .. N -> V],
         NEW H \in [1 .. N -> [V \X V -> V]]
  PROVE  \E f \in [1 .. N -> V] : Doubling(f, N, B, H)
<1> DEFINE E(g, n) == g[n] = IF 2 * n + 1 \in 1 .. N THEN H[n][<<g[2 * n], g[2 * n + 1]>>] ELSE B[n]
           P == {k \in 1 .. N : \E g \in [1 .. N -> V] : \A n \in k .. N : E(g, n)}
<1>0. ASSUME NEW n \in 1 .. N, 2 * n + 1 \in 1 .. N
      PROVE  2 * n \in 1 .. N /\ n < 2 * n /\ n < 2 * n + 1
  BY <1>0
<1>1. \A k \in 1 .. N : k \in P
  <2>1. ASSUME NEW k \in 1 .. N, \A m \in 1 .. N : k < m => m \in P
        PROVE  k \in P
    <3>1. PICK h \in [1 .. N -> V] : \A n \in k + 1 .. N : E(h, n)
      <4>1. CASE k = N
        <5>1. k + 1 .. N = {}
          BY <4>1
        <5> HIDE DEF E
        <5> QED BY <5>1
      <4>2. CASE k # N
        <5>1. k + 1 \in 1 .. N /\ k < k + 1
          BY <4>2
        <5>2. k + 1 \in P
          <6> HIDE DEF P
          <6> QED BY <5>1, <2>1
        <5> HIDE DEF E
        <5> QED BY <5>2
      <4> HIDE DEF E
      <4> QED BY <4>1, <4>2
    <3>2. PICK x : x = IF 2 * k + 1 \in 1 .. N THEN H[k][<<h[2 * k], h[2 * k + 1]>>] ELSE B[k]
      OBVIOUS
    <3>3. x \in V
      <4>1. CASE 2 * k + 1 \in 1 .. N
        <5>1. 2 * k \in 1 .. N
          BY <4>1, <1>0
        <5>2. <<h[2 * k], h[2 * k + 1]>> \in V \X V
          BY <5>1, <4>1
        <5> QED BY <5>2, <4>1, <3>2
      <4>2. CASE 2 * k + 1 \notin 1 .. N
        BY <4>2, <3>2
      <4> QED BY <4>1, <4>2
    <3> DEFINE g == [h EXCEPT ![k] = x]
    <3>4. g \in [1 .. N -> V]
      BY <3>3
    <3>5. \A n \in 1 .. N : g[n] = IF n = k THEN x ELSE h[n]
      OBVIOUS
    <3> HIDE DEF g
    <3>6. ASSUME NEW n \in k .. N PROVE E(g, n)
      <4>0. n \in 1 .. N /\ n \in Nat /\ k \in Nat /\ k <= n
        OBVIOUS
      <4>1. ASSUME 2 * n + 1 \in 1 .. N
            PROVE  g[2 * n] = h[2 * n] /\ g[2 * n + 1] = h[2 * n + 1]
        <5>1. 2 * n \in 1 .. N /\ n < 2 * n /\ n < 2 * n + 1
          BY <4>1, <4>0, <1>0
        <5>2. 2 * n # k /\ 2 * n + 1 # k
          BY <5>1, <4>0
        <5> QED BY <5>1, <5>2, <4>1, <3>5
      <4>3. CASE n = k
        <5>1. g[n] = x
          BY <4>0, <4>3, <3>5
        <5> QED BY <5>1, <4>1, <4>3, <3>2
      <4>4. CASE n # k
        <5>1. n \in k + 1 .. N /\ g[n] = h[n]
          BY <4>0, <4>4, <3>5
        <5>2. E(h, n)
          <6> HIDE DEF E
          <6> QED BY <5>1, <3>1
        <5> QED BY <5>1, <5>2, <4>1
      <4> QED BY <4>3, <4>4
    <3> HIDE DEF E
    <3> QED BY <3>4, <3>6
  <2> HIDE DEF P
  <2> QED BY <2>1, FromLeaves
<1>2. 1 \in P
  <2> HIDE DEF P
  <2> QED BY <1>1
<1>3. PICK g \in [1 .. N -> V] : \A n \in 1 .. N : E(g, n)
  <2> HIDE DEF E
  <2> QED BY <1>2
<1> QED BY <1>3 DEF Doubling

\* What a call on a node may give.
Results == [ret : Nat, made : SUBSET Nat, cut : SUBSET Nat]

(* The loop over the children and the call on a node give results. *)
LEMMA FirstOfResult ==
  ASSUME NEW l \in Results, NEW r \in Results
  PROVE  FirstOf(l, r) \in Results
BY DEF FirstOf, Results

(* One level of the search keeps the type of its result. *)
LEMMA AllocAtResult ==
  ASSUME NEW n \in Node, NEW size, NEW fails, NEW sub \in Results
  PROVE  AllocAt(n, size, fails, sub) \in Results
<1>1. n \in Nat /\ 2 * n \in Nat /\ 2 * n + 1 \in Nat
  BY NodeFacts
<1>2. Absent \in Results
  BY DEF Absent, Results
<1>3. Take(n, size) \in Results
  BY <1>1 DEF Take, Absent, Results
<1>4. Split(n, fails, sub) \in Results
  <2>1. CASE <<n, 0>> \in fails
    <3>1. Split(n, fails, sub) = [ret |-> 0, made |-> {}, cut |-> {2 * n}]
      BY <2>1 DEF Split, Absent
    <3> QED BY <3>1, <1>1 DEF Results
  <2>2. CASE <<n, 0>> \notin fails /\ <<n, 1>> \in fails
    <3>1. Split(n, fails, sub) = [ret |-> 0, made |-> {}, cut |-> {2 * n, 2 * n + 1}]
      BY <2>2 DEF Split, Absent
    <3> QED BY <3>1, <1>1 DEF Results
  <2>3. CASE <<n, 0>> \notin fails /\ <<n, 1>> \notin fails
    BY <2>3, <1>1 DEF Split, Results
  <2> QED BY <2>1, <2>2, <2>3
<1> QED BY <1>2, <1>3, <1>4 DEF AllocAt

(* The children do not matter for a node that is not split. *)
LEMMA AllocAtLeaf ==
  ASSUME NEW n \in Node, NEW size \in Nat \ {0}, NEW fails, NEW x, NEW y,
         2 * n + 1 \notin Node
  PROVE  AllocAt(n, size, fails, x) = AllocAt(n, size, fails, y)
<1>1. ~ (Size[n] \div 2 >= 1) /\ Size[n] \in Nat
  BY KidsExist, SizeDef
<1>2. Size[n] \div 2 < size
  BY <1>1
<1> QED BY <1>2 DEF AllocAt

\* t is the result of the call for every node.
Tries(t, size, fails) ==
  \A n \in Node : t[n] = AllocAt(n, size, fails, FirstOf(t[2 * n], t[2 * n + 1]))

(* The recursion of _ixmap_mem_alloc is well defined. *)
LEMMA AllocFromDef ==
  ASSUME NEW size \in Nat \ {0}, NEW fails
  PROVE  \E t \in [Node -> Results] : Tries(t, size, fails) /\ AllocFrom(size, fails) = t[1]
<1> DEFINE N == 2 * ArenaSize
           E(g) == g = [n \in Node |-> AllocAt(n, size, fails, FirstOf(g[2 * n], g[2 * n + 1]))]
           B == [n \in 1 .. N |-> AllocAt(n, size, fails, Absent)]
           H == [n \in 1 .. N |-> [x \in Results \X Results |->
                    AllocAt(n, size, fails, FirstOf(x[1], x[2]))]]
<1>0. N \in Nat \ {0} /\ Node = 1 .. N /\ 1 \in Node
  BY MemoryAssumption DEF Node
<1>1. Absent \in Results
  BY DEF Absent, Results
<1>2. B \in [1 .. N -> Results] /\ \A n \in 1 .. N : B[n] = AllocAt(n, size, fails, Absent)
  <2> HIDE DEF N
  <2> QED BY <1>0, <1>1, AllocAtResult
<1>3. H \in [1 .. N -> [Results \X Results -> Results]]
  <2> HIDE DEF N
  <2>1. ASSUME NEW n \in 1 .. N, NEW x \in Results \X Results
        PROVE  AllocAt(n, size, fails, FirstOf(x[1], x[2])) \in Results
    <3>1. x[1] \in Results /\ x[2] \in Results
      OBVIOUS
    <3>2. FirstOf(x[1], x[2]) \in Results
      BY <3>1, FirstOfResult
    <3> QED BY <3>2, <1>0, AllocAtResult
  <2> QED BY <2>1
<1>4. ASSUME NEW n \in 1 .. N, NEW l \in Results, NEW r \in Results
      PROVE  H[n][<<l, r>>] = AllocAt(n, size, fails, FirstOf(l, r))
  <2> HIDE DEF N
  <2>1. <<l, r>> \in Results \X Results
    OBVIOUS
  <2>2. H[n][<<l, r>>] = AllocAt(n, size, fails, FirstOf(<<l, r>>[1], <<l, r>>[2]))
    BY <2>1
  <2>3. <<l, r>>[1] = l /\ <<l, r>>[2] = r
    OBVIOUS
  <2> QED BY <2>2, <2>3
<1> HIDE DEF H, B, N
<1>5. PICK f \in [1 .. N -> Results] : Doubling(f, N, B, H)
  <2>1. PICK V : V = Results
    OBVIOUS
  <2>2. B \in [1 .. N -> V] /\ H \in [1 .. N -> [V \X V -> V]]
    BY <2>1, <1>2, <1>3
  <2>3. \E f \in [1 .. N -> V] : Doubling(f, N, B, H)
    BY <2>2, <1>0, DoublingDefined, Zenon
  <2> QED BY <2>1, <2>3
<1>6. ASSUME NEW n \in Node
      PROVE  f[n] = AllocAt(n, size, fails, FirstOf(f[2 * n], f[2 * n + 1]))
  <2>1. CASE 2 * n + 1 \in 1 .. N
    <3>1. 2 * n \in 1 .. N
      BY <2>1, <1>0
    <3>2. f[2 * n] \in Results /\ f[2 * n + 1] \in Results
      BY <3>1, <2>1
    <3>3. f[n] = H[n][<<f[2 * n], f[2 * n + 1]>>]
      BY <2>1, <1>0, <1>5 DEF Doubling
    <3> QED BY <3>2, <3>3, <1>4, <1>0
  <2>2. CASE 2 * n + 1 \notin 1 .. N
    <3>1. f[n] = AllocAt(n, size, fails, Absent)
      BY <2>2, <1>0, <1>2, <1>5 DEF Doubling
    <3>2. AllocAt(n, size, fails, Absent) = AllocAt(n, size, fails, FirstOf(f[2 * n], f[2 * n + 1]))
      BY <2>2, <1>0, AllocAtLeaf
    <3> QED BY <3>1, <3>2
  <2> QED BY <2>1, <2>2
<1>7. E(f)
  BY <1>0, <1>5, <1>6
<1>8. E(CHOOSE g : E(g))
  <2>1. \E g : E(g)
    BY <1>7
  <2> HIDE DEF E
  <2> QED BY <2>1, Zenon
<1> DEFINE t == CHOOSE g : E(g)
<1>9. AllocFrom(size, fails) = t[1]
  BY Zenon DEF AllocFrom
<1>10. E(t)
  BY <1>8, Zenon
<1> HIDE DEF t
<1>11. Tries(t, size, fails)
  BY <1>10 DEF Tries
<1>12. \A n \in Node : t[n] \in Results
  <2> DEFINE P == {n \in Node : t[n] \in Results}
  <2>1. ASSUME NEW n \in 1 .. N, \A m \in 1 .. N : n < m => m \in P
        PROVE  n \in P
    <3>0. n \in Node /\ t[n] = AllocAt(n, size, fails, FirstOf(t[2 * n], t[2 * n + 1]))
      BY <1>0, <1>11 DEF Tries
    <3>1. CASE 2 * n + 1 \in 1 .. N
      <4>1. 2 * n \in 1 .. N /\ n < 2 * n /\ n < 2 * n + 1
        BY <3>1, <1>0
      <4>2. t[2 * n] \in Results /\ t[2 * n + 1] \in Results
        BY <4>1, <3>1, <2>1
      <4>3. FirstOf(t[2 * n], t[2 * n + 1]) \in Results
        BY <4>2, FirstOfResult
      <4> QED BY <4>3, <3>0, AllocAtResult
    <3>2. CASE 2 * n + 1 \notin 1 .. N
      <4>1. t[n] = AllocAt(n, size, fails, Absent)
        BY <3>0, <3>2, <1>0, AllocAtLeaf
      <4> QED BY <4>1, <3>0, <1>1, AllocAtResult
    <3> QED BY <3>1, <3>2
  <2>2. N \in Nat
    BY <1>0
  <2>3. \A n \in 1 .. N : n \in P
    <3> HIDE DEF P
    <3> QED BY <2>1, <2>2, FromLeaves
  <2> QED BY <2>3, <1>0
<1>13. t \in [Node -> Results]
  BY <1>10, <1>12
<1> QED BY <1>9, <1>11, <1>13

(* Above a child are its parent and what is above that. *)
LEMMA AboveKid ==
  ASSUME NEW n \in Node, NEW c \in {2 * n, 2 * n + 1}, c \in Node
  PROVE  /\ Path[c] \ {c} = Path[n] /\ c \notin Path[n] /\ n \in Path[c] /\ n # c
         /\ Fresh(c) <=> Unused(n)
<1>1. c \div 2 = n /\ n < c /\ c # 1 /\ n \in Nat /\ c \in Nat
  BY KidFacts, NodeFacts
<1>2. Path[c] = {c} \union Path[n]
  BY <1>1, PathDef
<1>3. c \notin Path[n]
  <2> SUFFICES ASSUME c \in Path[n] PROVE FALSE
    OBVIOUS
  <2>1. c <= n
    BY PathLe
  <2> QED BY <2>1, <1>1
<1>4. n \in Path[n]
  BY PathStep
<1>5. Path[c] \ {c} = Path[n] /\ n \in Path[c] /\ n # c
  BY <1>2, <1>3, <1>4, <1>1
<1>6. Unused(n) <=> ~ (Path[n] \subseteq allocated)
  BY <1>4 DEF Unused, Fresh
<1> QED BY <1>3, <1>5, <1>6 DEF Fresh

\* The call found a.ret below the free node f: it made the way from f to
\* a.ret, in pairs, and nothing below a.ret.
Found(f, a) ==
  /\ a.ret \in Node /\ f \in Path[a.ret]
  /\ \A p \in Path[a.ret] : f \in Path[p] => p = f \/ p \in a.made
  /\ \A m \in a.made : /\ m \in Node /\ m # 1 /\ f \in Path[m] /\ m # f
                       /\ m \div 2 \in Path[a.ret] /\ Buddy(m) \in a.made
  /\ 2 * a.ret \notin a.made /\ 2 * a.ret + 1 \notin a.made

(* A node that is taken as it is. *)
LEMMA FoundSelf ==
  ASSUME NEW n \in Node, NEW a, a.ret = n, a.made = {}
  PROVE  Found(n, a)
<1>1. n \in Path[n]
  BY PathStep
<1>2. ASSUME NEW p \in Path[n], n \in Path[p] PROVE p = n
  <2>1. p \in Node
    BY PathLe
  <2> QED BY <2>1, <1>2, PathSame
<1> QED BY <1>1, <1>2 DEF Found

(* A node that was found below a child made by the split of n. *)
LEMMA FoundKid ==
  ASSUME NEW n \in Node, 2 * n \in Node, 2 * n + 1 \in Node,
         NEW c \in {2 * n, 2 * n + 1}, NEW a, Found(c, a), NEW b,
         b.ret = a.ret, b.made = a.made \union {2 * n, 2 * n + 1}
  PROVE  Found(n, b)
<1>0. c \in Node
  OBVIOUS
<1>1. PICK ret \in Node : ret = a.ret /\ c \in Path[ret]
  BY DEF Found
<1>2. n \in Path[c] /\ n # c
  BY <1>0, AboveKid
<1>3. n \in Path[ret]
  BY <1>1, <1>2, PathTrans
<1>4. ASSUME NEW p \in Path[ret], n \in Path[p], p # n
      PROVE  p \in b.made
  <2>0. p \in Node
    BY PathLe
  <2>1. c \in Path[p]
    <3>1. 2 * n \in Path[p] \/ 2 * n + 1 \in Path[p]
      BY <2>0, <1>4, PathKid
    <3>2. ASSUME NEW d \in {2 * n, 2 * n + 1}, d \in Path[p], d # c PROVE FALSE
      <4>1. d \in Path[ret]
        BY <3>2, PathTrans
      <4> QED BY <4>1, <3>2, <1>1, PathApart
    <3> QED BY <3>1, <3>2
  <2>2. p = c \/ p \in a.made
    BY <2>1, <1>1 DEF Found
  <2> QED BY <2>2
<1>5. ASSUME NEW m \in b.made
      PROVE  /\ m \in Node /\ m # 1 /\ n \in Path[m] /\ m # n
             /\ m \div 2 \in Path[ret] /\ Buddy(m) \in b.made
  <2>1. CASE m \in {2 * n, 2 * n + 1}
    <3>1. m \div 2 = n /\ Buddy(m) \in {2 * n, 2 * n + 1} /\ m # 1
      BY <2>1, KidFacts
    <3>2. n \in Path[m] /\ n # m
      BY <2>1, AboveKid
    <3> QED BY <2>1, <3>1, <3>2, <1>3
  <2>2. CASE m \in a.made
    <3>1. /\ m \in Node /\ m # 1 /\ c \in Path[m] /\ m # c
          /\ m \div 2 \in Path[ret] /\ Buddy(m) \in a.made
      BY <2>2, <1>1 DEF Found
    <3>2. n \in Path[m]
      BY <3>1, <1>2, PathTrans
    <3>3. m # n
      BY <3>1, <1>2, <1>0, PathSame
    <3> QED BY <3>1, <3>2, <3>3
  <2> QED BY <2>1, <2>2
<1>6. ret # n
  BY <1>1, <1>2, <1>0, PathSame
<1>7. 2 * ret \notin b.made /\ 2 * ret + 1 \notin b.made
  <2>1. 2 * ret \notin a.made /\ 2 * ret + 1 \notin a.made
    BY <1>1 DEF Found
  <2>2. ret \in Nat /\ n \in Nat
    BY NodeFacts
  <2>3. 2 * ret \notin {2 * n, 2 * n + 1} /\ 2 * ret + 1 \notin {2 * n, 2 * n + 1}
    BY <2>2, <1>6
  <2> QED BY <2>1, <2>3
<1>8. b.ret = ret
  BY <1>1
<1> QED BY <1>3, <1>4, <1>5, <1>7, <1>8 DEF Found

\* Some split below n fails.
Unlucky(n, fails) == \E x \in fails : x[1] \in Node /\ n \in Path[x[1]]

\* What the call gives on a node that is free: it makes nothing unless it
\* finds a node, and finds one unless a split fails.
FreshOK(n, a, size, fails) ==
  /\ a.ret = 0 => a.made = {}
  /\ a.ret # 0 => Found(n, a)
  /\ \A m \in a.cut : m \in Node /\ n \in Path[m] /\ m # n
  /\ (a.ret = 0 /\ Size[n] >= size) => Unlucky(n, fails)

\* At most one split fails.
OneFails(fails) == \A x, y \in fails : x = y

(* The loop over the two new children: the second makes up for a failure   *)
(* below the first.                                                        *)
LEMMA FreshLoop ==
  ASSUME NEW size \in Nat \ {0}, NEW fails, OneFails(fails),
         NEW n \in Node, 2 * n \in Node, 2 * n + 1 \in Node, Size[n] \div 2 >= size,
         NEW l \in Results, NEW r \in Results,
         FreshOK(2 * n, l, size, fails), FreshOK(2 * n + 1, r, size, fails),
         NEW a \in Results, a.ret = FirstOf(l, r).ret,
         a.made = FirstOf(l, r).made \union {2 * n, 2 * n + 1},
         a.cut = FirstOf(l, r).cut \union {2 * n, 2 * n + 1}
  PROVE  a.ret # 0 /\ FreshOK(n, a, size, fails)
<1>0. Size[2 * n] >= size /\ Size[2 * n + 1] >= size
  BY KidFacts, SizeDef
<1>1. ASSUME l.ret = 0 PROVE r.ret # 0
  <2> SUFFICES ASSUME r.ret = 0 PROVE FALSE
    OBVIOUS
  <2>1. Unlucky(2 * n, fails) /\ Unlucky(2 * n + 1, fails)
    BY <1>0, <1>1 DEF FreshOK
  <2>2. PICK x \in fails : x[1] \in Node /\ 2 * n \in Path[x[1]]
    BY <2>1 DEF Unlucky
  <2>3. PICK y \in fails : y[1] \in Node /\ 2 * n + 1 \in Path[y[1]]
    BY <2>1 DEF Unlucky
  <2>4. x = y
    BY DEF OneFails
  <2> QED BY <2>2, <2>3, <2>4, PathApart
<1>2. ASSUME NEW m \in FirstOf(l, r).cut \union {2 * n, 2 * n + 1}
      PROVE  m \in Node /\ n \in Path[m] /\ m # n
  <2>1. CASE m \in {2 * n, 2 * n + 1}
    BY <2>1, AboveKid
  <2>2. ASSUME NEW c \in {2 * n, 2 * n + 1}, m \in Node, c \in Path[m], m # c
        PROVE  m \in Node /\ n \in Path[m] /\ m # n
    <3>1. n \in Path[c] /\ n # c /\ c \in Node
      BY AboveKid
    <3>2. n \in Path[m]
      BY <3>1, <2>2, PathTrans
    <3>3. m # n
      BY <3>1, <2>2, PathSame
    <3> QED BY <2>2, <3>2, <3>3
  <2>3. CASE m \in l.cut
    BY <2>2, <2>3 DEF FreshOK
  <2>4. CASE m \in r.cut
    BY <2>2, <2>4 DEF FreshOK
  <2>5. m \in l.cut \/ m \in r.cut \/ m \in {2 * n, 2 * n + 1}
    BY <1>2 DEF FirstOf
  <2> QED BY <2>1, <2>3, <2>4, <2>5
<1>3. CASE l.ret # 0
  <2>1. a.ret = l.ret /\ a.made = l.made \union {2 * n, 2 * n + 1}
    BY <1>3 DEF FirstOf
  <2>2. Found(2 * n, l)
    BY <1>3 DEF FreshOK
  <2>3. Found(n, a)
    BY <2>1, <2>2, FoundKid
  <2> QED BY <2>1, <2>3, <1>2, <1>3 DEF FreshOK
<1>4. CASE l.ret = 0
  <2>0. l.made = {} /\ r.ret # 0
    BY <1>1, <1>4 DEF FreshOK
  <2>1. a.ret = r.ret /\ a.made = r.made \union {2 * n, 2 * n + 1}
    BY <1>4, <2>0 DEF FirstOf
  <2>2. Found(2 * n + 1, r)
    BY <2>0 DEF FreshOK
  <2>3. Found(n, a)
    BY <2>1, <2>2, FoundKid
  <2> QED BY <2>0, <2>1, <2>3, <1>2 DEF FreshOK
<1> QED BY <1>3, <1>4

(* The call on a node that is free. *)
LEMMA FreshSearch ==
  ASSUME NEW size \in Nat \ {0}, NEW fails, OneFails(fails),
         NEW t \in [Node -> Results], Tries(t, size, fails),
         NEW n \in Node, Unused(n), Fresh(n) \/ n \in tree
  PROVE  FreshOK(n, t[n], size, fails)
<1> DEFINE P == {k \in Node : (Unused(k) /\ (Fresh(k) \/ k \in tree)) => FreshOK(k, t[k], size, fails)}
           N == 2 * ArenaSize
<1>0. N \in Nat /\ Node = 1 .. N
  BY MemoryAssumption DEF Node
<1> HIDE DEF N
<1>1. ASSUME NEW k \in 1 .. N, \A x \in 1 .. N : k < x => x \in P
      PROVE  k \in P
  <2>0. k \in Node
    BY <1>0
  <2> SUFFICES ASSUME Unused(k), Fresh(k) \/ k \in tree
               PROVE  FreshOK(k, t[k], size, fails)
    BY <2>0
  <2>1. PICK sub : sub = FirstOf(t[2 * k], t[2 * k + 1])
    OBVIOUS
  <2>2. t[k] = AllocAt(k, size, fails, sub)
    BY <2>0, <2>1 DEF Tries
  <2>3. k \in Path[k] /\ k \in Nat /\ k >= 1 /\ Size[k] \in Nat
    BY <2>0, PathStep, NodeFacts, SizeDef
  <2>4. CASE Size[k] \div 2 < size
    <3>1. t[k] = Take(k, size)
      BY <2>2, <2>4 DEF AllocAt
    <3>2. t[k].ret = (IF Size[k] >= size THEN k ELSE 0) /\ t[k].made = {} /\ t[k].cut = {}
      BY <3>1 DEF Take, Absent
    <3>3. CASE Size[k] >= size
      <4>1. t[k].ret = k /\ k # 0
        BY <3>2, <3>3, <2>3
      <4>2. Found(k, t[k])
        BY <4>1, <3>2, <2>0, FoundSelf
      <4> QED BY <4>1, <4>2, <3>2 DEF FreshOK
    <3>4. CASE ~ (Size[k] >= size)
      BY <3>2, <3>4 DEF FreshOK
    <3> QED BY <3>3, <3>4
  <2>5. CASE ~ (Size[k] \div 2 < size)
    <3>0. Size[k] \div 2 >= size /\ Size[k] \div 2 >= 1
      BY <2>5, <2>3
    <3>1. 2 * k \in Node /\ 2 * k + 1 \in Node
      BY <3>0, <2>0, KidsExist
    <3>2. t[k] = Split(k, fails, sub)
      BY <2>2, <2>5 DEF AllocAt
    <3>3. ASSUME NEW c \in {2 * k, 2 * k + 1} PROVE FreshOK(c, t[c], size, fails)
      <4>1. c \in Node /\ k < c /\ Fresh(c) /\ Unused(c)
        BY <3>1, <2>0, AboveKid, KidFacts DEF Unused
      <4>2. c \in P
        <5> HIDE DEF P
        <5> QED BY <4>1, <1>1, <1>0
      <4> QED BY <4>1, <4>2
    <3>4. CASE <<k, 0>> \in fails \/ <<k, 1>> \in fails
      <4>1. PICK x \in fails : x[1] = k
        <5>1. <<k, 0>>[1] = k /\ <<k, 1>>[1] = k
          OBVIOUS
        <5> QED BY <5>1, <3>4
      <4>2. Unlucky(k, fails)
        BY <4>1, <2>0, <2>3 DEF Unlucky
      <4>3. t[k].ret = 0 /\ t[k].made = {} /\ t[k].cut \subseteq {2 * k, 2 * k + 1}
        <5>1. CASE <<k, 0>> \in fails
          BY <5>1, <3>2 DEF Split, Absent
        <5>2. CASE <<k, 0>> \notin fails
          BY <5>2, <3>4, <3>2 DEF Split, Absent
        <5> QED BY <5>1, <5>2
      <4>4. \A m \in t[k].cut : m \in Node /\ k \in Path[m] /\ m # k
        BY <4>3, <3>1, <2>0, AboveKid
      <4> QED BY <4>2, <4>3, <4>4 DEF FreshOK
    <3>5. CASE ~ (<<k, 0>> \in fails \/ <<k, 1>> \in fails)
      <4>1. /\ t[k].ret = sub.ret
            /\ t[k].made = sub.made \union {2 * k, 2 * k + 1}
            /\ t[k].cut = sub.cut \union {2 * k, 2 * k + 1}
        BY <3>2, <3>5 DEF Split
      <4>2. PICK l \in Results, r \in Results, a \in Results :
               l = t[2 * k] /\ r = t[2 * k + 1] /\ a = t[k]
        BY <3>1, <2>0
      <4>3. FreshOK(2 * k, l, size, fails) /\ FreshOK(2 * k + 1, r, size, fails)
        BY <4>2, <3>3
      <4>4. /\ a.ret = FirstOf(l, r).ret
            /\ a.made = FirstOf(l, r).made \union {2 * k, 2 * k + 1}
            /\ a.cut = FirstOf(l, r).cut \union {2 * k, 2 * k + 1}
        BY <4>1, <4>2, <2>1
      <4>5. FreshOK(k, a, size, fails)
        BY <4>3, <4>4, <3>0, <3>1, <2>0, FreshLoop
      <4> QED BY <4>2, <4>5
    <3> QED BY <3>4, <3>5
  <2> QED BY <2>4, <2>5
<1>2. \A k \in 1 .. N : k \in P
  <2> HIDE DEF P
  <2> QED BY <1>0, <1>1, FromLeaves
<1> QED BY <1>0, <1>2

\* What the call gives on a node that was there before, and is in use or not.
OldOK(a) ==
  /\ a.ret = 0 => a.made = {}
  /\ a.ret # 0 => \E f \in tree \ allocated : Found(f, a)
  /\ \A m \in a.cut : m \in Node /\ \E f \in tree \ allocated : f \in Path[m] /\ m # f

(* The call on a node that was there before. *)
LEMMA OldSearch ==
  ASSUME NEW size \in Nat \ {0}, NEW fails, OneFails(fails),
         NEW t \in [Node -> Results], Tries(t, size, fails),
         NEW n \in Node, ~ Fresh(n)
  PROVE  OldOK(t[n])
<1> DEFINE P == {k \in Node : ~ Fresh(k) => OldOK(t[k])}
           N == 2 * ArenaSize
<1>0. N \in Nat /\ Node = 1 .. N
  BY MemoryAssumption DEF Node
<1> HIDE DEF N
<1>1. ASSUME NEW k \in 1 .. N, \A x \in 1 .. N : k < x => x \in P
      PROVE  k \in P
  <2>0. k \in Node
    BY <1>0
  <2> SUFFICES ASSUME ~ Fresh(k) PROVE OldOK(t[k])
    BY <2>0
  <2>1. PICK sub : sub = FirstOf(t[2 * k], t[2 * k + 1])
    OBVIOUS
  <2>2. t[k] = AllocAt(k, size, fails, sub)
    BY <2>0, <2>1 DEF Tries
  <2>3. ASSUME t[k].ret = 0, t[k].made = {}, t[k].cut = {} PROVE OldOK(t[k])
    BY <2>3 DEF OldOK
  <2>4. CASE k \notin tree
    <3>1. t[k] = Absent
      BY <2>2, <2>4 DEF AllocAt
    <3>2. t[k].ret = 0 /\ t[k].made = {} /\ t[k].cut = {}
      BY <3>1 DEF Absent
    <3> QED BY <3>2, <2>3
  <2>5. CASE k \in tree /\ k \notin allocated
    <3>1. FreshOK(k, t[k], size, fails)
      BY <2>0, <2>5, FreshSearch DEF Unused
    <3> QED BY <3>1, <2>5 DEF FreshOK, OldOK
  <2>6. CASE k \in tree /\ k \in allocated
    <3>0. ~ Unused(k)
      BY <2>6 DEF Unused
    <3>1. CASE Size[k] \div 2 < size
      <4>1. t[k] = Take(k, size)
        BY <2>2, <2>6, <3>1 DEF AllocAt
      <4>2. t[k].ret = 0 /\ t[k].made = {} /\ t[k].cut = {}
        BY <3>0, <4>1 DEF Take, Absent
      <4> QED BY <4>2, <2>3
    <3>2. CASE ~ (Size[k] \div 2 < size)
      <4>0. Size[k] \div 2 >= 1
        BY <3>2, <2>0, SizeDef
      <4>1. 2 * k \in Node /\ 2 * k + 1 \in Node
        BY <4>0, <2>0, KidsExist
      <4>2. t[k] = sub
        BY <2>2, <2>6, <3>0, <3>2 DEF AllocAt
      <4>3. ASSUME NEW c \in {2 * k, 2 * k + 1} PROVE OldOK(t[c])
        <5>1. c \in Node /\ k < c /\ ~ Fresh(c)
          BY <4>1, <3>0, <2>0, AboveKid, KidFacts
        <5>2. c \in P
          <6> HIDE DEF P
          <6> QED BY <5>1, <1>1, <1>0
        <5> QED BY <5>1, <5>2
      <4>4. PICK l \in Results, r \in Results : l = t[2 * k] /\ r = t[2 * k + 1]
        BY <4>1
      <4>5. OldOK(l) /\ OldOK(r) /\ t[k] = FirstOf(l, r)
        BY <4>2, <4>3, <4>4, <2>1
      <4>6. CASE l.ret # 0
        <5>1. t[k] = l
          BY <4>5, <4>6 DEF FirstOf
        <5> QED BY <5>1, <4>5
      <4>7. CASE l.ret = 0
        <5>1. t[k].ret = r.ret /\ t[k].made = r.made /\ t[k].cut = l.cut \union r.cut
          BY <4>5, <4>7 DEF FirstOf, OldOK
        <5>2. r.ret = 0 => t[k].made = {}
          BY <5>1, <4>5 DEF OldOK
        <5>3. ASSUME NEW f, Found(f, r) PROVE Found(f, t[k])
          BY <5>1, <5>3 DEF Found
        <5>4. r.ret # 0 => \E f \in tree \ allocated : Found(f, t[k])
          <6>1. r.ret # 0 => \E f \in tree \ allocated : Found(f, r)
            BY <4>5 DEF OldOK
          <6> QED BY <6>1, <5>3
        <5>5. \A m \in t[k].cut : m \in Node /\ \E f \in tree \ allocated : f \in Path[m] /\ m # f
          BY <5>1, <4>5 DEF OldOK
        <5> QED BY <5>1, <5>2, <5>4, <5>5 DEF OldOK
      <4> QED BY <4>6, <4>7
    <3> QED BY <3>1, <3>2
  <2> QED BY <2>4, <2>5, <2>6
<1>2. \A k \in 1 .. N : k \in P
  <2> HIDE DEF P
  <2> QED BY <1>0, <1>1, FromLeaves
<1> QED BY <1>0, <1>2

-----------------------------------------------------------------------------
(* The search when any number of splits may fail.                          *)

\* A free node with nothing free above it: where a call begins to split.
Top(f) == f \in tree \ allocated /\ ~ Fresh(f)

\* The call goes from f down to a.ret over nodes it has made.
Reached(f, a) ==
  /\ a.ret \in Node /\ f \in Path[a.ret]
  /\ \A p \in Path[a.ret] : f \in Path[p] => p = f \/ p \in a.made

\* m was made together with its buddy, below a node that was made or is f.
MadeBelow(f, m, a) ==
  /\ m \in Node /\ m # 1 /\ Buddy(m) \in a.made
  /\ m \div 2 \in a.made \/ m \div 2 = f

\* m is strictly below f.
Under(f, m) == m \in Node /\ f \in Path[m] /\ m # f

\* What the call gives on a node that is free, whatever fails.
AnyFresh(n, a) ==
  /\ a.ret # 0 => Reached(n, a)
  /\ \A m \in a.made : MadeBelow(n, m, a)
  /\ \A m \in a.cut : Under(n, m)

(* The loop over two new children. *)
LEMMA AnyFreshLoop ==
  ASSUME NEW n \in Node, 2 * n \in Node, 2 * n + 1 \in Node,
         NEW l \in Results, NEW r \in Results,
         AnyFresh(2 * n, l), AnyFresh(2 * n + 1, r),
         NEW a \in Results, a.ret = FirstOf(l, r).ret,
         a.made = FirstOf(l, r).made \union {2 * n, 2 * n + 1},
         a.cut = FirstOf(l, r).cut \union {2 * n, 2 * n + 1}
  PROVE  AnyFresh(n, a)
<1> DEFINE kids == {2 * n, 2 * n + 1}
<1>1. PICK x, c : /\ c \in kids /\ c \in Node /\ AnyFresh(c, x)
                  /\ x.ret = a.ret /\ x.made \subseteq a.made
  BY DEF FirstOf
<1>2. ASSUME NEW d \in kids
      PROVE  d \in Node /\ n \in Path[d] /\ n # d
  BY <1>2, AboveKid
<1>3. ASSUME a.ret # 0 PROVE Reached(n, a)
  <2>1. PICK ret \in Node : ret = a.ret /\ c \in Path[ret]
    BY <1>1, <1>3 DEF AnyFresh, Reached
  <2>2. n \in Path[ret]
    BY <1>1, <1>2, <2>1, PathTrans
  <2>3. ASSUME NEW p \in Path[ret], n \in Path[p], p # n PROVE p \in a.made
    <3>0. p \in Node
      BY PathLe
    <3>1. PICK d \in kids : d \in Path[p]
      BY <3>0, <2>3, PathKid
    <3>2. d \in Path[ret]
      BY <3>1, PathTrans
    <3>3. d = c
      BY <1>1, <2>1, <3>2, PathApart
    <3>4. p = c \/ p \in x.made
      BY <3>1, <3>3, <1>1, <1>3, <2>1 DEF AnyFresh, Reached
    <3> QED BY <3>4, <1>1
  <2> QED BY <2>1, <2>2, <2>3 DEF Reached
<1>4. ASSUME NEW m \in a.made PROVE MadeBelow(n, m, a)
  <2>1. CASE m \in kids
    BY <2>1, KidFacts DEF MadeBelow
  <2>2. CASE m \in FirstOf(l, r).made
    <3>1. PICK y, d : /\ d \in kids /\ AnyFresh(d, y) /\ m \in y.made
                      /\ y.made \subseteq a.made
      BY <2>2 DEF FirstOf
    <3>2. MadeBelow(d, m, y)
      BY <3>1 DEF AnyFresh
    <3> QED BY <3>1, <3>2 DEF MadeBelow
  <2> QED BY <2>1, <2>2
<1>5. ASSUME NEW m \in a.cut PROVE Under(n, m)
  <2>1. CASE m \in kids
    BY <2>1, <1>2 DEF Under
  <2>2. CASE m \in FirstOf(l, r).cut
    <3>1. PICK d \in kids : Under(d, m)
      BY <2>2 DEF FirstOf, AnyFresh
    <3>2. n \in Path[m]
      BY <3>1, <1>2, PathTrans DEF Under
    <3>3. m # n
      BY <3>1, <1>2, PathSame DEF Under
    <3> QED BY <3>1, <3>2, <3>3 DEF Under
  <2> QED BY <2>1, <2>2
<1> QED BY <1>3, <1>4, <1>5 DEF AnyFresh

(* The call on a node that is free. *)
LEMMA AnyFreshSearch ==
  ASSUME NEW size \in Nat \ {0}, NEW fails,
         NEW t \in [Node -> Results], Tries(t, size, fails),
         NEW n \in Node, Unused(n), Fresh(n) \/ n \in tree
  PROVE  AnyFresh(n, t[n])
<1> DEFINE P == {k \in Node : (Unused(k) /\ (Fresh(k) \/ k \in tree)) => AnyFresh(k, t[k])}
           N == 2 * ArenaSize
<1>0. N \in Nat /\ Node = 1 .. N
  BY MemoryAssumption DEF Node
<1> HIDE DEF N
<1>1. ASSUME NEW k \in 1 .. N, \A x \in 1 .. N : k < x => x \in P
      PROVE  k \in P
  <2>0. k \in Node
    BY <1>0
  <2> SUFFICES ASSUME Unused(k), Fresh(k) \/ k \in tree
               PROVE  AnyFresh(k, t[k])
    BY <2>0
  <2>1. PICK sub : sub = FirstOf(t[2 * k], t[2 * k + 1])
    OBVIOUS
  <2>2. t[k] = AllocAt(k, size, fails, sub)
    BY <2>0, <2>1 DEF Tries
  <2>3. k \in Path[k] /\ Size[k] \in Nat
    BY <2>0, PathStep, SizeDef
  <2>4. CASE Size[k] \div 2 < size
    <3>1. t[k] = Take(k, size)
      BY <2>2, <2>4 DEF AllocAt
    <3>2. t[k].ret \in {0, k} /\ t[k].made = {} /\ t[k].cut = {}
      BY <3>1 DEF Take, Absent
    <3>3. ASSUME NEW p \in Path[k], k \in Path[p] PROVE p = k
      <4>1. p \in Node
        BY <2>0, PathLe
      <4> QED BY <4>1, <3>3, <2>0, PathSame
    <3> QED BY <3>2, <3>3, <2>0, <2>3 DEF AnyFresh, Reached
  <2>5. CASE ~ (Size[k] \div 2 < size)
    <3>0. Size[k] \div 2 >= 1
      BY <2>5, <2>3
    <3>1. 2 * k \in Node /\ 2 * k + 1 \in Node
      BY <3>0, <2>0, KidsExist
    <3>2. t[k] = Split(k, fails, sub)
      BY <2>2, <2>5 DEF AllocAt
    <3>3. ASSUME NEW c \in {2 * k, 2 * k + 1} PROVE AnyFresh(c, t[c])
      <4>1. c \in Node /\ k < c /\ Fresh(c) /\ Unused(c)
        BY <3>1, <2>0, AboveKid, KidFacts DEF Unused
      <4>2. c \in P
        <5> HIDE DEF P
        <5> QED BY <4>1, <1>1, <1>0
      <4> QED BY <4>1, <4>2
    <3>4. CASE <<k, 0>> \in fails \/ <<k, 1>> \in fails
      <4>1. t[k].ret = 0 /\ t[k].made = {} /\ t[k].cut \subseteq {2 * k, 2 * k + 1}
        <5>1. CASE <<k, 0>> \in fails
          BY <5>1, <3>2 DEF Split, Absent
        <5>2. CASE <<k, 0>> \notin fails
          BY <5>2, <3>4, <3>2 DEF Split, Absent
        <5> QED BY <5>1, <5>2
      <4>2. \A m \in t[k].cut : Under(k, m)
        BY <4>1, <3>1, <2>0, AboveKid DEF Under
      <4> QED BY <4>1, <4>2 DEF AnyFresh
    <3>5. CASE ~ (<<k, 0>> \in fails \/ <<k, 1>> \in fails)
      <4>1. /\ t[k].ret = sub.ret
            /\ t[k].made = sub.made \union {2 * k, 2 * k + 1}
            /\ t[k].cut = sub.cut \union {2 * k, 2 * k + 1}
        BY <3>2, <3>5 DEF Split
      <4>2. PICK l \in Results, r \in Results, a \in Results :
               l = t[2 * k] /\ r = t[2 * k + 1] /\ a = t[k]
        BY <3>1, <2>0
      <4>3. AnyFresh(2 * k, l) /\ AnyFresh(2 * k + 1, r)
        BY <4>2, <3>3
      <4>4. /\ a.ret = FirstOf(l, r).ret
            /\ a.made = FirstOf(l, r).made \union {2 * k, 2 * k + 1}
            /\ a.cut = FirstOf(l, r).cut \union {2 * k, 2 * k + 1}
        BY <4>1, <4>2, <2>1
      <4>5. AnyFresh(k, a)
        BY <4>3, <4>4, <3>1, <2>0, AnyFreshLoop
      <4> QED BY <4>2, <4>5
    <3> QED BY <3>4, <3>5
  <2> QED BY <2>4, <2>5
<1>2. \A k \in 1 .. N : k \in P
  <2> HIDE DEF P
  <2> QED BY <1>0, <1>1, FromLeaves
<1> QED BY <1>0, <1>2

\* What the call gives on a node that was there before, whatever fails.
AnyOld(a) ==
  /\ a.ret # 0 => \E f \in Node : Top(f) /\ Reached(f, a)
  /\ \A m \in a.made : \E f \in Node : Top(f) /\ MadeBelow(f, m, a)
  /\ \A m \in a.cut : \E f \in Node : Top(f) /\ Under(f, m)

(* The call on a node that was there before. *)
LEMMA AnyOldSearch ==
  ASSUME NEW size \in Nat \ {0}, NEW fails,
         NEW t \in [Node -> Results], Tries(t, size, fails),
         NEW n \in Node, ~ Fresh(n)
  PROVE  AnyOld(t[n])
<1> DEFINE P == {k \in Node : ~ Fresh(k) => AnyOld(t[k])}
           N == 2 * ArenaSize
<1>0. N \in Nat /\ Node = 1 .. N
  BY MemoryAssumption DEF Node
<1> HIDE DEF N
<1>1. ASSUME NEW k \in 1 .. N, \A x \in 1 .. N : k < x => x \in P
      PROVE  k \in P
  <2>0. k \in Node
    BY <1>0
  <2> SUFFICES ASSUME ~ Fresh(k) PROVE AnyOld(t[k])
    BY <2>0
  <2>1. PICK sub : sub = FirstOf(t[2 * k], t[2 * k + 1])
    OBVIOUS
  <2>2. t[k] = AllocAt(k, size, fails, sub)
    BY <2>0, <2>1 DEF Tries
  <2>3. ASSUME t[k].ret = 0, t[k].made = {}, t[k].cut = {} PROVE AnyOld(t[k])
    BY <2>3 DEF AnyOld
  <2>4. CASE k \notin tree
    <3>1. t[k] = Absent
      BY <2>2, <2>4 DEF AllocAt
    <3>2. t[k].ret = 0 /\ t[k].made = {} /\ t[k].cut = {}
      BY <3>1 DEF Absent
    <3> QED BY <3>2, <2>3
  <2>5. CASE k \in tree /\ k \notin allocated
    <3>1. AnyFresh(k, t[k])
      BY <2>0, <2>5, AnyFreshSearch DEF Unused
    <3>2. Top(k)
      BY <2>5 DEF Top
    <3> QED BY <3>1, <3>2, <2>0 DEF AnyFresh, AnyOld
  <2>6. CASE k \in tree /\ k \in allocated
    <3>0. ~ Unused(k)
      BY <2>6 DEF Unused
    <3>1. CASE Size[k] \div 2 < size
      <4>1. t[k] = Take(k, size)
        BY <2>2, <2>6, <3>1 DEF AllocAt
      <4>2. t[k].ret = 0 /\ t[k].made = {} /\ t[k].cut = {}
        BY <3>0, <4>1 DEF Take, Absent
      <4> QED BY <4>2, <2>3
    <3>2. CASE ~ (Size[k] \div 2 < size)
      <4>0. Size[k] \div 2 >= 1
        BY <3>2, <2>0, SizeDef
      <4>1. 2 * k \in Node /\ 2 * k + 1 \in Node
        BY <4>0, <2>0, KidsExist
      <4>2. t[k] = sub
        BY <2>2, <2>6, <3>0, <3>2 DEF AllocAt
      <4>3. ASSUME NEW c \in {2 * k, 2 * k + 1} PROVE AnyOld(t[c])
        <5>1. c \in Node /\ k < c /\ ~ Fresh(c)
          BY <4>1, <3>0, <2>0, AboveKid, KidFacts
        <5>2. c \in P
          <6> HIDE DEF P
          <6> QED BY <5>1, <1>1, <1>0
        <5> QED BY <5>1, <5>2
      <4>4. PICK l \in Results, r \in Results : l = t[2 * k] /\ r = t[2 * k + 1]
        BY <4>1
      <4>5. AnyOld(l) /\ AnyOld(r) /\ t[k] = FirstOf(l, r)
        BY <4>2, <4>3, <4>4, <2>1
      <4>6. CASE l.ret # 0
        <5>1. t[k] = l
          BY <4>5, <4>6 DEF FirstOf
        <5> QED BY <5>1, <4>5
      <4>7. CASE l.ret = 0
        <5>1. /\ t[k].ret = r.ret /\ t[k].made = l.made \union r.made
              /\ t[k].cut = l.cut \union r.cut
          BY <4>5, <4>7 DEF FirstOf
        <5>2. ASSUME NEW f, Reached(f, r) PROVE Reached(f, t[k])
          BY <5>1, <5>2 DEF Reached
        <5>3. ASSUME NEW f, NEW m, MadeBelow(f, m, l) \/ MadeBelow(f, m, r)
              PROVE  MadeBelow(f, m, t[k])
          BY <5>1, <5>3 DEF MadeBelow
        <5>4. t[k].ret # 0 => \E f \in Node : Top(f) /\ Reached(f, t[k])
          BY <5>1, <5>2, <4>5 DEF AnyOld
        <5>5. \A m \in t[k].made : \E f \in Node : Top(f) /\ MadeBelow(f, m, t[k])
          BY <5>1, <5>3, <4>5 DEF AnyOld
        <5>6. \A m \in t[k].cut : \E f \in Node : Top(f) /\ Under(f, m)
          BY <5>1, <4>5 DEF AnyOld
        <5> QED BY <5>4, <5>5, <5>6 DEF AnyOld
      <4> QED BY <4>6, <4>7
    <3> QED BY <3>1, <3>2
  <2> QED BY <2>4, <2>5, <2>6
<1>2. \A k \in 1 .. N : k \in P
  <2> HIDE DEF P
  <2> QED BY <1>0, <1>1, FromLeaves
<1> QED BY <1>0, <1>2

-----------------------------------------------------------------------------
(* The inductive invariant: AnyInv holds whatever splits failed, Inv until *)
(* two fail in one call.                                                   *)

\* The tree has a root, and every other mnode a parent.
Rooted ==
  /\ tree # {} => 1 \in tree
  /\ \A n \in tree \ {1} : n \div 2 \in tree

\* The marked nodes are the nodes in use and all above them.
Marks == allocated = {n \in Node : \E m \in live : n \in Path[m]}

\* A marked node has a buddy.
Paired == ~ Overlapping => \A n \in allocated \ {1} : Buddy(n) \in tree

AnyInv == TypeOK /\ Rooted /\ Marks /\ Paired

\* A tree has a root; every other mnode has a parent that is marked, since a
\* free node has no children, and a buddy.
Shape ==
  /\ tree # {} => 1 \in tree
  /\ \A n \in tree \ {1} : n \div 2 \in allocated /\ Buddy(n) \in tree

\* A node in use has no children.
Leaves == \A n \in live : 2 * n \notin tree /\ 2 * n + 1 \notin tree

Inv == TypeOK /\ Shape /\ Marks /\ Leaves

IInv == AnyInv /\ (~ twice => Inv)

(* All that is above a node of the tree is marked. *)
LEMMA AboveMarked ==
  ASSUME Inv, NEW n \in tree, NEW m \in Path[n], m # n
  PROVE  m \in allocated /\ m \in tree /\ n # 1
<1>0. n \in Node /\ m \in Node
  BY PathLe DEF Inv, TypeOK
<1>1. n # 1 /\ m \in Path[n \div 2]
  BY <1>0, PathStep
<1>2. n \div 2 \in allocated /\ n \div 2 \in Node
  BY <1>0, <1>1, NodeFacts DEF Inv, Shape
<1>3. PICK x \in live : n \div 2 \in Path[x]
  BY <1>2 DEF Inv, Marks
<1>4. x \in Node
  BY DEF Inv, TypeOK
<1>5. m \in Path[x]
  BY <1>1, <1>3, <1>4, PathTrans
<1>6. m \in allocated
  BY <1>5, <1>0 DEF Inv, Marks
<1> QED BY <1>1, <1>6 DEF Inv, TypeOK

(* No node in use is above another. *)
LEMMA Antichain ==
  ASSUME Inv
  PROVE  ~ Overlapping
<1> SUFFICES ASSUME NEW a \in live, NEW b \in live, a \in Path[b], a # b PROVE FALSE
  BY DEF Overlapping
<1>0. a \in Node /\ b \in Node
  BY DEF Inv, TypeOK
<1>1. 2 * a \in Path[b] \/ 2 * a + 1 \in Path[b]
  BY <1>0, PathKid
<1>2. PICK c \in {2 * a, 2 * a + 1} : c \in Path[b]
  BY <1>1
<1>3. c \in Node
  BY <1>0, <1>2, PathLe
<1>4. c \in allocated
  BY <1>2, <1>3 DEF Inv, Marks
<1> QED BY <1>4, <1>2 DEF Inv, TypeOK, Leaves

(* The sets of splits that may fail, when at most one does. *)
LEMMA FailSetsSmall ==
  ASSUME NEW fails \in FailSets, ~ (Cardinality(fails) > 1)
  PROVE  OneFails(fails)
<1> DEFINE splits == {n \in Node : 2 * n + 1 \in Node} \X {0, 1}
<1>1. PICK k \in 0 .. MaxFail : fails \in kSubset(k, splits)
  BY DEF FailSets
<1>2. fails \subseteq splits /\ Cardinality(fails) = k
  BY <1>1 DEF kSubset
<1>3. k \in {0, 1}
  BY <1>2, MemoryAssumption
<1>4. IsFiniteSet(fails)
  <2>1. IsFiniteSet(Node)
    BY FS_Interval, MemoryAssumption DEF Node
  <2>2. IsFiniteSet({n \in Node : 2 * n + 1 \in Node})
    BY <2>1, FS_Subset
  <2>3. IsFiniteSet({0, 1})
    <3>0. 0 \in Int /\ 1 \in Int
      OBVIOUS
    <3>1. IsFiniteSet(0 .. 1)
      BY <3>0, FS_Interval, Zenon
    <3>2. 0 .. 1 = {0, 1}
      OBVIOUS
    <3> QED BY <3>1, <3>2
  <2>4. IsFiniteSet(splits)
    BY <2>2, <2>3, FS_Product
  <2> QED BY <2>4, <1>2, FS_Subset
<1>5. CASE k = 0
  <2>1. fails = {}
    BY <1>2, <1>4, <1>5, FS_EmptySet
  <2> QED BY <2>1 DEF OneFails
<1>6. CASE k = 1
  <2>1. \E x : fails = {x}
    BY <1>2, <1>4, <1>6, FS_Singleton
  <2> QED BY <2>1 DEF OneFails
<1> QED BY <1>3, <1>5, <1>6

(* All that is above a node of the tree is in the tree. *)
LEMMA AboveInTree ==
  ASSUME TypeOK, Rooted, NEW n \in tree
  PROVE  Path[n] \subseteq tree
<1> DEFINE P == {k \in Node : k \in tree => Path[k] \subseteq tree}
           N == 2 * ArenaSize
<1>0. N \in Nat /\ Node = 1 .. N
  BY MemoryAssumption DEF Node
<1> HIDE DEF N
<1>1. ASSUME NEW k \in 1 .. N, \A x \in 1 .. N : x < k => x \in P
      PROVE  k \in P
  <2>0. k \in Node
    BY <1>0
  <2> SUFFICES ASSUME k \in tree PROVE Path[k] \subseteq tree
    BY <2>0
  <2>1. CASE k = 1
    BY <2>0, <2>1, PathDef
  <2>2. CASE k # 1
    <3>1. k \div 2 \in Node /\ k \div 2 < k /\ k \div 2 \in tree
      BY <2>0, <2>2, NodeFacts DEF Rooted
    <3>2. k \div 2 \in P
      <4> HIDE DEF P
      <4> QED BY <3>1, <1>1, <1>0
    <3>3. Path[k] = {k} \union Path[k \div 2]
      BY <2>0, <2>2, PathDef
    <3> QED BY <3>1, <3>2, <3>3
  <2> QED BY <2>1, <2>2
<1>2. \A k \in 1 .. N : k \in P
  <2> HIDE DEF P
  <2> QED BY <1>0, <1>1, FromRoot
<1> QED BY <1>0, <1>2 DEF TypeOK

(* Nothing in use is below a free node, so what a split overwrites holds   *)
(* no mark and is not above a node where another split begins.             *)
LEMMA CutUnmarked ==
  ASSUME TypeOK, Rooted, Marks,
         NEW cut, \A m \in cut : \E f \in Node : Top(f) /\ Under(f, m)
  PROVE  /\ allocated \cap Below(cut) = {}
         /\ \A f \in Node : Top(f) => Path[f] \subseteq tree \ Below(cut)
<1>1. ASSUME NEW x \in Node, x \in Below(cut)
      PROVE  \E g \in Path[x] : g # x /\ Top(g)
  <2>1. PICK c \in cut : c \in Path[x]
    BY <1>1 DEF Below
  <2>2. PICK g \in Node : Top(g) /\ c \in Node /\ g \in Path[c] /\ c # g
    BY DEF Under
  <2>3. g \in Path[x]
    BY <2>1, <2>2, PathTrans
  <2>4. g # x
    BY <2>1, <2>2, PathSame
  <2> QED BY <2>2, <2>3, <2>4
<1>2. ASSUME NEW x \in allocated, x \in Below(cut) PROVE FALSE
  <2>1. PICK m \in live : x \in Path[m]
    BY DEF Marks
  <2>2. x \in Node /\ m \in Node
    BY DEF TypeOK
  <2>3. PICK g \in Path[x] : Top(g)
    BY <1>1, <1>2, <2>2
  <2>4. g \in Path[m] /\ g \in Node
    BY <2>1, <2>2, <2>3, PathTrans, PathLe
  <2> QED BY <2>3, <2>4 DEF Marks, Top
<1>3. ASSUME NEW f \in Node, Top(f), NEW p \in Path[f] PROVE p \in tree /\ p \notin Below(cut)
  <2>1. p \in tree /\ p \in Node
    BY <1>3, AboveInTree, PathLe DEF Top
  <2> SUFFICES ASSUME p \in Below(cut) PROVE FALSE
    BY <2>1
  <2>2. PICK g \in Path[p] : g # p /\ Top(g)
    BY <1>1, <2>1
  <2>3. g \in Path[f] /\ g \in Node
    BY <2>1, PathTrans, PathLe
  <2>4. g # f
    BY <2>1, <2>2, PathSame
  <2> QED BY <1>3, <2>2, <2>3, <2>4 DEF Top, Fresh
<1> QED BY <1>2, <1>3

(* What ixmap_mem_alloc changes, whatever fails. *)
LEMMA AnyAllocResult ==
  ASSUME NEW size \in Requests, NEW fails
  PROVE  AnyOld(AllocFrom(size, fails))
<1>0. size \in Nat \ {0} /\ 1 \in Node
  BY MemoryAssumption DEF Node
<1>1. PICK t \in [Node -> Results] : Tries(t, size, fails) /\ AllocFrom(size, fails) = t[1]
  BY <1>0, AllocFromDef
<1>2. ~ Fresh(1)
  <2>1. Path[1] = {1}
    BY <1>0, PathDef
  <2> QED BY <2>1 DEF Fresh
<1> QED BY <1>0, <1>1, <1>2, AnyOldSearch

(* ixmap_mem_alloc preserves AnyInv. *)
LEMMA AllocKeepsAny ==
  ASSUME AnyInv, NEW size \in Requests, ixmap_mem_alloc(size)
  PROVE  AnyInv'
<1> USE DEF AnyInv
<1>1. PICK fails \in FailSets :
         LET a == AllocFrom(size, fails)
             got == IF a.ret = 0 THEN {} ELSE {a.ret}
         IN  /\ tree' = (tree \ Below(a.cut)) \union a.made
             /\ allocated' = (allocated \ Below(a.cut)) \union UNION {Path[n] : n \in got}
             /\ live' = live \union got
             /\ twice' = (twice \/ Cardinality(fails) > 1)
  BY DEF ixmap_mem_alloc
<1>2. PICK a : a = AllocFrom(size, fails)
  OBVIOUS
<1>3. AnyOld(a)
  BY <1>2, AnyAllocResult
<1>4. /\ allocated \cap Below(a.cut) = {}
      /\ \A f \in Node : Top(f) => Path[f] \subseteq tree \ Below(a.cut)
  BY <1>3, CutUnmarked DEF AnyOld
<1>5. PICK got, new : /\ got = (IF a.ret = 0 THEN {} ELSE {a.ret})
                      /\ new = UNION {Path[n] : n \in got}
  OBVIOUS
<1>6. /\ tree' = (tree \ Below(a.cut)) \union a.made
      /\ allocated' = allocated \union new
      /\ live' = live \union got
  BY <1>1, <1>2, <1>4, <1>5
<1>7. got \subseteq Node
  BY <1>3, <1>5 DEF AnyOld, Reached
<1>8. ASSUME NEW m \in a.made
      PROVE  m \in Node /\ m # 1 /\ Buddy(m) \in a.made /\ m \div 2 \in tree'
  <2>1. PICK f \in Node : Top(f) /\ MadeBelow(f, m, a)
    BY <1>3 DEF AnyOld
  <2>2. f \in tree'
    BY <2>1, <1>4, <1>6, PathStep
  <2> QED BY <2>1, <2>2, <1>6 DEF MadeBelow
<1>9. ASSUME NEW ret \in got
      PROVE  \E f \in Path[ret] : /\ Top(f) /\ Path[f] \subseteq tree'
                                  /\ \A p \in Path[ret] : p \in Path[f] \/ p \in a.made
  <2>1. ret = a.ret /\ a.ret # 0 /\ ret \in Node
    BY <1>5, <1>7
  <2>2. PICK f \in Node : Top(f) /\ Reached(f, a)
    BY <1>3, <2>1 DEF AnyOld
  <2>3. f \in Path[ret] /\ f \in Path[f]
    BY <2>1, <2>2, PathStep DEF Reached
  <2>4. ASSUME NEW p \in Path[ret] PROVE p \in Path[f] \/ p \in a.made
    <3>1. Related(p, f)
      BY <2>1, <2>3, PathChain
    <3> QED BY <3>1, <2>1, <2>2, <2>3 DEF Related, Reached
  <2> QED BY <2>2, <2>3, <2>4, <1>4, <1>6
<1>10. TypeOK'
  <2>1. allocated' \subseteq tree'
    <3>1. allocated \subseteq tree'
      BY <1>4, <1>6 DEF TypeOK
    <3>2. new \subseteq tree'
      <4> SUFFICES ASSUME NEW ret \in got, NEW p \in Path[ret] PROVE p \in tree'
        BY <1>5
      <4> QED BY <1>9, <1>6
    <3> QED BY <3>1, <3>2, <1>6
  <2>2. live' \subseteq allocated'
    <3>1. ASSUME NEW ret \in got PROVE ret \in new
      BY <1>5, <1>7, PathStep
    <3> QED BY <3>1, <1>6 DEF TypeOK
  <2>3. tree' \subseteq Node
    BY <1>6, <1>8 DEF TypeOK
  <2>4. twice' \in BOOLEAN
    BY <1>1
  <2> QED BY <2>1, <2>2, <2>3, <2>4 DEF TypeOK
<1>11. Rooted'
  <2>1. 1 \in tree'
    <3>1. 1 \in tree /\ 1 \in Node
      BY NodeFacts DEF ixmap_mem_alloc, Rooted, TypeOK
    <3>2. Path[1] = {1}
      BY <3>1, PathDef
    <3>3. 1 \notin Below(a.cut)
      <4> SUFFICES ASSUME NEW c \in a.cut, c \in Path[1] PROVE FALSE
        BY DEF Below
      <4>1. PICK f \in Node : Under(f, c)
        BY <1>3 DEF AnyOld
      <4> QED BY <4>1, <3>2 DEF Under
    <3> QED BY <3>1, <3>3, <1>6
  <2>2. ASSUME NEW n \in tree' \ {1} PROVE n \div 2 \in tree'
    <3>1. CASE n \in tree /\ n \notin Below(a.cut)
      <4>1. n \in Node /\ n # 1 /\ n \div 2 \in tree /\ n \div 2 \in Node
        BY <3>1, NodeFacts DEF Rooted, TypeOK
      <4>2. Path[n \div 2] \subseteq Path[n]
        BY <4>1, PathDef
      <4>3. n \div 2 \notin Below(a.cut)
        BY <3>1, <4>1, <4>2 DEF Below
      <4> QED BY <4>1, <4>3, <1>6
    <3>2. CASE n \in a.made
      BY <3>2, <1>8
    <3> QED BY <3>1, <3>2, <1>6
  <2> QED BY <2>1, <2>2 DEF Rooted
<1>12. Marks'
  <2>1. \A n \in Node : n \in allocated' <=> \E m \in live' : n \in Path[m]
    BY <1>5, <1>6 DEF Marks
  <2>2. allocated' \subseteq Node
    BY <1>10 DEF TypeOK
  <2> QED BY <2>1, <2>2 DEF Marks
<1>13. Paired'
  <2> SUFFICES ASSUME ~ Overlapping', NEW n \in allocated' \ {1} PROVE Buddy(n) \in tree'
    BY DEF Paired
  <2>0. n \in Node /\ n # 1
    BY <1>10 DEF TypeOK
  <2>1. PICK p \in Node : p = n \div 2 /\ (n = 2 * p \/ n = 2 * p + 1)
    BY <2>0, NodeFacts
  <2>2. Buddy(n) \in {2 * p, 2 * p + 1} /\ Buddy(n) # n
    BY <2>1, KidFacts
  <2>3. p \in Path[n] /\ p # n /\ Path[n] \ {n} = Path[p]
    BY <2>0, <2>1, AboveKid
  <2>4. CASE n \in allocated
    <3>1. Buddy(n) \in tree /\ Buddy(n) \in Node
      BY <2>4, <2>0 DEF Paired, ixmap_mem_alloc, TypeOK
    <3>2. ASSUME NEW c \in a.cut, c \in Path[Buddy(n)] PROVE FALSE
      <4>1. PICK f \in Node : Top(f) /\ c \in Node /\ f \in Path[c] /\ c # f
        BY <1>3 DEF AnyOld, Under
      <4>2. f \in Path[Buddy(n)]
        BY <4>1, <3>1, <3>2, PathTrans
      <4>3. f # Buddy(n)
        BY <4>1, <3>1, <3>2, PathSame
      <4>4. f \in Path[p]
        BY <4>2, <4>3, <3>1, <2>2, AboveKid
      <4>5. PICK m \in live : n \in Path[m]
        BY <2>4 DEF Marks
      <4>6. m \in Node /\ f \in Path[n]
        BY <4>4, <2>3 DEF TypeOK
      <4>7. f \in Path[m]
        BY <4>5, <4>6, PathTrans
      <4> QED BY <4>1, <4>7 DEF Marks, Top
    <3>3. Buddy(n) \notin Below(a.cut)
      BY <3>2 DEF Below
    <3> QED BY <3>1, <3>3, <1>6
  <2>5. CASE n \notin allocated
    <3>1. PICK ret \in got : n \in Path[ret]
      BY <2>5, <1>5, <1>6
    <3>2. PICK f \in Path[ret] : /\ Top(f) /\ Path[f] \subseteq tree'
                                 /\ \A x \in Path[ret] : x \in Path[f] \/ x \in a.made
      BY <1>9
    <3>3. CASE n \in a.made
      BY <3>3, <1>6, <1>8
    <3>4. CASE n \notin a.made
      <4>1. n = f
        BY <3>1, <3>2, <3>4, <2>5 DEF Top, Fresh
      <4>2. p \in allocated
        BY <3>2, <4>1, <2>3 DEF Top, Fresh
      <4>3. PICK m \in live : p \in Path[m]
        BY <4>2 DEF Marks
      <4>4. m \in Node /\ ret \in Node
        BY <1>7 DEF TypeOK
      <4>5. m # p
        <5> SUFFICES ASSUME m = p PROVE FALSE
          OBVIOUS
        <5>1. p \in Path[ret]
          BY <4>4, <3>1, <2>3, PathTrans
        <5>2. p # ret
          BY <4>4, <3>1, <2>0, <2>3, PathSame
        <5> QED BY <5>1, <5>2, <1>6 DEF Overlapping
      <4>6. PICK d \in {2 * p, 2 * p + 1} : d \in Path[m]
        BY <4>3, <4>4, <4>5, PathKid
      <4>7. d \in allocated
        BY <4>4, <4>6, PathLe DEF Marks
      <4>8. d = Buddy(n)
        BY <4>6, <4>7, <2>1, <2>2, <2>5
      <4> QED BY <4>7, <4>8, <1>4, <1>6 DEF TypeOK
    <3> QED BY <3>3, <3>4
  <2> QED BY <2>4, <2>5
<1> QED BY <1>10, <1>11, <1>12, <1>13

(* What ixmap_mem_alloc changes: with at most one failing split it makes   *)
(* only what it needs, and cuts nothing off.                               *)
LEMMA AllocResult ==
  ASSUME Inv, NEW size \in Requests, NEW fails, OneFails(fails)
  PROVE  LET a == AllocFrom(size, fails)
         IN  /\ a.ret = 0 => a.made = {}
             /\ a.ret # 0 => \E f \in tree \ allocated : Found(f, a)
             /\ tree \cap Below(a.cut) = {} /\ allocated \cap Below(a.cut) = {}
<1>0. size \in Nat \ {0} /\ 1 \in Node
  BY MemoryAssumption DEF Node
<1>1. PICK t \in [Node -> Results] : Tries(t, size, fails) /\ AllocFrom(size, fails) = t[1]
  BY <1>0, AllocFromDef
<1>2. ~ Fresh(1)
  <2>1. Path[1] = {1}
    BY <1>0, PathDef
  <2> QED BY <2>1 DEF Fresh
<1>3. OldOK(t[1])
  BY <1>0, <1>1, <1>2, OldSearch
<1>4. ASSUME NEW n \in tree, n \in Below(t[1].cut) PROVE FALSE
  <2>0. n \in Node
    BY DEF Inv, TypeOK
  <2>1. PICK c \in t[1].cut : c \in Path[n]
    BY <1>4 DEF Below
  <2>2. PICK f \in tree \ allocated : f \in Path[c] /\ c # f /\ c \in Node
    BY <1>3 DEF OldOK
  <2>3. f \in Path[n] /\ f \in Node
    BY <2>0, <2>1, <2>2, PathTrans, PathLe
  <2>4. f # n
    BY <2>1, <2>2, <2>3, PathSame
  <2>5. f \in allocated
    BY <2>3, <2>4, AboveMarked
  <2> QED BY <2>2, <2>5
<1>5. tree \cap Below(t[1].cut) = {} /\ allocated \cap Below(t[1].cut) = {}
  BY <1>4 DEF Inv, TypeOK
<1> QED BY <1>1, <1>3, <1>5 DEF OldOK

(* ixmap_mem_alloc preserves Inv when at most one split fails. *)
LEMMA AllocKeeps ==
  ASSUME Inv, NEW size \in Requests, ixmap_mem_alloc(size), ~ twice', AnyInv'
  PROVE  Inv'
<1>1. PICK fails \in FailSets :
         LET a == AllocFrom(size, fails)
             got == IF a.ret = 0 THEN {} ELSE {a.ret}
         IN  /\ tree' = (tree \ Below(a.cut)) \union a.made
             /\ allocated' = (allocated \ Below(a.cut)) \union UNION {Path[n] : n \in got}
             /\ live' = live \union got
             /\ twice' = (twice \/ Cardinality(fails) > 1)
  BY DEF ixmap_mem_alloc
<1>2. PICK a : a = AllocFrom(size, fails)
  OBVIOUS
<1>3. OneFails(fails)
  BY <1>1, FailSetsSmall
<1>4. /\ a.ret = 0 => a.made = {}
      /\ a.ret # 0 => \E f \in tree \ allocated : Found(f, a)
      /\ tree \cap Below(a.cut) = {} /\ allocated \cap Below(a.cut) = {}
  BY <1>2, <1>3, AllocResult
<1>5. CASE a.ret = 0
  <2>1. tree' = tree /\ allocated' = allocated /\ live' = live
    BY <1>1, <1>2, <1>4, <1>5
  <2> QED BY <2>1 DEF Inv, AnyInv, Shape, Leaves
<1>6. CASE a.ret # 0
  <2>1. PICK f \in tree \ allocated : Found(f, a)
    BY <1>4, <1>6
  <2>2. PICK ret, made : ret \in Node /\ ret = a.ret /\ made = a.made
    BY <2>1 DEF Found
  <2>a. ret \in Node
    BY <2>2
  <2>3. tree' = tree \union made /\ allocated' = allocated \union Path[ret] /\ live' = live \union {ret}
    BY <1>1, <1>2, <1>4, <1>6, <2>2
  <2>4. /\ f \in Path[ret] /\ f \in Node /\ f \in tree /\ f \notin allocated
        /\ \A p \in Path[ret] : f \in Path[p] => p = f \/ p \in made
        /\ \A m \in made : /\ m \in Node /\ m # 1 /\ f \in Path[m] /\ m # f
                           /\ m \div 2 \in Path[ret] /\ Buddy(m) \in made
        /\ 2 * ret \notin made /\ 2 * ret + 1 \notin made
    BY <2>1, <2>2 DEF Found, Inv, TypeOK
  <2>5. TypeOK' /\ Marks'
    BY DEF AnyInv
  <2>8. Shape'
    <3>1. 1 \in tree
      BY <2>4 DEF Inv, Shape
    <3>2. ASSUME NEW n \in tree' \ {1} PROVE n \div 2 \in allocated' /\ Buddy(n) \in tree'
      <4>1. CASE n \in tree
        BY <4>1, <2>3 DEF Inv, Shape
      <4>2. CASE n \in made
        BY <4>2, <2>3, <2>4
      <4> QED BY <4>1, <4>2, <2>3
    <3> QED BY <3>1, <3>2, <2>3 DEF Shape
  <2>9. Leaves'
    <3>1. ASSUME NEW n \in live, NEW c \in {2 * n, 2 * n + 1} PROVE c \notin tree'
      <4>0. n \in Node /\ n \in tree /\ n \in allocated /\ c \notin tree
        BY <3>1 DEF Inv, TypeOK, Leaves
      <4> SUFFICES ASSUME c \in made PROVE FALSE
        BY <4>0, <2>3
      <4>1. c \in Node /\ c # 1 /\ f \in Path[c] /\ c # f /\ c \div 2 \in Path[ret]
        BY <2>4
      <4>2. c \div 2 = n
        BY <4>0, KidFacts
      <4>3. f \in Path[n]
        BY <4>1, <4>2, PathStep
      <4>4. f # n
        BY <4>0, <2>4
      <4>5. f \in allocated
        BY <4>0, <4>3, <4>4, AboveMarked
      <4> QED BY <4>5, <2>4
    <3>2. ASSUME NEW c \in {2 * ret, 2 * ret + 1} PROVE c \notin tree'
      <4> SUFFICES ASSUME c \in tree PROVE FALSE
        BY <2>3, <2>4
      <4>1. c \in Node /\ c \div 2 = ret /\ c # 1
        BY <2>a, KidFacts DEF Inv, TypeOK
      <4>2. ret \in allocated
        BY <4>1 DEF Inv, Shape
      <4>3. PICK x \in live : ret \in Path[x]
        BY <4>2 DEF Inv, Marks
      <4>4. x \in Node
        BY DEF Inv, TypeOK
      <4>5. f \in Path[x]
        BY <4>3, <4>4, <2>4, PathTrans
      <4>6. f \in allocated
        BY <4>5, <2>4 DEF Inv, Marks
      <4> QED BY <4>6, <2>4
    <3> QED BY <3>1, <3>2, <2>3 DEF Leaves
  <2> QED BY <2>5, <2>8, <2>9 DEF Inv
<1> QED BY <1>5, <1>6

-----------------------------------------------------------------------------
(* Freeing.                                                                *)

(* The chain of nodes that _ixmap_mem_free goes up. *)
LEMMA CoalescedDef ==
  \A n \in Node : Coalesced[n] = IF n = 1 THEN {1}
                                 ELSE IF Buddy(n) \in allocated THEN {n}
                                 ELSE {n} \union Coalesced[n \div 2]
<1> DEFINE N == 2 * ArenaSize
           E(g) == g = [n \in Node |-> IF n = 1 THEN {1}
                                       ELSE IF Buddy(n) \in allocated THEN {n}
                                       ELSE {n} \union g[n \div 2]]
           H == [n \in 1 .. N |-> [x \in SUBSET (1 .. N) |->
                    IF Buddy(n) \in allocated THEN {n} ELSE {n} \union x]]
<1>0. N \in Nat \ {0} /\ Node = 1 .. N /\ 1 \in 1 .. N
  BY MemoryAssumption DEF Node
<1>1. H \in [1 .. N -> [SUBSET (1 .. N) -> SUBSET (1 .. N)]]
  <2> HIDE DEF N
  <2> QED OBVIOUS
<1>2. \A n \in 1 .. N, x \in SUBSET (1 .. N) :
         H[n][x] = IF Buddy(n) \in allocated THEN {n} ELSE {n} \union x
  <2> HIDE DEF N
  <2> QED OBVIOUS
<1> HIDE DEF H, N
<1>3. PICK f \in [1 .. N -> SUBSET (1 .. N)] :
         Halving(f, N, {1}, H)
  <2>1. PICK a, V : a = {1} /\ V = SUBSET (1 .. N)
    OBVIOUS
  <2>2. a \in V /\ H \in [1 .. N -> [V -> V]]
    BY <2>1, <1>0, <1>1
  <2>3. \E g \in [1 .. N -> V] : Halving(g, N, a, H)
    BY <2>2, <1>0, HalvingDefined, Zenon
  <2> QED BY <2>1, <2>3
<1>4. \A n \in Node : n # 1 => n \div 2 \in 1 .. N
  BY <1>0, Half
<1>5. \A n \in Node : n # 1 =>
         H[n][f[n \div 2]] = IF Buddy(n) \in allocated THEN {n} ELSE {n} \union f[n \div 2]
  BY <1>0, <1>2, <1>3, <1>4
<1>6. E(f)
  BY <1>0, <1>3, <1>5 DEF Halving
<1>7. E(CHOOSE g : E(g))
  <2>1. \E g : E(g)
    BY <1>6
  <2> HIDE DEF E
  <2> QED BY <2>1, Zenon
<1>8. Coalesced = CHOOSE g : E(g)
  BY Zenon DEF Coalesced
<1>9. E(Coalesced)
  BY <1>7, <1>8
<1> QED BY <1>9

\* Nothing below c but n0 is in use.
Sole(c, n0) == \A m \in live : c \in Path[m] => m = n0

(* If the buddy is free, nothing else is in use below the parent. *)
LEMMA SoleParent ==
  ASSUME TypeOK, Marks, ~ Overlapping,
         NEW n0 \in live, NEW n \in Path[n0], n # 1, Sole(n, n0),
         Buddy(n) \notin allocated
  PROVE  Sole(n \div 2, n0)
<1>0. n0 \in Node /\ n \in Node
  BY PathLe DEF TypeOK
<1>1. PICK p \in Node : p = n \div 2 /\ (n = 2 * p \/ n = 2 * p + 1)
  BY <1>0, NodeFacts
<1>2. Buddy(n) \in {2 * p, 2 * p + 1} /\ Buddy(n) # n
  BY <1>1, KidFacts
<1>3. SUFFICES ASSUME NEW m \in live, p \in Path[m] PROVE m = n0
  BY <1>1 DEF Sole
<1>4. m \in Node
  BY DEF TypeOK
<1>5. p \in Path[n0]
  <2>1. p \in Path[n]
    BY <1>0, <1>1, AboveKid
  <2> QED BY <2>1, <1>0, PathTrans
<1>6. CASE m = p
  BY <1>5, <1>6 DEF Overlapping
<1>7. CASE m # p
  <2>1. PICK d \in {2 * p, 2 * p + 1} : d \in Path[m]
    BY <1>3, <1>4, <1>7, PathKid
  <2>2. d \in Node /\ d \in allocated
    BY <2>1, <1>4, PathLe DEF Marks
  <2>3. d # Buddy(n)
    BY <2>2
  <2>4. d = n
    BY <2>1, <2>3, <1>1, <1>2
  <2> QED BY <2>1, <2>4 DEF Sole
<1> QED BY <1>6, <1>7

(* The chain from n: the nodes above it with nothing else in use below. *)
LEMMA ChainFrom ==
  ASSUME TypeOK, Marks, ~ Overlapping,
         NEW n0 \in live, NEW n \in Path[n0], Sole(n, n0)
  PROVE  Coalesced[n] = {c \in Path[n] : Sole(c, n0)}
<1> DEFINE P == {k \in Node : (k \in Path[n0] /\ Sole(k, n0)) =>
                                Coalesced[k] = {c \in Path[k] : Sole(c, n0)}}
           N == 2 * ArenaSize
<1>0. N \in Nat /\ Node = 1 .. N
  BY MemoryAssumption DEF Node
<1>a. n0 \in Node
  BY DEF TypeOK
<1> HIDE DEF N
<1>1. ASSUME NEW k \in 1 .. N, \A x \in 1 .. N : x < k => x \in P
      PROVE  k \in P
  <2>0. k \in Node
    BY <1>0
  <2> SUFFICES ASSUME k \in Path[n0], Sole(k, n0)
               PROVE  Coalesced[k] = {c \in Path[k] : Sole(c, n0)}
    BY <2>0
  <2>1. CASE k = 1
    <3>1. Coalesced[k] = {1} /\ Path[k] = {1}
      BY <2>0, <2>1, CoalescedDef, PathDef
    <3> QED BY <3>1, <2>1
  <2>2. CASE k # 1
    <3>0. PICK p \in Node : /\ p = k \div 2 /\ p < k
                            /\ k = 2 * p \/ k = 2 * p + 1
      BY <2>0, <2>2, NodeFacts
    <3>1. Path[k] = {k} \union Path[p] /\ p \in Path[k]
      BY <2>0, <2>2, <3>0, PathDef, AboveKid
    <3>2. CASE Buddy(k) \in allocated
      <4>1. Coalesced[k] = {k}
        BY <2>0, <2>2, <3>2, CoalescedDef
      <4>2. PICK m \in live : Buddy(k) \in Path[m]
        BY <3>2 DEF Marks
      <4>3. m \in Node
        BY DEF TypeOK
      <4>4. Buddy(k) \in {2 * p, 2 * p + 1} /\ Buddy(k) # k /\ Buddy(k) \in Node
        BY <3>0, <3>2, KidFacts DEF TypeOK
      <4>5. m # n0
        <5> SUFFICES ASSUME m = n0 PROVE FALSE
          OBVIOUS
        <5>1. 2 * p \in Path[n0] /\ 2 * p + 1 \in Path[n0]
          BY <4>2, <4>4, <3>0
        <5> QED BY <5>1, <1>a, PathApart
      <4>6. ASSUME NEW c \in Path[p] PROVE ~ Sole(c, n0)
        <5>1. p \in Path[Buddy(k)]
          BY <4>4, AboveKid
        <5>2. p \in Path[m]
          BY <5>1, <4>2, <4>3, PathTrans
        <5>3. c \in Path[m]
          BY <5>2, <4>3, PathTrans
        <5> QED BY <5>3, <4>5 DEF Sole
      <4> QED BY <4>1, <4>6, <3>1
    <3>3. CASE Buddy(k) \notin allocated
      <4>1. Coalesced[k] = {k} \union Coalesced[p]
        BY <2>0, <2>2, <3>0, <3>3, CoalescedDef
      <4>2. Sole(p, n0)
        BY <2>2, <3>0, <3>3, SoleParent
      <4>3. p \in Path[n0]
        BY <3>1, <1>a, PathTrans
      <4>4. Coalesced[p] = {c \in Path[p] : Sole(c, n0)}
        <5>1. p \in P
          <6> HIDE DEF P
          <6> QED BY <3>0, <1>1, <1>0
        <5> QED BY <5>1, <4>2, <4>3
      <4> QED BY <4>1, <4>4, <3>1
    <3> QED BY <3>2, <3>3
  <2> QED BY <2>1, <2>2
<1>2. \A k \in 1 .. N : k \in P
  <2> HIDE DEF P
  <2> QED BY <1>0, <1>1, FromRoot
<1>3. n \in Node
  BY <1>a, PathLe
<1> QED BY <1>0, <1>2, <1>3

(* ixmap_mem_free clears the marks of the nodes with nothing else in use   *)
(* below, and releases only what is below one of them.                     *)
LEMMA FreeChain ==
  ASSUME TypeOK, Marks, ~ Overlapping, NEW n0 \in live
  PROVE  LET chain == Coalesced[n0]
         IN  /\ \A c : c \in chain <=> (c \in Path[n0] /\ Sole(c, n0))
             /\ \A m \in Node : m \in Below(Released(chain)) =>
                                  \E p \in chain : p \in Path[m] /\ p # m
<1>0. n0 \in Node /\ n0 \in Path[n0]
  BY PathStep DEF TypeOK
<1>1. Sole(n0, n0)
  BY DEF Sole, Overlapping
<1>2. PICK chain : chain = Coalesced[n0]
  OBVIOUS
<1>3. chain = {c \in Path[n0] : Sole(c, n0)}
  BY <1>0, <1>1, <1>2, ChainFrom
<1>4. ASSUME NEW m \in Node, m \in Below(Released(chain))
      PROVE  \E p \in chain : p \in Path[m] /\ p # m
  <2>1. PICK d \in Released(chain) : d \in Path[m]
    BY <1>4 DEF Below
  <2>2. d \in Node
    BY <2>1, PathLe
  <2>3. PICK c \in chain : c # 1 /\ c \div 2 \in chain /\ (d = c \/ d = Buddy(c))
    BY <2>1 DEF Released
  <2>4. c \in Node
    BY <1>3, <1>0, PathLe
  <2>5. PICK p \in Node : p = c \div 2 /\ (c = 2 * p \/ c = 2 * p + 1)
    BY <2>3, <2>4, NodeFacts
  <2>6. d \in {2 * p, 2 * p + 1}
    BY <2>3, <2>5, KidFacts
  <2>7. p \in Path[d] /\ p # d
    BY <2>2, <2>6, AboveKid
  <2>8. p \in Path[m]
    BY <2>7, <2>1, PathTrans
  <2>9. p # m
    BY <2>7, <2>1, <2>2, PathSame
  <2> QED BY <2>3, <2>5, <2>8, <2>9
<1> QED BY <1>2, <1>3, <1>4

(* As long as free nodes have no children, all that is below goes. *)
LEMMA FreeResult ==
  ASSUME Inv, NEW n0 \in live
  PROVE  \A m \in tree : \A p \in Coalesced[n0] :
            p \in Path[m] /\ p # m => m \in Below(Released(Coalesced[n0]))
<1>0. n0 \in Node /\ n0 \in Path[n0]
  BY PathStep DEF Inv, TypeOK
<1>2. PICK chain : chain = Coalesced[n0]
  OBVIOUS
<1>3. \A c : c \in chain <=> (c \in Path[n0] /\ Sole(c, n0))
  BY <1>2, Antichain, FreeChain DEF Inv
<1>4. ASSUME NEW m \in tree, NEW p \in chain, p \in Path[m], p # m
      PROVE  m \in Below(Released(chain))
  <2>0. m \in Node /\ p \in Node /\ p \in Path[n0] /\ Sole(p, n0)
    BY <1>3, <1>0, PathLe DEF Inv, TypeOK
  <2>1. PICK d \in {2 * p, 2 * p + 1} : d \in Path[m]
    BY <1>4, <2>0, PathKid
  <2>2. d \in Node /\ d \in tree
    <3>1. d = m \/ d \in tree
      BY <2>1, AboveMarked
    <3> QED BY <3>1 DEF Inv, TypeOK
  <2>3. p # n0
    BY <2>2, <2>1 DEF Inv, Leaves
  <2>4. PICK c \in {2 * p, 2 * p + 1} : c \in Path[n0]
    BY <2>0, <2>3, <1>0, PathKid
  <2>5. c \in Node /\ c # 1 /\ c \div 2 = p
    BY <2>0, <2>4, <1>0, PathLe, KidFacts
  <2>6. Sole(c, n0)
    <3> SUFFICES ASSUME NEW x \in live, c \in Path[x] PROVE x = n0
      BY DEF Sole
    <3>1. x \in Node /\ p \in Path[c]
      BY <2>0, <2>5, AboveKid DEF Inv, TypeOK
    <3>2. p \in Path[x]
      BY <3>1, PathTrans
    <3> QED BY <3>2, <2>0 DEF Sole
  <2>7. c \in chain
    BY <2>4, <2>6, <1>3
  <2>8. d = c \/ d = Buddy(c)
    BY <2>0, <2>1, <2>4, KidFacts
  <2>9. d \in Released(chain)
    BY <2>5, <2>7, <2>8 DEF Released
  <2> QED BY <2>9, <2>1, <2>0 DEF Below
<1> QED BY <1>2, <1>4

(* ixmap_mem_free preserves AnyInv. *)
LEMMA FreeKeepsAny ==
  ASSUME AnyInv, NEW n0 \in live, ixmap_mem_free(n0)
  PROVE  AnyInv'
<1> USE DEF AnyInv
<1>1. PICK chain, gone : chain = Coalesced[n0] /\ gone = Below(Released(chain))
  OBVIOUS
<1>2. /\ tree' = tree \ gone /\ allocated' = allocated \ (chain \union gone)
      /\ live' = live \ {n0} /\ twice' = twice /\ ~ Overlapping
  BY <1>1 DEF ixmap_mem_free
<1>3. /\ \A c : c \in chain <=> (c \in Path[n0] /\ Sole(c, n0))
      /\ \A m \in Node : m \in gone => \E p \in chain : p \in Path[m] /\ p # m
  BY <1>1, <1>2, FreeChain
<1>4. ASSUME NEW m \in live, m # n0, NEW x \in Path[m]
      PROVE  x \in Node /\ x \in allocated /\ x \notin chain /\ x \notin gone
  <2>0. m \in Node /\ x \in Node
    BY PathLe DEF TypeOK
  <2>1. x \in allocated
    BY <2>0 DEF Marks
  <2>2. ASSUME NEW p \in chain, p \in Path[x] PROVE FALSE
    <3>1. p \in Path[m]
      BY <2>0, <2>2, PathTrans
    <3> QED BY <3>1, <1>3, <1>4 DEF Sole
  <2>3. x \notin chain
    BY <2>0, <2>2, PathStep
  <2> QED BY <2>0, <2>1, <2>2, <2>3, <1>3
<1>5. TypeOK'
  <2>1. live' \subseteq allocated'
    <3> SUFFICES ASSUME NEW m \in live, m # n0 PROVE m \in allocated'
      BY <1>2
    <3>1. m \in Path[m]
      BY PathStep DEF TypeOK
    <3> QED BY <3>1, <1>4, <1>2
  <2> QED BY <2>1, <1>2 DEF TypeOK
<1>6. Rooted'
  <2>1. ASSUME tree' # {} PROVE 1 \in tree'
    <3>1. 1 \in tree /\ 1 \in Node
      BY <2>1, <1>2 DEF Rooted, TypeOK
    <3>2. Path[1] = {1}
      BY <3>1, PathDef
    <3> QED BY <3>1, <3>2, <1>2, <1>3
  <2>2. ASSUME NEW n \in tree' \ {1} PROVE n \div 2 \in tree'
    <3>1. n \in Node /\ n # 1 /\ n \notin gone /\ n \div 2 \in tree /\ n \div 2 \in Node
      BY <1>2, NodeFacts DEF Rooted, TypeOK
    <3>2. Path[n \div 2] \subseteq Path[n]
      BY <3>1, PathDef
    <3>3. n \div 2 \notin gone
      BY <3>1, <3>2, <1>1 DEF Below
    <3> QED BY <3>1, <3>3, <1>2
  <2> QED BY <2>1, <2>2 DEF Rooted
<1>7. Marks'
  <2>1. ASSUME NEW x \in allocated' PROVE x \in Node /\ \E m \in live' : x \in Path[m]
    <3>0. x \in allocated /\ x \notin chain /\ x \in Node
      BY <1>2 DEF TypeOK
    <3>1. PICK m \in live : x \in Path[m]
      BY <3>0 DEF Marks
    <3>2. CASE m # n0
      BY <3>0, <3>1, <3>2, <1>2
    <3>3. CASE m = n0
      <4>1. ~ Sole(x, n0)
        BY <3>0, <3>1, <3>3, <1>3
      <4>2. PICK y \in live : x \in Path[y] /\ y # n0
        BY <4>1 DEF Sole
      <4> QED BY <4>2, <3>0, <1>2
    <3> QED BY <3>2, <3>3
  <2>2. ASSUME NEW x \in Node, NEW m \in live', x \in Path[m] PROVE x \in allocated'
    <3>1. m \in live /\ m # n0
      BY <1>2
    <3> QED BY <3>1, <2>2, <1>4, <1>2
  <2> QED BY <2>1, <2>2 DEF Marks
<1>8. Paired'
  <2> SUFFICES ASSUME NEW n \in allocated' \ {1} PROVE Buddy(n) \in tree'
    BY DEF Paired
  <2>0. n \in Node /\ n # 1 /\ n \in allocated
    BY <1>2 DEF TypeOK
  <2>1. Buddy(n) \in tree /\ Buddy(n) \in Node
    BY <2>0, <1>2 DEF Paired, TypeOK
  <2>2. PICK q \in Node : q = n \div 2 /\ (n = 2 * q \/ n = 2 * q + 1)
    BY <2>0, NodeFacts
  <2>3. Buddy(n) \in {2 * q, 2 * q + 1}
    BY <2>2, KidFacts
  <2>4. q \in Path[n] /\ Path[Buddy(n)] \ {Buddy(n)} = Path[q]
    BY <2>0, <2>1, <2>2, <2>3, AboveKid
  <2>5. PICK m \in live' : n \in Path[m]
    BY <1>7 DEF Marks
  <2>6. m \in live /\ m # n0 /\ m \in Node
    BY <1>2 DEF TypeOK
  <2>7. ASSUME NEW p \in chain, p \in Path[Buddy(n)], p # Buddy(n) PROVE FALSE
    <3>1. p \in Path[n]
      BY <2>0, <2>4, <2>7, PathTrans
    <3>2. p \in Path[m]
      BY <3>1, <2>5, <2>6, PathTrans
    <3> QED BY <3>2, <2>6, <1>3 DEF Sole
  <2> QED BY <2>1, <2>7, <1>2, <1>3
<1> QED BY <1>5, <1>6, <1>7, <1>8

(* ixmap_mem_free preserves Inv. *)
LEMMA FreeKeeps ==
  ASSUME Inv, NEW n0 \in live, ixmap_mem_free(n0), AnyInv'
  PROVE  Inv'
<1>1. PICK chain, gone : chain = Coalesced[n0] /\ gone = Below(Released(chain))
  OBVIOUS
<1>2. tree' = tree \ gone /\ allocated' = allocated \ (chain \union gone) /\ live' = live \ {n0}
  BY <1>1 DEF ixmap_mem_free
<1>3. /\ \A c : c \in chain <=> (c \in Path[n0] /\ Sole(c, n0))
      /\ \A m \in tree : m \in gone <=> \E p \in chain : p \in Path[m] /\ p # m
  <2>1. /\ \A c : c \in chain <=> (c \in Path[n0] /\ Sole(c, n0))
        /\ \A m \in Node : m \in gone => \E p \in chain : p \in Path[m] /\ p # m
    BY <1>1, Antichain, FreeChain DEF Inv
  <2>2. \A m \in tree : \A p \in chain : p \in Path[m] /\ p # m => m \in gone
    BY <1>1, FreeResult
  <2> QED BY <2>1, <2>2 DEF Inv, TypeOK
<1>6. Shape'
  <2>1. ASSUME tree' # {} PROVE 1 \in tree'
    <3>1. 1 \in tree /\ 1 \in Node
      BY <2>1, <1>2 DEF Inv, Shape, TypeOK
    <3>2. Path[1] = {1}
      BY <3>1, PathDef
    <3> QED BY <3>1, <3>2, <1>2, <1>3
  <2>2. ASSUME NEW m \in tree' \ {1} PROVE m \div 2 \in allocated' /\ Buddy(m) \in tree'
    <3>0. m \in tree /\ m \notin gone /\ m \in Node /\ m # 1
      BY <1>2 DEF Inv, TypeOK
    <3>1. m \div 2 \in allocated /\ Buddy(m) \in tree /\ Buddy(m) \in Node
      BY <3>0 DEF Inv, Shape, TypeOK
    <3>2. PICK q \in Node : q = m \div 2 /\ (m = 2 * q \/ m = 2 * q + 1)
      BY <3>0, NodeFacts
    <3>3. q \in Path[m] /\ q # m /\ q \in tree
      <4>1. q \in Path[m] /\ q # m
        BY <3>0, <3>2, AboveKid
      <4>2. q \in tree
        BY <3>1, <3>2 DEF Inv, TypeOK
      <4> QED BY <4>1, <4>2
    <3>4. ASSUME NEW p \in chain, p \in Path[q] PROVE FALSE
      <4>1. p \in Path[m] /\ p \in Node
        BY <3>0, <3>3, <3>4, PathTrans, PathLe
      <4>2. p # m
        BY <4>1, <3>0, <3>3, <3>4, PathSame
      <4> QED BY <4>1, <4>2, <3>0, <1>3
    <3>5. q \in Path[q]
      BY PathStep
    <3>6. q \notin chain /\ q \notin gone
      BY <3>3, <3>4, <3>5, <1>3
    <3>7. Buddy(m) \notin gone
      <4> SUFFICES ASSUME NEW p \in chain, p \in Path[Buddy(m)], p # Buddy(m) PROVE FALSE
        BY <3>1, <1>3
      <4>1. Buddy(m) \in {2 * q, 2 * q + 1}
        BY <3>2, KidFacts
      <4>2. Path[Buddy(m)] \ {Buddy(m)} = Path[q]
        BY <4>1, <3>1, AboveKid
      <4> QED BY <4>2, <3>4
    <3> QED BY <3>1, <3>2, <3>6, <3>7, <1>2
  <2> QED BY <2>1, <2>2 DEF Shape
<1>8. Leaves'
  BY <1>2 DEF Inv, Leaves
<1> QED BY <1>6, <1>8 DEF Inv, AnyInv

-----------------------------------------------------------------------------
(* The theorems, for any number of failing splits.                         *)

(* The invariant holds in every state. *)
THEOREM MemoryInv == Spec => []IInv
<1>1. Init => IInv
  <2>1. 1 \in Node
    BY MemoryAssumption DEF Node
  <2> QED BY <2>1 DEF Init, IInv, AnyInv, Inv, TypeOK, Rooted, Shape, Marks, Leaves, Paired
<1>2. IInv /\ [Next]_vars => IInv'
  <2> SUFFICES ASSUME IInv, [Next]_vars PROVE IInv'
    OBVIOUS
  <2>0. AnyInv /\ (~ twice => Inv)
    BY DEF IInv
  <2>1. ASSUME NEW size \in Requests, ixmap_mem_alloc(size) PROVE IInv'
    <3>1. AnyInv'
      BY <2>0, <2>1, AllocKeepsAny
    <3>2. ~ twice' => ~ twice
      BY <2>1 DEF ixmap_mem_alloc
    <3>3. ~ twice' => Inv'
      BY <2>0, <2>1, <3>1, <3>2, AllocKeeps
    <3> QED BY <3>1, <3>3 DEF IInv
  <2>2. ASSUME NEW n \in live, ixmap_mem_free(n) PROVE IInv'
    <3>1. AnyInv'
      BY <2>0, <2>2, FreeKeepsAny
    <3>2. twice' = twice
      BY <2>2 DEF ixmap_mem_free
    <3>3. ~ twice' => Inv'
      BY <2>0, <2>2, <3>1, <3>2, FreeKeeps
    <3> QED BY <3>1, <3>3 DEF IInv
  <2>3. CASE ixmap_mem_destroy
    BY <2>3 DEF ixmap_mem_destroy, IInv, AnyInv, Inv, TypeOK, Rooted, Shape, Marks, Leaves, Paired
  <2>4. CASE ixmap_mem_init
    <3>1. 1 \in Node
      BY MemoryAssumption DEF Node
    <3>2. /\ tree' = {1} /\ allocated' = {} /\ live' = {} /\ twice' = twice
          /\ twice \in BOOLEAN
      BY <2>0, <2>4 DEF ixmap_mem_init, AnyInv, TypeOK
    <3> QED BY <3>1, <3>2 DEF IInv, AnyInv, Inv, TypeOK, Rooted, Shape, Marks, Leaves, Paired
  <2>5. CASE UNCHANGED vars
    BY <2>5 DEF vars, IInv, AnyInv, Inv, TypeOK, Rooted, Shape, Marks, Leaves, Paired, Overlapping
  <2> QED BY <2>1, <2>2, <2>3, <2>4, <2>5 DEF Next
<1> QED BY <1>1, <1>2, PTL DEF Spec

(* No two pieces of memory that ixmap_mem_alloc handed out overlap, for    *)
(* any arena, any requests and any order of calls, unless two splits fail  *)
(* in one call.                                                            *)
THEOREM MemoryNoOverlap == Spec => []NoOverlap
<1>1. IInv => NoOverlap
  <2> SUFFICES ASSUME Inv PROVE NoOverlap
    BY DEF IInv, NoOverlap
  <2>0. live \subseteq Node /\ 1 \in Node
    BY MemoryAssumption DEF Inv, TypeOK, Node
  <2>1. ASSUME NEW n \in live PROVE Ptr[n] + Size[n] <= ArenaSize
    <3>1. 1 \in Path[n]
      BY <2>0, PathRoot
    <3>2. Ptr[n] + Size[n] <= Ptr[1] + Size[1]
      BY <2>0, <3>1, Inside
    <3>3. Ptr[1] = 0 /\ Size[1] = ArenaSize
      BY <2>0, PtrDef, SizeDef
    <3>4. Ptr[n] \in Nat /\ Size[n] \in Nat
      BY <2>0, PtrDef, SizeDef
    <3> QED BY <3>2, <3>3, <3>4, MemoryAssumption
  <2>2. ASSUME NEW m \in live, NEW n \in live, m # n PROVE Disjoint(m, n)
    <3>1. ~ Related(m, n)
      BY <2>2, Antichain DEF Related, Overlapping
    <3> QED BY <3>1, <2>0, UnrelatedApart
  <2> QED BY <2>1, <2>2 DEF NoOverlap, Disjoint
<1> QED BY <1>1, MemoryInv, PTL

(* _ixmap_mem_free finds the parent and the buddy it dereferences,         *)
(* whatever splits failed, until memory is handed out twice.               *)
THEOREM MemoryBuddyPresent == Spec => []BuddyPresent
<1>1. IInv => BuddyPresent
  <2> SUFFICES ASSUME AnyInv PROVE BuddyPresent
    BY DEF IInv
  <2>1. ASSUME NEW n \in allocated \ {1} PROVE n \div 2 \in allocated
    <3>1. PICK m \in live : n \in Path[m]
      BY DEF AnyInv, Marks
    <3>2. n \in Node /\ m \in Node /\ n # 1
      BY DEF AnyInv, TypeOK
    <3>3. n \div 2 \in Node /\ n \div 2 \in Path[n]
      <4>1. PICK p \in Node : p = n \div 2 /\ (n = 2 * p \/ n = 2 * p + 1)
        BY <3>2, NodeFacts
      <4>2. p \in Path[n]
        BY <4>1, <3>2, AboveKid
      <4> QED BY <4>1, <4>2
    <3>4. n \div 2 \in Path[m]
      BY <3>1, <3>2, <3>3, PathTrans
    <3> QED BY <3>3, <3>4 DEF AnyInv, Marks
  <2> QED BY <2>1 DEF AnyInv, Paired, BuddyPresent
<1> QED BY <1>1, MemoryInv, PTL

(* The marks say exactly what is in use, whatever splits failed. *)
THEOREM MemoryMarkedIffUsed == Spec => []MarkedIffUsed
<1>1. IInv => MarkedIffUsed
  BY DEF IInv, AnyInv, TypeOK, Marks, MarkedIffUsed
<1> QED BY <1>1, MemoryInv, PTL

(* When all is freed, the arena is one piece again, unless two splits      *)
(* failed in one call.                                                     *)
THEOREM MemoryFullyCoalesced == Spec => []FullyCoalesced
<1>1. IInv => FullyCoalesced
  <2> SUFFICES ASSUME Inv, live = {} PROVE tree \subseteq {1}
    BY DEF IInv, FullyCoalesced
  <2>1. allocated = {}
    BY DEF Inv, Marks
  <2> QED BY <2>1 DEF Inv, Shape
<1> QED BY <1>1, MemoryInv, PTL

(* A node that is large enough is found, where the free memory begins. *)
LEMMA FitSearch ==
  ASSUME AnyInv, NEW size \in Nat \ {0}, NEW t \in [Node -> Results], Tries(t, size, {}),
         NEW f \in Node, Top(f), Size[f] >= size, NEW n \in Path[f]
  PROVE  t[n].ret # 0
<1> DEFINE P == {k \in Node : k \in Path[f] => t[k].ret # 0}
           N == 2 * ArenaSize
<1>0. N \in Nat /\ Node = 1 .. N
  BY MemoryAssumption DEF Node
<1>a. f \in Node /\ OneFails({})
  BY DEF OneFails
<1> HIDE DEF N
<1>1. ASSUME NEW k \in 1 .. N, \A x \in 1 .. N : k < x => x \in P
      PROVE  k \in P
  <2>0. k \in Node
    BY <1>0
  <2> SUFFICES ASSUME k \in Path[f] PROVE t[k].ret # 0
    BY <2>0
  <2>1. CASE k = f
    <3>1. FreshOK(f, t[f], size, {})
      BY <1>a, FreshSearch DEF Unused, Top
    <3>2. ~ Unlucky(f, {})
      BY DEF Unlucky
    <3> QED BY <2>1, <3>1, <3>2 DEF FreshOK
  <2>2. CASE k # f
    <3>1. k \in allocated /\ k \in tree
      BY <2>2 DEF Top, Fresh, AnyInv, TypeOK
    <3>2. PICK c \in {2 * k, 2 * k + 1} : c \in Path[f]
      BY <2>2, <1>a, PathKid
    <3>3. c \in Node /\ k < c /\ c \div 2 = k /\ c # 1
      BY <3>2, <2>0, <1>a, PathLe, KidFacts
    <3>4. t[c].ret # 0
      <4>1. c \in P
        <5> HIDE DEF P
        <5> QED BY <3>3, <1>1, <1>0
      <4> QED BY <4>1, <3>2
    <3>5. Size[k] \div 2 >= size
      <4>1. PICK pc \in Nat, sc \in Nat, pf \in Nat, sf \in Nat :
               pc = Ptr[c] /\ sc = Size[c] /\ pf = Ptr[f] /\ sf = Size[f]
        BY <3>3, <1>a, SizeDef, PtrDef
      <4>2. pc <= pf /\ pf + sf <= pc + sc
        BY <4>1, <3>2, <1>a, Inside
      <4>3. sc = Size[k] \div 2
        BY <4>1, <3>3, SizeDef
      <4>4. sc >= size
        BY <4>1, <4>2
      <4> QED BY <4>3, <4>4
    <3>6. ~ Fresh(k)
      <4>1. Path[k] \ {k} \subseteq allocated
        <5> SUFFICES ASSUME NEW x \in Path[k], x # k PROVE x \in allocated
          OBVIOUS
        <5>1. x \in Path[f] /\ x \in Node
          BY <1>a, <2>0, PathTrans, PathLe
        <5>2. x # f
          BY <1>a, <2>0, PathSame
        <5> QED BY <5>1, <5>2 DEF Top, Fresh
      <4> QED BY <4>1 DEF Fresh
    <3>7. ~ Unused(k) /\ ~ (Size[k] \div 2 < size)
      BY <3>1, <3>5, <3>6, <2>0, SizeDef DEF Unused
    <3>8. t[k] = FirstOf(t[2 * k], t[2 * k + 1])
      <4>1. PICK sub : sub = FirstOf(t[2 * k], t[2 * k + 1])
        OBVIOUS
      <4>2. t[k] = AllocAt(k, size, {}, sub)
        BY <4>1, <2>0 DEF Tries
      <4>3. t[k] = sub
        BY <4>2, <3>1, <3>7 DEF AllocAt
      <4> QED BY <4>1, <4>3
    <3> QED BY <3>8, <3>4, <3>2 DEF FirstOf
  <2> QED BY <2>1, <2>2
<1>2. \A k \in 1 .. N : k \in P
  <2> HIDE DEF P
  <2> QED BY <1>0, <1>1, FromLeaves
<1>3. n \in Node
  BY <1>a, PathLe
<1> QED BY <1>0, <1>2, <1>3

(* A request succeeds whenever a free node is large enough for it, and no  *)
(* split fails: the search goes on in the other half of the arena.         *)
THEOREM MemoryFitIsFound == Spec => []FitIsFound
<1>1. IInv => FitIsFound
  <2> SUFFICES ASSUME AnyInv, NEW size \in Requests, NEW f \in tree \ allocated, Size[f] >= size
               PROVE  AllocFrom(size, {}).ret # 0
    BY DEF IInv, FitIsFound
  <2>0. size \in Nat \ {0} /\ f \in Node /\ f \in Path[f]
    BY MemoryAssumption, PathStep DEF AnyInv, TypeOK
  <2>1. PICK t \in [Node -> Results] : Tries(t, size, {}) /\ AllocFrom(size, {}) = t[1]
    BY <2>0, AllocFromDef
  <2> DEFINE free == Path[f] \ allocated
  <2>2. PICK g \in free : \A y \in free : g <= y
    <3>1. free \subseteq Nat /\ free # {}
      BY <2>0, PathLe, NodeFacts
    <3> HIDE DEF free
    <3> QED BY <3>1, Least
  <2>3. g \in Node /\ g \in Path[f] /\ g \notin allocated /\ g \in tree
    BY <2>0, PathLe, AboveInTree DEF AnyInv
  <2>4. ASSUME NEW p \in Path[g], p # g PROVE p \in allocated
    <3>1. p \in Path[f] /\ p \in Node /\ p <= g
      BY <2>0, <2>3, PathTrans, PathLe
    <3>2. ~ (g <= p)
      <4>1. g \in Nat /\ p \in Nat
        BY <3>1, <2>3, NodeFacts
      <4> QED BY <4>1, <3>1, <2>4
    <3> QED BY <3>1, <3>2, <2>2
  <2>5. Top(g)
    BY <2>3, <2>4 DEF Top, Fresh
  <2>6. Size[g] >= size
    <3>1. PICK pg \in Nat, sg \in Nat, pf \in Nat, sf \in Nat :
             pg = Ptr[g] /\ sg = Size[g] /\ pf = Ptr[f] /\ sf = Size[f]
      BY <2>0, <2>3, SizeDef, PtrDef
    <3>2. pg <= pf /\ pf + sf <= pg + sg
      BY <3>1, <2>0, <2>3, Inside
    <3> QED BY <3>1, <3>2, <2>0
  <2>7. 1 \in Path[g]
    BY <2>3, PathRoot
  <2>8. t[1].ret # 0
    BY <2>0, <2>1, <2>3, <2>5, <2>6, <2>7, FitSearch
  <2> QED BY <2>1, <2>8
<1> QED BY <1>1, MemoryInv, PTL
=============================================================================
